----------------------------- MODULE FileTools -----------------------------
(***************************************************************************)
(* What the tools that change files do to a small file system              *)
(* (psittacula-tools/src/tool_file_*.cpp and tool_dir_*.cpp), and the      *)
(* calls of std::filesystem they are made of.                              *)
(*                                                                         *)
(* A tree gives every path what lies there: Nothing, Directory, or the     *)
(* content of a file, a sequence of letters.  The project directory itself *)
(* always exists and is no path here.  A call whose path lies outside of   *)
(* it, whose arguments are missing or wrong, or that the operating system  *)
(* refuses, is Refused: the tool object remembers that it did not execute. *)
(* A call that throws leaves no object behind, and no trace in the tree.   *)
(*                                                                         *)
(* The object of a call that executed is a record:                         *)
(*     path, to   the paths of the call (equal when it has one)            *)
(*     old, new   the contents its Undo and Redo write                     *)
(*     existed    whether the destination existed before                   *)
(*                                                                         *)
(* "create" stands for create_file and create_binary_file: their Undo and  *)
(* Redo are the same.                                                      *)
(***************************************************************************)
EXTENDS Integers, Sequences, FiniteSets

CONSTANTS
    Names,      \* names of files and directories
    Paths,      \* paths below the project directory, closed under prefixes
    Letters,    \* what contents are made of
    Nothing,    \* no file, no directory
    Directory

ASSUME PathsAssumption ==
    \A p \in Paths :
        p \in Seq(Names) /\ Len(p) > 0 /\ \A n \in 1..Len(p) : SubSeq(p, 1, n) \in Paths

Contents == Seq(Letters)

ASSUME NodesAssumption ==
    Nothing \notin Contents /\ Directory \notin Contents /\ Nothing # Directory

Nodes    == Contents \cup {Nothing, Directory}
Trees    == [Paths -> Nodes]

-----------------------------------------------------------------------------
(***************************************************************************)
(* The file system.                                                        *)
(***************************************************************************)

Under == [p \in Paths |-> {q \in Paths : Len(q) > Len(p) /\ SubSeq(q, 1, Len(p)) = p}]
Above == [p \in Paths |-> {q \in Paths : p \in Under[q]}]
Exists(t, p)   == t[p] # Nothing
IsDir(t, p)    == t[p] = Directory
IsFile(t, p)   == Exists(t, p) /\ ~IsDir(t, p)
HasEntries(t, p) == \E q \in Under[p] : Exists(t, q)

\* Everything that exists lies in a directory.
IsTree(t) == \A p \in Paths : Exists(t, p) => \A q \in Above[p] : IsDir(t, q)

\* std::ofstream opens the file: its directory exists and it is none itself.
CanWrite(t, p) == ~IsDir(t, p) /\ \A q \in Above[p] : IsDir(t, q)
Written(t, p, c) == IF CanWrite(t, p) THEN [t EXCEPT ![p] = c] ELSE t

\* create_directories throws when a file is in the way.
CanMakeDirs(t, ps) == \A q \in ps : ~IsFile(t, q)
MadeDirs(t, ps) == [q \in Paths |-> IF q \in ps THEN Directory ELSE t[q]]

\* Mutant: a directory goes with or without its entries.
CanRemoveAnything(t, p) == \A q \in Above[p] : ~IsFile(t, q)

\* remove throws, or reports, that a directory has entries or that the path
\* goes through a file; without either it is content with a missing file.
CanRemove(t, p) == ~HasEntries(t, p) /\ \A q \in Above[p] : ~IsFile(t, q)
Removed(t, p) == IF CanRemove(t, p) THEN [t EXCEPT ![p] = Nothing] ELSE t

\* The path that q becomes when p becomes r.
Moved(q, p, r) == r \o SubSeq(q, Len(p) + 1, Len(q))

\* rename: a file over a file or nothing, a directory over an empty directory
\* or nothing, never into itself.
CanRename(t, p, r) ==
    /\ Exists(t, p)
    /\ \A q \in Above[r] : IsDir(t, q)
    /\ r \notin Under[p]
    /\ \/ r = p
       \/ ~Exists(t, r)
       \/ IsFile(t, p) /\ IsFile(t, r)
       \/ IsDir(t, p) /\ IsDir(t, r) /\ ~HasEntries(t, r)
\* Bound: what moves along stays within Paths.
Fits(t, p, r) == \A q \in Under[p] : Exists(t, q) => Moved(q, p, r) \in Paths
Renamed(t, p, r) ==
    IF r = p \/ ~CanRename(t, p, r) THEN t
    ELSE [q \in Paths |->
            IF q = r \/ q \in Under[r]
            THEN LET s == Moved(q, r, p) IN IF s \in Paths THEN t[s] ELSE Nothing
            ELSE IF q = p \/ q \in Under[p] THEN Nothing ELSE t[q]]

\* copy_file with overwrite_existing: between two files that differ.
CanCopy(t, p, r) == IsFile(t, p) /\ CanWrite(t, r) /\ r # p
Copied(t, p, r) == IF CanCopy(t, p, r) THEN [t EXCEPT ![r] = t[p]] ELSE t

\* What a stream reads at a path: nothing from what is no file.
Content(t, p) == IF IsFile(t, p) THEN t[p] ELSE <<>>

-----------------------------------------------------------------------------
(***************************************************************************)
(* The text edits of modify_file and file_content_modify.                  *)
(***************************************************************************)

Least(m, n) == IF m < n THEN m ELSE n

\* modify_file: from and to are clamped to the text and put in order; insert
\* uses only from.
Edited(old, mode, text, from, to) ==
    LET a == Least(from, Len(old))
        b == Least(to, Len(old))
        lo == Least(a, b)
        hi == a + b - lo
    IN  CASE mode = "overwrite" -> text
          [] mode = "append" -> old \o text
          [] mode = "insert" ->
                SubSeq(old, 1, a) \o text \o SubSeq(old, a + 1, Len(old))
          [] mode = "replace_range" ->
                SubSeq(old, 1, lo) \o text \o SubSeq(old, hi + 1, Len(old))

Modes == {"overwrite", "append", "insert", "replace_range"}

\* All that a call of modify_file with these texts can make of the old one.
Edits(old, texts) ==
    {Edited(old, e[1], e[2], e[3], e[4]) :
        e \in Modes \X texts \X (0..Len(old) + 1) \X (0..Len(old) + 1)}

\* Where part begins in the text.
Occurrences(text, part) ==
    {i \in 1..(Len(text) - Len(part) + 1) : SubSeq(text, i, i + Len(part) - 1) = part}

\* file_content_modify goes on behind a match and one letter more, so that of
\* two matches next to each other it counts one.
Counted(text, part) ==
    LET from[i \in 1..(Len(text) + Len(part) + 2)] ==
            LET later == {j \in Occurrences(text, part) : j >= i}
            IN  IF later = {} THEN 0
                ELSE LET j == CHOOSE j \in later : \A k \in later : j <= k
                     IN  1 + from[j + Len(part) + 1]
    IN  from[1]

Replaced(text, part, by) ==
    LET i == CHOOSE i \in Occurrences(text, part) :
                 \A k \in Occurrences(text, part) : i <= k
    IN  SubSeq(text, 1, i - 1) \o by \o SubSeq(text, i + Len(part), Len(text))

\* All that file_content_modify can make of it: the part occurs, and once.
Once(text, part) == part # <<>> /\ Occurrences(text, part) # {} /\ Counted(text, part) = 1
Replacements(text, texts) ==
    {Replaced(text, e[1], e[2]) : e \in {d \in texts \X texts : Once(text, d[1])}}

-----------------------------------------------------------------------------
(***************************************************************************)
(* Undo and Redo of the tools.                                             *)
(***************************************************************************)

\* Tools whose Undo writes back the content they found.
Editors == {"modify_file", "file_content_modify", "remove_file"}

Object(tool, path, to, old, new, existed) ==
    [tool |-> tool, path |-> path, to |-> to, old |-> old, new |-> new, existed |-> existed]

\* A tool object that did not execute: Undo and Redo return at once.
Refused == [tool |-> "refused"]

UndoThrows(t, o) ==
    CASE o.tool = "create" -> o.old = <<>> /\ Exists(t, o.path) /\ ~CanRemove(t, o.path)
      [] o.tool = "copy_file" -> ~o.existed /\ Exists(t, o.to) /\ ~CanRemove(t, o.to)
      [] o.tool = "create_directory" -> ~o.existed /\ ~Exists(t, o.path)
      [] o.tool = "delete_directory" -> ~CanMakeDirs(t, Above[o.path] \cup {o.path})
      [] OTHER -> FALSE

\* create_file and create_binary_file take an empty backup for no file.
\* Mutant: the directory the file lies in goes, too.
UndoneCreationAbove(t, o) ==
    IF o.old # <<>> THEN Written(t, o.path, o.old)
    ELSE [p \in Paths |-> IF p \in Above[o.path] THEN Nothing ELSE Removed(t, o.path)[p]]
UndoneCreation(t, o) ==
    IF o.old # <<>> THEN Written(t, o.path, o.old) ELSE Removed(t, o.path)

\* copy_file remembers whether there was a file.
UndoneCopy(t, o) == IF o.existed THEN Written(t, o.to, o.old) ELSE Removed(t, o.to)

\* The old content comes back, whatever lies there now.
UndoneEdit(t, o)    == Written(t, o.path, o.old)
UndoneRemoval(t, o) == Written(t, o.path, o.old)
UndoneMove(t, o)    == Renamed(t, o.to, o.path)

\* create_directory leaves a directory that existed or is not empty.
UndoneDirectory(t, o) ==
    IF o.existed \/ Content(t, o.path) # <<>> THEN t ELSE Removed(t, o.path)
UndoneDirectoryRemoval(t, o) == MadeDirs(t, Above[o.path] \cup {o.path})

Undone(t, o) ==
    CASE o.tool = "refused" -> t
      [] o.tool \in {"modify_file", "file_content_modify"} -> UndoneEdit(t, o)
      [] o.tool = "remove_file" -> UndoneRemoval(t, o)
      [] o.tool = "create" -> UndoneCreation(t, o)
      [] o.tool = "copy_file" -> UndoneCopy(t, o)
      [] o.tool = "move_file" -> UndoneMove(t, o)
      [] o.tool = "create_directory" -> UndoneDirectory(t, o)
      [] o.tool = "delete_directory" -> UndoneDirectoryRemoval(t, o)

RedoThrows(t, o) ==
    CASE o.tool = "remove_file" -> Exists(t, o.path) /\ ~CanRemove(t, o.path)
      [] o.tool = "create_directory" ->
            ~o.existed /\ ~CanMakeDirs(t, Above[o.path] \cup {o.path})
      [] OTHER -> FALSE

\* What was written is written again; file_content_modify has nothing to write.
RedoneEdit(t, o)        == Written(t, o.path, o.new)
RedoneReplacement(t, o) == Written(t, o.path, o.new)
RedoneCreation(t, o)    == Written(t, o.path, o.new)
RedoneRemoval(t, o)     == Removed(t, o.path)
RedoneCopy(t, o)        == Copied(t, o.path, o.to)
RedoneMove(t, o)        == Renamed(t, o.path, o.to)
RedoneDirectory(t, o) ==
    IF o.existed THEN t ELSE MadeDirs(t, Above[o.path] \cup {o.path})
RedoneDirectoryRemoval(t, o) == Removed(t, o.path)

Redone(t, o) ==
    CASE o.tool = "refused" -> t
      [] o.tool = "modify_file" -> RedoneEdit(t, o)
      [] o.tool = "file_content_modify" -> RedoneReplacement(t, o)
      [] o.tool = "create" -> RedoneCreation(t, o)
      [] o.tool = "remove_file" -> RedoneRemoval(t, o)
      [] o.tool = "copy_file" -> RedoneCopy(t, o)
      [] o.tool = "move_file" -> RedoneMove(t, o)
      [] o.tool = "create_directory" -> RedoneDirectory(t, o)
      [] o.tool = "delete_directory" -> RedoneDirectoryRemoval(t, o)

=============================================================================
