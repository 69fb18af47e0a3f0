---------------------------- MODULE ToolHistory ----------------------------
(***************************************************************************)
(* Undo and redo of tool calls: HistoryManager                             *)
(* (psittacula-cli/src/history_manager.h) over the tools of FileTools.     *)
(* Tool calls run on the worker thread, /undo and /redo are chat commands; *)
(* ChatSession shows that they exclude each other, so that every call is   *)
(* one step here.  Tools that only read (CanBeReverted is false) and calls *)
(* that throw change neither the files nor the stacks and have no action.  *)
(***************************************************************************)
EXTENDS FileTools

CONSTANTS
    FirstTrees,  \* the trees a session may begin with
    MaxDepth,    \* bound: calls on the undo stack
    MaxLength,   \* bound: letters of a file
    MaxOutside   \* bound: changes made by others than the tools

ASSUME HistoryAssumption ==
    /\ \A t \in FirstTrees : t \in Trees /\ IsTree(t)
    /\ MaxDepth \in Nat /\ MaxLength \in Nat /\ MaxOutside \in Nat

VARIABLES
    files,     \* the project directory
    undo,      \* undo_stack, top last
    redo,      \* redo_stack, top last
    outside,   \* changes by others so far
    faithful,  \* history: every step so far was one the tools can take back
    past,      \* history, while faithful: the trees before the calls on undo
    future     \* history, while faithful: the trees that redo leads to

stacks  == <<undo, redo>>
line    == <<faithful, past, future>>
vars    == <<files, stacks, outside, line>>

Texts   == UNION {[1..n -> Letters] : n \in 0..MaxLength}
Tools   == Editors \cup
           {"create", "copy_file", "move_file", "create_directory", "delete_directory"}
Objects == [tool : Tools, path : Paths, to : Paths, old : Contents, new : Contents,
            existed : BOOLEAN] \cup {Refused}

TypeOK ==
    /\ files \in Trees /\ IsTree(files)
    /\ undo \in Seq(Objects)
    /\ redo \in Seq(Objects)
    /\ outside \in 0..MaxOutside
    /\ faithful \in BOOLEAN
    /\ past \in Seq(Trees)
    /\ future \in Seq(Trees)
    /\ faithful => Len(past) = Len(undo) /\ Len(future) = Len(redo)

Init ==
    /\ files \in FirstTrees
    /\ undo = <<>>
    /\ redo = <<>>
    /\ outside = 0
    /\ faithful = TRUE
    /\ past = <<>>
    /\ future = <<>>

\* Mutant: the oldest object is popped.
FrontOfQueue(s) == Tail(s)
Front(s) == SubSeq(s, 1, Len(s) - 1)
Top(s)   == s[Len(s)]

-----------------------------------------------------------------------------
(***************************************************************************)
(* Execute.                                                                *)
(***************************************************************************)

\* Bound: the tree holds no longer texts.
Bounded(t) == \A p \in Paths : IsFile(t, p) => Len(t[p]) <= MaxLength

\* Mutant: a call leaves what was undone to be redone.
PushedOnly(o) ==
    /\ undo' = Append(undo, o)
    /\ UNCHANGED redo

\* A call that executed is pushed, and what was undone is forgotten, whether
\* the call changed anything or not.  What the tool can take back is said by
\* restorable; once it cannot, the line of trees is given up.
Pushed(o) ==
    /\ undo' = Append(undo, o)
    /\ redo' = <<>>

Done(t, o, restorable) ==
    /\ Len(undo) < MaxDepth
    /\ Bounded(t)
    /\ files' = t
    /\ Pushed(o)
    /\ faithful' = (faithful /\ restorable)
    /\ past' = IF faithful' THEN Append(past, files) ELSE <<>>
    /\ future' = <<>>
    /\ UNCHANGED outside

\* Any tool, with arguments or a path it does not accept, or refused by the
\* operating system: pushed like the others.
RefusedCall == Done(files, Refused, TRUE)

\* create_file makes the directories above the file; its undo leaves them,
\* and takes an empty file for a missing one.
CreateFile(p, text) ==
    /\ CanMakeDirs(files, Above[p])
    /\ ~IsDir(files, p)
    /\ LET t == MadeDirs(files, Above[p])
       IN  Done(Written(t, p, text), Object("create", p, p, Content(t, p), text, FALSE),
                t = files /\ files[p] # <<>>)

\* The directories were made, then the file could not be opened.
CreateFileFails(p) ==
    /\ CanMakeDirs(files, Above[p])
    /\ ~IsDir(files, p)
    /\ LET t == MadeDirs(files, Above[p]) IN Done(t, Refused, t = files)

CreateBinary(p, text) ==
    /\ CanWrite(files, p)
    /\ Done(Written(files, p, text),
            Object("create", p, p, Content(files, p), text, FALSE),
            files[p] # <<>>)

\* modify_file works on a missing file as on an empty one; undo leaves it.
ModifyFile(p, new) ==
    /\ CanWrite(files, p)
    /\ Done(Written(files, p, new),
            Object("modify_file", p, p, Content(files, p), new, FALSE),
            IsFile(files, p))

\* file_content_modify never assigns new_content: Redo would write nothing.
ReplaceText(p, new) ==
    /\ IsFile(files, p)
    /\ Done(Written(files, p, new),
            Object("file_content_modify", p, p, files[p], <<>>, FALSE), TRUE)

\* remove_file takes an empty directory too; undo makes a file of it.
RemoveFile(p) ==
    /\ Exists(files, p)
    /\ CanRemove(files, p)
    /\ Done(Removed(files, p), Object("remove_file", p, p, Content(files, p), <<>>, FALSE),
            IsFile(files, p))

CopyFile(p, r) ==
    /\ CanCopy(files, p, r)
    /\ Done(Copied(files, p, r),
            Object("copy_file", p, r, Content(files, r), <<>>, Exists(files, r)), TRUE)

\* move_file keeps no copy of what it replaces.
MoveFile(p, r) ==
    /\ CanRename(files, p, r)
    /\ Fits(files, p, r)
    /\ Done(Renamed(files, p, r), Object("move_file", p, r, <<>>, <<>>, FALSE),
            r = p \/ ~Exists(files, r))

\* create_directory makes those above too, undo removes only the last.
CreateDirectory(p) ==
    /\ CanMakeDirs(files, Above[p] \cup {p})
    /\ Done(MadeDirs(files, Above[p] \cup {p}),
            Object("create_directory", p, p, <<>>, <<>>, Exists(files, p)),
            \A q \in Above[p] : IsDir(files, q))

DeleteDirectory(p) ==
    /\ IsDir(files, p)
    /\ ~HasEntries(files, p)
    /\ Done(Removed(files, p), Object("delete_directory", p, p, <<>>, <<>>, FALSE), TRUE)

-----------------------------------------------------------------------------
(***************************************************************************)
(* Undo, redo, and what happens around them.                               *)
(***************************************************************************)

\* An object whose Undo throws stays where it was.
Undo ==
    /\ undo # <<>>
    /\ ~UndoThrows(files, Top(undo))
    /\ files' = Undone(files, Top(undo))
    /\ undo' = Front(undo)
    /\ redo' = Append(redo, Top(undo))
    /\ IF faithful
       THEN past' = Front(past) /\ future' = Append(future, files)
       ELSE UNCHANGED <<past, future>>
    /\ UNCHANGED <<outside, faithful>>

\* Of a faithful line only the redo of file_content_modify departs.
Redo ==
    /\ redo # <<>>
    /\ ~RedoThrows(files, Top(redo))
    /\ Bounded(Redone(files, Top(redo)))
    /\ files' = Redone(files, Top(redo))
    /\ redo' = Front(redo)
    /\ undo' = Append(undo, Top(redo))
    /\ faithful' = (faithful /\ Top(redo).tool # "file_content_modify")
    /\ past' = IF faithful' THEN Append(past, files) ELSE <<>>
    /\ future' = IF faithful' THEN Front(future) ELSE <<>>
    /\ UNCHANGED outside

\* /model replaces the client, and with it the history.
NewClient ==
    /\ undo' = <<>>
    /\ redo' = <<>>
    /\ past' = <<>>
    /\ future' = <<>>
    /\ UNCHANGED <<files, outside, faithful>>

\* The user, or a command, changes a file between the calls.
OutsideChange ==
    /\ outside < MaxOutside
    /\ \E p \in Paths, n \in Texts \cup {Nothing, Directory} :
        /\ n # files[p]
        /\ files' = [files EXCEPT ![p] = n]
        /\ IsTree(files')
    /\ outside' = outside + 1
    /\ faithful' = FALSE
    /\ past' = <<>>
    /\ future' = <<>>
    /\ UNCHANGED stacks

Call ==
    \/ RefusedCall
    \/ \E p \in Paths :
        \/ CreateFileFails(p)
        \/ RemoveFile(p)
        \/ CreateDirectory(p)
        \/ DeleteDirectory(p)
        \/ \E r \in Paths : CopyFile(p, r) \/ MoveFile(p, r)
        \/ \E c \in Texts : CreateFile(p, c) \/ CreateBinary(p, c)
        \/ \E new \in Edits(Content(files, p), Texts) : ModifyFile(p, new)
        \/ \E new \in Replacements(Content(files, p), Texts) : ReplaceText(p, new)

Next == Call \/ Undo \/ Redo \/ NewClient \/ OutsideChange

Spec == Init /\ [][Next]_vars

-----------------------------------------------------------------------------
(***************************************************************************)
(* Properties.                                                             *)
(***************************************************************************)

Reversed(s) == [i \in 1..Len(s) |-> s[Len(s) + 1 - i]]

Line == INSTANCE Revisions WITH
    revisions <- IF faithful THEN past \o <<files>> \o Reversed(future) ELSE <<>>,
    position  <- IF faithful THEN Len(past) + 1 ELSE 0

\* Undo and redo move along the line of trees the calls made, as long as every
\* call was one its tool can take back and nobody else changed a file: undo
\* restores the tree before the call whatever was undone and redone meanwhile,
\* redo the tree after it (history_manager.h, Undo and Redo of each tool).
MovesAlongTheLine == Line!Spec

\* On such a line neither undo nor redo can get stuck at an object that throws
\* and is pushed back for ever (history_manager.h:43-54).
NeverStuck ==
    faithful => /\ undo # <<>> => ~UndoThrows(files, Top(undo))
                /\ redo # <<>> => ~RedoThrows(files, Top(redo))

\* Whatever others did to the files in between, /undo and /redo change nothing
\* that lies elsewhere than at, or in, the paths the call named.
Named(o) ==
    IF o = Refused THEN {} ELSE UNION {{p} \cup Under[p] : p \in {o.path, o.to}}
Spares(o) == \A p \in Paths \ Named(o) : Exists(files, p) => files'[p] = files[p]
StaysLocal == [][(Undo => Spares(Top(undo))) /\ (Redo => Spares(Top(redo)))]_vars

\* The README promises that /redo repeats the last undone action.  A faithful
\* line is left by a redo only if redo brings another tree than the call did.
RedoRepeats == [][faithful /\ Redo => files' = Top(future)]_vars

-----------------------------------------------------------------------------
(***************************************************************************)
(* The inductive invariant (ToolHistoryProofs): what MovesAlongTheLine and *)
(* NeverStuck rest on.                                                     *)
(***************************************************************************)

\* Undo and Redo of o lead from one of the trees to the other.
Leads(o, before, after) ==
    /\ ~UndoThrows(after, o) /\ Undone(after, o) = before
    /\ ~RedoThrows(before, o)
    /\ o.tool # "file_content_modify" => Redone(before, o) = after

\* Every object on a stack leads between two neighbours on the line of trees.
OnTheLine ==
    faithful =>
        /\ \A i \in DOMAIN undo :
              Leads(undo[i], past[i], IF i = Len(undo) THEN files ELSE past[i + 1])
        /\ \A i \in DOMAIN redo :
              Leads(redo[i], IF i = Len(redo) THEN files ELSE future[i + 1], future[i])

=============================================================================
