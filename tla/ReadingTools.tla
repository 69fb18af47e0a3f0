---------------------------- MODULE ReadingTools ----------------------------
(***************************************************************************)
(* The tools that read: file_search, list_files and read_file              *)
(* (psittacula-tools/src/tool_file_search.cpp, tool_file_list.cpp,         *)
(* tool_file_read.cpp).  Each works its way through a tree, or a file, and *)
(* stops at a limit, while others may append to files or delete them.      *)
(*                                                                         *)
(* A tree is a sequence of entries in the order the iterators of           *)
(* std::filesystem visit them: a directory comes before what lies in it.   *)
(* An entry is a path and a kind: "text", "binary", "locked" (a file that  *)
(* cannot be opened), "dir", "sealed" (a directory that cannot).  The      *)
(* content of a file is a sequence of bytes: the letters "x", "X" and "o", *)
(* "lead" and "cont" of a letter of two bytes, and "nl".                   *)
(***************************************************************************)
EXTENDS Integers, Sequences, FiniteSets, FiniteSetsExt, SequencesExt

CONSTANTS
    Trees,         \* trees a call may find
    Contents,      \* contents of files
    Calls,         \* calls the model may make
    Names,         \* names of files and directories
    HiddenNames,   \* names that begin with a dot
    MaxMatches,    \* kMaxMatches (200)
    MaxPerFile,    \* kMaxMatchesPerFile (25)
    MaxBytes,      \* kMaxResultBytes (96 KiB)
    MaxSnippet,    \* kSnippetMaxBytes (512)
    Overhead,      \* bytes of a match besides its snippet
    MaxEntries,    \* MAX_ENTRIES (500)
    MaxDepth,      \* MAX_DEPTH (4)
    MaxListing,    \* MAX_JSON_SIZE (500000)
    MaxText,       \* kMaxTextBytes (256 KiB)
    MaxBinary,     \* kMaxBinaryBytes (1 MiB)
    ChunkSize,     \* what one read takes (65536)
    MaxChanges     \* bound: changes by others during the call

Bytes == {"x", "X", "o", "lead", "cont", "nl"}

ASSUME ReadingAssumption ==
    /\ Contents \subseteq Seq(Bytes)
    /\ \A c \in Calls : c.tool \in {"read", "read_binary"} => \A t \in Trees : c.target \in DOMAIN t
    /\ MaxMatches \in Nat \ {0} /\ MaxPerFile \in Nat \ {0} /\ MaxBytes \in Nat \ {0}
    /\ MaxEntries \in Nat \ {0} /\ MaxText \in Nat \ {0} /\ ChunkSize \in Nat \ {0}
    /\ MaxSnippet \in Nat /\ MaxDepth \in Nat /\ MaxBinary \in Nat /\ MaxChanges \in Nat
    /\ Overhead \in Nat

\* No letter of two bytes lacks its end.
Letters(c) == \A i \in DOMAIN c : c[i] = "lead" => i < Len(c) /\ c[i + 1] = "cont"

ASSUME LettersAssumption == \A c \in Contents : Letters(c)

VARIABLES
    call,       \* the call: its tool and arguments
    tree,       \* the entries below the path of the call
    content,    \* what each entry holds
    gone,       \* entries that were deleted
    changes,    \* changes by others so far
    pc,         \* where the tool is
    at,         \* the entry the iterator is at
    found,      \* search: results
    used,       \* search, list: bytes of the result
    listed,     \* list: entries emitted
    taken,      \* read: content
    size,       \* read: file_size
    truncated

world  == <<call, tree>>
others == <<content, gone, changes>>
search == <<found>>
read   == <<taken, size>>
vars   == <<world, others, pc, at, used, listed, truncated, search, read>>

Entries == DOMAIN tree
Entry   == tree[at]

TypeOK ==
    /\ tree \in Trees
    /\ gone \subseteq Entries /\ changes \in 0..MaxChanges
    /\ pc \in {"begin", "walk", "open", "chunks", "done", "broken", "refused", "thrown"}
    /\ at \in 1..Len(tree) + 1
    /\ \A i \in DOMAIN found : found[i].entry \in Entries /\ Len(found[i].snippet) <= MaxSnippet
    /\ Len(found) <= MaxMatches
    /\ \A i \in DOMAIN listed : listed[i] \in Entries
    /\ Len(taken) <= IF call.tool = "read_binary" THEN MaxBinary ELSE MaxText
    /\ used \in Nat /\ size \in Nat /\ truncated \in BOOLEAN

Init ==
    /\ tree \in Trees
    /\ content \in [Entries -> Contents]
    /\ \A i \in Entries : tree[i].kind \in {"dir", "sealed"} => content[i] = <<>>
    /\ call \in Calls
    /\ gone = {} /\ changes = 0
    /\ pc = "begin" /\ at = 1
    /\ found = <<>> /\ listed = <<>> /\ taken = <<>>
    /\ used = 0 /\ size = 0
    /\ truncated = FALSE

-----------------------------------------------------------------------------
(* The iterators *)

IsDir(e)    == e.kind \in {"dir", "sealed"}
Depth(e)    == Len(e.path) - 1
Below(e, d) == IsStrictPrefix(d.path, e.path)
IsHidden(e) == Last(e.path) \in HiddenNames

\* What the iterators visit: what lies in a directory comes right behind it,
\* and a directory comes before what lies in it.
IsWalk(t) ==
    /\ t \in Seq([path : Seq(Names) \ {<<>>},
                 kind : {"text", "binary", "locked", "dir", "sealed"}])
    /\ \A i, k \in DOMAIN t : Below(t[k], t[i]) =>
            i < k /\ IsDir(t[i]) /\ \A j \in i + 1..k : Below(t[j], t[i])
    /\ \A k \in DOMAIN t : Depth(t[k]) > 0 => \E i \in DOMAIN t : Below(t[k], t[i])

ASSUME TreesAssumption == \A t \in Trees : IsWalk(t)

\* Into a directory, or past it.
Inside   == at + 1
Past     == Min({j \in at + 1..Len(tree) + 1 : j > Len(tree) \/ ~Below(tree[j], Entry)})

\* The next entry lies in a directory that cannot be opened (any more).
CannotEnter == Entry.kind = "sealed" \/ (IsDir(Entry) /\ at \in gone)

\* What was deleted may be passed over, or still be visited.
PassOver ==
    /\ pc = "walk" /\ at \in gone
    /\ at' = Past
    /\ UNCHANGED <<world, others, pc, used, listed, truncated, search, read>>

WalkEnds ==
    /\ pc = "walk" /\ at = Len(tree) + 1
    /\ pc' = "done"
    /\ UNCHANGED <<world, others, at, used, listed, truncated, search, read>>

\* Arguments that are missing or wrong, a path outside of the project.
Refuse ==
    /\ pc = "begin"
    /\ pc' = "refused"
    /\ UNCHANGED <<world, others, at, used, listed, truncated, search, read>>

-----------------------------------------------------------------------------
(* file_search *)

\* Byte by byte; only ASCII has a lower case.
Lower(byte) == IF byte = "X" THEN "x" ELSE byte

\* The bytes the search takes for the query.  The query is made lower case for
\* every search, the lines only when the search is not case sensitive.
Hits == {b \in Bytes : (IF call.sensitive THEN b ELSE Lower(b)) = Lower(call.query)}

LineOf(c, i) == 1 + Cardinality({j \in 1..i - 1 : c[j] = "nl"})
LineText(c, n) == LET own == {i \in DOMAIN c : LineOf(c, i) = n /\ c[i] # "nl"}
                  IN  IF own = {} THEN <<>> ELSE SubSeq(c, Min(own), Max(own))
LinesWith(c, bytes) ==
    FlattenSeq([n \in DOMAIN c |->
        IF \E i \in DOMAIN c : c[i] \in bytes /\ LineOf(c, i) = n THEN <<n>> ELSE <<>>])

\* ClipUtf8 goes back to where a letter begins.
\* A plausible mistake: it cuts where the limit is.
ClipBytes(text) == IF Len(text) <= MaxSnippet THEN text ELSE SubSeq(text, 1, MaxSnippet)
Clip(text) ==
    IF Len(text) <= MaxSnippet THEN text
    ELSE SubSeq(text, 1, Max({n \in 0..MaxSnippet : n = 0 \/ text[n + 1] # "cont"}))

\* SearchFile: the first matches of a file.
MatchesOf(i, c, bytes) ==
    LET lines == LinesWith(c, bytes)
    IN  [n \in 1..Min({Len(lines), MaxPerFile}) |->
            [entry |-> i, line |-> lines[n], snippet |-> Clip(LineText(c, lines[n]))]]

Matches(i, c) == MatchesOf(i, c, Hits)

Cost(match) == Len(match.snippet) + Overhead
Costs(matches) ==
    LET sum[n \in 0..Len(matches)] == IF n = 0 THEN 0 ELSE sum[n - 1] + Cost(matches[n])
    IN  sum[Len(matches)]

\* Every match is preceded by a look at the limits.
\* A plausible mistake: only the bytes are looked at.
FitBytes(ms) == Max({n \in 0..Len(ms) : \A k \in 0..n - 1 : used + Costs(SubSeq(ms, 1, k)) < MaxBytes})
Fit(ms) ==
    Max({n \in 0..Len(ms) : \A k \in 0..n - 1 :
            /\ Len(found) + k < MaxMatches
            /\ used + Costs(SubSeq(ms, 1, k)) < MaxBytes})

\* A plausible mistake: the matches of a file are lost when they do not all fit.
KeptAll(ms) == IF Fit(ms) = Len(ms) THEN ms ELSE <<>>
Kept(ms) == SubSeq(ms, 1, Fit(ms))

\* increment(walk_ec): an error ends the walk, and what was found is returned.
Increment ==
    /\ at' = Inside
    /\ pc' = IF CannotEnter THEN "broken" ELSE "walk"

\* A root that cannot be read is an empty result.
SearchBegins ==
    /\ call.tool = "search" /\ pc = "begin"
    /\ pc' \in {"walk", "broken"}
    /\ UNCHANGED <<world, others, at, used, listed, truncated, search, read>>

\* A look at the first bytes: what is binary or cannot be opened is skipped.
Sniff ==
    /\ call.tool = "search" /\ pc = "walk" /\ at \in Entries
    /\ IF Entry.kind = "text" /\ at \notin gone
       THEN pc' = "open" /\ UNCHANGED at
       ELSE Increment
    /\ UNCHANGED <<world, others, used, listed, truncated, search, read>>

\* The file is opened again: it may have changed or gone.
SearchFile ==
    /\ pc = "open"
    /\ LET ms == IF at \in gone THEN <<>> ELSE Matches(at, content[at])
       IN  /\ found' = found \o Kept(ms)
           /\ used' = used + Costs(Kept(ms))
           /\ IF Fit(ms) < Len(ms)
              THEN truncated' = TRUE /\ pc' = "done" /\ UNCHANGED at
              ELSE UNCHANGED truncated /\ Increment
    /\ UNCHANGED <<world, others, listed, read>>

-----------------------------------------------------------------------------
(* list_files *)

\* The iterators of list_files throw when their root cannot be read.
ListBegins ==
    /\ call.tool \in {"list", "summary"} /\ pc = "begin"
    /\ pc' \in {"walk", "thrown"}
    /\ UNCHANGED <<world, others, at, used, listed, truncated, search, read>>

Recursive == call.tool = "list" /\ call.recursive

\* Nothing below these is visited.
Skipped == \/ ~call.hidden /\ IsDir(Entry) /\ IsHidden(Entry)
           \/ Depth(Entry) > MaxDepth

Skip ==
    /\ Recursive /\ pc = "walk" /\ at \in Entries
    /\ Skipped
    /\ at' = Past
    /\ UNCHANGED <<world, others, pc, used, listed, truncated, search, read>>

\* The summary has no limits.
ListFull == call.tool = "list" /\ (Len(listed') >= MaxEntries \/ used' > MaxListing)

\* A plausible mistake: only directories are hidden, not files.
DirectoriesAway == ~call.hidden /\ IsDir(Entry) /\ IsHidden(Entry)
HiddenAway == ~call.hidden /\ IsHidden(Entry)

\* process_entry, the limits, and ++it, which throws when a directory cannot
\* be entered.
Emit ==
    /\ call.tool \in {"list", "summary"} /\ pc = "walk" /\ at \in Entries
    /\ Recursive => ~Skipped
    /\ IF HiddenAway THEN UNCHANGED <<listed, used>>
       ELSE listed' = Append(listed, at) /\ used' = used + Len(Entry.path)
    /\ at' = IF Recursive THEN Inside ELSE Past
    /\ pc' = IF ListFull THEN "done" ELSE IF Recursive /\ CannotEnter THEN "thrown" ELSE "walk"
    /\ UNCHANGED <<world, others, truncated, search, read>>

-----------------------------------------------------------------------------
(* read_file *)

Reads == call.tool \in {"read", "read_binary"}

\* file_size throws for a directory, which is then taken for empty; a stream
\* on a directory opens and reads nothing.
Measure ==
    /\ Reads /\ pc = "begin"
    /\ at' = call.target
    /\ size' = Len(content[call.target])
    /\ pc' = IF \/ call.target \in gone
                \/ tree[call.target].kind \in {"locked", "sealed"}
                \/ call.tool = "read_binary" /\ size' > MaxBinary
             THEN "refused" ELSE "chunks"
    /\ UNCHANGED <<world, others, used, listed, truncated, search, taken>>

Chunk == SubSeq(content[at], Len(taken) + 1, Min({Len(taken) + ChunkSize, Len(content[at])}))

\* A chunk that is not full has met the end of the file, and is the last.
AfterChunk == IF Len(Chunk) < ChunkSize THEN "done" ELSE "chunks"

\* The file ended where a chunk did.
ReadEnds ==
    /\ pc = "chunks" /\ Chunk = <<>>
    /\ pc' = "done"
    /\ UNCHANGED <<world, others, at, used, listed, truncated, search, read>>

\* A plausible mistake: a file that just fills the limit is called cut.
ReadTextFilled ==
    /\ call.tool = "read" /\ pc = "chunks" /\ Chunk # <<>>
    /\ taken' = SubSeq(taken \o Chunk, 1, Min({Len(taken) + Len(Chunk), MaxText}))
    /\ IF Len(taken') = MaxText
       THEN truncated' = TRUE /\ pc' = "done" ELSE UNCHANGED truncated /\ pc' = AfterChunk
    /\ UNCHANGED <<world, others, at, used, listed, search, size>>

\* One chunk; more than fits is cut off, and only that is called truncated.
ReadText ==
    /\ call.tool = "read" /\ pc = "chunks" /\ Chunk # <<>>
    /\ taken' = SubSeq(taken \o Chunk, 1, Min({Len(taken) + Len(Chunk), MaxText}))
    /\ IF Len(taken) + Len(Chunk) > MaxText
       THEN truncated' = TRUE /\ pc' = "done" ELSE UNCHANGED truncated /\ pc' = AfterChunk
    /\ UNCHANGED <<world, others, at, used, listed, search, size>>

\* Binary content is returned whole or not at all.
ReadBinary ==
    /\ call.tool = "read_binary" /\ pc = "chunks" /\ Chunk # <<>>
    /\ IF Len(taken) + Len(Chunk) > MaxBinary
       THEN pc' = "refused" /\ UNCHANGED taken
       ELSE taken' = taken \o Chunk /\ pc' = AfterChunk
    /\ UNCHANGED <<world, others, at, used, listed, truncated, search, size>>

-----------------------------------------------------------------------------
(* Others: the user, or what run_command left running. *)

Running == pc \in {"begin", "walk", "open", "chunks"} /\ changes < MaxChanges

Append1(i) ==
    /\ Running /\ tree[i].kind \in {"text", "binary"} /\ i \notin gone
    /\ \E b \in {"x", "cont"} : content' = [content EXCEPT ![i] = Append(@, b)]
    /\ changes' = changes + 1
    /\ UNCHANGED <<world, gone, pc, at, used, listed, truncated, search, read>>

Vanish(i) ==
    /\ Running /\ i \notin gone
    /\ gone' = gone \cup {i} \cup {j \in Entries : Below(tree[j], tree[i])}
    /\ changes' = changes + 1
    /\ UNCHANGED <<world, content, pc, at, used, listed, truncated, search, read>>

Search == SearchBegins \/ Sniff \/ SearchFile
List   == ListBegins \/ Skip \/ Emit
Read   == Measure \/ ReadText \/ ReadBinary \/ ReadEnds
Walk   == PassOver \/ WalkEnds

Next == Refuse \/ Search \/ List \/ Read \/ Walk
            \/ \E i \in Entries : Append1(i) \/ Vanish(i)

Spec == Init /\ [][Next]_vars

-----------------------------------------------------------------------------
(* Properties *)

Done == pc = "done"
Undisturbed == changes = 0

\* What the query stands for: itself when the search is case sensitive (line 110),
\* otherwise the letter in either case.
Wanted == {b \in Bytes : IF call.sensitive THEN b = call.query ELSE Lower(b) = Lower(call.query)}

\* Every line that holds the query, in the order of the walk; of each file the
\* first MaxPerFile.
Expected ==
    FlattenSeq([i \in Entries |->
        IF tree[i].kind = "text" THEN MatchesOf(i, content[i], Wanted) ELSE <<>>])

\* Not searched for: a case-sensitive query with an upper-case letter, which is
\* made lower case nevertheless (line 185).  Nothing is promised of it.
Understood == call.sensitive => call.query = Lower(call.query)

\* The results of a search whose query is understood begin like what there is to
\* find, however it ends.  When the walk came to its end or to a limit, truncated
\* says exactly whether something is missing, and a limit is why (lines 284-293):
\* the limits are looked at between any two matches, in every file, and exactly
\* filled is not truncated.  No such promise after an error of the walk, an
\* unreadable root or directory (lines 242, 252, 297): it ends the search, which
\* reports success with what it has and no truncation, although lines 249-251 say
\* that the loop continues.  A file of more than MaxPerFile matches is cut silently.
SearchAllOrFlagged ==
    call.tool = "search" /\ Undisturbed /\ Understood =>
        /\ IsPrefix(found, Expected)
        /\ Done => (truncated <=> found # Expected)
        /\ truncated => Done /\ (Len(found) = MaxMatches \/ used >= MaxBytes)

\* Whatever others do meanwhile, the matches are those of lines the file has,
\* each once and in the order of the walk, within the limits, and no snippet
\* ends inside a letter.
Before(m, n) == m.entry < n.entry \/ (m.entry = n.entry /\ m.line < n.line)
Whole(c) == c # <<>> /\ c[1] # "cont" => Letters(c)
MatchesAreReal ==
    /\ \A i, j \in DOMAIN found : i < j => Before(found[i], found[j])
    /\ \A i \in DOMAIN found :
        LET m == found[i]  text == LineText(content[m.entry], m.line)
        IN  IsPrefix(m.snippet, text) /\ (Whole(text) => Whole(m.snippet))
    /\ \A i \in Entries : Cardinality({j \in DOMAIN found : found[j].entry = i}) <= MaxPerFile

\* A listing that was not stopped by a limit names what is not hidden, and not
\* below anything hidden or too deep, once and in order; a stopped one begins
\* like it (lines 179-214).
Ancestors(e) == {tree[i] : i \in {j \in Entries : tree[j] = e \/ Below(e, tree[j])}}
Visible(i) ==
    /\ Depth(tree[i]) <= IF Recursive THEN MaxDepth ELSE 0
    /\ call.hidden \/ \A d \in Ancestors(tree[i]) : ~IsHidden(d)
ListingIsTheTree ==
    Done /\ call.tool \in {"list", "summary"} /\ Undisturbed =>
        /\ \A m, n \in DOMAIN listed : m < n => listed[m] < listed[n]
        /\ \A m \in DOMAIN listed : listed[m] \in Entries /\ Visible(listed[m])
        /\ \A i \in Entries : Visible(i) /\ i \notin Range(listed) =>
               /\ call.tool = "list" /\ (Len(listed) = MaxEntries \/ used > MaxListing)
               /\ \A m \in DOMAIN listed : listed[m] < i

\* What read_file returns is how the file begins, and all it held when it was
\* measured unless the result says that it was cut; only content beyond the
\* limit is cut, and binary content never.
ReadAllOrFlagged ==
    Done /\ Reads =>
        /\ IsPrefix(taken, content[at])
        /\ ~truncated => Len(taken) >= size
        /\ truncated => call.tool = "read" /\ Len(taken) = MaxText /\ Len(content[at]) > MaxText
=============================================================================
