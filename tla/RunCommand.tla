----------------------------- MODULE RunCommand -----------------------------
(***************************************************************************)
(* run_command on POSIX (psittacula-tools/src/tool_run_command.cpp):       *)
(* Psittacula starts /bin/sh with pipes for output, errors and input and   *)
(* with a pseudo terminal, serves them in one poll loop until all are      *)
(* closed or the deadline is over, and reaps the shell.  The command may   *)
(* start other processes, which inherit its descriptors and may outlive    *)
(* it.  Bytes are counted, not told apart.                                 *)
(***************************************************************************)
EXTENDS Integers, FiniteSets

CONSTANTS
    Child,       \* the shell, the only process whose id is known
    Others,      \* processes it, or one of those, may start
    PipeSize,    \* capacity of each pipe, and of the terminal
    BufferSize,  \* what one read takes at most (4096)
    MaxOutput,   \* max_output_bytes
    MaxInput,    \* bound: bytes of stdin_data
    Inputs,      \* sizes of stdin_data a call may have
    MaxTries     \* waits of 10 ms for a shell that closed everything (100)

Processes == {Child} \cup Others

ASSUME ProcessAssumption ==
    /\ Child \notin Others
    /\ \A s \in {"out", "err", "pty", "in"} : PipeSize[s] \in Nat \ {0}
    /\ BufferSize \in Nat \ {0} /\ MaxOutput \in Nat \ {0}
    /\ MaxInput \in Nat /\ Inputs \subseteq 0..MaxInput /\ MaxTries \in Nat

Outputs == {"out", "err", "pty"}   \* streams the parent reads
Streams == Outputs \cup {"in"}
Results == {"out", "err"}          \* stdout_data and stderr_data
\* Where the loop puts what it reads: the terminal's output counts as errors.
Result(s) == IF s = "out" THEN "out" ELSE "err"

VARIABLES
    pc,         \* where Execute is
    open,       \* streams whose parent end is open
    ready,      \* streams poll reported that are not yet served
    late,       \* the deadline is over
    timedOut,   \* timed_out
    captured,   \* bytes in stdout_data and stderr_data
    truncated,  \* stdout_truncated, stderr_truncated
    input,      \* bytes of stdin_data still to write
    tries,      \* calls of waitpid(WNOHANG)
    reaped,     \* the shell's status was collected
    proc,       \* state of each process
    pipe,       \* bytes in each pipe
    holders,    \* processes that hold the other end
    discarded,  \* history: AppendCapped dropped something of this result
    missed,     \* history: streams closed with bytes in them
    pollFailed, \* history: poll returned an error
    unwaited    \* history: the last waitpid returned without the shell

\* Variables that change together.
output  == <<captured, truncated, discarded>>
ending  == <<tries, reaped, unwaited>>
system  == <<proc, pipe, holders>>
closing == <<open, missed>>
verdict == <<timedOut, pollFailed>>
vars    == <<pc, ready, late, input, output, ending, system, closing, verdict>>

TypeOK ==
    /\ pc \in {"execute", "setup", "top", "poll", "serve", "reap", "kill", "wait",
               "returned", "refused"}
    /\ open \subseteq Streams
    /\ ready \subseteq open
    /\ late \in BOOLEAN /\ timedOut \in BOOLEAN /\ reaped \in BOOLEAN
    /\ captured \in [Results -> 0..MaxOutput]
    /\ truncated \in [Results -> BOOLEAN]
    /\ input \in 0..MaxInput
    /\ tries \in 0..MaxTries
    /\ proc \in [Processes -> {"unborn", "running", "gone"}]
    /\ pipe \in [Streams -> Nat] /\ \A s \in Streams : pipe[s] <= PipeSize[s]
    /\ holders \in [Streams -> SUBSET Processes]
    /\ discarded \subseteq Results
    /\ missed \subseteq Outputs
    /\ pollFailed \in BOOLEAN /\ unwaited \in BOOLEAN

Init ==
    /\ pc = "execute"
    /\ open = {}
    /\ ready = {}
    /\ late = FALSE
    /\ timedOut = FALSE
    /\ captured = [r \in Results |-> 0]
    /\ truncated = [r \in Results |-> FALSE]
    /\ input \in Inputs
    /\ tries = 0
    /\ reaped = FALSE
    /\ proc = [p \in Processes |-> "unborn"]
    /\ pipe = [s \in Streams |-> 0]
    /\ holders = [s \in Streams |-> {}]
    /\ discarded = {}
    /\ missed = {}
    /\ pollFailed = FALSE
    /\ unwaited = FALSE

Running(p) == proc[p] = "running"
Held(s)    == holders[s] # {}
Least(m, n) == IF m < n THEN m ELSE n

-----------------------------------------------------------------------------
(***************************************************************************)
(* Before the loop.                                                        *)
(***************************************************************************)

\* Execute: a missing command, keep_tty, a denied confirm box, a directory that
\* is outside, missing or none, each return before anything is started.
Execute ==
    /\ pc = "execute"
    /\ pc' \in {"setup", "refused"}
    /\ UNCHANGED <<ready, late, input, output, ending, system, closing, verdict>>

\* No terminal, pipe or process: fail() closes what was opened.
SetupFails ==
    /\ pc = "setup"
    /\ pc' = "refused"
    /\ UNCHANGED <<ready, late, input, output, ending, system, closing, verdict>>

\* fork; each side closes the other's ends.  Without stdin_data the child's
\* input is the terminal; with it the child keeps no end of the terminal.
Setup ==
    /\ pc = "setup"
    /\ pc' = "top"
    /\ open' = IF input > 0 THEN Streams ELSE Outputs
    /\ proc' = [proc EXCEPT ![Child] = "running"]
    /\ holders' = [s \in Streams |->
            IF s \in (IF input > 0 THEN {"out", "err", "in"} ELSE Outputs)
            THEN {Child} ELSE {}]
    /\ UNCHANGED <<ready, late, input, output, ending, pipe, missed, verdict>>

-----------------------------------------------------------------------------
(***************************************************************************)
(* The poll loop.                                                          *)
(***************************************************************************)

\* What poll reports of a stream: something to read or room to write, or that
\* nobody holds the other end.
Reports(s) ==
    \/ ~Held(s)
    \/ IF s = "in" THEN pipe[s] < PipeSize[s] ELSE pipe[s] > 0

\* Every way out of the loop closes all that is open, and what was left in the
\* outputs is gone; closing the terminal hangs up the session (its processes may
\* then leave, as they may at any time).
Teardown ==
    /\ pc' = "reap"
    /\ missed' = missed \cup {s \in open \cap Outputs : pipe[s] > 0}
    /\ pipe' = [s \in Streams |-> IF s \in open \cap Outputs THEN 0 ELSE pipe[s]]
    /\ open' = {}
    /\ ready' = {}
    /\ UNCHANGED <<proc, holders>>

Enough ==
    /\ pc = "top"
    /\ open = {}
    /\ Teardown
    /\ UNCHANGED <<late, input, output, ending, verdict>>

LoopTop ==
    /\ pc = "top"
    /\ open # {}
    /\ ~late
    /\ pc' = "poll"
    /\ UNCHANGED <<ready, late, input, output, ending, system, closing, verdict>>

\* Mutant: poll waits without a time limit.
TimesOutAtTop ==
    /\ late
    /\ pc = "top"
    /\ open # {}
    /\ timedOut' = TRUE
    /\ Teardown
    /\ UNCHANGED <<late, input, output, ending, pollFailed>>

\* The check at the top of the loop, or a poll that returned nothing.
TimesOut ==
    /\ late
    /\ \/ pc = "top" /\ open # {}
       \/ pc = "poll" /\ \A s \in open : ~Reports(s)
    /\ timedOut' = TRUE
    /\ Teardown
    /\ UNCHANGED <<late, input, output, ending, pollFailed>>

\* A signal: poll is called again after the check.
PollInterrupted ==
    /\ pc = "poll"
    /\ pc' = "top"
    /\ UNCHANGED <<ready, late, input, output, ending, system, closing, verdict>>

\* Any other error ends the loop without a word.
PollFails ==
    /\ pc = "poll"
    /\ pollFailed' = TRUE
    /\ Teardown
    /\ UNCHANGED <<late, input, output, ending, timedOut>>

PollReturns ==
    /\ pc = "poll"
    /\ pc' = "serve"
    /\ ready' = {s \in open : Reports(s)}
    /\ ready' # {}
    /\ UNCHANGED <<late, input, output, ending, system, closing, verdict>>

\* Streams are served in this order.
Serves(s) ==
    /\ pc = "serve"
    /\ s \in ready
    /\ s = "err" => "out" \notin ready
    /\ s = "in"  => ready \cap {"out", "err"} = {}
    /\ s = "pty" => ready = {"pty"}

Served(s) ==
    /\ ready' = ready \ {s}
    /\ pc' = IF ready' = {} THEN "top" ELSE "serve"

\* AppendCapped.  The flag is set as soon as the result is full, also when all of
\* what was read went in.
\* Mutant: only a later read sets it.
AppendCappedLate(r, n) ==
    /\ truncated' = [truncated EXCEPT ![r] = @ \/ captured[r] >= MaxOutput]
    /\ captured' = [captured EXCEPT ![r] = Least(@ + n, MaxOutput)]
AppendCapped(r, n) ==
    /\ captured' = [captured EXCEPT ![r] = Least(@ + n, MaxOutput)]
    /\ truncated' = [truncated EXCEPT ![r] = @ \/ captured'[r] >= MaxOutput]

\* One round of for (;;): it goes on until the pipe is empty or ended.
Read(s) ==
    /\ Serves(s)
    /\ s \in Outputs
    /\ \E n \in 1..Least(pipe[s], BufferSize) :
        /\ pipe' = [pipe EXCEPT ![s] = @ - n]
        /\ AppendCapped(Result(s), n)
        /\ discarded' = IF captured[Result(s)] + n > MaxOutput
                        THEN discarded \cup {Result(s)} ELSE discarded
    /\ UNCHANGED <<pc, ready, late, input, ending, proc, holders, closing, verdict>>

ReadNothing(s) ==
    /\ Serves(s)
    /\ s \in Outputs
    /\ pipe[s] = 0
    /\ Held(s)
    /\ Served(s)
    /\ UNCHANGED <<late, input, output, ending, system, closing, verdict>>

\* End of file, or EIO of the terminal.
\* Mutant: a hang-up is taken for the end, whatever is left to read.
ReadHangup(s) ==
    /\ Serves(s)
    /\ s \in Outputs
    /\ ~Held(s)
    /\ open' = open \ {s}
    /\ missed' = missed \cup {r \in {s} : pipe[r] > 0}
    /\ Served(s)
    /\ UNCHANGED <<late, input, output, ending, system, verdict>>
ReadEnd(s) ==
    /\ Serves(s)
    /\ s \in Outputs
    /\ pipe[s] = 0
    /\ ~Held(s)
    /\ open' = open \ {s}
    /\ Served(s)
    /\ UNCHANGED <<late, input, output, ending, system, missed, verdict>>

WriteInput ==
    /\ Serves("in")
    /\ Held("in")
    /\ \E n \in 1..Least(input, PipeSize["in"] - pipe["in"]) :
        /\ input' = input - n
        /\ pipe' = [pipe EXCEPT !["in"] = @ + n]
    /\ UNCHANGED <<pc, ready, late, output, ending, proc, holders, closing, verdict>>

InputBlocked ==
    /\ Serves("in")
    /\ Held("in")
    /\ input > 0
    /\ pipe["in"] = PipeSize["in"]
    /\ Served("in")
    /\ UNCHANGED <<late, input, output, ending, system, closing, verdict>>

\* All is written, or nobody reads any more (EPIPE).
CloseInput ==
    /\ Serves("in")
    /\ input = 0 \/ ~Held("in")
    /\ open' = open \ {"in"}
    /\ Served("in")
    /\ UNCHANGED <<late, input, output, ending, system, missed, verdict>>

-----------------------------------------------------------------------------
(***************************************************************************)
(* After the loop.                                                         *)
(***************************************************************************)

\* timed_out: kill at once.  Otherwise the shell has a second to leave.
GiveUp ==
    /\ pc = "reap"
    /\ timedOut \/ tries = MaxTries
    /\ pc' = "kill"
    /\ UNCHANGED <<ready, late, input, output, ending, system, closing, verdict>>

\* Mutant: a shell that has left does not end the loop.
ReapedAndKilled == reaped' = TRUE /\ pc' = "kill"
Reaped == reaped' = TRUE /\ pc' = "returned"

TryWait ==
    /\ pc = "reap"
    /\ ~timedOut
    /\ tries < MaxTries
    /\ \/ Running(Child) /\ pc' = pc /\ tries' = tries + 1 /\ UNCHANGED reaped
       \/ ~Running(Child) /\ Reaped /\ UNCHANGED tries
    /\ UNCHANGED <<ready, late, input, output, unwaited, system, closing, verdict>>

\* An error of waitpid ends the loop: there are no more tries.
TryWaitFails ==
    /\ pc = "reap"
    /\ ~timedOut
    /\ tries < MaxTries
    /\ tries' = MaxTries
    /\ UNCHANGED <<pc, ready, late, input, output, reaped, unwaited, system, closing, verdict>>

\* SIGKILL to the shell alone: what it started runs on.  "gone" means that it
\* makes no more steps; its status may still have to be collected.
Leave(p) ==
    /\ proc' = [proc EXCEPT ![p] = "gone"]
    /\ holders' = [s \in Streams |-> holders[s] \ {p}]

Kill ==
    /\ pc = "kill"
    /\ pc' = "wait"
    /\ Leave(Child)
    /\ UNCHANGED <<ready, late, input, output, ending, pipe, closing, verdict>>

Wait ==
    /\ pc = "wait"
    /\ ~Running(Child)
    /\ Reaped
    /\ UNCHANGED <<ready, late, input, output, tries, unwaited, system, closing, verdict>>

\* The last waitpid is not looked at: interrupted by a signal (SIGWINCH restarts
\* nothing) or failing, it leaves the shell unreaped and the status 0.
WaitFails ==
    /\ pc = "wait"
    /\ pc' = "returned"
    /\ unwaited' = TRUE
    /\ UNCHANGED <<ready, late, input, output, tries, reaped, system, closing, verdict>>

-----------------------------------------------------------------------------
(***************************************************************************)
(* Time, and what the command may do.  Whoever writes to a stream that the *)
(* parent closed gets nowhere.                                             *)
(***************************************************************************)

Deadline ==
    /\ pc \in {"top", "poll", "serve"}
    /\ ~late
    /\ late' = TRUE
    /\ UNCHANGED <<pc, ready, input, output, ending, system, closing, verdict>>

Write(s) ==
    /\ s \in Outputs \cap open
    /\ Held(s)
    /\ pipe[s] < PipeSize[s]
    /\ pipe' = [pipe EXCEPT ![s] = @ + 1]
    /\ UNCHANGED <<pc, ready, late, input, output, ending, proc, holders, closing, verdict>>

ReadInput ==
    /\ Held("in")
    /\ pipe["in"] > 0
    /\ pipe' = [pipe EXCEPT !["in"] = @ - 1]
    /\ UNCHANGED <<pc, ready, late, input, output, ending, proc, holders, closing, verdict>>

CloseStream(p, s) ==
    /\ p \in holders[s]
    /\ holders' = [holders EXCEPT ![s] = @ \ {p}]
    /\ UNCHANGED <<pc, ready, late, input, output, ending, proc, pipe, closing, verdict>>

Start(p, q) ==
    /\ Running(p)
    /\ proc[q] = "unborn"
    /\ q # Child
    /\ proc' = [proc EXCEPT ![q] = "running"]
    /\ holders' = [s \in Streams |-> IF p \in holders[s] THEN holders[s] \cup {q} ELSE holders[s]]
    /\ UNCHANGED <<pc, ready, late, input, output, ending, pipe, closing, verdict>>

Exit(p) ==
    /\ Running(p)
    /\ Leave(p)
    /\ UNCHANGED <<pc, ready, late, input, output, ending, pipe, closing, verdict>>

Serve ==
    \/ \E s \in Outputs : Read(s) \/ ReadNothing(s) \/ ReadEnd(s)
    \/ WriteInput \/ InputBlocked \/ CloseInput

Parent ==
    \/ Execute \/ Setup \/ SetupFails
    \/ Enough \/ LoopTop \/ TimesOut \/ PollReturns \/ Serve
    \/ GiveUp \/ TryWait \/ Kill \/ Wait

\* What the processes do after the call returned is left out.
Command ==
    /\ pc # "returned"
    /\ \/ ReadInput
       \/ \E p \in Processes :
            \/ Exit(p)
            \/ \E s \in Streams : CloseStream(p, s)
            \/ \E q \in Others : Start(p, q)

Fails == PollInterrupted \/ PollFails \/ TryWaitFails \/ WaitFails

Next == Parent \/ Fails \/ Deadline \/ Command \/ \E s \in Outputs : Write(s)

Spec == Init /\ [][Next]_vars

\* The parent runs, time passes, and signals come now and then only.
FairSpec == Spec /\ WF_vars(Parent) /\ SF_vars(PollReturns \/ TimesOut) /\ WF_vars(Deadline)

-----------------------------------------------------------------------------
(***************************************************************************)
(* Properties.                                                             *)
(***************************************************************************)

\* A result is flagged exactly when it is full, over all the reads of the streams
\* that go into it, and nothing is dropped of one that is not flagged (lines
\* 14-28, 923).  The flag does not say that data was discarded, as lines 14 and 58
\* do: output that just fills its result is flagged as well.
CutIsFlagged ==
    \A r \in Results : /\ truncated[r] <=> captured[r] = MaxOutput
                       /\ r \in discarded => truncated[r]

\* A call that reports no timeout has read all that was written to its streams
\* until it closed them, and written all of stdin_data unless nobody was left
\* to read it: no stream is given up early, however writes, closes, forks and
\* exits interleave with the rounds of poll.
NothingCutShort ==
    pc \in {"reap", "kill", "wait", "returned"} /\ ~timedOut /\ ~pollFailed =>
        missed = {} /\ (input = 0 \/ ~Held("in"))

\* The shell is reaped at most once and by the step that returns; its id is not
\* used for a signal after that (lines 883-916).  The call leaves no descriptor and
\* no shell that runs; an unreaped one only when the waitpid after SIGKILL, whose
\* result is not looked at, came back without it (lines 888, 914).
CleanReturn ==
    /\ pc \in {"kill", "wait"} => ~reaped
    /\ pc = "returned" => (reaped \/ unwaited) /\ ~Running(Child) /\ open = {}

\* The call ends by the deadline if the writers pause at some time: neither a
\* shell that waits for input nor a process that holds the pipes stops it.
Writes == \E s \in Outputs : Write(s)
EndsWhenQuiet ==
    <>[][~Writes]_vars => <>(pc \in {"returned", "refused"})

-----------------------------------------------------------------------------
(***************************************************************************)
(* The inductive invariant (RunCommandProofs): what CleanReturn and        *)
(* NothingCutShort rest on.                                                *)
(***************************************************************************)

Looping == pc \in {"top", "poll", "serve"}
After   == pc \in {"reap", "kill", "wait", "returned"}

\* Outside of the loop every stream is closed.
ClosedAfter == ~Looping => open = {}

\* The status is collected by the step that returns, if at all.
ReapedAtReturn ==
    /\ reaped \/ unwaited <=> pc = "returned"
    /\ ~(reaped /\ unwaited)

\* The last waitpid waits for a shell that was killed.
KilledFirst == pc = "wait" => ~Running(Child)

\* Only the way out of the loop closes a stream that has bytes left.
NothingMissedBefore == ~After => missed = {}

\* While the loop runs, and after it when nothing cut it short, input is closed
\* once all is written or nobody can read it.
InputServed ==
    (Looping \/ After) /\ ~timedOut /\ ~pollFailed /\ "in" \notin open =>
        input = 0 \/ ~Held("in")

Inv ==
    /\ TypeOK
    /\ CutIsFlagged /\ CleanReturn /\ NothingCutShort
    /\ ClosedAfter /\ ReapedAtReturn /\ KilledFirst /\ NothingMissedBefore /\ InputServed

=============================================================================
