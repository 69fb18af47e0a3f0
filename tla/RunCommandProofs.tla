------------------------- MODULE RunCommandProofs -------------------------
(***************************************************************************)
(* For any number of processes, pipes of any capacity and any limits of    *)
(* run_command: a result is flagged exactly when it is full, nothing is    *)
(* given up early, and a call leaves no descriptor and no running shell.   *)
(***************************************************************************)
EXTENDS RunCommand, TLAPS

\* The smaller of two numbers.
LEMMA LeastOfTwo ==
    ASSUME NEW m \in Nat, NEW n \in Nat
    PROVE  Least(m, n) \in Nat /\ Least(m, n) <= m /\ Least(m, n) <= n
BY DEF Least

\* What is captured stays within its bound, and the flag says when it is full.
LEMMA CappedAppend ==
    ASSUME TypeOK, CutIsFlagged, NEW r \in Results, NEW n \in Nat, AppendCapped(r, n)
    PROVE  /\ captured' \in [Results -> 0..MaxOutput]
           /\ truncated' \in [Results -> BOOLEAN]
           /\ \A q \in Results : truncated[q] => truncated'[q]
           /\ captured[r] + n > MaxOutput => truncated'[r]
           /\ \A q \in Results : truncated'[q] <=> captured'[q] = MaxOutput
<1> USE ProcessAssumption DEF TypeOK, CutIsFlagged
<1>1. captured[r] \in Nat /\ captured[r] <= MaxOutput
  OBVIOUS
<1>2. /\ captured' = [captured EXCEPT ![r] = Least(captured[r] + n, MaxOutput)]
      /\ truncated' = [truncated EXCEPT ![r] = truncated[r] \/ captured'[r] >= MaxOutput]
  BY DEF AppendCapped
<1>3. Least(captured[r] + n, MaxOutput) \in 0..MaxOutput
  BY <1>1 DEF Least
<1>4. captured' \in [Results -> 0..MaxOutput]
  BY <1>2, <1>3
<1>5. truncated' \in [Results -> BOOLEAN]
  BY <1>2
<1>6. \A q \in Results : truncated[q] => truncated'[q]
  BY <1>2
<1>7. captured[r] + n > MaxOutput => truncated'[r]
  <2> SUFFICES ASSUME captured[r] + n > MaxOutput
               PROVE  truncated'[r]
    OBVIOUS
  <2>1. captured'[r] = Least(captured[r] + n, MaxOutput)
    BY <1>2
  <2>2. captured'[r] >= MaxOutput
    BY <1>1, <2>1 DEF Least
  <2> QED
    BY <1>2, <2>2, Zenon
<1>8. \A q \in Results : truncated'[q] <=> captured'[q] = MaxOutput
  <2>1. ASSUME NEW q \in Results, q # r
        PROVE  truncated'[q] <=> captured'[q] = MaxOutput
    <3>1. truncated'[q] = truncated[q] /\ captured'[q] = captured[q]
      BY <1>2, <2>1
    <3>2. truncated[q] <=> captured[q] = MaxOutput
      OBVIOUS
    <3> QED
      BY <3>1, <3>2, Zenon
  <2>2. truncated'[r] <=> captured'[r] = MaxOutput
    <3>1. captured'[r] = Least(captured[r] + n, MaxOutput)
      BY <1>2
    <3>2. truncated'[r] = (truncated[r] \/ captured'[r] >= MaxOutput)
      BY <1>2, Zenon
    <3>3. truncated[r] <=> captured[r] = MaxOutput
      OBVIOUS
    <3>4. captured[r] = MaxOutput => captured'[r] = MaxOutput
      BY <1>1, <3>1 DEF Least
    <3>5. captured'[r] >= MaxOutput <=> captured'[r] = MaxOutput
      BY <1>1, <3>1 DEF Least
    <3> QED
      BY <3>2, <3>3, <3>4, <3>5, Zenon
  <2> QED
    BY <2>1, <2>2
<1> QED
  BY <1>4, <1>5, <1>6, <1>7, <1>8

\* Before the loop and on the way into it.
LEMMA StartStep ==
    ASSUME Inv, Execute \/ SetupFails \/ Setup \/ LoopTop \/ PollInterrupted \/ PollReturns
                  \/ Deadline
    PROVE  Inv'
<1> USE ProcessAssumption DEF Inv, TypeOK, CutIsFlagged, CleanReturn, NothingCutShort,
        ClosedAfter, ReapedAtReturn, KilledFirst, NothingMissedBefore, InputServed, Looping,
        After, Held,
        Running, output, ending, system, closing, verdict, Outputs, Streams, Results, Processes
<1>1. CASE Execute
  BY <1>1 DEF Execute
<1>2. CASE SetupFails
  BY <1>2 DEF SetupFails
<1>3. CASE Setup
  <2>1. TypeOK'
    <3>1. proc' \in [Processes -> {"unborn", "running", "gone"}]
      BY <1>3 DEF Setup
    <3>2. holders' \in [Streams -> SUBSET Processes]
      BY <1>3 DEF Setup
    <3>3. open' \subseteq Streams
      BY <1>3 DEF Setup
    <3>4. ready' \subseteq open'
      <4>1. ready = {} /\ ready' = ready
        BY <1>3 DEF Setup
      <4> QED
        BY <4>1
    <3>5. pc' \in {"execute", "setup", "top", "poll", "serve", "reap", "kill", "wait",
                   "returned", "refused"}
      BY <1>3 DEF Setup
    <3>6. UNCHANGED <<late, timedOut, reaped, captured, truncated, input, tries, pipe, discarded,
                      missed, pollFailed, unwaited>>
      BY <1>3 DEF Setup
    <3> QED
      BY <3>1, <3>2, <3>3, <3>4, <3>5, <3>6
  <2>2. InputServed'
    BY <1>3 DEF Setup
  <2>3. CutIsFlagged' /\ CleanReturn' /\ NothingCutShort' /\ ClosedAfter'
            /\ ReapedAtReturn' /\ KilledFirst' /\ NothingMissedBefore'
    BY <1>3 DEF Setup
  <2> QED
    BY <2>1, <2>2, <2>3
<1>4. CASE LoopTop
  BY <1>4 DEF LoopTop
<1>5. CASE PollInterrupted
  BY <1>5 DEF PollInterrupted
<1>6. CASE PollReturns
  BY <1>6 DEF PollReturns
<1>7. CASE Deadline
  BY <1>7 DEF Deadline
<1> QED
  BY <1>1, <1>2, <1>3, <1>4, <1>5, <1>6, <1>7

\* The ways out of the loop close what is open; only those that report it may
\* give up bytes.
LEMMA LeavingStep ==
    ASSUME Inv, Enough \/ TimesOut \/ PollFails
    PROVE  Inv'
<1> USE DEF Inv, TypeOK, CutIsFlagged, CleanReturn, NothingCutShort,
        ClosedAfter, ReapedAtReturn, KilledFirst, NothingMissedBefore, InputServed, Looping,
        After, Held,
        Running, output, ending, system, closing, verdict, Outputs, Streams, Results
<1> DEFINE Emptied == [s \in Streams |-> IF s \in open \cap Outputs THEN 0 ELSE pipe[s]]
<1>1. Emptied \in [Streams -> Nat] /\ \A s \in Streams : Emptied[s] <= PipeSize[s]
  BY ProcessAssumption
<1> HIDE DEF Emptied
<1>2. CASE Enough
  <2>1. open = {} /\ pc' = "reap" /\ missed' = missed /\ open' = {} /\ ready' = {} /\ pipe' = Emptied
    BY <1>2 DEF Enough, Teardown, Emptied
  <2>2. pc = "top" /\ UNCHANGED <<late, input, output, ending, proc, holders, verdict>>
    BY <1>2 DEF Enough, Teardown
  <2> QED
    BY <1>1, <2>1, <2>2
<1>3. CASE TimesOut
  <2>1. /\ pc' = "reap" /\ missed' \subseteq Outputs /\ open' = {} /\ ready' = {} /\ pipe' = Emptied
        /\ pc \in {"top", "poll"} /\ timedOut' = TRUE
    BY <1>3 DEF TimesOut, Teardown, Emptied
  <2>2. UNCHANGED <<late, input, output, ending, proc, holders, pollFailed>>
    BY <1>3 DEF TimesOut, Teardown
  <2> QED
    BY <1>1, <2>1, <2>2
<1>4. CASE PollFails
  <2>1. /\ pc' = "reap" /\ missed' \subseteq Outputs /\ open' = {} /\ ready' = {} /\ pipe' = Emptied
        /\ pc = "poll" /\ pollFailed' = TRUE
    BY <1>4 DEF PollFails, Teardown, Emptied
  <2>2. UNCHANGED <<late, input, output, ending, proc, holders, timedOut>>
    BY <1>4 DEF PollFails, Teardown
  <2> QED
    BY <1>1, <2>1, <2>2
<1> QED
  BY <1>2, <1>3, <1>4

\* Serving a stream closes it only when nothing is left to do.
LEMMA ServeStep ==
    ASSUME Inv, Serve
    PROVE  Inv'
<1> USE ProcessAssumption DEF Inv, TypeOK, CleanReturn, NothingCutShort,
        ClosedAfter, ReapedAtReturn, KilledFirst, NothingMissedBefore, InputServed, Looping,
        After, Held,
        Running, ending, system, closing, verdict, Outputs, Streams, Results, Serves, Served
<1>1. ASSUME NEW s \in Outputs, Read(s)
      PROVE  Inv'
  <2>1. PICK n \in 1..Least(pipe[s], BufferSize) :
            /\ pipe' = [pipe EXCEPT ![s] = pipe[s] - n]
            /\ AppendCapped(Result(s), n)
            /\ discarded' = IF captured[Result(s)] + n > MaxOutput
                            THEN discarded \cup {Result(s)} ELSE discarded
    BY <1>1 DEF Read
  <2>2. n \in Nat /\ n <= pipe[s] /\ Result(s) \in Results
    <3>1. pipe[s] \in Nat
      OBVIOUS
    <3>2. Least(pipe[s], BufferSize) \in Nat /\ Least(pipe[s], BufferSize) <= pipe[s]
      BY <3>1, LeastOfTwo
    <3>3. n \in Nat /\ n <= pipe[s]
      BY <3>1, <3>2
    <3> QED
      BY <3>3 DEF Result
  <2>3. /\ captured' \in [Results -> 0..MaxOutput]
        /\ truncated' \in [Results -> BOOLEAN]
        /\ \A q \in Results : truncated[q] => truncated'[q]
        /\ captured[Result(s)] + n > MaxOutput => truncated'[Result(s)]
        /\ \A q \in Results : truncated'[q] <=> captured'[q] = MaxOutput
    BY <2>1, <2>2, CappedAppend
  <2>4. CutIsFlagged'
    BY <2>1, <2>3 DEF CutIsFlagged
  <2>5. pipe' \in [Streams -> Nat] /\ \A q \in Streams : pipe'[q] <= PipeSize[q]
    BY <2>1, <2>2
  <2>6. TypeOK'
    BY <1>1, <2>1, <2>2, <2>3, <2>5 DEF Read
  <2>7. CleanReturn' /\ NothingCutShort' /\ ClosedAfter'
            /\ ReapedAtReturn' /\ KilledFirst' /\ NothingMissedBefore' /\ InputServed'
    BY <1>1 DEF Read
  <2> QED
    BY <2>4, <2>6, <2>7
<1>2. ASSUME NEW s \in Outputs, ReadNothing(s)
      PROVE  Inv'
  BY <1>2 DEF ReadNothing, CutIsFlagged, output
<1>3. ASSUME NEW s \in Outputs, ReadEnd(s)
      PROVE  Inv'
  BY <1>3 DEF ReadEnd, CutIsFlagged, output
<1>4. CASE WriteInput
  <2>1. PICK n \in 1..Least(input, PipeSize["in"] - pipe["in"]) :
            /\ input' = input - n
            /\ pipe' = [pipe EXCEPT !["in"] = pipe["in"] + n]
    BY <1>4 DEF WriteInput
  <2>2. n \in Nat /\ n <= input /\ pipe["in"] + n <= PipeSize["in"]
    <3>1. input \in Nat /\ pipe["in"] \in Nat /\ PipeSize["in"] \in Nat
              /\ PipeSize["in"] - pipe["in"] \in Nat
      OBVIOUS
    <3>2. Least(input, PipeSize["in"] - pipe["in"]) <= input
              /\ Least(input, PipeSize["in"] - pipe["in"]) <= PipeSize["in"] - pipe["in"]
      BY <3>1, LeastOfTwo
    <3>3. Least(input, PipeSize["in"] - pipe["in"]) \in Nat
      BY <3>1, LeastOfTwo
    <3>4. n \in Nat /\ n <= Least(input, PipeSize["in"] - pipe["in"])
      BY <3>3
    <3>5. n <= input /\ n <= PipeSize["in"] - pipe["in"]
      BY <3>1, <3>2, <3>3, <3>4
    <3> QED
      BY <3>1, <3>4, <3>5
  <2>3. TypeOK'
    BY <1>4, <2>1, <2>2 DEF WriteInput, output
  <2>4. CutIsFlagged' /\ CleanReturn' /\ NothingCutShort' /\ ClosedAfter'
            /\ ReapedAtReturn' /\ KilledFirst' /\ NothingMissedBefore' /\ InputServed'
    BY <1>4 DEF WriteInput, CutIsFlagged, output
  <2> QED
    BY <2>3, <2>4
<1>5. CASE InputBlocked
  BY <1>5 DEF InputBlocked, CutIsFlagged, output
<1>6. CASE CloseInput
  BY <1>6 DEF CloseInput, CutIsFlagged, output
<1> QED
  BY <1>1, <1>2, <1>3, <1>4, <1>5, <1>6 DEF Serve

\* The shell is reaped by the step that returns, once it has left, or not at all.
LEMMA ReapStep ==
    ASSUME Inv, GiveUp \/ TryWait \/ TryWaitFails \/ Kill \/ Wait \/ WaitFails
    PROVE  Inv'
<1> USE ProcessAssumption DEF Inv, TypeOK, CutIsFlagged, CleanReturn, NothingCutShort,
        ClosedAfter, ReapedAtReturn, KilledFirst, NothingMissedBefore, InputServed, Looping,
        After, Held,
        Running, output, ending, system, closing, verdict, Outputs, Streams, Results, Processes
<1>1. CASE GiveUp
  BY <1>1 DEF GiveUp
<1>2. CASE TryWait
  <2>1. CASE Running(Child)
    <3>1. tries' \in 0..MaxTries
      BY <1>2, <2>1 DEF TryWait
    <3> QED
      BY <1>2, <2>1, <3>1 DEF TryWait
  <2>2. CASE ~Running(Child)
    <3>1. /\ pc' = "returned" /\ reaped' = TRUE /\ tries' = tries
          /\ UNCHANGED <<ready, late, input, output, unwaited, system, closing, verdict>>
      BY <1>2, <2>2 DEF TryWait, Reaped
    <3>2. open = {} /\ ready = {} /\ pc = "reap"
      BY <1>2 DEF TryWait
    <3>3. TypeOK' /\ CutIsFlagged'
      BY <3>1, <3>2
    <3>4. CleanReturn' /\ NothingCutShort' /\ ClosedAfter'
            /\ ReapedAtReturn' /\ KilledFirst' /\ NothingMissedBefore' /\ InputServed'
      BY <2>2, <3>1, <3>2
    <3> QED
      BY <3>3, <3>4
  <2> QED
    BY <2>1, <2>2
<1>3. CASE Kill
  BY <1>3 DEF Kill, Leave
<1>4. CASE Wait
  BY <1>4 DEF Wait, Reaped
<1>5. CASE TryWaitFails
  BY <1>5 DEF TryWaitFails
<1>6. CASE WaitFails
  BY <1>6 DEF WaitFails
<1> QED
  BY <1>1, <1>2, <1>3, <1>4, <1>5, <1>6

\* What the command does: nobody gets the input back once all have closed it.
LEMMA CommandStep ==
    ASSUME Inv, Command \/ \E s \in Outputs : Write(s)
    PROVE  Inv'
<1> USE ProcessAssumption DEF Inv, TypeOK, CutIsFlagged, CleanReturn, NothingCutShort,
        ClosedAfter, ReapedAtReturn, KilledFirst, NothingMissedBefore, InputServed, Looping,
        After, Held,
        Running, output, ending, system, closing, verdict, Outputs, Streams, Results, Processes
<1>1. CASE ReadInput
  BY <1>1 DEF ReadInput
<1>2. ASSUME NEW p \in Processes, Exit(p)
      PROVE  Inv'
  BY <1>2 DEF Exit, Leave
<1>3. ASSUME NEW p \in Processes, NEW s \in Streams, CloseStream(p, s)
      PROVE  Inv'
  BY <1>3 DEF CloseStream
<1>4. ASSUME NEW p \in Processes, NEW q \in Others, Start(p, q)
      PROVE  Inv'
  BY <1>4 DEF Start
<1>5. ASSUME NEW s \in Outputs, Write(s)
      PROVE  Inv'
  BY <1>5 DEF Write
<1> QED
  BY <1>1, <1>2, <1>3, <1>4, <1>5 DEF Command

\* Inv is an invariant.
LEMMA CommandInvariance == Spec => []Inv
<1>1. Init => Inv
  <2>1. Init => TypeOK
    <3>1. 0 \in 0..MaxOutput /\ 0 \in 0..MaxTries /\ \A s \in Streams : 0 <= PipeSize[s]
      BY ProcessAssumption DEF Streams, Outputs
    <3>2. Init => /\ captured \in [Results -> 0..MaxOutput]
                  /\ truncated \in [Results -> BOOLEAN]
      BY <3>1 DEF Init
    <3>3. Init => /\ pipe \in [Streams -> Nat] /\ \A s \in Streams : pipe[s] <= PipeSize[s]
                  /\ holders \in [Streams -> SUBSET Processes]
      BY <3>1 DEF Init
    <3>4. Init => proc \in [Processes -> {"unborn", "running", "gone"}]
      BY DEF Init
    <3> QED
      BY <3>1, <3>2, <3>3, <3>4, ProcessAssumption DEF Init, TypeOK
  <2>2. Init => CutIsFlagged /\ CleanReturn /\ NothingCutShort
    BY ProcessAssumption DEF Init, CutIsFlagged, CleanReturn, NothingCutShort
  <2>3. Init => ClosedAfter /\ ReapedAtReturn /\ KilledFirst /\ NothingMissedBefore /\ InputServed
    BY DEF Init, ClosedAfter, ReapedAtReturn, KilledFirst, NothingMissedBefore,
       InputServed, Looping, After
  <2> QED
    BY <2>1, <2>2, <2>3 DEF Inv
<1>2. Inv /\ [Next]_vars => Inv'
  <2> SUFFICES ASSUME Inv, [Next]_vars
               PROVE  Inv'
    OBVIOUS
  <2>1. CASE Parent
    BY <2>1, StartStep, LeavingStep, ServeStep, ReapStep DEF Parent
  <2>2. CASE Fails \/ Deadline
    BY <2>2, StartStep, LeavingStep, ReapStep DEF Fails
  <2>3. CASE Command \/ \E s \in Outputs : Write(s)
    BY <2>3, CommandStep
  <2>4. CASE UNCHANGED vars
    BY <2>4 DEF vars, output, ending, system, closing, verdict, Inv, TypeOK, CutIsFlagged,
       CleanReturn, NothingCutShort, ClosedAfter, ReapedAtReturn, KilledFirst, NothingMissedBefore,
       InputServed, Looping, After, Held, Running
  <2> QED
    BY <2>1, <2>2, <2>3, <2>4 DEF Next
<1> QED
  BY <1>1, <1>2, PTL DEF Spec

\* Every variable of run_command has its type, and what is captured its bound.
THEOREM CommandTypes == Spec => []TypeOK
BY CommandInvariance, PTL DEF Inv

\* A result is flagged exactly when it is full, and nothing is dropped of one that
\* is not flagged.
THEOREM CutOutputIsFlagged == Spec => []CutIsFlagged
BY CommandInvariance, PTL DEF Inv

\* Without a timeout or an error of poll, all output was read until its writers
\* closed it, and all input was written as long as anybody could read it.
THEOREM NothingIsCutShort == Spec => []NothingCutShort
BY CommandInvariance, PTL DEF Inv

\* Execute returns with every stream closed and a shell that does not run, reaped
\* once unless the last waitpid, which is not looked at, came back without it.
THEOREM ReturnIsClean == Spec => []CleanReturn
BY CommandInvariance, PTL DEF Inv
=============================================================================
