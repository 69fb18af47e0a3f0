------------------------------ MODULE SseLines ------------------------------
(***************************************************************************)
(* What ChunkCompletionProcessor makes of a streamed reply when the lines  *)
(* of the reply reach it whole and in order                                *)
(* (psittacula-cli/src/chunk_completion_processor.cpp).  SseStream shows   *)
(* that this is so however the network cuts the reply.                     *)
(*                                                                         *)
(* A line is a record:                                                     *)
(*     kind    "data"   "data:" and JSON, with the fields below            *)
(*             "error"  JSON alone, an error reported by the server        *)
(*             "other"  all that is skipped: short lines, comments, names  *)
(*                      of events, "data: [DONE]", what does not parse     *)
(*     think   pieces of delta.reasoning_content, reasoning or thinking    *)
(*     text    pieces of delta.content                                     *)
(*     calls   delta.tool_calls: records of index, name (NoName when it    *)
(*             is missing) and args, pieces of the arguments               *)
(* A piece of the arguments is a pair: the call it belongs to, its number. *)
(***************************************************************************)
EXTENDS Integers, Sequences

CONSTANTS NoName

VARIABLES
    lines,   \* the reply
    taken,   \* how many lines reached the processor
    reply    \* what it has gathered

NoCall == [name |-> NoName, args |-> <<>>]

\* m_reasoning_in_process, m_reasoning, m_message, m_tools, m_current_tool, HasErrors.
Nothing == [thinking |-> TRUE, reasoning |-> <<>>, message |-> <<>>, tools |-> <<>>,
            current |-> NoCall, failed |-> FALSE]

-----------------------------------------------------------------------------

\* CheckReasoning comes before CheckMessage: reasoning is ignored after the
\* first text.
WithReasoning(r, line) ==
    IF r.thinking THEN [r EXCEPT !.reasoning = @ \o line.think] ELSE r

WithMessage(r, line) ==
    [r EXCEPT !.message = @ \o line.text, !.thinking = @ /\ line.text = <<>>]

\* Calls that were begun, m_current_tool with them.
Begun(r) == IF r.current.name = NoName THEN r.tools ELSE Append(r.tools, r.current)

\* CheckTools: a name begins the next call, whatever its index.
\* Mutant: the arguments of the call before are kept.
WithCallUncleared(r, c) ==
    IF c.name = NoName THEN [r EXCEPT !.current.args = @ \o c.args]
    ELSE [r EXCEPT !.tools = Begun(r),
                   !.current = [name |-> c.name, args |-> @.args \o c.args]]
WithCall(r, c) ==
    IF c.name = NoName THEN [r EXCEPT !.current.args = @ \o c.args]
    ELSE [r EXCEPT !.tools = Begun(r), !.current = [name |-> c.name, args |-> c.args]]

WithCalls(r, line) ==
    LET upTo[n \in 0..Len(line.calls)] ==
            IF n = 0 THEN r ELSE WithCall(upTo[n - 1], line.calls[n])
    IN  upTo[Len(line.calls)]

\* ProcessChunk.
Processed(r, line) ==
    CASE line.kind = "data" -> WithCalls(WithMessage(WithReasoning(r, line), line), line)
      [] line.kind = "error" -> [r EXCEPT !.failed = TRUE]
      [] OTHER -> r

\* What is gathered after the first n lines.
Gathered(ls) ==
    LET upTo[n \in 0..Len(ls)] ==
            IF n = 0 THEN Nothing ELSE Processed(upTo[n - 1], ls[n])
    IN  upTo

-----------------------------------------------------------------------------

Init == taken = 0 /\ reply = Nothing

\* Lines arrive one or several at a time.
Take ==
    /\ taken' \in taken..Len(lines)
    /\ reply' = Gathered(lines)[taken']
    /\ UNCHANGED lines

Spec == Init /\ [][Take]_<<lines, taken, reply>>

=============================================================================
