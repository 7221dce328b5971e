--------------------------- MODULE ProviderContract ---------------------------
(***************************************************************************)
(* What a caller of LlmProvider.stream may rely on. providers/base.py asks *)
(* that the events of one generator start with started, end with completed *)
(* and are numbered without a gap; both providers also send the usage once,*)
(* after the deltas, and the calls, if any, after the usage.               *)
(* A generator may stop anywhere, by an error or because it is closed; it  *)
(* then never says completed.                                              *)
(***************************************************************************)
EXTENDS Naturals, Sequences

VARIABLES
  emitted,  \* the events of the generator that was started last
  status    \* what has become of it

vars == <<emitted, status>>

Deltas == {"text_delta", "reasoning_delta"}
Types == Deltas \cup {"started", "usage", "tool_calls", "completed"}

ProviderEvent == [type : Types, sequence : Nat]

\* The types an event may follow; "nothing" stands for the start.
After(type) ==
  CASE type = "started"            -> {"nothing"}
    [] type \in Deltas \cup {"usage"} -> {"started"} \cup Deltas
    [] type = "tool_calls"         -> {"usage"}
    [] type = "completed"          -> {"usage", "tool_calls"}

LastType == IF emitted = <<>> THEN "nothing" ELSE emitted[Len(emitted)].type

Init ==
  /\ emitted = <<>>
  /\ status = "idle"

\* An earlier generator that has not ended is abandoned.
Begin ==
  /\ emitted' = <<>>
  /\ status' = "running"

Emit(type) ==
  /\ status = "running"
  /\ LastType \in After(type)
  /\ emitted' = Append(emitted, [type |-> type, sequence |-> Len(emitted)])
  /\ status' = IF type = "completed" THEN "completed" ELSE "running"

Stop ==
  /\ status = "running"
  /\ status' = "stopped"
  /\ UNCHANGED emitted

\* The provider is used without a stream.
Rest ==
  /\ emitted' = <<>>
  /\ status' = "idle"

Next ==
  \/ Begin
  \/ \E type \in Types : Emit(type)
  \/ Stop
  \/ Rest

Spec == Init /\ [][Next]_vars

=============================================================================
