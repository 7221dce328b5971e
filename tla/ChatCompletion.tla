---------------------------- MODULE ChatCompletion ----------------------------
(***************************************************************************)
(* web_app.py, _chat_completion: a chat completion, streamed or not, and   *)
(* the provider it drives.  The provider's stream is a generator: it runs  *)
(* when the handler takes the next event, which the handler first passes   *)
(* on.  Beside the one chat that is followed here, other users of a        *)
(* provider (the worker, responses) are in Provider.                       *)
(*                                                                         *)
(* Both providers yield started before they connect, so the first event is *)
(* always there and the loop that looks for another tier before the        *)
(* headers are sent is left at once; see Provider's Started.               *)
(***************************************************************************)
EXTENDS Provider

CONSTANT MaxTiers   \* how many tiers resolve_gateway_fallback may still find

ASSUME ChatAssumption == MaxTiers \in Nat

VARIABLES
  handler,    \* where the handler of the chat is
  asked,      \* the call it makes, or None
  tiers,      \* tiers left to fall back to
  connected,  \* whether the client still reads
  taken,      \* how many provider events the handler has passed on
  wire,       \* what the client was sent
  recorded    \* what record_model_call made of the outcomes given with metadata

chat == <<handler, asked, tiers, connected, taken, wire, recorded>>
chatVars == <<vars, chat>>

ChatShapes ==
  {c \in CallShapes : c.via = "events" \/ (c.via = "text" /\ ~c.streamed)}

ChatInit ==
  /\ Init
  /\ handler = "free"
  /\ asked = None
  /\ tiers \in 0 .. MaxTiers
  /\ connected = TRUE
  /\ taken = 0
  /\ wire = <<>>
  /\ recorded = <<>>

-----------------------------------------------------------------------------
(* The provider is called *)

\* create_provider: routing has chosen one, or a fallback has.
NewProvider ==
  /\ kind' \in {"ollama", "openai"}
  /\ call' = None
  /\ emitted' = <<>>
  /\ metadata' = None
  /\ outcome' = "none"
  /\ UNCHANGED <<pc, count, asking, sequence, heard, calls>>

\* Room is left for the calls of the chat (MaxCalls is a bound).
Route(c) ==
  /\ handler = "free"
  /\ pc = "idle"
  /\ count + tiers < MaxCalls
  /\ NewProvider
  /\ handler' = "routed"
  /\ asked' = c
  /\ UNCHANGED <<tiers, connected, taken, wire, recorded>>

Ask ==
  /\ \/ handler = "routed" /\ handler' = IF asked.streamed THEN "streaming" ELSE "waiting"
     \/ handler = "fallback" /\ handler' = "last"
  /\ Begin(asked)
  /\ UNCHANGED <<metadata, asked, tiers, connected, taken, wire, recorded>>

\* next() of the generator, or the work of chat().
Pull ==
  /\ handler \in {"streaming", "waiting", "last"}
  /\ taken = Len(emitted)
  /\ Step
  /\ UNCHANGED chat

Disconnect ==
  /\ handler \notin {"free", "ended"}
  /\ connected
  /\ connected' = FALSE
  /\ UNCHANGED <<vars, handler, asked, tiers, taken, wire, recorded>>

Leave(chunks) ==
  /\ handler' = "ended"
  /\ wire' = IF connected THEN wire \o chunks ELSE wire
  /\ UNCHANGED <<asked, tiers, connected, taken>>

-----------------------------------------------------------------------------
(* A streamed chat *)

Chunks(type) ==
  CASE type = "started"         -> <<"headers", "role">>
    [] type = "reasoning_delta" -> <<"reasoning_content">>
    [] type = "text_delta"      -> <<"content">>
    [] type = "tool_calls"      -> <<"tool_calls">>
    [] OTHER                    -> <<>>

Forward ==
  /\ handler = "streaming"
  /\ taken < Len(emitted)
  /\ LET chunks == Chunks(emitted[taken + 1].type)
     IN  /\ connected \/ chunks = <<>>
         /\ wire' = wire \o chunks
  /\ taken' = taken + 1
  /\ UNCHANGED <<vars, handler, asked, tiers, connected, recorded>>

\* A chunk cannot be written: the handler returns and the generator is closed.
HangUp ==
  /\ handler = "streaming"
  /\ taken < Len(emitted)
  /\ ~connected
  /\ Chunks(emitted[taken + 1].type) # <<>>
  /\ Leave(<<>>)
  /\ Close
  /\ UNCHANGED recorded

\* A mutant of StreamEnding: the error is not written.
StreamEndingQuiet(result) ==
  IF result = "answered" THEN <<"final", "DONE">> ELSE <<"DONE">>

StreamEnding(result) ==
  CASE result = "answered" -> <<"final", "DONE">>
    [] result = "failed"   -> <<"error", "DONE">>
    [] OTHER               -> <<>>

\* record_model_call does nothing without metadata, and raises an OSError when the
\* statistics cannot be written (UsageStatistics has the ways).
Record(result) ==
  \E entry \in {result, "unwritten"} :
    recorded' = IF metadata = None THEN recorded ELSE Append(recorded, entry)

\* What the client is sent after a record: do_POST turns its OSError into a refusal,
\* which on an open event stream is one more thing to read.
OrRefusal(ending) == IF "unwritten" \in Range(recorded') THEN <<"refusal">> ELSE ending

\* The generator has returned or raised.  A failure is recorded before the client
\* is told, a success after; what is not a WorkerError ends the thread.
EndStream ==
  /\ handler = "streaming"
  /\ taken = Len(emitted)
  /\ pc = "idle"
  /\ \/ /\ outcome = "failed"
        /\ Record("failed")
        /\ Leave(OrRefusal(StreamEnding(outcome)))
     \/ /\ outcome = "answered" /\ connected
        /\ Record("completed")
        /\ Leave(StreamEnding(outcome) \o OrRefusal(<<>>))
     \/ /\ outcome = "answered" => ~connected
        /\ outcome # "failed"
        /\ UNCHANGED recorded
        /\ Leave(StreamEnding(outcome))
  /\ UNCHANGED vars

-----------------------------------------------------------------------------
(* A chat without a stream *)

\* A mutant of NextTier: a tier is taken where there is none.
NextTierAnyway == tiers' = tiers - 1

NextTier ==
  /\ tiers > 0
  /\ tiers' = tiers - 1

\* chat() has failed: one more tier is tried, after a record that raises nothing.
FallBack ==
  /\ handler = "waiting"
  /\ pc = "idle"
  /\ outcome = "failed"
  /\ NextTier
  /\ Record("failed")
  /\ "unwritten" \notin Range(recorded')
  /\ NewProvider
  /\ handler' = "fallback"
  /\ UNCHANGED <<asked, connected, taken, wire>>

\* A mutant of GivesUp: the failure of the fallback is forgotten.
GivesUpFirst == outcome = "failed" /\ handler = "waiting" /\ tiers = 0

GivesUp ==
  /\ outcome = "failed"
  /\ ~(handler = "waiting" /\ tiers > 0 /\ "unwritten" \notin Range(recorded'))

\* The first failure is recorded, the second is not; what is raised, by the provider
\* or by the record, is refused.
Refuse ==
  /\ handler \in {"waiting", "last"}
  /\ pc = "idle"
  /\ IF handler = "waiting" THEN Record("failed") ELSE UNCHANGED recorded
  /\ GivesUp
  /\ Leave(<<"refusal">>)
  /\ UNCHANGED vars

\* The message is made of the text and the metadata, and sent when the record is
\* made; an exception that do_POST does not know ends the thread.
Reply ==
  /\ handler \in {"waiting", "last"}
  /\ pc = "idle"
  /\ \/ outcome = "answered" /\ Record("completed") /\ Leave(OrRefusal(<<"message">>))
     \/ outcome = "stray" /\ UNCHANGED recorded /\ Leave(<<>>)
  /\ UNCHANGED vars

-----------------------------------------------------------------------------

Chat ==
  \/ Ask
  \/ Pull
  \/ Forward
  \/ HangUp
  \/ EndStream
  \/ FallBack
  \/ Refuse
  \/ Reply

ChatNext ==
  \/ \E c \in ChatShapes : Route(c)
  \/ Chat
  \/ Disconnect
  \/ handler = "free" /\ Next /\ UNCHANGED chat

ChatSpec == ChatInit /\ [][ChatNext]_chatVars

\* The handler is a thread, and so is whoever else uses the provider.
FairChatSpec == ChatSpec /\ WF_chatVars(Chat) /\ WF_chatVars(Step /\ UNCHANGED chat)

-----------------------------------------------------------------------------

ChatTypeOK ==
  /\ TypeOK
  /\ handler \in {"free", "routed", "streaming", "waiting", "fallback", "last", "ended"}
  /\ asked \in ChatShapes \cup {None}
  /\ tiers \in 0 .. MaxTiers
  /\ connected \in BOOLEAN
  /\ taken \in 0 .. Len(emitted)
  /\ Range(wire) \subseteq {"headers", "role", "content", "reasoning_content",
                            "tool_calls", "final", "error", "DONE", "message", "refusal"}
  /\ Range(recorded) \subseteq {"completed", "failed", "unwritten"}

Chunk(line) == IF line = "text" THEN "content" ELSE "reasoning_content"
Rank(indices, i) == Cardinality({j \in indices : j <= i})

\* A streamed chat that ends well has given the client what the server said, once
\* and in that order: through retries nothing of it is lost, doubled or mixed up,
\* calls the server made are there too, and Ollama had said that it was done.
ClientGetsTheAnswer ==
  "final" \in Range(wire) =>
    LET said == {i \in DOMAIN heard : heard[i] \in {"text", "reasoning"}}
        told == {i \in DOMAIN wire : wire[i] \in {"content", "reasoning_content"}}
    IN  /\ Cardinality(told) = Cardinality(said)
        /\ \A i \in told, j \in said :
             Rank(told, i) = Rank(said, j) => wire[i] = Chunk(heard[j])
        /\ Count(heard, "call") > 0 => Count(wire, "tool_calls") = 1
        /\ kind = "ollama" => Count(heard, "done") = 1

\* A client that stays is told how its chat ended: once, well only if the provider
\* answered, and as the record has it.  Two things spoil that.  When the answer is
\* not recorded because the statistics cannot be written, the chat ends with a
\* refusal, in place of the message or after the end of the stream.  And an
\* exception that do_POST does not know leaves the client without an ending, and
\* without a record.  A failure has no record, or there would be two: a provider
\* that has just been created has no metadata when it fails.
ClientIsTold ==
  handler = "ended" /\ connected =>
    \/ /\ outcome = "answered"
       /\ recorded \in {<<>>, <<"completed">>}
       /\ Count(wire, "message") + Count(wire, "final") = 1
       /\ {"error", "refusal"} \cap Range(wire) = {}
       /\ "final" \in Range(wire) => recorded # <<>>
    \/ /\ outcome = "answered"
       /\ recorded = <<"unwritten">>
       /\ Count(wire, "refusal") = 1 /\ wire[Len(wire)] = "refusal"
       /\ {"error", "message"} \cap Range(wire) = {}
    \/ /\ outcome = "failed"
       /\ recorded = <<>>
       /\ Count(wire, "refusal") + Count(wire, "error") = 1
       /\ {"final", "message"} \cap Range(wire) = {}
    \/ /\ outcome = "stray"
       /\ recorded = <<>>
       /\ {"final", "message", "error", "refusal", "DONE"} \cap Range(wire) = {}

\* The handler, which holds the inference queue, always ends.
EveryChatEnds == handler = "routed" ~> handler = "ended"

=============================================================================
