---------------------------- MODULE ResponseStream ----------------------------
(***************************************************************************)
(* web_app.py, _response with "stream": true: one streamed response, from  *)
(* the first provider stream to the stored entry.  map_provider_events     *)
(* turns provider events into numbered SSE events; the handler withholds   *)
(* the mapper's response.completed, runs hosted tools and asks the model   *)
(* again, up to MaxRounds times, in the same HTTP response.                *)
(*                                                                         *)
(* Routing and leases are in Gateway: here a fallback is one more tier to  *)
(* try.  Reasoning and usage events reach the client with the completed    *)
(* response only and are left out.  Writes that follow one another with    *)
(* nothing in between are one step.                                        *)
(***************************************************************************)
EXTENDS Integers, Sequences, FiniteSets, SequencesExt

CONSTANTS
  Hosted,        \* tool calls the worker runs: adapted.hosted_tool_names
  Client,        \* tool calls it passes on to the client
  MaxRounds,     \* max_tool_rounds
  MaxDeltas,     \* bound on the text deltas of a round
  MaxTiers,      \* how many tiers resolve_gateway_fallback still has
  StartsFirst,   \* providers yield "started" before they connect
  None

\* Both providers start first (ollama.py, openai_compatible.py); the provider of
\* tests/test_openai_api.py may fail before it starts.
ASSUME StreamAssumption ==
  /\ Hosted \cap Client = {}
  /\ IsFiniteSet(Hosted \cup Client)
  /\ MaxRounds \in Nat \ {0}
  /\ MaxDeltas \in Nat
  /\ MaxTiers \in Nat
  /\ StartsFirst \in BOOLEAN

VARIABLES
  pc,          \* where the handler is
  round,       \* _tool_round
  tiers,       \* fallbacks left
  connected,   \* whether the client still reads
  sent,        \* what it was sent: events, or an error response
  last,        \* last_sequence
  parts,       \* text_parts of the round's mapper
  prior,       \* prior_text
  completed,   \* completed_response: its output_text, or None
  calls,       \* tool_calls_event of the round
  asked,       \* accumulated_stream_calls: all calls of the rounds so far
  messages,    \* tool messages added to provider_request
  stored,      \* the messages RESPONSE_STATE.put was given ("store" is true), or None
  unrecorded   \* history: the statistics of a completed response were not written

vars == <<pc, round, tiers, connected, sent, last, parts, prior, completed, calls,
          asked, messages, stored, unrecorded>>

\* A text is the sequence of its deltas: the i-th of a round is <<round, i>>.
Text == Seq(Nat \X Nat)
Call == (0 .. MaxRounds - 1) \X (Hosted \cup Client)

Event(type, n, text) == [type |-> type, number |-> n, text |-> text]
MapperEvents(n, text) ==
  <<Event("text.done", n, text), Event("part.done", n + 1, text),
    Event("item.done", n + 2, text)>>
Preamble ==
  <<Event("created", 0, <<>>), Event("item.added", 1, <<>>),
    Event("part.added", 2, <<>>)>>
ErrorResponse == Event("error", -1, <<>>)

Init ==
  /\ pc = "opening"
  /\ round = 0
  /\ tiers = MaxTiers
  /\ connected = TRUE
  /\ sent = <<>>
  /\ last = -1
  /\ parts = <<>>
  /\ prior = <<>>
  /\ completed = None
  /\ calls = {}
  /\ asked = <<>>
  /\ messages = <<>>
  /\ stored = None
  /\ unrecorded = FALSE

Disconnect ==
  /\ pc # "ended"
  /\ connected
  /\ connected' = FALSE
  /\ UNCHANGED <<pc, round, tiers, sent, last, parts, prior, completed, calls, asked,
                 messages, stored, unrecorded>>

\* A mutant of HangUp: only the loop over the mapper's events is guarded.
HangUpStreaming ==
  /\ pc = "streaming"
  /\ ~connected
  /\ pc' = "ended"
  /\ UNCHANGED <<round, tiers, connected, sent, last, parts, prior, completed, calls,
                 asked, messages, stored, unrecorded>>

\* A write that raises BrokenPipeError ends the handler; closing the provider's
\* generator closes its HTTP stream.
HangUp ==
  /\ pc \in {"opening", "streaming", "client"}
  /\ ~connected
  /\ pc' = "ended"
  /\ UNCHANGED <<round, tiers, connected, sent, last, parts, prior, completed, calls,
                 asked, messages, stored, unrecorded>>

\* The first provider event is there: in the first round the headers follow, and
\* what the mapper yields before it looks at the provider's events.
Open ==
  /\ pc = "opening"
  /\ connected
  /\ \/ /\ round = 0
        /\ sent' = Preamble
        /\ last' = 2
     \/ /\ round > 0
        /\ UNCHANGED <<sent, last>>
  /\ parts' = <<>>
  /\ pc' = "streaming"
  /\ UNCHANGED <<round, tiers, connected, prior, completed, calls, asked, messages,
                 stored, unrecorded>>

\* next() raises: another tier, or the error goes up to do_POST, which answers
\* with an error response whether or not the headers have gone out.
OpenFails ==
  /\ pc = "opening"
  /\ connected
  /\ ~StartsFirst
  /\ \/ /\ tiers > 0
        /\ tiers' = tiers - 1
        /\ UNCHANGED <<pc, sent>>
     \/ /\ tiers = 0
        /\ sent' = Append(sent, ErrorResponse)
        /\ pc' = "ended"
        /\ UNCHANGED tiers
  /\ UNCHANGED <<round, connected, last, parts, prior, completed, calls, asked,
                 messages, stored, unrecorded>>

Delta ==
  /\ pc = "streaming"
  /\ connected
  /\ Len(parts) < MaxDeltas
  /\ LET delta == <<round, Len(parts) + 1>>
     IN  /\ parts' = Append(parts, delta)
         /\ sent' = Append(sent, Event("delta", last + 1, <<delta>>))
  /\ last' = last + 1
  /\ UNCHANGED <<pc, round, tiers, connected, prior, completed, calls, asked, messages,
                 stored, unrecorded>>

\* Mutants: the text of earlier rounds is forgotten; the number of the event that
\* is withheld is used twice.
OwnText == parts
LastSent == last + 2

FullText == prior \o parts
LastMapped == last + 4

\* The provider fails after the headers: response.failed, and nothing is stored.
StreamFails ==
  /\ pc = "streaming"
  /\ connected
  /\ sent' = Append(sent, Event("failed", last + 1, <<>>))
  /\ pc' = "ended"
  /\ UNCHANGED <<round, tiers, connected, last, parts, prior, completed, calls, asked,
                 messages, stored, unrecorded>>

\* The provider completes (no calls), or asks for tools, which comes last too: in
\* both cases the mapper closes the message; its response.completed is withheld.
StreamEnds(requested) ==
  /\ pc = "streaming"
  /\ connected
  /\ calls' = requested
  /\ sent' = sent \o MapperEvents(last + 1, FullText)
  /\ last' = LastMapped
  /\ completed' = FullText
  /\ pc' = CASE requested = {}          -> "finishing"
             [] requested \cap Client # {} -> "client"
             [] OTHER                   -> "tools"
  /\ UNCHANGED <<round, tiers, connected, parts, prior, asked, messages, stored,
                 unrecorded>>

\* The calls of a round; their order is immaterial.
Called(names) ==
  LET order == SetToSeq(names)
  IN  [i \in 1 .. Len(order) |-> <<round, order[i]>>]

\* The output item of the first call is constructed with status "in_progress",
\* which ResponseFunctionCall does not have: ValidationError goes up to do_POST.
PassCallsOn ==
  /\ pc = "client"
  /\ connected
  /\ asked' = asked \o Called(calls \cap Client)
  /\ sent' = Append(sent, ErrorResponse)
  /\ pc' = "ended"
  /\ UNCHANGED <<round, tiers, connected, last, parts, prior, completed, calls, messages,
                 stored, unrecorded>>

\* Messages a provider is sent with the next request; what a tool returns is left out.
Message(kind, call, text) == [kind |-> kind, call |-> call, text |-> text]

\* Each call is followed by its output.
Answered(names) ==
  [i \in 1 .. 2 * Len(Called(names)) |->
     Message(IF i % 2 = 1 THEN "call" ELSE "output", Called(names)[(i + 1) \div 2], <<>>)]

\* A mutant of NextRound: there is always one more.
AnotherRound ==
  /\ round' = round + 1
  /\ pc' = "opening"

NextRound ==
  \/ /\ round + 1 < MaxRounds
     /\ round' = round + 1
     /\ pc' = "opening"
  \/ /\ round + 1 = MaxRounds
     /\ pc' = "finishing"
     /\ UNCHANGED round

RunTools ==
  /\ pc = "tools"
  /\ messages' = messages \o Answered(calls)
  /\ asked' = asked \o Called(calls)
  /\ prior' = completed
  /\ completed' = None
  /\ NextRound
  /\ UNCHANGED <<tiers, connected, sent, last, parts, calls, stored, unrecorded>>

\* The assistant's answer in the history: the whole text, with every call of the
\* rounds in turn, or once if there was none.
Answers(text) ==
  IF asked = <<>>
  THEN <<Message("answer", None, text)>>
  ELSE [i \in 1 .. Len(asked) |-> Message("answer", asked[i], text)]

CompletedEvent == Event("completed", last + 1, completed)

\* A response that is complete is sent, if the client is there; its statistics are
\* written, and it is stored.  When the statistics cannot be written OSError goes
\* up to do_POST: an error response follows the completed event, and nothing is
\* stored.
Finish ==
  /\ pc = "finishing"
  /\ \/ /\ completed = None
        /\ UNCHANGED <<sent, stored, unrecorded>>
     \/ /\ completed # None
        /\ sent' = IF connected THEN Append(sent, CompletedEvent) ELSE sent
        /\ stored' = messages \o Answers(completed)
        /\ UNCHANGED unrecorded
     \/ /\ completed # None
        /\ sent' = IF connected THEN Append(Append(sent, CompletedEvent), ErrorResponse)
                   ELSE sent
        /\ unrecorded' = TRUE
        /\ UNCHANGED stored
  /\ pc' = "ended"
  /\ UNCHANGED <<round, tiers, connected, last, parts, prior, completed, calls, asked,
                 messages>>

Handler ==
  \/ HangUp
  \/ Open
  \/ OpenFails
  \/ Delta
  \/ StreamFails
  \/ \E requested \in SUBSET (Hosted \cup Client) : StreamEnds(requested)
  \/ PassCallsOn
  \/ RunTools
  \/ Finish

Next == Handler \/ Disconnect

Spec == Init /\ [][Next]_vars

\* Provider calls and hosted tools have timeouts, so the handler always goes on.
FairSpec == Spec /\ WF_vars(Handler)

-----------------------------------------------------------------------------

TypeOK ==
  /\ pc \in {"opening", "streaming", "tools", "client", "finishing", "ended"}
  /\ round \in 0 .. MaxRounds - 1
  /\ tiers \in 0 .. MaxTiers
  /\ connected \in BOOLEAN
  /\ \A i \in DOMAIN sent :
       /\ sent[i].type \in {"created", "item.added", "part.added", "delta", "text.done",
                            "part.done", "item.done", "completed", "failed", "error"}
       /\ sent[i].number \in Nat \cup {-1}
  /\ last \in Nat \cup {-1}
  /\ parts \in Text
  /\ prior \in Text
  /\ completed \in Text \cup {None}
  /\ calls \subseteq Hosted \cup Client
  /\ asked \in Seq(Call)
  /\ \A i \in DOMAIN messages :
       messages[i].kind \in {"call", "output"} /\ messages[i].call \in Call
  /\ unrecorded \in BOOLEAN

Sent(type) == {i \in DOMAIN sent : sent[i].type = type}
Endings == Sent("completed") \cup Sent("failed") \cup Sent("error")

\* The statistics failed after the completed event: the error response follows it.
EndsTwice(i) ==
  /\ unrecorded
  /\ stored = None
  /\ sent[i].type = "completed"
  /\ i + 1 = Len(sent)
  /\ sent[i + 1].type = "error"

\* Events are numbered in the order they are sent, through tool rounds, withheld
\* events and failures: no number is used twice, and nothing follows an ending, but
\* for the one error response when the statistics of a completed response cannot be
\* written (web_app.py:1488), which is then not stored.
EventsInOrder ==
  /\ \A i, j \in DOMAIN sent \ Sent("error") : i < j => sent[i].number < sent[j].number
  /\ \A i \in Endings : i = Len(sent) \/ EndsTwice(i)

\* The events tell the text: its k-th part is the k-th delta, and there are no more.
Tells(events, text) ==
  LET deltas == {i \in DOMAIN events : events[i].type = "delta"}
  IN  /\ Len(text) = Cardinality(deltas)
      /\ \A i \in deltas :
           events[i].text = <<text[Cardinality({j \in deltas : j <= i})]>>

\* The text a client puts together from the deltas is the text of the completed
\* response and of every answer in the history stored for the next one, which ends
\* with one, whichever rounds the text was produced in.
TextIsWhatWasSent ==
  /\ \A i \in Sent("completed") : Tells(sent, sent[i].text)
  /\ stored # None =>
       /\ stored[Len(stored)].kind = "answer"
       /\ \A i \in DOMAIN stored :
            stored[i].kind = "answer" => Tells(sent, stored[i].text)

\* Every stream ends, however many tool calls the model asks for.
EveryStreamEnds == <>(pc = "ended")

\* docs/codex_model_provider.md: "Hosted web calls are executed by the Worker and
\* returned to the model before the stream continues": a stream nobody cut off
\* ends with response.completed or response.failed.
HostedCallsAreAnswered ==
  pc = "ended" /\ connected /\ calls \cap Client = {} => Endings # {}

\* README.md: "Set store: true to make a response available for continuation":
\* the calls of the stored answers are for the client to answer, and the worker has
\* not answered them already.
StoredCallsAreOpen ==
  stored # None =>
    \A i, j \in DOMAIN stored :
      stored[i].kind = "answer" /\ stored[j].kind = "output" =>
        stored[i].call # stored[j].call

=============================================================================
