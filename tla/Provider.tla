------------------------------- MODULE Provider -------------------------------
(***************************************************************************)
(* providers/ollama.py, providers/openai_compatible.py and                 *)
(* providers/adapter.py: one provider object and the calls it serves, one  *)
(* after the other.  A call is made through stream() (the gateway's        *)
(* streams), chat() (chat completions and the worker's generate) or        *)
(* CanonicalProviderAdapter.complete (responses, whose tool rounds use the *)
(* same object).  A call may take several HTTP requests: what the server   *)
(* rejects with status 400 is asked again with less.                       *)
(*                                                                         *)
(* A request is what it asks for beside the messages: "tools", "format".   *)
(* An answer is the sequence of the lines that carry something; the text   *)
(* of a line is one unit of max_output_characters.                         *)
(***************************************************************************)
EXTENDS Naturals, Sequences, FiniteSets, SequencesExt

CONSTANTS
  MaxCalls,    \* bound on the calls of one run
  MaxLines,    \* bound on the lines of an answer
  Limit,       \* max_output_characters
  None

VARIABLES
  kind,        \* the class of the provider: "ollama" or "openai"
  pc,          \* where the call is
  call,        \* what was asked, or None
  count,       \* how many calls were made
  body,        \* what the current request asks for
  retryTools,  \* retry_without_tools
  again,       \* whether chat() is in its second _chat_once (openai)
  sequence,    \* the number of the next event
  emitted,     \* events of the current generator
  heard,       \* lines of the answer to the current request
  calls,       \* whether the finished answer asks for tools
  metadata,    \* last_generation_metadata: the call it describes, or None
  outcome      \* what has become of the last call

asking == <<body, retryTools, again>>
vars == <<kind, pc, call, count, asking, sequence, emitted, heard, calls, metadata,
          outcome>>

Parts == {"tools", "format"}

\* The calls that are made: streamed chat completions and responses, unstreamed
\* chat completions, the worker with either setting of LLM_STREAM, responses.
Via(via, streamed, tools, modes) ==
  [via : {via}, streamed : streamed, tools : tools, mode : modes]
Modes == {"auto", "format", "plain"}
CallShapes ==
  Via("events", {TRUE}, BOOLEAN, Modes) \cup Via("text", {FALSE}, BOOLEAN, Modes)
    \cup Via("text", {TRUE}, {FALSE}, Modes) \cup Via("result", {FALSE}, BOOLEAN, {"plain"})

ASSUME ProviderAssumption ==
  /\ MaxCalls \in Nat
  /\ MaxLines \in Nat
  /\ Limit \in Nat
  /\ None \notin CallShapes \cup [call : 1 .. MaxCalls, calls : BOOLEAN]

\* _request_body: Ollama takes auto for JSON, the other provider only in chat().
Formatted(c) ==
  \/ c.mode = "format"
  \/ c.mode = "auto" /\ (kind = "ollama" \/ c.via # "events")
Request(c) ==
  (IF c.tools THEN {"tools"} ELSE {}) \cup (IF Formatted(c) THEN {"format"} ELSE {})

Init ==
  /\ kind \in {"ollama", "openai"}
  /\ pc = "idle"
  /\ call = None
  /\ count = 0
  /\ body = {}
  /\ retryTools = FALSE
  /\ again = FALSE
  /\ sequence = 0
  /\ emitted = <<>>
  /\ heard = <<>>
  /\ calls = FALSE
  /\ metadata = None
  /\ outcome = "none"

-----------------------------------------------------------------------------
(* Calls and their requests *)

FirstStep(streamed) == IF streamed THEN "opening" ELSE "sending"

Begin(c) ==
  /\ pc = "idle"
  /\ count < MaxCalls
  /\ call' = c
  /\ count' = count + 1
  /\ pc' = FirstStep(c.streamed)
  /\ body' = Request(c)
  /\ retryTools' = c.tools
  /\ again' = FALSE
  /\ sequence' = 0
  /\ emitted' = <<>>
  /\ heard' = <<>>
  /\ calls' = FALSE
  /\ outcome' = "none"
  /\ UNCHANGED kind

\* A mutant of Emit: a delta leaves the number where it is.
EmitUncounted(type) ==
  /\ emitted' = Append(emitted, [type |-> type, sequence |-> sequence])
  /\ sequence' = IF type = "text_delta" THEN sequence ELSE sequence + 1

\* Yields an event.
Emit(type) ==
  /\ emitted' = Append(emitted, [type |-> type, sequence |-> sequence])
  /\ sequence' = sequence + 1

Started ==
  /\ pc = "opening"
  /\ Emit("started")
  /\ pc' = "sending"
  /\ UNCHANGED <<kind, call, count, asking, heard, calls, metadata, outcome>>

\* The call is over.
End(result) ==
  /\ pc' = "idle"
  /\ outcome' = result

Fails(result) ==
  /\ End(result)
  /\ UNCHANGED <<kind, call, count, asking, sequence, emitted, heard, calls, metadata>>

\* A retry of chat() in ollama.py: its errors are caught by nobody but
\* HTTPStatusError's.
Degraded == kind = "ollama" /\ ~call.streamed /\ body # Request(call)

\* No connection, a timeout, a broken transport.
TransportFails ==
  /\ pc \in {"sending", "reading"}
  /\ Fails(IF Degraded THEN "stray" ELSE "failed")

Sends(request) ==
  /\ body' = request
  /\ UNCHANGED <<kind, pc, call, count, again, sequence, emitted, heard, calls, metadata,
                 outcome>>

\* Tools are taken out of a rejected request, then the format; without a stream,
\* any status will do for the second.
OllamaRejected(status) ==
  /\ pc = "sending"
  /\ kind = "ollama"
  /\ \/ /\ status = 400 \/ Degraded
        /\ \/ retryTools /\ retryTools' = FALSE /\ Sends(body \ {"tools"})
           \/ ~retryTools /\ "format" \in body
              /\ Sends(body \ {"format"}) /\ UNCHANGED retryTools
           \/ ~retryTools /\ "format" \notin body /\ Fails("failed")
     \/ /\ status # 400 /\ ~Degraded
        /\ Fails("failed")

\* chat() calls _chat_once a second time.
ChatAgain(request) ==
  /\ again' = TRUE
  /\ body' = request
  /\ retryTools' = ("tools" \in request)
  /\ pc' = FirstStep(call.streamed)
  /\ sequence' = 0
  /\ emitted' = <<>>
  /\ UNCHANGED <<kind, call, count, heard, calls, metadata, outcome>>

FirstChat == call.via # "events" /\ ~again

\* _UnsupportedResponseFormat.
FormatUnsupported ==
  \/ FirstChat /\ call.mode = "auto" /\ ChatAgain(Request(call) \ {"format"})
  \/ ~(FirstChat /\ call.mode = "auto") /\ Fails("failed")

\* blamed: the error says that the format is not supported.  read: its text is
\* at hand; that of a streamed response is not, unless the transport is a test's,
\* and reading it raises a RuntimeError.
OpenAIRejected(status, blamed, read) ==
  /\ pc = "sending"
  /\ kind = "openai"
  /\ LET formatted == status = 400 /\ "format" \in body
         unread == formatted /\ call.streamed /\ ~read
         unsupported == formatted /\ ~unread /\ blamed
         stripped == status = 400 /\ call.streamed /\ retryTools
         repeated == status = 400 /\ ~stripped /\ FirstChat /\ call.tools
     IN  \/ unread /\ Fails("stray")
         \/ unsupported /\ FormatUnsupported
         \/ /\ ~unread /\ ~unsupported
            /\ \/ stripped /\ retryTools' = FALSE /\ Sends(body \ {"tools"})
               \/ repeated /\ ChatAgain(Request(call) \ {"tools"})
               \/ ~stripped /\ ~repeated /\ Fails("failed")

-----------------------------------------------------------------------------
(* Streamed answers *)

Connects ==
  /\ pc = "sending"
  /\ call.streamed
  /\ pc' = "reading"
  /\ UNCHANGED <<kind, call, count, asking, sequence, emitted, heard, calls, metadata,
                 outcome>>

Count(lines, line) == Cardinality({i \in DOMAIN lines : lines[i] = line})

Texts(lines) == Count(lines, "text")

\* An openai server's call that has no name yet is "nameless"; reasoning is
\* Ollama's.
LineOf(provider) ==
  {"text", "call"} \cup (IF provider = "ollama" THEN {"reasoning"} ELSE {"nameless"})

Line(line) ==
  /\ pc = "reading"
  /\ Len(heard) < MaxLines
  /\ line \in LineOf(kind)
  /\ heard' = Append(heard, line)
  /\ CASE line = "text" /\ Texts(heard') > Limit ->
            End("failed") /\ UNCHANGED <<sequence, emitted>>
       [] line = "text" /\ Texts(heard') <= Limit ->
            Emit("text_delta") /\ UNCHANGED <<pc, outcome>>
       [] line = "reasoning" ->
            Emit("reasoning_delta") /\ UNCHANGED <<pc, outcome>>
       [] line \in {"call", "nameless"} ->
            UNCHANGED <<pc, outcome, sequence, emitted>>
  /\ UNCHANGED <<kind, call, count, asking, calls, metadata>>

\* A line that is no JSON, or says that there is an error; Ollama's may be JSON
\* and not an object, which is an AttributeError.
BadLine(result) ==
  /\ pc = "reading"
  /\ result = "failed" \/ (result = "stray" /\ kind = "ollama")
  /\ Fails(result)

\* textual: the text of the answer is itself a tool call in the form the
\* provider looks for when there are no others.
TextualCalls(lines, textual) ==
  /\ textual
  /\ Texts(lines) > 0
  /\ Count(lines, "call") = 0
  /\ kind = "ollama" => call.tools

\* Ollama's metadata of a stream has no calls.
Describe(hasCalls) == metadata' = [call |-> count, calls |-> hasCalls]

\* A mutant of Truncated: Ollama's answer need not be done.
TruncatedNever(done) == FALSE

\* An openai stream may end without [DONE].
Truncated(done) == kind = "ollama" /\ ~done

Ends(done, textual) ==
  /\ pc = "reading"
  /\ \/ Truncated(done) /\ Fails("failed")
     \/ /\ ~Truncated(done)
        /\ LET found == Count(heard, "call") > 0 \/ TextualCalls(heard, textual)
           IN  /\ calls' = (found /\ (Count(heard, "nameless") = 0
                                       \/ Count(heard, "call") > 0))
               /\ Describe(found /\ kind = "openai")
        /\ heard' = IF done THEN Append(heard, "done") ELSE heard
        /\ pc' = "usage"
        /\ UNCHANGED <<kind, call, count, asking, sequence, emitted, outcome>>

Usage ==
  /\ pc = "usage"
  /\ Emit("usage")
  /\ pc' = IF calls THEN "calls" ELSE "completing"
  /\ UNCHANGED <<kind, call, count, asking, heard, calls, metadata, outcome>>

ToolCalls ==
  /\ pc = "calls"
  /\ Emit("tool_calls")
  /\ pc' = "completing"
  /\ UNCHANGED <<kind, call, count, asking, heard, calls, metadata, outcome>>

Completed ==
  /\ pc = "completing"
  /\ Emit("completed")
  /\ End("answered")
  /\ UNCHANGED <<kind, call, count, asking, heard, calls, metadata>>

\* The consumer closes the generator, and with it the HTTP stream.
Close ==
  /\ pc \notin {"idle", "opening"}
  /\ call.via = "events"
  /\ Fails("closed")

-----------------------------------------------------------------------------
(* Answers without a stream *)

\* CanonicalProviderAdapter.complete makes its result of the metadata.
Result(described) ==
  IF call.via = "result" /\ described = None THEN "missing" ELSE "answered"

\* A mutant of Undescribed: openai's second _chat_once returns at once, too.
UndescribedAgain == Degraded \/ again

\* A retry of Ollama's chat() that is answered returns the text there and then.
Undescribed == Degraded

Answer(hasCalls, textual) ==
  /\ pc = "sending"
  /\ ~call.streamed
  /\ calls' = (hasCalls \/ (textual /\ (kind = "ollama" => call.tools)))
  /\ IF Undescribed THEN UNCHANGED metadata ELSE Describe(calls')
  /\ End(Result(metadata'))
  /\ UNCHANGED <<kind, call, count, asking, sequence, emitted, heard>>

\* Invalid or too long.
BadAnswer(result) ==
  /\ pc = "sending"
  /\ ~call.streamed
  /\ result = "failed" \/ (result = "stray" /\ kind = "ollama")
  /\ Fails(result)

-----------------------------------------------------------------------------

\* What the provider does of its own, in the call it is in.
Step ==
  \/ Started
  \/ TransportFails
  \/ \E status \in {400, 500} :
       \/ OllamaRejected(status)
       \/ \E blamed, read \in BOOLEAN : OpenAIRejected(status, blamed, read)
  \/ Connects
  \/ \E line \in {"text", "reasoning", "call", "nameless"} : Line(line)
  \/ \E result \in {"failed", "stray"} : BadLine(result) \/ BadAnswer(result)
  \/ \E done, textual \in BOOLEAN : Ends(done, textual)
  \/ Usage
  \/ ToolCalls
  \/ Completed
  \/ \E hasCalls, textual \in BOOLEAN : Answer(hasCalls, textual)

Next ==
  \/ \E c \in CallShapes : Begin(c) /\ UNCHANGED metadata
  \/ Step
  \/ Close

Spec == Init /\ [][Next]_vars

\* Reads have timeouts, and an answer is taken to be finite.
FairSpec == Spec /\ WF_vars(Step)

-----------------------------------------------------------------------------

Lines == LineOf("ollama") \cup LineOf("openai") \cup {"done"}
Outcomes == {"none", "answered", "failed", "stray", "missing", "closed"}

TypeOK ==
  /\ kind \in {"ollama", "openai"}
  /\ pc \in {"idle", "opening", "sending", "reading", "usage", "calls", "completing"}
  /\ call \in CallShapes \cup {None}
  /\ pc # "idle" => call # None
  /\ count \in 0 .. MaxCalls
  /\ body \subseteq Parts
  /\ retryTools \in BOOLEAN
  /\ again \in BOOLEAN
  /\ sequence \in Nat
  /\ heard \in Seq(Lines)
  /\ calls \in BOOLEAN
  /\ metadata \in [call : 1 .. MaxCalls, calls : BOOLEAN] \cup {None}
  /\ outcome \in Outcomes

\* Streams keep the contract of providers/base.py, whatever the server does and
\* however often the request is repeated.
Contract ==
  INSTANCE ProviderContract WITH
    status <- IF call = None \/ ~call.streamed THEN "idle"
              ELSE CASE outcome = "none"     -> "running"
                     [] outcome = "answered" -> "completed"
                     [] OTHER                -> "stopped"
ImplementsContract == Contract!Spec

\* A text that was answered comes with the metadata of its own call, not with
\* those of an earlier one, except after Ollama's retries without a stream: only
\* there has the report, or the next tool round, to do without.
AnswersAreDescribed ==
  outcome = "answered" =>
    \/ metadata # None /\ metadata.call = count
    \/ Degraded

\* ollama.py:302-303: "Graceful degradation: Ollama may reject tools or JSON
\* grammar (format). Retry without whichever was sent."  The answer to a retry is
\* an answer to the call: complete() makes its result of it.
RetriesAnswer ==
  outcome \in {"answered", "missing"} /\ call.via = "result" =>
    metadata # None /\ metadata.call = count

\* Every call ends.
EveryCallEnds == pc # "idle" ~> pc = "idle"

=============================================================================
