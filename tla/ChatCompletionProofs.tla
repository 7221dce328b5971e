------------------------ MODULE ChatCompletionProofs ------------------------
(***************************************************************************)
(* Theorems about modules Provider and ChatCompletion, for any number of   *)
(* calls and tiers and any limits: what a provider does for a chat and for *)
(* its other users, and what the client of the chat is told.               *)
(***************************************************************************)
EXTENDS ChatCompletion, FiniteSetTheorems, SequenceTheorems, TLAPS

-----------------------------------------------------------------------------
(* The provider.                                                           *)

\* What a chat and the other users do with a provider.
ProviderStep ==
  \/ \E c \in CallShapes : Begin(c) /\ UNCHANGED metadata
  \/ Step
  \/ Close
  \/ pc = "idle" /\ NewProvider
  \/ UNCHANGED vars

LEMMA ShapesType ==
  \A c \in CallShapes : /\ c.streamed \in BOOLEAN
                        /\ c.tools \in BOOLEAN
                        /\ c.via \in {"events", "text", "result"}
                        /\ c.via = "events" => c.streamed
                        /\ Request(c) \subseteq Parts
BY DEF CallShapes, Via, Modes, Request, Parts

Described(n) == metadata # None /\ metadata.call = n

\* Types; an outcome is of a call that has ended; a call without a stream has no
\* events; an answer that is read to its end is described.
ProviderInv ==
  /\ TypeOK
  /\ pc # "idle" => outcome = "none" /\ count # 0
  /\ call = None => outcome = "none"
  /\ pc = "idle" /\ call # None => outcome # "none"
  /\ call # None /\ ~call.streamed => pc \in {"idle", "sending"} /\ emitted = <<>>
  /\ call = None => emitted = <<>>
  /\ pc \in {"usage", "calls", "completing"} => Described(count)
  /\ AnswersAreDescribed

LEMMA InitProvider == Init => ProviderInv
<1> SUFFICES ASSUME Init PROVE ProviderInv
  OBVIOUS
<1>1. heard \in Seq(Lines) /\ count \in 0 .. MaxCalls
  BY ProviderAssumption DEF Init
<1> QED
  BY <1>1 DEF Init, ProviderInv, TypeOK, AnswersAreDescribed, Outcomes

LEMMA FailsInv ==
  ASSUME ProviderInv, pc # "idle", NEW result \in {"failed", "stray", "closed"},
         Fails(result)
  PROVE  ProviderInv'
BY DEF Fails, End, ProviderInv, TypeOK, asking, Described, AnswersAreDescribed, Outcomes

LEMMA SendsInv ==
  ASSUME ProviderInv, pc = "sending", NEW request \in SUBSET Parts, Sends(request),
         retryTools' \in BOOLEAN
  PROVE  ProviderInv'
BY DEF Sends, ProviderInv, TypeOK, Described, AnswersAreDescribed, Outcomes

LEMMA ChatAgainInv ==
  ASSUME ProviderInv, pc = "sending", NEW request \in SUBSET Parts, ChatAgain(request)
  PROVE  ProviderInv'
<1>1. call \in CallShapes /\ call.streamed \in BOOLEAN
  BY ShapesType DEF ProviderInv, TypeOK
<1>2. /\ pc' = IF call.streamed THEN "opening" ELSE "sending"
      /\ again' = TRUE /\ body' = request /\ retryTools' \in BOOLEAN /\ sequence' = 0
      /\ emitted' = <<>>
      /\ UNCHANGED <<kind, call, count, heard, calls, metadata, outcome>>
  BY DEF ChatAgain, FirstStep
<1> QED
  BY <1>1, <1>2 DEF ProviderInv, TypeOK, Described, AnswersAreDescribed

LEMMA BeginInv ==
  ASSUME ProviderInv, NEW c \in CallShapes, Begin(c), UNCHANGED metadata
  PROVE  ProviderInv'
<1>1. /\ c \in CallShapes /\ c # None /\ c.streamed \in BOOLEAN /\ c.tools \in BOOLEAN
      /\ Request(c) \subseteq Parts /\ MaxCalls \in Nat
  BY ShapesType, ProviderAssumption
<1>2. /\ call' = c /\ count < MaxCalls /\ count' = count + 1
      /\ pc' = IF c.streamed THEN "opening" ELSE "sending"
      /\ body' = Request(c) /\ retryTools' = c.tools /\ again' = FALSE
      /\ sequence' = 0 /\ emitted' = <<>> /\ heard' = <<>> /\ calls' = FALSE
      /\ outcome' = "none" /\ UNCHANGED <<kind, metadata>>
  BY DEF Begin, FirstStep
<1>3. count' \in 0 .. MaxCalls /\ count' # 0 /\ heard' \in Seq(Lines)
  BY <1>1, <1>2 DEF ProviderInv, TypeOK
<1> HIDE DEF CallShapes
<1> QED
  BY <1>1, <1>2, <1>3 DEF ProviderInv, TypeOK, Described, AnswersAreDescribed, Outcomes

\* A step that goes on with a stream.
LEMMA StreamInv ==
  ASSUME ProviderInv, pc # "idle", call.streamed,
         pc' \in {"sending", "reading", "usage", "calls", "completing"},
         sequence' \in Nat, heard' \in Seq(Lines), calls' \in BOOLEAN,
         metadata' \in [call : 1 .. MaxCalls, calls : BOOLEAN] \cup {None},
         pc' \in {"usage", "calls", "completing"} => Described(count)',
         UNCHANGED <<kind, call, count, asking, outcome>>
  PROVE  ProviderInv'
BY DEF ProviderInv, TypeOK, asking, AnswersAreDescribed

LEMMA CountType ==
  ASSUME NEW S, NEW s \in Seq(S), NEW x
  PROVE  Count(s, x) \in Nat
<1> DEFINE found == {i \in DOMAIN s : s[i] = x}
<1>1. found \subseteq 1 .. Len(s) /\ IsFiniteSet(1 .. Len(s))
  BY FS_Interval
<1>2. IsFiniteSet(found)
  BY <1>1, FS_Subset
<1> HIDE DEF found
<1>3. Cardinality(found) \in Nat
  BY <1>2, FS_CardinalityType
<1> QED
  BY <1>3 DEF Count, found

\* The branches of a line.
LEMMA LineCases ==
  ASSUME NEW line \in {"text", "reasoning", "call", "nameless"}, Line(line),
         heard' \in Seq(Lines)
  PROVE  /\ pc = "reading" /\ line \in LineOf(kind) /\ heard' = Append(heard, line)
         /\ UNCHANGED <<kind, call, count, asking, calls, metadata>>
         /\ line = "text" /\ Texts(heard') > Limit =>
              End("failed") /\ UNCHANGED <<sequence, emitted>>
         /\ ~(line = "text" /\ Texts(heard') > Limit) =>
              /\ UNCHANGED <<pc, outcome>>
              /\ IF line \in {"call", "nameless"} THEN UNCHANGED <<sequence, emitted>>
                 ELSE Emit(IF line = "text" THEN "text_delta" ELSE "reasoning_delta")
<1>1. CASE line = "text"
  <2>1. Texts(heard') \in Nat
    BY CountType DEF Texts
  <2>2. Texts(heard') > Limit <=> ~(Texts(heard') <= Limit)
    BY <2>1, ProviderAssumption
  <2>3. CASE Texts(heard') > Limit /\ ~(Texts(heard') <= Limit)
    BY <1>1, <2>3 DEF Line
  <2>4. CASE Texts(heard') <= Limit /\ ~(Texts(heard') > Limit)
    BY <1>1, <2>4 DEF Line
  <2> QED
    BY <2>2, <2>3, <2>4
<1>2. CASE line = "reasoning"
  BY <1>2 DEF Line
<1>3. CASE line \in {"call", "nameless"}
  BY <1>3 DEF Line
<1> QED
  BY <1>1, <1>2, <1>3

LEMMA StepInv == ASSUME ProviderInv, Step PROVE ProviderInv'
<1>1. /\ pc # "idle" => call \in CallShapes /\ call.streamed \in BOOLEAN
                        /\ call.tools \in BOOLEAN /\ Request(call) \subseteq Parts
      /\ pc \in {"opening", "reading", "usage", "calls", "completing"} => call.streamed
      /\ body \subseteq Parts /\ sequence \in Nat /\ sequence + 1 \in Nat
      /\ heard \in Seq(Lines) /\ calls \in BOOLEAN /\ count \in 0 .. MaxCalls
      /\ metadata \in [call : 1 .. MaxCalls, calls : BOOLEAN] \cup {None}
      /\ pc # "idle" => count \in 1 .. MaxCalls /\ call # None
  BY ShapesType, ProviderAssumption DEF ProviderInv, TypeOK
<1>2. \A hasCalls \in BOOLEAN : pc # "idle" /\ Describe(hasCalls)
        => /\ metadata' \in [call : 1 .. MaxCalls, calls : BOOLEAN]
           /\ metadata' # None /\ metadata'.call = count
  BY <1>1, ProviderAssumption DEF Describe
<1>3. CASE Started
  BY <1>1, <1>3, StreamInv DEF Started, Emit
<1>4. CASE TransportFails
  BY <1>4, FailsInv DEF TransportFails
<1>5. CASE \E status \in {400, 500} : OllamaRejected(status)
  <2>1. pc = "sending"
    BY <1>5 DEF OllamaRejected
  <2>2. \/ Fails("failed")
        \/ retryTools' = FALSE /\ Sends(body \ {"tools"})
        \/ UNCHANGED retryTools /\ Sends(body \ {"format"})
    BY <1>5 DEF OllamaRejected
  <2>3. retryTools \in BOOLEAN
    BY DEF ProviderInv, TypeOK
  <2> QED
    BY <1>1, <2>1, <2>2, <2>3, FailsInv, SendsInv
<1>6. CASE \E status \in {400, 500}, blamed, read \in BOOLEAN :
             OpenAIRejected(status, blamed, read)
  <2> PICK status \in {400, 500}, blamed \in BOOLEAN, read \in BOOLEAN :
         OpenAIRejected(status, blamed, read)
    BY <1>6
  <2>1. pc = "sending"
    BY DEF OpenAIRejected
  <2>2. \/ \E result \in {"failed", "stray"} : Fails(result)
        \/ ChatAgain(Request(call) \ {"format"}) \/ ChatAgain(Request(call) \ {"tools"})
        \/ retryTools' = FALSE /\ Sends(body \ {"tools"})
    BY DEF OpenAIRejected, FormatUnsupported
  <2>3. CASE \E result \in {"failed", "stray"} : Fails(result)
    BY <2>1, <2>3, FailsInv
  <2>4. CASE retryTools' = FALSE /\ Sends(body \ {"tools"})
    BY <1>1, <2>1, <2>4, SendsInv
  <2>5. CASE ChatAgain(Request(call) \ {"format"}) \/ ChatAgain(Request(call) \ {"tools"})
    BY <1>1, <2>1, <2>5, ChatAgainInv
  <2> QED
    BY <2>2, <2>3, <2>4, <2>5
<1>7. CASE Connects
  BY <1>1, <1>7, StreamInv DEF Connects
<1>8. CASE \E line \in {"text", "reasoning", "call", "nameless"} : Line(line)
  <2> PICK line \in {"text", "reasoning", "call", "nameless"} : Line(line)
    BY <1>8
  <2>1. heard' \in Seq(Lines)
    BY <1>1 DEF Line, Lines, LineOf
  <2>2. CASE line = "text" /\ Texts(heard') > Limit
    <3>1. /\ pc = "reading" /\ pc' = "idle" /\ outcome' = "failed"
          /\ UNCHANGED <<kind, call, count, asking, sequence, emitted, calls, metadata>>
      BY <2>1, <2>2, LineCases DEF End
    <3> QED
      BY <1>1, <2>1, <3>1 DEF ProviderInv, TypeOK, asking, Described,
         AnswersAreDescribed, Outcomes
  <2>3. CASE ~(line = "text" /\ Texts(heard') > Limit)
    <3>1. /\ pc = "reading" /\ pc' = "reading" /\ UNCHANGED outcome
          /\ sequence' \in {sequence, sequence + 1}
          /\ UNCHANGED <<kind, call, count, asking, calls, metadata>>
      BY <1>1, <2>1, <2>3, LineCases DEF Emit
    <3> QED
      BY <1>1, <2>1, <3>1, StreamInv
  <2> QED
    BY <2>2, <2>3
<1>9. CASE \E result \in {"failed", "stray"} : BadLine(result) \/ BadAnswer(result)
  BY <1>9, FailsInv DEF BadLine, BadAnswer
<1>10. CASE \E done, textual \in BOOLEAN : Ends(done, textual)
  <2> PICK done \in BOOLEAN, textual \in BOOLEAN : Ends(done, textual)
    BY <1>10
  <2>1. CASE Truncated(done) /\ Fails("failed")
    BY <2>1, FailsInv DEF Ends
  <2>2. CASE ~(Truncated(done) /\ Fails("failed"))
    <3> DEFINE found == Count(heard, "call") > 0 \/ TextualCalls(heard, textual)
    <3>1. /\ pc = "reading" /\ pc' = "usage"
          /\ calls' = (found /\ (Count(heard, "nameless") = 0 \/ Count(heard, "call") > 0))
          /\ Describe(found /\ kind = "openai")
          /\ heard' = IF done THEN Append(heard, "done") ELSE heard
          /\ UNCHANGED <<kind, call, count, asking, sequence, emitted, outcome>>
      BY <2>2 DEF Ends
    <3> HIDE DEF found
    <3>2. calls' \in BOOLEAN /\ (found /\ kind = "openai") \in BOOLEAN
      BY <3>1
    <3>3. heard' \in Seq(Lines)
      BY <1>1, <3>1 DEF Lines
    <3> QED
      BY <1>1, <1>2, <3>1, <3>2, <3>3, StreamInv DEF Described
  <2> QED
    BY <2>1, <2>2
<1>11. CASE Usage
  BY <1>1, <1>11, StreamInv DEF Usage, Emit, ProviderInv, Described
<1>12. CASE ToolCalls
  BY <1>1, <1>12, StreamInv DEF ToolCalls, Emit, ProviderInv, Described
<1>13. CASE Completed
  <2>1. /\ pc = "completing" /\ pc' = "idle" /\ outcome' = "answered"
        /\ sequence' = sequence + 1
        /\ UNCHANGED <<kind, call, count, asking, heard, calls, metadata>>
    BY <1>13 DEF Completed, Emit, End
  <2> QED
    BY <1>1, <2>1 DEF ProviderInv, TypeOK, asking, Described, AnswersAreDescribed, Outcomes
<1>14. CASE \E hasCalls, textual \in BOOLEAN : Answer(hasCalls, textual)
  <2> PICK hasCalls \in BOOLEAN, textual \in BOOLEAN : Answer(hasCalls, textual)
    BY <1>14
  <2>1. /\ pc = "sending" /\ ~call.streamed /\ pc' = "idle"
        /\ calls' = (hasCalls \/ (textual /\ (kind = "ollama" => call.tools)))
        /\ outcome' \in {"missing", "answered"}
        /\ IF Degraded THEN UNCHANGED metadata ELSE Describe(calls')
        /\ UNCHANGED <<kind, call, count, asking, sequence, emitted, heard>>
    BY DEF Answer, End, Result, Undescribed
  <2>2. calls' \in BOOLEAN
    BY <2>1
  <2>3. /\ metadata' \in [call : 1 .. MaxCalls, calls : BOOLEAN] \cup {None}
        /\ Degraded \/ Described(count)'
    BY <1>1, <1>2, <2>1, <2>2 DEF Described
  <2>4. Degraded' <=> Degraded
    BY <2>1 DEF Degraded, Request, Formatted, asking
  <2> QED
    BY <1>1, <2>1, <2>2, <2>3, <2>4
       DEF ProviderInv, TypeOK, asking, Described, AnswersAreDescribed, Outcomes
<1> QED
  BY <1>3, <1>4, <1>5, <1>6, <1>7, <1>8, <1>9, <1>10, <1>11, <1>12, <1>13, <1>14 DEF Step

LEMMA ProviderStepInv == ProviderInv /\ ProviderStep => ProviderInv'
<1> SUFFICES ASSUME ProviderInv, ProviderStep PROVE ProviderInv'
  OBVIOUS
<1>1. CASE Close
  BY <1>1, FailsInv DEF Close
<1>2. CASE pc = "idle" /\ NewProvider
  BY <1>2, ProviderAssumption DEF NewProvider, asking, ProviderInv, TypeOK, Described,
     AnswersAreDescribed, Outcomes
<1>3. CASE UNCHANGED vars
  BY <1>3 DEF vars, asking, ProviderInv, TypeOK, Described, AnswersAreDescribed, Degraded,
     Request, Formatted
<1> QED
  BY <1>1, <1>2, <1>3, BeginInv, StepInv DEF ProviderStep

\* Next of a provider that nobody follows is what a chat makes of it, too.
LEMMA ProviderHolds == Spec => []ProviderInv
<1>1. [Next]_vars => ProviderStep
  BY DEF Next, ProviderStep
<1> QED
  BY <1>1, InitProvider, ProviderStepInv, PTL DEF Spec

-----------------------------------------------------------------------------
(* The contract of the events.                                             *)

LastType == IF emitted = <<>> THEN "nothing" ELSE emitted[Len(emitted)].type

\* Events are numbered by their places, and the place of a call tells what was
\* yielded last.
Numbered ==
  /\ emitted \in Seq([type : Contract!Types, sequence : Nat])
  /\ pc # "idle" => sequence = Len(emitted)
  /\ pc = "opening" => emitted = <<>>
  /\ pc = "sending" /\ call.streamed => LastType = "started"
  /\ pc \in {"reading", "usage"} => LastType \in {"started"} \cup Contract!Deltas
  /\ pc = "calls" => LastType = "usage"
  /\ pc = "completing" => LastType \in {"usage", "tool_calls"}

LEMMA InitNumbered == Init => Numbered
BY DEF Init, Numbered

ContractStatus ==
  IF call = None \/ ~call.streamed THEN "idle"
  ELSE CASE outcome = "none"     -> "running"
         [] outcome = "answered" -> "completed"
         [] OTHER                -> "stopped"

LEMMA EmitNumbered ==
  ASSUME Numbered, pc # "idle", NEW type \in Contract!Types, Emit(type)
  PROVE  /\ emitted' \in Seq([type : Contract!Types, sequence : Nat])
         /\ sequence' = Len(emitted')
         /\ LastType' = type
         /\ emitted' = Append(emitted, [type |-> type, sequence |-> Len(emitted)])
<1> DEFINE Event == [type : Contract!Types, sequence : Nat]
           e == [type |-> type, sequence |-> Len(emitted)]
<1>1. emitted \in Seq(Event) /\ Len(emitted) \in Nat /\ sequence = Len(emitted)
  BY DEF Numbered
<1>2. e \in Event /\ e.type = type
  BY <1>1
<1>3. emitted' = Append(emitted, e) /\ sequence' = Len(emitted) + 1
  BY <1>1 DEF Emit
<1> HIDE DEF e, Event
<1>4. emitted' \in Seq(Event) /\ Len(emitted') = Len(emitted) + 1 /\ emitted' # <<>>
      /\ emitted'[Len(emitted')] = e
  BY <1>1, <1>2, <1>3
<1> QED
  BY <1>2, <1>3, <1>4 DEF LastType, Event, e

Simulates == [Contract!Next]_(Contract!vars)

\* The contract's actions, told in terms of the provider.
LEMMA ContractActions ==
  /\ emitted' = <<>> /\ ContractStatus' \in {"running", "idle"} => Simulates
  /\ /\ ContractStatus = "running" /\ ContractStatus' = "stopped"
     /\ UNCHANGED emitted
     => Simulates
  /\ UNCHANGED <<emitted, ContractStatus>> => Simulates
  /\ \A type \in Contract!Types :
       /\ ContractStatus = "running"
       /\ LastType \in Contract!After(type)
       /\ emitted' = Append(emitted, [type |-> type, sequence |-> Len(emitted)])
       /\ ContractStatus' = IF type = "completed" THEN "completed" ELSE "running"
       => Simulates
<1>1. emitted' = <<>> /\ ContractStatus' \in {"running", "idle"} => Simulates
  BY DEF Simulates, Contract!Next, Contract!Begin, Contract!Rest, ContractStatus
<1>2. /\ ContractStatus = "running" /\ ContractStatus' = "stopped"
      /\ UNCHANGED emitted
      => Simulates
  BY DEF Simulates, Contract!Next, Contract!Stop, ContractStatus
<1>3. UNCHANGED <<emitted, ContractStatus>> => Simulates
  BY DEF Simulates, Contract!vars, ContractStatus
<1>4. ASSUME NEW type \in Contract!Types,
             ContractStatus = "running", LastType \in Contract!After(type),
             emitted' = Append(emitted, [type |-> type, sequence |-> Len(emitted)]),
             ContractStatus' = IF type = "completed" THEN "completed" ELSE "running"
      PROVE  Simulates
  <2>1. Contract!Emit(type)
    BY <1>4 DEF Contract!Emit, Contract!LastType, LastType, ContractStatus
  <2> QED
    BY <2>1 DEF Simulates, Contract!Next
<1> QED
  BY <1>1, <1>2, <1>3, <1>4

\* What the status is while a call runs, and when it has failed.
LEMMA StatusIs ==
  ASSUME ProviderInv
  PROVE  /\ pc # "idle" =>
              ContractStatus = IF call.streamed THEN "running" ELSE "idle"
         /\ \A result \in {"failed", "stray", "closed", "missing"} :
              outcome' = result /\ call' = call /\ pc # "idle" =>
                ContractStatus' = IF call.streamed THEN "stopped" ELSE "idle"
BY ProviderAssumption DEF ContractStatus, ProviderInv, TypeOK

LEMMA FailsSimulates ==
  ASSUME ProviderInv, Numbered, pc # "idle", NEW result \in {"failed", "stray", "closed"},
         pc' = "idle", outcome' = result, UNCHANGED <<call, emitted>>
  PROVE  Numbered' /\ Simulates
<1>1. call.streamed \in BOOLEAN
  BY ShapesType DEF ProviderInv, TypeOK
<1>2. /\ ContractStatus = IF call.streamed THEN "running" ELSE "idle"
      /\ ContractStatus' = IF call.streamed THEN "stopped" ELSE "idle"
  BY StatusIs
<1>3. Simulates
  BY <1>2, ContractActions
<1>4. Numbered'
  BY DEF Numbered
<1> QED
  BY <1>3, <1>4

\* A step that yields nothing and leaves the call where it is.
LEMMA QuietSimulates ==
  ASSUME UNCHANGED <<call, outcome, emitted>>
  PROVE  Simulates
<1>1. ContractStatus' = ContractStatus
  BY DEF ContractStatus
<1> QED
  BY <1>1, ContractActions

LEMMA YieldSimulates ==
  ASSUME ProviderInv, Numbered, pc # "idle", call.streamed, NEW type \in Contract!Types,
         Emit(type), LastType \in Contract!After(type), UNCHANGED call,
         outcome' = IF type = "completed" THEN "answered" ELSE "none"
  PROVE  Simulates
<1>1. ContractStatus = "running"
  BY StatusIs
<1>2. ContractStatus' = IF type = "completed" THEN "completed" ELSE "running"
  BY DEF ContractStatus, ProviderInv, TypeOK
<1> QED
  BY <1>1, <1>2, EmitNumbered, ContractActions

LEMMA StepSimulates ==
  ASSUME ProviderInv, Numbered, Step
  PROVE  Numbered' /\ Simulates
<1> USE DEF Numbered
<1>1. /\ pc # "idle" => /\ call.streamed \in BOOLEAN /\ outcome = "none"
                        /\ ~call.streamed => pc = "sending"
      /\ emitted \in Seq([type : Contract!Types, sequence : Nat])
  BY ShapesType DEF ProviderInv, TypeOK
<1>2. /\ Contract!Types = {"text_delta", "reasoning_delta", "started", "usage",
                           "tool_calls", "completed"}
      /\ Contract!Deltas = {"text_delta", "reasoning_delta"}
      /\ Contract!After("started") = {"nothing"}
      /\ \A type \in {"text_delta", "reasoning_delta", "usage"} :
           Contract!After(type) = {"started", "text_delta", "reasoning_delta"}
      /\ Contract!After("tool_calls") = {"usage"}
      /\ Contract!After("completed") = {"usage", "tool_calls"}
  BY DEF Contract!Types, Contract!Deltas, Contract!After
<1>3. ASSUME NEW result \in {"failed", "stray"}, pc # "idle", Fails(result)
      PROVE  Numbered' /\ Simulates
  BY <1>3, FailsSimulates DEF Fails, End
<1>4. CASE Started
  <2>1. LastType = "nothing" /\ call.streamed /\ pc = "opening" /\ pc' = "sending"
    BY <1>1, <1>4 DEF Started, LastType
  <2>2. Emit("started") /\ UNCHANGED <<call, outcome>> /\ "started" \in Contract!Types
    BY <1>2, <1>4 DEF Started
  <2>3. Simulates
    BY <1>1, <1>2, <2>1, <2>2, YieldSimulates
  <2>4. Numbered'
    BY <2>1, <2>2, EmitNumbered
  <2> QED
    BY <2>3, <2>4
<1>5. CASE TransportFails
  BY <1>3, <1>5 DEF TransportFails
<1>6. ASSUME NEW request, pc = "sending", Sends(request)
      PROVE  Numbered' /\ Simulates
  BY <1>6, QuietSimulates DEF Sends, LastType
<1>7. ASSUME NEW request, pc = "sending", ChatAgain(request)
      PROVE  Numbered' /\ Simulates
  <2>1. /\ emitted' = <<>> /\ sequence' = 0 /\ UNCHANGED <<call, outcome>>
        /\ pc' = IF call.streamed THEN "opening" ELSE "sending"
    BY <1>7 DEF ChatAgain, FirstStep
  <2>2. ContractStatus' = ContractStatus
    BY <2>1 DEF ContractStatus
  <2>3. ContractStatus \in {"running", "idle"}
    BY <1>7, StatusIs
  <2>4. Simulates
    BY <2>1, <2>2, <2>3, ContractActions
  <2>5. Numbered'
    BY <1>1, <1>7, <2>1
  <2> QED
    BY <2>4, <2>5
<1>8. CASE \E status \in {400, 500} : OllamaRejected(status)
  BY <1>3, <1>6, <1>8 DEF OllamaRejected
<1>9. CASE \E status \in {400, 500}, blamed, read \in BOOLEAN :
             OpenAIRejected(status, blamed, read)
  <2>1. /\ pc = "sending"
        /\ \/ \E result \in {"failed", "stray"} : Fails(result)
           \/ FormatUnsupported
           \/ \E request : Sends(request) \/ ChatAgain(request)
    BY <1>9 DEF OpenAIRejected
  <2>2. CASE FormatUnsupported
    BY <1>3, <1>7, <2>1, <2>2 DEF FormatUnsupported
  <2> QED
    BY <1>3, <1>6, <1>7, <2>1, <2>2
<1>10. CASE Connects
  BY <1>10, QuietSimulates DEF Connects, LastType
<1>11. CASE \E line \in {"text", "reasoning", "call", "nameless"} : Line(line)
  <2> PICK line \in {"text", "reasoning", "call", "nameless"} : Line(line)
    BY <1>11
  <2> DEFINE type == IF line = "text" THEN "text_delta" ELSE "reasoning_delta"
  <2>0. heard' \in Seq(Lines)
    BY DEF Line, Lines, LineOf, ProviderInv, TypeOK
  <2>1. pc = "reading" /\ call.streamed /\ UNCHANGED call /\ outcome = "none"
    BY <1>1, <2>0, LineCases
  <2>2. CASE line = "text" /\ Texts(heard') > Limit
    BY <2>0, <2>1, <2>2, LineCases, FailsSimulates DEF End
  <2>3. CASE ~(line = "text" /\ Texts(heard') > Limit) /\ line \in {"call", "nameless"}
    BY <2>0, <2>1, <2>3, LineCases, QuietSimulates DEF LastType
  <2>4. CASE ~(line = "text" /\ Texts(heard') > Limit) /\ line \notin {"call", "nameless"}
    <3>1. Emit(type) /\ UNCHANGED <<pc, outcome>>
      BY <2>0, <2>4, LineCases
    <3>2. type \in Contract!Deltas /\ type \in Contract!Types /\ type # "completed"
      BY <1>2
    <3>3. LastType \in Contract!After(type)
      BY <1>2, <2>1
    <3> HIDE DEF type
    <3>4. Simulates
      BY <2>1, <3>1, <3>2, <3>3, YieldSimulates
    <3>5. Numbered'
      BY <2>1, <3>1, <3>2, EmitNumbered
    <3> QED
      BY <3>4, <3>5
  <2> QED
    BY <2>2, <2>3, <2>4
<1>12. CASE \E result \in {"failed", "stray"} : BadLine(result) \/ BadAnswer(result)
  BY <1>3, <1>12 DEF BadLine, BadAnswer
<1>13. CASE \E done, textual \in BOOLEAN : Ends(done, textual)
  BY <1>3, <1>13, QuietSimulates DEF Ends, LastType
<1>14. CASE Usage
  <2>1. /\ pc = "usage" /\ call.streamed /\ Emit("usage") /\ pc' \in {"calls", "completing"}
        /\ UNCHANGED <<call, outcome>> /\ LastType \in Contract!After("usage")
        /\ "usage" \in Contract!Types
    BY <1>1, <1>2, <1>14 DEF Usage
  <2>2. Simulates
    BY <1>1, <2>1, YieldSimulates
  <2>3. Numbered'
    BY <2>1, EmitNumbered
  <2> QED
    BY <2>2, <2>3
<1>15. CASE ToolCalls
  <2>1. /\ pc = "calls" /\ call.streamed /\ Emit("tool_calls") /\ pc' = "completing"
        /\ UNCHANGED <<call, outcome>> /\ LastType \in Contract!After("tool_calls")
        /\ "tool_calls" \in Contract!Types
    BY <1>1, <1>2, <1>15 DEF ToolCalls
  <2>2. Simulates
    BY <1>1, <2>1, YieldSimulates
  <2>3. Numbered'
    BY <2>1, EmitNumbered
  <2> QED
    BY <2>2, <2>3
<1>16. CASE Completed
  <2>1. /\ pc = "completing" /\ call.streamed /\ Emit("completed") /\ pc' = "idle"
        /\ UNCHANGED call /\ outcome' = "answered"
        /\ LastType \in Contract!After("completed") /\ "completed" \in Contract!Types
    BY <1>1, <1>2, <1>16 DEF Completed, End
  <2>2. Simulates
    BY <1>1, <2>1, YieldSimulates
  <2>3. Numbered'
    BY <2>1, EmitNumbered
  <2> QED
    BY <2>2, <2>3
<1>17. CASE \E hasCalls, textual \in BOOLEAN : Answer(hasCalls, textual)
  <2>1. /\ pc = "sending" /\ ~call.streamed /\ pc' = "idle" /\ UNCHANGED <<call, emitted>>
    BY <1>17 DEF Answer, End
  <2>2. UNCHANGED ContractStatus
    BY <2>1 DEF ContractStatus
  <2> QED
    BY <2>1, <2>2, ContractActions
<1> QED
  BY <1>4, <1>5, <1>8, <1>9, <1>10, <1>11, <1>12, <1>13, <1>14, <1>15, <1>16, <1>17
     DEF Step

LEMMA ProviderStepSimulates ==
  ProviderInv /\ Numbered /\ ProviderStep => Numbered' /\ Simulates
<1> SUFFICES ASSUME ProviderInv, Numbered, ProviderStep PROVE Numbered' /\ Simulates
  OBVIOUS
<1>1. ASSUME NEW c \in CallShapes, Begin(c)
      PROVE  Numbered' /\ Simulates
  <2>1. /\ emitted' = <<>> /\ sequence' = 0 /\ call' = c /\ outcome' = "none"
        /\ pc' = IF c.streamed THEN "opening" ELSE "sending"
        /\ c.streamed \in BOOLEAN /\ c # None
    BY <1>1, ShapesType, ProviderAssumption DEF Begin, FirstStep
  <2>2. ContractStatus' \in {"running", "idle"}
    BY <2>1 DEF ContractStatus
  <2> QED
    BY <2>1, <2>2, ContractActions DEF Numbered
<1>2. CASE Close
  BY <1>2, FailsSimulates DEF Close, Fails, End
<1>3. CASE pc = "idle" /\ NewProvider
  <2>1. emitted' = <<>> /\ ContractStatus' = "idle" /\ pc' = "idle"
    BY <1>3 DEF NewProvider, ContractStatus
  <2> QED
    BY <2>1, ContractActions DEF Numbered
<1>4. CASE UNCHANGED vars
  BY <1>4, QuietSimulates DEF vars, Numbered, LastType
<1> QED
  BY <1>1, <1>2, <1>3, <1>4, StepSimulates DEF ProviderStep

-----------------------------------------------------------------------------
(* Counting and ranking.                                                   *)

LEMMA CountAppend ==
  ASSUME NEW S, NEW s \in Seq(S), NEW y \in S, NEW x
  PROVE  Count(Append(s, y), x) = IF y = x THEN Count(s, x) + 1 ELSE Count(s, x)
<1> DEFINE found == {i \in DOMAIN s : s[i] = x}
           new == Append(s, y)
           m == Len(s) + 1
<1>1. /\ DOMAIN s = 1 .. Len(s) /\ Len(s) \in Nat /\ DOMAIN new = 1 .. m
      /\ \A i \in 1 .. Len(s) : new[i] = s[i]
      /\ new[m] = y
  OBVIOUS
<1>2. IsFiniteSet(found) /\ m \notin found
  <2>1. found \subseteq 1 .. Len(s) /\ m \notin 1 .. Len(s) /\ IsFiniteSet(1 .. Len(s))
    BY <1>1, FS_Interval
  <2> HIDE DEF found
  <2> QED
    BY <2>1, FS_Subset
<1> HIDE DEF new
<1>3. {i \in DOMAIN new : new[i] = x} = IF y = x THEN found \cup {m} ELSE found
  BY <1>1
<1> HIDE DEF found
<1>4. Cardinality(found \cup {m}) = Cardinality(found) + 1
  BY <1>2, FS_AddElement
<1> QED
  BY <1>3, <1>4 DEF Count, found, new

LEMMA CountNone ==
  ASSUME NEW s, NEW x, \A i \in DOMAIN s : s[i] # x
  PROVE  Count(s, x) = 0
<1>1. {i \in DOMAIN s : s[i] = x} = {}
  OBVIOUS
<1> QED
  BY <1>1, FS_EmptySet DEF Count

LEMMA RankType ==
  ASSUME NEW n \in Nat, NEW S \in SUBSET (1 .. n), NEW i \in S
  PROVE  Rank(S, i) \in 1 .. Cardinality(S) /\ Cardinality(S) \in Nat
<1> DEFINE below == {j \in S : j <= i}
<1>1. IsFiniteSet(S)
  <2>1. IsFiniteSet(1 .. n)
    BY FS_Interval
  <2> QED
    BY <2>1, FS_Subset
<1>2. below \subseteq S /\ i \in below
  OBVIOUS
<1> HIDE DEF below
<1>3. IsFiniteSet(below) /\ Cardinality(below) <= Cardinality(S)
  BY <1>1, <1>2, FS_Subset
<1>4. Cardinality(below) \in Nat /\ Cardinality(S) \in Nat /\ Cardinality(below) # 0
  BY <1>1, <1>2, <1>3, FS_CardinalityType, FS_EmptySet
<1> QED
  BY <1>3, <1>4 DEF Rank, below

LEMMA RankAdd ==
  ASSUME NEW n \in Nat, NEW S \in SUBSET (1 .. n)
  PROVE  /\ \A i \in S : Rank(S \cup {n + 1}, i) = Rank(S, i)
         /\ Rank(S \cup {n + 1}, n + 1) = Cardinality(S) + 1
         /\ Cardinality(S \cup {n + 1}) = Cardinality(S) + 1
<1>1. IsFiniteSet(S) /\ n + 1 \notin S
  <2>1. n + 1 \notin 1 .. n
    OBVIOUS
  <2>2. IsFiniteSet(1 .. n)
    BY FS_Interval
  <2> QED
    BY <2>1, <2>2, FS_Subset
<1>2. Cardinality(S \cup {n + 1}) = Cardinality(S) + 1
  BY <1>1, FS_AddElement
<1>3. {j \in S \cup {n + 1} : j <= n + 1} = S \cup {n + 1}
  <2>1. \A j \in S \cup {n + 1} : j <= n + 1
    OBVIOUS
  <2> QED
    BY <2>1
<1>4. ASSUME NEW i \in S
      PROVE  Rank(S \cup {n + 1}, i) = Rank(S, i)
  <2>1. {j \in S \cup {n + 1} : j <= i} = {j \in S : j <= i}
    OBVIOUS
  <2> QED
    BY <2>1 DEF Rank
<1> QED
  BY <1>2, <1>3, <1>4 DEF Rank

-----------------------------------------------------------------------------
(* What the server said and the client was told.                           *)

Wires == {"headers", "role", "content", "reasoning_content", "tool_calls", "final",
          "error", "DONE", "message", "refusal"}
Voices == {"content", "reasoning_content"}

Said(lines) == {i \in DOMAIN lines : lines[i] \in {"text", "reasoning"}}
Told(chunks) == {i \in DOMAIN chunks : chunks[i] \in Voices}

SameSaid(chunks, lines) ==
  /\ Cardinality(Told(chunks)) = Cardinality(Said(lines))
  /\ \A i \in Told(chunks), j \in Said(lines) :
       Rank(Told(chunks), i) = Rank(Said(lines), j) => chunks[i] = Chunk(lines[j])

LEMMA SameSaidEmpty == SameSaid(<<>>, <<>>)
BY DEF SameSaid, Told, Said

LEMMA ToldAppend ==
  ASSUME NEW w \in Seq(Wires), NEW x \in Wires
  PROVE  /\ Told(w) \in SUBSET (1 .. Len(w)) /\ Len(w) \in Nat
         /\ Told(Append(w, x)) = IF x \in Voices THEN Told(w) \cup {Len(w) + 1} ELSE Told(w)
         /\ \A i \in Told(w) : Append(w, x)[i] = w[i]
         /\ Append(w, x)[Len(w) + 1] = x
<1>1. /\ DOMAIN w = 1 .. Len(w) /\ Len(w) \in Nat
      /\ DOMAIN Append(w, x) = 1 .. Len(w) + 1
      /\ \A i \in 1 .. Len(w) : Append(w, x)[i] = w[i]
      /\ Append(w, x)[Len(w) + 1] = x
  OBVIOUS
<1> QED
  BY <1>1 DEF Told

LEMMA SaidAppend ==
  ASSUME NEW h \in Seq(Lines), NEW x \in Lines
  PROVE  /\ Said(h) \in SUBSET (1 .. Len(h)) /\ Len(h) \in Nat
         /\ Said(Append(h, x)) = IF x \in {"text", "reasoning"}
                                 THEN Said(h) \cup {Len(h) + 1} ELSE Said(h)
         /\ \A i \in Said(h) : Append(h, x)[i] = h[i]
         /\ Append(h, x)[Len(h) + 1] = x
<1>1. /\ DOMAIN h = 1 .. Len(h) /\ Len(h) \in Nat
      /\ DOMAIN Append(h, x) = 1 .. Len(h) + 1
      /\ \A i \in 1 .. Len(h) : Append(h, x)[i] = h[i]
      /\ Append(h, x)[Len(h) + 1] = x
  OBVIOUS
<1> QED
  BY <1>1 DEF Said

\* A chunk that is no voice, or a line that says nothing, makes no difference.
LEMMA SameSaidOther ==
  ASSUME NEW w \in Seq(Wires), NEW h \in Seq(Lines), SameSaid(w, h)
  PROVE  /\ \A x \in Wires \ Voices : SameSaid(Append(w, x), h)
         /\ \A x \in Lines \ {"text", "reasoning"} : SameSaid(w, Append(h, x))
<1>1. ASSUME NEW x \in Wires \ Voices
      PROVE  SameSaid(Append(w, x), h)
  <2>1. Told(Append(w, x)) = Told(w) /\ \A i \in Told(w) : Append(w, x)[i] = w[i]
    BY ToldAppend
  <2> QED
    BY <2>1 DEF SameSaid
<1>2. ASSUME NEW x \in Lines \ {"text", "reasoning"}
      PROVE  SameSaid(w, Append(h, x))
  <2>1. Said(Append(h, x)) = Said(h) /\ \A i \in Said(h) : Append(h, x)[i] = h[i]
    BY SaidAppend
  <2> QED
    BY <2>1 DEF SameSaid
<1> QED
  BY <1>1, <1>2

\* What is said next is told next.
LEMMA SameSaidBoth ==
  ASSUME NEW w \in Seq(Wires), NEW h \in Seq(Lines), SameSaid(w, h),
         NEW x \in {"text", "reasoning"}
  PROVE  SameSaid(Append(w, Chunk(x)), Append(h, x))
<1> DEFINE T == Told(w)
           S == Said(h)
           m == Len(w)
           n == Len(h)
           w2 == Append(w, Chunk(x))
           h2 == Append(h, x)
<1>1. Chunk(x) \in Voices /\ Chunk(x) \in Wires /\ x \in Lines
  BY DEF Chunk, Voices, Wires, Lines, LineOf
<1>2. /\ T \in SUBSET (1 .. m) /\ m \in Nat /\ Told(w2) = T \cup {m + 1}
      /\ \A i \in T : w2[i] = w[i]
      /\ w2[m + 1] = Chunk(x)
  BY <1>1, ToldAppend
<1>3. /\ S \in SUBSET (1 .. n) /\ n \in Nat /\ Said(h2) = S \cup {n + 1}
      /\ \A i \in S : h2[i] = h[i]
      /\ h2[n + 1] = x
  BY <1>1, SaidAppend
<1>4. Cardinality(T) = Cardinality(S)
      /\ \A i \in T, j \in S : Rank(T, i) = Rank(S, j) => w[i] = Chunk(h[j])
  BY DEF SameSaid
<1> HIDE DEF T, S, m, n, w2, h2
<1>5. /\ \A i \in T : Rank(T \cup {m + 1}, i) = Rank(T, i)
      /\ Rank(T \cup {m + 1}, m + 1) = Cardinality(T) + 1
      /\ Cardinality(T \cup {m + 1}) = Cardinality(T) + 1
      /\ \A i \in T : Rank(T, i) \in 1 .. Cardinality(T) /\ Cardinality(T) \in Nat
  BY <1>2, RankAdd, RankType
<1>6. /\ \A i \in S : Rank(S \cup {n + 1}, i) = Rank(S, i)
      /\ Rank(S \cup {n + 1}, n + 1) = Cardinality(S) + 1
      /\ Cardinality(S \cup {n + 1}) = Cardinality(S) + 1
      /\ \A i \in S : Rank(S, i) \in 1 .. Cardinality(S) /\ Cardinality(S) \in Nat
  BY <1>3, RankAdd, RankType
<1>7. ASSUME NEW i \in T \cup {m + 1}, NEW j \in S \cup {n + 1},
             Rank(T \cup {m + 1}, i) = Rank(S \cup {n + 1}, j)
      PROVE  w2[i] = Chunk(h2[j])
  <2>1. CASE i \in T /\ j \in S
    BY <1>2, <1>3, <1>4, <1>5, <1>6, <1>7, <2>1
  <2>2. CASE i = m + 1 /\ j = n + 1
    BY <1>2, <1>3, <2>2
  <2>3. CASE i \in T /\ j = n + 1
    <3>1. Rank(T, i) = Cardinality(T) + 1
      BY <1>4, <1>5, <1>6, <1>7, <2>3
    <3>2. Rank(T, i) \in 1 .. Cardinality(T) /\ Cardinality(T) \in Nat
      BY <1>5, <2>3
    <3> QED
      BY <3>1, <3>2
  <2>4. CASE i = m + 1 /\ j \in S
    <3>1. Rank(S, j) = Cardinality(S) + 1
      BY <1>4, <1>5, <1>6, <1>7, <2>4
    <3>2. Rank(S, j) \in 1 .. Cardinality(S) /\ Cardinality(S) \in Nat
      BY <1>6, <2>4
    <3> QED
      BY <3>1, <3>2
  <2> QED
    BY <2>1, <2>2, <2>3, <2>4
<1>8. Cardinality(Told(w2)) = Cardinality(Said(h2))
  BY <1>2, <1>3, <1>4, <1>5, <1>6
<1>9. \A i \in Told(w2), j \in Said(h2) :
        Rank(Told(w2), i) = Rank(Said(h2), j) => w2[i] = Chunk(h2[j])
  <2>1. Told(w2) = T \cup {m + 1} /\ Said(h2) = S \cup {n + 1}
    BY <1>2, <1>3
  <2>2. \A i \in T \cup {m + 1}, j \in S \cup {n + 1} :
          Rank(T \cup {m + 1}, i) = Rank(S \cup {n + 1}, j) => w2[i] = Chunk(h2[j])
    BY <1>7
  <2> QED
    BY <2>1, <2>2, Zenon
<1> QED
  BY <1>8, <1>9 DEF SameSaid, w2, h2

-----------------------------------------------------------------------------
(* What a step of the provider is to the handler of the chat.              *)

Yields(type) ==
  emitted' = Append(emitted, [type |-> type, sequence |-> Len(emitted)])

EventsQuiet ==
  /\ pc = "sending" /\ pc' \in {"sending", "reading"}
  /\ UNCHANGED <<emitted, heard, metadata, outcome>>
EventsFail ==
  /\ pc \in {"sending", "reading"} /\ pc' = "idle" /\ outcome' \in {"failed", "stray"}
  /\ UNCHANGED <<emitted, metadata>>
EventsMute ==
  /\ pc = "reading" /\ pc' = "reading"
  /\ \E line \in {"call", "nameless"} : heard' = Append(heard, line)
  /\ UNCHANGED <<emitted, metadata, outcome>>
EventsSay ==
  /\ pc = "reading" /\ pc' = "reading"
  /\ \E line \in {"text", "reasoning"} :
       /\ heard' = Append(heard, line)
       /\ Yields(IF line = "text" THEN "text_delta" ELSE "reasoning_delta")
  /\ UNCHANGED <<metadata, outcome>>
EventsRead ==
  /\ pc = "reading" /\ pc' = "usage"
  /\ heard' \in {heard, Append(heard, "done")}
  /\ kind = "ollama" => heard' = Append(heard, "done")
  /\ Count(heard, "call") > 0 => calls'
  /\ UNCHANGED <<emitted, outcome>>
EventsYield ==
  /\ \/ pc = "opening" /\ pc' = "sending" /\ Yields("started")
     \/ pc = "usage" /\ pc' = (IF calls THEN "calls" ELSE "completing") /\ Yields("usage")
     \/ pc = "calls" /\ pc' = "completing" /\ Yields("tool_calls")
  /\ UNCHANGED <<heard, metadata, outcome>>
EventsEnd ==
  /\ pc = "completing" /\ pc' = "idle" /\ outcome' = "answered"
  /\ Yields("completed")
  /\ UNCHANGED <<heard, metadata>>

LEMMA EventsStep ==
  ASSUME ProviderInv, Numbered, Step, call.via = "events"
  PROVE  /\ UNCHANGED <<kind, call, count>>
         /\ pc' \in {"usage", "reading"} \/ UNCHANGED calls
         /\ \/ EventsQuiet \/ EventsFail \/ EventsMute \/ EventsSay \/ EventsRead
            \/ EventsYield \/ EventsEnd
<1>1. /\ pc # "idle" => call.streamed
      /\ ~FirstChat
      /\ pc # "idle" => sequence = Len(emitted)
  BY ShapesType DEF ProviderInv, TypeOK, Numbered, FirstChat
<1>2. \A type : pc # "idle" /\ Emit(type) => Yields(type)
  BY <1>1 DEF Emit, Yields
<1>3. CASE Started
  BY <1>2, <1>3 DEF Started, EventsYield
<1>4. CASE TransportFails
  BY <1>1, <1>4 DEF TransportFails, Fails, End, EventsFail, Degraded
<1>5. CASE \E status \in {400, 500} : OllamaRejected(status)
  BY <1>5 DEF OllamaRejected, Fails, End, Sends, EventsFail, EventsQuiet
<1>6. CASE \E status \in {400, 500}, blamed, read \in BOOLEAN :
             OpenAIRejected(status, blamed, read)
  BY <1>1, <1>6 DEF OpenAIRejected, FormatUnsupported, Fails, End, Sends, EventsFail,
     EventsQuiet
<1>7. CASE Connects
  BY <1>7 DEF Connects, EventsQuiet
<1>8. CASE \E line \in {"text", "reasoning", "call", "nameless"} : Line(line)
  <2> PICK line \in {"text", "reasoning", "call", "nameless"} : Line(line)
    BY <1>8
  <2>1. heard' \in Seq(Lines)
    BY DEF Line, Lines, LineOf, ProviderInv, TypeOK
  <2>2. CASE line = "text" /\ Texts(heard') > Limit
    BY <2>1, <2>2, LineCases DEF End, EventsFail
  <2>3. CASE ~(line = "text" /\ Texts(heard') > Limit) /\ line \in {"call", "nameless"}
    BY <2>1, <2>3, LineCases DEF EventsMute
  <2>4. CASE ~(line = "text" /\ Texts(heard') > Limit) /\ line \notin {"call", "nameless"}
    BY <1>2, <2>1, <2>4, LineCases DEF EventsSay
  <2> QED
    BY <2>1, <2>2, <2>3, <2>4, LineCases
<1>9. CASE \E result \in {"failed", "stray"} : BadLine(result) \/ BadAnswer(result)
  BY <1>1, <1>9 DEF BadLine, BadAnswer, Fails, End, EventsFail
<1>10. CASE \E done, textual \in BOOLEAN : Ends(done, textual)
  <2> PICK done \in BOOLEAN, textual \in BOOLEAN : Ends(done, textual)
    BY <1>10
  <2>1. CASE Truncated(done) /\ Fails("failed")
    BY <2>1 DEF Ends, Fails, End, EventsFail
  <2>2. CASE ~Truncated(done) /\ ~Fails("failed")
    BY <2>2 DEF Ends, Truncated, EventsRead
  <2>3. CASE ~Truncated(done) /\ Fails("failed")
    BY <2>3 DEF Ends, Fails, End
  <2> QED
    BY <2>1, <2>2, <2>3 DEF Ends
<1>11. CASE Usage
  BY <1>2, <1>11 DEF Usage, EventsYield
<1>12. CASE ToolCalls
  BY <1>2, <1>12 DEF ToolCalls, EventsYield
<1>13. CASE Completed
  BY <1>2, <1>13 DEF Completed, End, EventsEnd
<1>14. CASE \E hasCalls, textual \in BOOLEAN : Answer(hasCalls, textual)
  BY <1>1, <1>14 DEF Answer
<1> QED
  BY <1>3, <1>4, <1>5, <1>6, <1>7, <1>8, <1>9, <1>10, <1>11, <1>12, <1>13, <1>14 DEF Step

\* A call without a stream goes on, fails or is answered.
LEMMA TextStep ==
  ASSUME ProviderInv, Step, ~call.streamed, call.via = "text"
  PROVE  /\ UNCHANGED <<call, count>>
         /\ \/ pc' = "sending" /\ UNCHANGED <<metadata, outcome>>
            \/ pc' = "idle" /\ outcome' \in {"failed", "stray"} /\ UNCHANGED metadata
            \/ pc' = "idle" /\ outcome' = "answered"
<1>1. pc \in {"idle", "sending"}
  BY ProviderAssumption DEF ProviderInv, TypeOK
<1>2. CASE TransportFails
  BY <1>2 DEF TransportFails, Fails, End
<1>3. CASE \E status \in {400, 500} : OllamaRejected(status)
  BY <1>3 DEF OllamaRejected, Fails, End, Sends
<1>4. CASE \E status \in {400, 500}, blamed, read \in BOOLEAN :
             OpenAIRejected(status, blamed, read)
  BY <1>4 DEF OpenAIRejected, FormatUnsupported, ChatAgain, FirstStep, Fails, End, Sends
<1>5. CASE \E result \in {"failed", "stray"} : BadLine(result) \/ BadAnswer(result)
  BY <1>5 DEF BadLine, BadAnswer, Fails, End
<1>6. CASE \E hasCalls, textual \in BOOLEAN : Answer(hasCalls, textual)
  BY <1>6 DEF Answer, End, Result
<1>7. CASE Started \/ Connects \/ Usage \/ ToolCalls \/ Completed
           \/ (\E line \in {"text", "reasoning", "call", "nameless"} : Line(line))
           \/ (\E done, textual \in BOOLEAN : Ends(done, textual))
  BY <1>1, <1>7 DEF Started, Connects, Usage, ToolCalls, Completed, Line, Ends
<1> QED
  BY <1>2, <1>3, <1>4, <1>5, <1>6, <1>7 DEF Step

-----------------------------------------------------------------------------
(* The chat.                                                               *)

\* What the client will have been sent when the handler has passed on what the
\* provider has yielded.
Owed == IF taken < Len(emitted) THEN Chunks(emitted[Len(emitted)].type) ELSE <<>>
Full == wire \o Owed

\* Nothing that ends a chat.
Untold(chunks) ==
  \A i \in DOMAIN chunks : chunks[i] \notin {"final", "error", "DONE", "message", "refusal"}

\* While the answer is read, the client is sent what was said; a call the server
\* made comes after the usage.
Faithful ==
  /\ SameSaid(Full, heard)
  /\ pc \in {"opening", "sending", "reading"} => Count(heard, "done") = 0
  /\ pc \notin {"opening", "sending", "reading"} /\ kind = "ollama" =>
       Count(heard, "done") = 1
  /\ pc \in {"opening", "sending", "reading", "usage", "calls"} =>
       Count(Full, "tool_calls") = 0
  /\ pc = "usage" /\ Count(heard, "call") > 0 => calls
  /\ pc \in {"completing", "idle"} /\ Count(heard, "call") > 0 =>
       Count(Full, "tool_calls") = 1

\* The call a handler follows is its own, and until it is answered the provider has
\* nothing to record it with.
Following ==
  /\ call = asked
  /\ outcome \in {"none", "answered", "failed", "stray"}
  /\ pc \in {"opening", "sending", "reading"} \/ outcome = "failed" => metadata = None

Chatting ==
  /\ handler \in {"free", "routed", "streaming", "waiting", "fallback", "last", "ended"}
  /\ asked \in ChatShapes \cup {None}
  /\ handler # "free" => asked \in ChatShapes
  /\ tiers \in 0 .. MaxTiers /\ connected \in BOOLEAN
  /\ wire \in Seq(Wires)
  /\ recorded \in Seq({"completed", "failed", "unwritten"})
  /\ taken \in 0 .. Len(emitted)
  /\ Len(emitted) <= taken + 1 \/ handler = "free"
  /\ handler \notin {"streaming", "ended"} => taken = 0 /\ wire = <<>>
  /\ handler # "ended" => recorded = <<>> /\ Untold(wire)
  /\ handler \in {"routed", "fallback"} => pc = "idle" /\ metadata = None /\ emitted = <<>>
  /\ handler \in {"fallback", "waiting", "last"} => ~asked.streamed
  /\ handler \in {"waiting", "last", "streaming"} => Following
  /\ handler = "streaming" =>
       asked.streamed /\ (outcome \in {"none", "answered"} => Faithful)
  /\ ClientGetsTheAnswer
  /\ ClientIsTold

LEMMA InitChatting == ChatInit => Chatting
<1> SUFFICES ASSUME ChatInit PROVE Chatting
  OBVIOUS
<1>1. Range(wire) = {}
  BY DEF ChatInit, Range
<1>2. taken \in 0 .. Len(emitted)
  BY DEF ChatInit, Init
<1> QED
  BY <1>1, <1>2 DEF ChatInit, Chatting, Untold, ClientGetsTheAnswer, ClientIsTold

LEMMA ChatShapesType ==
  \A c \in ChatShapes : /\ c \in CallShapes /\ c.streamed \in BOOLEAN
                        /\ c.streamed => c.via = "events"
                        /\ ~c.streamed => c.via = "text"
BY ShapesType DEF ChatShapes

\* A chat uses its provider as others do.
LEMMA ChatSteps == Chatting /\ [ChatNext]_chatVars => ProviderStep
<1> SUFFICES ASSUME Chatting, [ChatNext]_chatVars PROVE ProviderStep
  OBVIOUS
<1>1. CASE Ask
  BY <1>1, ChatShapesType DEF Ask, Chatting, ProviderStep
<1>2. CASE \E c \in ChatShapes : Route(c)
  BY <1>2 DEF Route, ProviderStep
<1>3. CASE handler = "free" /\ Next /\ UNCHANGED chat
  BY <1>3 DEF Next, ProviderStep
<1>4. CASE Disconnect \/ UNCHANGED chatVars
  BY <1>4 DEF Disconnect, chatVars, ProviderStep
<1>5. CASE Pull \/ Forward \/ HangUp \/ EndStream \/ FallBack \/ Refuse \/ Reply
  BY <1>5 DEF Pull, Forward, HangUp, EndStream, FallBack, Refuse, Reply, ProviderStep
<1> QED
  BY <1>1, <1>2, <1>3, <1>4, <1>5 DEF ChatNext, Chat

\* Chunks are appended one by one.
LEMMA ChunksAre ==
  ASSUME NEW w \in Seq(Wires)
  PROVE  /\ w \o Chunks("started") = Append(Append(w, "headers"), "role")
         /\ w \o Chunks("reasoning_delta") = Append(w, "reasoning_content")
         /\ w \o Chunks("text_delta") = Append(w, "content")
         /\ w \o Chunks("tool_calls") = Append(w, "tool_calls")
         /\ w \o Chunks("usage") = w
         /\ w \o Chunks("completed") = w
         /\ w \o <<>> = w
         /\ w \o <<"final", "DONE">> = Append(Append(w, "final"), "DONE")
         /\ w \o <<"error", "DONE">> = Append(Append(w, "error"), "DONE")
BY DEF Chunks, Wires

\* What they add.
LEMMA ChunksUntold ==
  ASSUME NEW w \in Seq(Wires), Untold(w), NEW type \in Contract!Types
  PROVE  w \o Chunks(type) \in Seq(Wires) /\ Untold(w \o Chunks(type))
<1>1. \A x \in Wires \ {"final", "error", "DONE", "message", "refusal"}, s \in Seq(Wires) :
        Untold(s) => Append(s, x) \in Seq(Wires) /\ Untold(Append(s, x))
  <2> TAKE x \in Wires \ {"final", "error", "DONE", "message", "refusal"}, s \in Seq(Wires)
  <2>1. /\ Append(s, x) \in Seq(Wires)
        /\ DOMAIN s = 1 .. Len(s) /\ Len(s) \in Nat /\ DOMAIN Append(s, x) = 1 .. Len(s) + 1
        /\ \A i \in 1 .. Len(s) : Append(s, x)[i] = s[i]
        /\ Append(s, x)[Len(s) + 1] = x
    OBVIOUS
  <2> QED
    BY <2>1 DEF Untold
<1>2. {"headers", "role", "reasoning_content", "content", "tool_calls"}
        \subseteq Wires \ {"final", "error", "DONE", "message", "refusal"}
  BY DEF Wires
<1>3. type \in {"started", "reasoning_delta", "text_delta", "tool_calls", "usage",
                "completed"}
  BY DEF Contract!Types, Contract!Deltas
<1>4. Append(Append(w, "headers"), "role") \in Seq(Wires)
      /\ Untold(Append(Append(w, "headers"), "role"))
  BY <1>1, <1>2
<1>5. CASE type = "started"
  BY <1>4, <1>5, ChunksAre, Zenon
<1>6. \A x \in {"reasoning_content", "content", "tool_calls"} :
        Append(w, x) \in Seq(Wires) /\ Untold(Append(w, x))
  BY <1>1, <1>2
<1>7. CASE type \in {"reasoning_delta", "text_delta", "tool_calls"}
  BY <1>6, <1>7, ChunksAre
<1>8. CASE type \in {"usage", "completed"}
  BY <1>8, ChunksAre
<1> QED
  BY <1>3, <1>5, <1>7, <1>8

\* Nothing of an ending is among what is not one.
LEMMA UntoldCounts ==
  ASSUME NEW w \in Seq(Wires), Untold(w)
  PROVE  \A x \in {"final", "error", "DONE", "message", "refusal"} :
           Count(w, x) = 0 /\ x \notin Range(w)
<1> SUFFICES ASSUME NEW x \in {"final", "error", "DONE", "message", "refusal"}
             PROVE  Count(w, x) = 0 /\ x \notin Range(w)
  OBVIOUS
<1>1. \A i \in DOMAIN w : w[i] # x
  BY DEF Untold
<1> QED
  BY <1>1, CountNone DEF Range

\* Before it has ended a chat has nothing to be told.
LEMMA NotEnded ==
  ASSUME wire' \in Seq(Wires), Untold(wire'), handler' # "ended"
  PROVE  ClientGetsTheAnswer' /\ ClientIsTold'
BY UntoldCounts DEF ClientGetsTheAnswer, ClientIsTold

LEMMA RangeAppend ==
  ASSUME NEW S, NEW s \in Seq(S), NEW x \in S
  PROVE  Range(Append(s, x)) = Range(s) \cup {x}
<1> DEFINE new == Append(s, x)
<1>1. /\ DOMAIN s = 1 .. Len(s) /\ Len(s) \in Nat /\ DOMAIN new = 1 .. Len(s) + 1
      /\ \A i \in 1 .. Len(s) : new[i] = s[i]
      /\ new[Len(s) + 1] = x
  OBVIOUS
<1> HIDE DEF new
<1>2. 1 .. Len(s) + 1 = 1 .. Len(s) \cup {Len(s) + 1}
  BY <1>1
<1>3. Range(new) = Range(s) \cup {x}
  BY <1>1, <1>2 DEF Range
<1> QED
  BY <1>3 DEF new

\* One more chunk, what it adds to the counts and to what was sent.
LEMMA WireAppend ==
  \A w \in Seq(Wires), x \in Wires :
    /\ Append(w, x) \in Seq(Wires)
    /\ Range(Append(w, x)) = Range(w) \cup {x}
    /\ \A y : /\ Count(w, y) \in Nat
             /\ Count(Append(w, x), y) = IF x = y THEN Count(w, y) + 1 ELSE Count(w, y)
<1> SUFFICES ASSUME NEW w \in Seq(Wires), NEW x \in Wires
             PROVE  /\ Append(w, x) \in Seq(Wires)
                    /\ Range(Append(w, x)) = Range(w) \cup {x}
                    /\ \A y : /\ Count(w, y) \in Nat
                             /\ Count(Append(w, x), y) =
                                  IF x = y THEN Count(w, y) + 1 ELSE Count(w, y)
  OBVIOUS
<1>1. Append(w, x) \in Seq(Wires)
  OBVIOUS
<1>2. Range(Append(w, x)) = Range(w) \cup {x}
  BY RangeAppend
<1>3. ASSUME NEW y
      PROVE  /\ Count(w, y) \in Nat
             /\ Count(Append(w, x), y) = IF x = y THEN Count(w, y) + 1 ELSE Count(w, y)
  <2>1. Count(w, y) \in Nat
    BY CountType
  <2>2. Count(Append(w, x), y) = IF x = y THEN Count(w, y) + 1 ELSE Count(w, y)
    BY CountAppend
  <2> QED
    BY <2>1, <2>2
<1> QED
  BY <1>1, <1>2, <1>3

\* What is recorded of a chat, at most one outcome.
LEMMA OneOutcome ==
  /\ \A x \in {"completed", "failed", "unwritten"} :
       /\ Append(<<>>, x) = <<x>> /\ <<x>> # <<>> /\ Range(<<x>>) = {x}
       /\ <<x>> \in Seq({"completed", "failed", "unwritten"})
  /\ Range(<<>>) = {}
  /\ <<>> \in Seq({"completed", "failed", "unwritten"})
<1>1. ASSUME NEW x \in {"completed", "failed", "unwritten"}
      PROVE  /\ Append(<<>>, x) = <<x>> /\ <<x>> # <<>> /\ Range(<<x>>) = {x}
             /\ <<x>> \in Seq({"completed", "failed", "unwritten"})
  <2>1. Append(<<>>, x) = <<x>> /\ <<x>> # <<>>
    OBVIOUS
  <2>2. DOMAIN <<x>> = {1} /\ <<x>>[1] = x
    OBVIOUS
  <2>3. Range(<<x>>) = {x}
    BY <2>2, Zenon DEF Range
  <2> QED
    BY <2>1, <2>3
<1>2. Range(<<>>) = {}
  BY DEF Range
<1> QED
  BY <1>1, <1>2

\* What record_model_call does, from nothing recorded.
LEMMA RecordIs ==
  ASSUME NEW result \in {"completed", "failed"}, recorded = <<>>, Record(result)
  PROVE  /\ recorded' \in {<<>>, <<result>>, <<"unwritten">>}
         /\ metadata = None => recorded' = <<>>
         /\ metadata # None => recorded' # <<>>
         /\ recorded' \in Seq({"completed", "failed", "unwritten"})
         /\ "unwritten" \in Range(recorded') <=> recorded' = <<"unwritten">>
<1>1. PICK entry \in {result, "unwritten"} :
        recorded' = IF metadata = None THEN recorded ELSE Append(recorded, entry)
  BY DEF Record
<1>2. CASE metadata = None
  <2>1. recorded' = <<>> /\ <<>> # <<"unwritten">>
    BY <1>1, <1>2, OneOutcome
  <2> QED
    BY <1>2, <2>1, OneOutcome
<1>3. CASE metadata # None
  <2>1. recorded' = <<entry>> /\ entry \in {"completed", "failed", "unwritten"}
    BY <1>1, <1>3, OneOutcome
  <2>2. <<entry>> = <<"unwritten">> <=> entry = "unwritten"
    OBVIOUS
  <2> QED
    BY <1>1, <1>3, <2>1, <2>2, OneOutcome
<1> QED
  BY <1>2, <1>3

\* Events of the provider as the handler of the chat finds them.
LEMMA EventsType ==
  ASSUME Numbered
  PROVE  /\ emitted \in Seq([type : Contract!Types, sequence : Nat])
         /\ Len(emitted) \in Nat
         /\ \A i \in 1 .. Len(emitted) : emitted[i].type \in Contract!Types
         /\ emitted = <<>> => Len(emitted) = 0
<1> DEFINE Event == [type : Contract!Types, sequence : Nat]
<1>1. emitted \in Seq(Event)
  BY DEF Numbered
<1>2. \A e \in Event : e.type \in Contract!Types
  OBVIOUS
<1> HIDE DEF Event
<1>3. Len(emitted) \in Nat /\ \A i \in 1 .. Len(emitted) : emitted[i] \in Event
  BY <1>1
<1> QED
  BY <1>1, <1>2, <1>3 DEF Event

LEMMA RouteChatting ==
  ASSUME Chatting, NEW c \in ChatShapes, Route(c)
  PROVE  Chatting'
<1>1. /\ handler = "free" /\ pc = "idle" /\ pc' = "idle" /\ handler' = "routed" /\ asked' = c
      /\ emitted' = <<>> /\ metadata' = None
      /\ UNCHANGED <<tiers, connected, taken, wire, recorded>>
  BY DEF Route, NewProvider
<1>2. taken' = 0 /\ wire' = <<>> /\ recorded' = <<>> /\ wire' \in Seq(Wires)
      /\ Len(emitted') = 0
  BY <1>1 DEF Chatting
<1>3. Untold(wire')
  BY <1>1 DEF Chatting
<1>4. ClientGetsTheAnswer' /\ ClientIsTold'
  BY <1>1, <1>2, <1>3, NotEnded
<1> QED
  BY <1>1, <1>2, <1>3, <1>4 DEF Chatting

LEMMA AskChatting ==
  ASSUME Chatting, Ask
  PROVE  Chatting'
<1>1. /\ handler \in {"routed", "fallback"} /\ asked \in ChatShapes
      /\ handler = "fallback" => ~asked.streamed
      /\ taken = 0 /\ wire = <<>> /\ wire \in Seq(Wires) /\ recorded = <<>> /\ Untold(wire)
      /\ metadata = None
  BY DEF Ask, Chatting
<1>2. /\ handler' = IF handler = "fallback" THEN "last"
                   ELSE IF asked.streamed THEN "streaming" ELSE "waiting"
      /\ UNCHANGED <<metadata, asked, tiers, connected, taken, wire, recorded>>
      /\ call' = asked /\ emitted' = <<>> /\ heard' = <<>> /\ outcome' = "none"
      /\ pc' = IF asked.streamed THEN "opening" ELSE "sending"
      /\ Len(emitted') = 0
  BY <1>1 DEF Ask, Begin, FirstStep
<1>3. asked.streamed \in BOOLEAN
  BY <1>1, ChatShapesType
<1>4. handler' \in {"streaming", "waiting", "last"}
      /\ (handler' = "streaming" => asked.streamed)
      /\ (handler' \in {"waiting", "last"} => ~asked.streamed)
  BY <1>1, <1>2, <1>3
<1>5. Following'
  BY <1>1, <1>2 DEF Following
<1>6. ASSUME asked.streamed
      PROVE  Faithful'
  <2>1. Full' = <<>>
    BY <1>1, <1>2 DEF Full, Owed
  <2>2. \A x : Count(<<>>, x) = 0
    BY CountNone
  <2> QED
    BY <1>2, <1>6, <2>1, <2>2, SameSaidEmpty DEF Faithful
<1>7. ClientGetsTheAnswer' /\ ClientIsTold'
  BY <1>1, <1>2, <1>4, NotEnded
<1> HIDE DEF ChatShapes
<1> QED
  BY <1>1, <1>2, <1>4, <1>5, <1>6, <1>7 DEF Chatting

LEMMA DisconnectChatting ==
  ASSUME Chatting, Disconnect
  PROVE  Chatting'
<1>1. handler' # "ended" /\ connected' = FALSE
      /\ UNCHANGED <<vars, handler, asked, tiers, taken, wire, recorded>>
  BY DEF Disconnect
<1>2. Following' <=> Following
  BY <1>1 DEF vars, Following
<1>3. Faithful' <=> Faithful
  BY <1>1 DEF vars, Faithful, Full, Owed
<1>4. ClientGetsTheAnswer'
  BY <1>1 DEF vars, ClientGetsTheAnswer, Chatting
<1>5. ClientIsTold'
  BY <1>1 DEF ClientIsTold
<1> QED
  BY <1>1, <1>2, <1>3, <1>4, <1>5 DEF Chatting, vars

LEMMA ForwardChatting ==
  ASSUME Numbered, Chatting, Forward
  PROVE  Chatting'
<1>1. /\ handler = "streaming" /\ taken < Len(emitted) /\ taken' = taken + 1
      /\ wire' = wire \o Chunks(emitted[taken + 1].type)
      /\ UNCHANGED <<vars, handler, asked, tiers, connected, recorded>>
  BY DEF Forward
<1>2. /\ taken \in Nat /\ Len(emitted) \in Nat /\ taken + 1 = Len(emitted)
      /\ wire \in Seq(Wires) /\ Untold(wire)
  BY <1>1, EventsType DEF Chatting
<1>3. emitted[taken + 1].type \in Contract!Types
  BY <1>2, EventsType
<1>4. wire' \in Seq(Wires) /\ Untold(wire')
  BY <1>1, <1>2, <1>3, ChunksUntold
<1>5. Full' = Full
  <2>1. Owed' = <<>>
    BY <1>1, <1>2 DEF Owed, vars
  <2>2. Full = wire'
    BY <1>1, <1>2 DEF Full, Owed
  <2>3. wire' \o <<>> = wire'
    BY <1>4
  <2> QED
    BY <2>1, <2>2, <2>3 DEF Full
<1>6. Faithful' <=> Faithful
  BY <1>1, <1>5 DEF vars, Faithful
<1>7. Following' <=> Following
  BY <1>1 DEF vars, Following
<1>8. ClientGetsTheAnswer' /\ ClientIsTold'
  BY <1>1, <1>4, NotEnded
<1> QED
  BY <1>1, <1>2, <1>4, <1>6, <1>7, <1>8 DEF Chatting, vars

LEMMA HangUpChatting ==
  ASSUME Chatting, HangUp
  PROVE  Chatting'
<1>1. /\ handler = "streaming" /\ handler' = "ended" /\ ~connected /\ wire' = wire
      /\ UNCHANGED <<asked, tiers, connected, taken, recorded, emitted>>
  BY DEF HangUp, Leave, Close, Fails
<1>2. wire \in Seq(Wires) /\ Untold(wire)
  BY <1>1 DEF Chatting
<1>3. ClientGetsTheAnswer'
  BY <1>1, <1>2, UntoldCounts DEF ClientGetsTheAnswer
<1>4. ClientIsTold'
  BY <1>1 DEF ClientIsTold
<1> QED
  BY <1>1, <1>3, <1>4 DEF Chatting

LEMMA FallBackChatting ==
  ASSUME Chatting, FallBack
  PROVE  Chatting'
<1>1. /\ handler = "waiting" /\ handler' = "fallback" /\ outcome = "failed"
      /\ pc = "idle" /\ pc' = "idle" /\ emitted' = <<>> /\ metadata' = None
      /\ tiers > 0 /\ tiers' = tiers - 1
      /\ Record("failed")
      /\ UNCHANGED <<asked, connected, taken, wire>>
  BY DEF FallBack, NextTier, NewProvider
<1>2. /\ metadata = None /\ taken = 0 /\ wire = <<>> /\ recorded = <<>>
      /\ tiers \in 0 .. MaxTiers /\ wire \in Seq(Wires) /\ Untold(wire)
  BY <1>1 DEF Chatting, Following
<1>3. tiers' \in 0 .. MaxTiers /\ Len(emitted') = 0 /\ recorded' = <<>>
  BY <1>1, <1>2, ChatAssumption, RecordIs
<1>4. ClientGetsTheAnswer' /\ ClientIsTold'
  BY <1>1, <1>2, NotEnded
<1> HIDE DEF ChatShapes
<1> QED
  BY <1>1, <1>2, <1>3, <1>4 DEF Chatting

LEMMA RefuseChatting ==
  ASSUME Chatting, Refuse
  PROVE  Chatting'
<1>1. /\ handler \in {"waiting", "last"} /\ handler' = "ended" /\ outcome = "failed"
      /\ recorded' = recorded \/ Record("failed")
      /\ wire' = IF connected THEN wire \o <<"refusal">> ELSE wire
      /\ UNCHANGED <<asked, tiers, connected, taken, emitted, outcome>>
  BY DEF Refuse, GivesUp, Leave, vars
<1>2. /\ metadata = None /\ wire = <<>> /\ recorded = <<>>
      /\ wire \in Seq(Wires) /\ Untold(wire)
  BY <1>1 DEF Chatting, Following
<1>3. recorded' = <<>>
  BY <1>1, <1>2, RecordIs
<1>4. CASE connected
  <2>1. wire' = Append(wire, "refusal") /\ "refusal" \in Wires
    BY <1>1, <1>2, <1>4 DEF Wires
  <2>2. wire' \in Seq(Wires)
    BY <1>2, <2>1
  <2>3. /\ Range(wire') = Range(wire) \cup {"refusal"}
        /\ "final" \notin Range(wire) /\ "message" \notin Range(wire)
    BY <1>2, <2>1, WireAppend, UntoldCounts
  <2>4. Count(wire', "refusal") = Count(wire, "refusal") + 1
        /\ Count(wire', "error") = Count(wire, "error")
    BY <1>2, <2>1, WireAppend
  <2>5. Count(wire, "refusal") = 0 /\ Count(wire, "error") = 0
    BY <1>2, UntoldCounts
  <2>6. ClientGetsTheAnswer'
    BY <2>3 DEF ClientGetsTheAnswer
  <2>7. ClientIsTold'
    BY <1>1, <1>3, <2>3, <2>4, <2>5 DEF ClientIsTold
  <2> QED
    BY <1>1, <1>3, <2>2, <2>6, <2>7 DEF Chatting
<1>5. CASE ~connected
  <2>1. ClientGetsTheAnswer'
    BY <1>1, <1>2, <1>5, UntoldCounts DEF ClientGetsTheAnswer
  <2>2. ClientIsTold'
    BY <1>1, <1>5 DEF ClientIsTold
  <2> QED
    BY <1>1, <1>3, <1>5, <2>1, <2>2 DEF Chatting
<1> QED
  BY <1>4, <1>5

LEMMA ReplyChatting ==
  ASSUME Chatting, Reply
  PROVE  Chatting'
<1>1. /\ handler \in {"waiting", "last"} /\ handler' = "ended"
      /\ UNCHANGED <<asked, tiers, connected, taken, emitted, outcome>>
      /\ \/ /\ outcome = "answered" /\ Record("completed")
            /\ wire' = IF connected THEN wire \o OrRefusal(<<"message">>) ELSE wire
         \/ /\ outcome = "stray" /\ recorded' = recorded
            /\ wire' = IF connected THEN wire \o <<>> ELSE wire
  BY DEF Reply, Leave, vars
<1>2. /\ wire = <<>> /\ recorded = <<>> /\ wire \in Seq(Wires) /\ Untold(wire)
  BY <1>1 DEF Chatting
<1>3. /\ recorded' \in {<<>>, <<"completed">>, <<"unwritten">>}
      /\ recorded' \in Seq({"completed", "failed", "unwritten"})
      /\ "unwritten" \in Range(recorded') <=> recorded' = <<"unwritten">>
  BY <1>1, <1>2, RecordIs, OneOutcome
<1>4. \A x \in {"final", "error", "DONE", "message", "refusal"} :
        Count(wire, x) = 0 /\ x \notin Range(wire)
  BY <1>2, UntoldCounts
<1>5. CASE outcome = "answered" /\ connected
  <2>1. PICK ending \in {"refusal", "message"} :
          /\ wire' = Append(wire, ending)
          /\ ending = "refusal" <=> recorded' = <<"unwritten">>
    <3>1. CASE recorded' = <<"unwritten">>
      BY <1>1, <1>2, <1>3, <1>5, <3>1 DEF OrRefusal
    <3>2. CASE recorded' # <<"unwritten">>
      BY <1>1, <1>2, <1>3, <1>5, <3>2 DEF OrRefusal
    <3> QED
      BY <3>1, <3>2
  <2>2. ending \in Wires /\ wire' \in Seq(Wires) /\ wire'[Len(wire')] = ending
    <3>1. ending \in Wires
      BY DEF Wires
    <3> QED
      BY <1>2, <2>1, <3>1
  <2>3. /\ Range(wire') = Range(wire) \cup {ending}
        /\ \A y : Count(wire', y) = IF ending = y THEN Count(wire, y) + 1 ELSE Count(wire, y)
    <3>1. wire \in Seq(Wires) /\ ending \in Wires /\ wire' = Append(wire, ending)
      BY <1>2, <2>1, <2>2
    <3>2. Range(Append(wire, ending)) = Range(wire) \cup {ending}
      BY <3>1, WireAppend
    <3>3. \A y : Count(Append(wire, ending), y) =
                   IF ending = y THEN Count(wire, y) + 1 ELSE Count(wire, y)
      BY <3>1, WireAppend
    <3> QED
      BY <3>1, <3>2, <3>3
  <2>4. ClientGetsTheAnswer'
    BY <1>4, <2>1, <2>3 DEF ClientGetsTheAnswer
  <2>5. ClientIsTold'
    <3>1. CASE recorded' = <<"unwritten">>
      BY <1>1, <1>4, <1>5, <2>1, <2>2, <2>3, <3>1 DEF ClientIsTold
    <3>2. CASE recorded' # <<"unwritten">>
      <4>1. ending = "message" /\ recorded' \in {<<>>, <<"completed">>}
        BY <1>3, <2>1, <3>2
      <4>2. /\ Count(wire', "message") = 1 /\ Count(wire', "final") = 0
            /\ Range(wire') = Range(wire) \cup {"message"}
        BY <1>4, <2>3, <4>1
      <4> QED
        BY <1>1, <1>4, <1>5, <4>1, <4>2 DEF ClientIsTold
    <3> QED
      BY <3>1, <3>2
  <2> QED
    BY <1>1, <1>3, <2>2, <2>4, <2>5 DEF Chatting
<1>6. CASE ~(outcome = "answered" /\ connected)
  <2>1. wire' = wire
    BY <1>1, <1>2, <1>6
  <2>2. ClientGetsTheAnswer'
    BY <1>4, <2>1 DEF ClientGetsTheAnswer
  <2>3. ClientIsTold'
    BY <1>1, <1>2, <1>4, <1>6, <2>1 DEF ClientIsTold
  <2> QED
    BY <1>1, <1>3, <2>1, <2>2, <2>3 DEF Chatting
<1> QED
  BY <1>5, <1>6

\* What two last chunks add.
LEMMA EndingCounts ==
  ASSUME NEW w \in Seq(Wires), NEW x \in {"final", "error"}
  PROVE  LET told == Append(Append(w, x), "DONE")
         IN  /\ told \in Seq(Wires)
             /\ Range(told) = Range(w) \cup {x, "DONE"}
             /\ \A y : Count(told, y) = Count(w, y) + (IF y \in {x, "DONE"} THEN 1 ELSE 0)
<1> DEFINE told == Append(Append(w, x), "DONE")
<1>1. /\ x \in Wires /\ "DONE" \in Wires /\ Append(w, x) \in Seq(Wires)
      /\ x # "DONE"
  BY DEF Wires
<1>2. /\ told \in Seq(Wires)
      /\ Range(Append(w, x)) = Range(w) \cup {x}
      /\ Range(told) = Range(Append(w, x)) \cup {"DONE"}
  BY <1>1, WireAppend
<1>3. ASSUME NEW y
      PROVE  Count(told, y) = Count(w, y) + (IF y \in {x, "DONE"} THEN 1 ELSE 0)
  <2>1. /\ Count(Append(w, x), y) = IF x = y THEN Count(w, y) + 1 ELSE Count(w, y)
        /\ Count(told, y) = IF "DONE" = y THEN Count(Append(w, x), y) + 1
                            ELSE Count(Append(w, x), y)
        /\ Count(w, y) \in Nat
    BY <1>1, WireAppend
  <2> QED
    BY <1>1, <2>1
<1> QED
  BY <1>2, <1>3

\* The end of a stream: the answer has been told as it was said, a failure has no
\* record, and what is not known of leaves the client without a word.
LEMMA EndStreamChatting ==
  ASSUME ProviderInv, Numbered, Chatting, EndStream
  PROVE  Chatting'
<1>1. /\ handler = "streaming" /\ handler' = "ended" /\ taken = Len(emitted) /\ pc = "idle"
      /\ UNCHANGED <<asked, tiers, connected, taken, vars>>
      /\ \/ /\ outcome = "failed" /\ Record("failed")
            /\ wire' = IF connected THEN wire \o OrRefusal(StreamEnding(outcome)) ELSE wire
         \/ /\ outcome = "answered" /\ connected /\ Record("completed")
            /\ wire' = wire \o (StreamEnding(outcome) \o OrRefusal(<<>>))
         \/ /\ outcome # "failed" /\ (outcome = "answered" => ~connected)
            /\ recorded' = recorded
            /\ wire' = IF connected THEN wire \o StreamEnding(outcome) ELSE wire
  BY DEF EndStream, Leave
<1>2. /\ recorded = <<>> /\ wire \in Seq(Wires) /\ Untold(wire) /\ Following
      /\ asked \in ChatShapes /\ asked.streamed /\ taken \in 0 .. Len(emitted)
      /\ (outcome \in {"none", "answered"} => Faithful)
  BY <1>1 DEF Chatting
<1>3. /\ outcome \in {"answered", "failed", "stray"}
      /\ outcome = "failed" => recorded' = <<>>
      /\ outcome = "stray" => recorded' = <<>>
      /\ recorded' \in Seq({"completed", "failed", "unwritten"})
      /\ "unwritten" \in Range(recorded') <=> recorded' = <<"unwritten">>
  <2>1. asked \in CallShapes /\ asked # None
    BY <1>2, ProviderAssumption DEF ChatShapes
  <2> HIDE DEF ChatShapes, CallShapes
  <2>2. outcome \in {"answered", "failed", "stray"}
    BY <1>1, <1>2, <2>1 DEF Following, ProviderInv
  <2>3. outcome = "failed" => metadata = None
    BY <1>2 DEF Following
  <2>4. CASE recorded' = recorded
    BY <1>2, <2>2, <2>4, OneOutcome
  <2>5. CASE outcome = "failed" /\ Record("failed")
    BY <1>2, <2>3, <2>5, RecordIs
  <2>6. CASE outcome = "answered" /\ Record("completed")
    BY <1>2, <2>6, RecordIs
  <2> QED
    BY <1>1, <2>4, <2>5, <2>6
<1>4. /\ \A x \in {"final", "error", "DONE", "message", "refusal"} :
           Count(wire, x) = 0 /\ x \notin Range(wire)
      /\ {"final", "error", "DONE", "refusal"} \subseteq Wires
  BY <1>2, UntoldCounts DEF Wires
<1>6. CASE outcome = "answered" /\ connected
  <2> DEFINE told == Append(Append(wire, "final"), "DONE")
  <2>1. /\ told \in Seq(Wires) /\ Range(told) = Range(wire) \cup {"final", "DONE"}
        /\ \A y : Count(told, y) = Count(wire, y) + (IF y \in {"final", "DONE"} THEN 1 ELSE 0)
    BY <1>2, <1>4, EndingCounts
  <2>2. Record("completed") /\ recorded' \in {<<"completed">>, <<"unwritten">>}
    <3>1. Record("completed")
      BY <1>1, <1>6
    <3>2. ~Degraded /\ AnswersAreDescribed
      BY <1>2 DEF Following, Degraded, ProviderInv
    <3>3. metadata # None
      BY <1>6, <3>2 DEF AnswersAreDescribed
    <3> QED
      BY <1>2, <3>1, <3>3, RecordIs
  <2>3. wire' = IF recorded' = <<"unwritten">> THEN Append(told, "refusal") ELSE told
    <3>1. wire' = wire \o (<<"final", "DONE">> \o OrRefusal(<<>>))
      BY <1>1, <1>6 DEF StreamEnding
    <3>2. CASE recorded' = <<"unwritten">>
      <4>1. OrRefusal(<<>>) = <<"refusal">>
        BY <1>3, <3>2 DEF OrRefusal
      <4>2. wire \o (<<"final", "DONE">> \o <<"refusal">>) = Append(told, "refusal")
        BY <1>2
      <4> QED
        BY <3>1, <3>2, <4>1, <4>2
    <3>3. CASE recorded' # <<"unwritten">>
      <4>1. OrRefusal(<<>>) = <<>>
        BY <1>3, <3>3 DEF OrRefusal
      <4>2. wire \o (<<"final", "DONE">> \o <<>>) = told
        BY <1>2
      <4> QED
        BY <3>1, <3>3, <4>1, <4>2
    <3> QED
      BY <3>2, <3>3
  <2> HIDE DEF told
  <2>4. /\ Append(told, "refusal") \in Seq(Wires)
        /\ Append(told, "refusal")[Len(Append(told, "refusal"))] = "refusal"
        /\ Range(Append(told, "refusal")) = Range(told) \cup {"refusal"}
        /\ \A y : Count(Append(told, "refusal"), y) =
                  IF "refusal" = y THEN Count(told, y) + 1 ELSE Count(told, y)
    BY <1>4, <2>1, WireAppend
  <2>5. Faithful /\ Full = wire
    BY <1>1, <1>2, <1>6, EventsType, ChunksAre DEF Full, Owed
  <2>6. heard \in Seq(Lines)
    BY DEF ProviderInv, TypeOK
  <2>7. SameSaid(wire', heard)
    <3>1. SameSaid(wire, heard) /\ {"final", "DONE", "refusal"} \subseteq Wires \ Voices
      BY <2>5 DEF Faithful, Wires, Voices
    <3>2. SameSaid(Append(wire, "final"), heard) /\ Append(wire, "final") \in Seq(Wires)
      BY <1>2, <2>6, <3>1, SameSaidOther
    <3>3. SameSaid(told, heard)
      BY <2>6, <3>1, <3>2, SameSaidOther DEF told
    <3>4. SameSaid(Append(told, "refusal"), heard)
      BY <2>1, <2>6, <3>1, <3>3, SameSaidOther
    <3> QED
      BY <2>3, <3>3, <3>4
  <2>8. Count(heard, "call") > 0 => Count(wire', "tool_calls") = 1
    <3>1. Count(heard, "call") > 0 => Count(wire, "tool_calls") = 1
      BY <1>1, <2>5 DEF Faithful
    <3>2. Count(wire, "tool_calls") \in Nat
      BY <1>2, CountType
    <3>3. Count(wire', "tool_calls") = Count(wire, "tool_calls")
      BY <2>1, <2>3, <2>4, <3>2
    <3> QED
      BY <3>1, <3>3
  <2>9. kind = "ollama" => Count(heard, "done") = 1
    BY <1>1, <2>5 DEF Faithful
  <2>10. ClientGetsTheAnswer'
    <3>1. heard' = heard /\ kind' = kind
      BY <1>1 DEF vars
    <3>2. SameSaid(wire', heard') /\ kind' = kind
          /\ (Count(heard', "call") > 0 => Count(wire', "tool_calls") = 1)
          /\ (kind' = "ollama" => Count(heard', "done") = 1)
      BY <2>7, <2>8, <2>9, <3>1
    <3> QED
      BY <3>2 DEF ClientGetsTheAnswer, SameSaid, Told, Said, Voices
  <2>11. ClientIsTold'
    <3>1. outcome' = outcome
      BY <1>1 DEF vars
    <3>2. CASE recorded' = <<"unwritten">>
      <4>1. wire' = Append(told, "refusal")
        BY <2>3, <3>2
      <4>2. /\ Count(wire', "refusal") = 1 /\ wire'[Len(wire')] = "refusal"
            /\ Range(wire') = Range(wire) \cup {"final", "DONE", "refusal"}
        BY <1>4, <2>1, <2>4, <4>1
      <4> QED
        BY <1>1, <1>4, <1>6, <3>1, <3>2, <4>2 DEF ClientIsTold
    <3>3. CASE recorded' = <<"completed">>
      <4>1. wire' = told /\ <<"completed">> # <<>>
        BY <2>3, <3>3
      <4>2. Count(wire', "message") + Count(wire', "final") = 1
            /\ Range(wire') = Range(wire) \cup {"final", "DONE"}
        BY <1>4, <2>1, <4>1
      <4> QED
        BY <1>1, <1>4, <1>6, <3>1, <3>3, <4>1, <4>2 DEF ClientIsTold
    <3> QED
      BY <2>2, <3>2, <3>3
  <2>12. wire' \in Seq(Wires)
    BY <2>1, <2>3, <2>4
  <2> QED
    BY <1>1, <1>3, <2>10, <2>11, <2>12 DEF Chatting, vars
<1>7. CASE outcome = "failed" /\ connected
  <2>1. wire' = Append(Append(wire, "error"), "DONE")
    <3>1. OrRefusal(StreamEnding(outcome)) = <<"error", "DONE">>
      BY <1>3, <1>7, OneOutcome DEF OrRefusal, StreamEnding
    <3> QED
      BY <1>1, <1>2, <1>7, <3>1, ChunksAre
  <2>2. /\ wire' \in Seq(Wires) /\ Range(wire') = Range(wire) \cup {"error", "DONE"}
        /\ \A y : Count(wire', y) = Count(wire, y) + (IF y \in {"error", "DONE"} THEN 1 ELSE 0)
    BY <1>2, <1>4, <2>1, EndingCounts
  <2>3. "final" \notin Range(wire') /\ "message" \notin Range(wire')
    BY <1>4, <2>2
  <2>4. Count(wire', "refusal") + Count(wire', "error") = 1
    BY <1>4, <2>2
  <2>5. ClientGetsTheAnswer'
    BY <2>3 DEF ClientGetsTheAnswer
  <2>6. ClientIsTold'
    BY <1>1, <1>3, <1>7, <2>3, <2>4 DEF ClientIsTold, vars
  <2> QED
    BY <1>1, <1>3, <2>2, <2>5, <2>6 DEF Chatting, vars
<1>8. CASE ~connected \/ outcome = "stray"
  <2>1. wire' = wire
    BY <1>1, <1>2, <1>8, ChunksAre DEF StreamEnding
  <2>2. ClientGetsTheAnswer'
    BY <1>4, <2>1 DEF ClientGetsTheAnswer
  <2>3. ClientIsTold'
    BY <1>1, <1>3, <1>4, <1>8, <2>1 DEF ClientIsTold, vars
  <2> QED
    BY <1>1, <1>3, <2>1, <2>2, <2>3 DEF Chatting, vars
<1> QED
  BY <1>3, <1>6, <1>7, <1>8

\* The handler waits for text: nothing of it is sent before it is all there.
LEMMA PullTextChatting ==
  ASSUME ProviderInv, ProviderInv', Chatting, Pull, handler \in {"waiting", "last"}
  PROVE  Chatting'
<1>1. /\ asked \in ChatShapes /\ ~asked.streamed /\ Following
      /\ taken = 0 /\ wire = <<>> /\ recorded = <<>> /\ wire \in Seq(Wires) /\ Untold(wire)
  BY DEF Chatting
<1>2. Step /\ UNCHANGED chat
  BY DEF Pull
<1>3. call = asked /\ ~call.streamed /\ call.via = "text" /\ call \in CallShapes
      /\ call # None
  BY <1>1, ChatShapesType, ProviderAssumption DEF Following
<1>4. /\ UNCHANGED <<call, count>>
      /\ \/ pc' = "sending" /\ UNCHANGED <<metadata, outcome>>
         \/ pc' = "idle" /\ outcome' \in {"failed", "stray"} /\ UNCHANGED metadata
         \/ pc' = "idle" /\ outcome' = "answered"
  BY <1>2, <1>3, TextStep
<1>5. pc = "sending" /\ outcome = "none"
  <2>1. pc # "idle"
    BY <1>2 DEF Step, Started, TransportFails, OllamaRejected, OpenAIRejected, Connects, Line,
       BadLine, BadAnswer, Ends, Usage, ToolCalls, Completed, Answer
  <2>2. pc \in {"idle", "sending"}
    BY <1>3 DEF ProviderInv
  <2> QED
    BY <2>1, <2>2 DEF ProviderInv
<1>6. emitted' = <<>> /\ Len(emitted') = 0
  BY <1>3, <1>4 DEF ProviderInv
<1>7. Following'
  BY <1>1, <1>2, <1>4, <1>5 DEF Following, chat
<1>8. UNCHANGED <<handler, asked, tiers, connected, taken, wire, recorded>>
  BY <1>2 DEF chat
<1>9. ClientGetsTheAnswer' /\ ClientIsTold'
  BY <1>1, <1>8, NotEnded
<1> HIDE DEF ChatShapes
<1> QED
  BY <1>1, <1>6, <1>7, <1>8, <1>9 DEF Chatting

\* What is owed when one more event has been yielded, and when none has.
LEMMA FullIs ==
  ASSUME Numbered, taken = Len(emitted), UNCHANGED <<taken, wire>>, wire \in Seq(Wires)
  PROVE  /\ Full = wire
         /\ emitted' = emitted => Full' = wire /\ Len(emitted') = taken
         /\ \A type \in Contract!Types :
              Yields(type) => Full' = wire \o Chunks(type) /\ Len(emitted') = taken + 1
<1>1. Len(emitted) \in Nat /\ emitted \in Seq([type : Contract!Types, sequence : Nat])
  BY EventsType
<1>2. wire \o <<>> = wire
  OBVIOUS
<1>3. Full = wire
  BY <1>1, <1>2 DEF Full, Owed
<1>4. emitted' = emitted => Full' = wire /\ Len(emitted') = taken
  BY <1>1, <1>2 DEF Full, Owed
<1>5. ASSUME NEW type \in Contract!Types, Yields(type)
      PROVE  Full' = wire \o Chunks(type) /\ Len(emitted') = taken + 1
  <2> DEFINE Event == [type : Contract!Types, sequence : Nat]
             e == [type |-> type, sequence |-> Len(emitted)]
  <2>1. emitted' = Append(emitted, e) /\ emitted \in Seq(Event) /\ e \in Event /\ e.type = type
    BY <1>1, <1>5 DEF Yields
  <2> HIDE DEF Event, e
  <2>2. Len(emitted') = Len(emitted) + 1 /\ emitted'[Len(emitted')] = e
    BY <2>1
  <2>3. Owed' = Chunks(type)
    BY <1>1, <2>1, <2>2 DEF Owed
  <2> QED
    BY <2>2, <2>3 DEF Full
<1> QED
  BY <1>3, <1>4, <1>5

\* The line or the event that the handler of a streamed chat pulls keeps what the
\* client is sent in step with what was said.
LEMMA PullKeepsFaithful ==
  ASSUME ProviderInv, Numbered, Chatting, Pull, handler = "streaming",
         outcome' \in {"none", "answered"}
  PROVE  Faithful'
<1>1. /\ taken = Len(emitted) /\ Step /\ UNCHANGED <<taken, wire>>
      /\ asked \in ChatShapes /\ asked.streamed /\ call = asked
      /\ wire \in Seq(Wires)
      /\ outcome \in {"none", "answered"} => Faithful
  BY DEF Pull, chat, Chatting, Following
<1>2. pc # "idle" /\ call.via = "events" /\ heard \in Seq(Lines)
  <2>1. pc # "idle"
    BY <1>1 DEF Step, Started, TransportFails, OllamaRejected, OpenAIRejected, Connects, Line,
       BadLine, BadAnswer, Ends, Usage, ToolCalls, Completed, Answer
  <2>2. call.via = "events"
    BY <1>1, ChatShapesType
  <2> QED
    BY <2>1, <2>2 DEF ProviderInv, TypeOK
<1>3. Faithful
  BY <1>1, <1>2 DEF ProviderInv
<1>4. /\ UNCHANGED <<kind, call, count>>
      /\ pc' \in {"usage", "reading"} \/ UNCHANGED calls
      /\ \/ EventsQuiet \/ EventsFail \/ EventsMute \/ EventsSay \/ EventsRead
         \/ EventsYield \/ EventsEnd
  BY <1>1, <1>2, EventsStep
<1>5. /\ Full = wire
      /\ emitted' = emitted => Full' = wire
      /\ \A type \in Contract!Types : Yields(type) => Full' = wire \o Chunks(type)
  BY <1>1, FullIs
<1>6. /\ SameSaid(wire, heard)
      /\ pc \in {"opening", "sending", "reading"} => Count(heard, "done") = 0
      /\ pc \notin {"opening", "sending", "reading"} /\ kind = "ollama" =>
           Count(heard, "done") = 1
      /\ pc \in {"opening", "sending", "reading", "usage", "calls"} =>
           Count(wire, "tool_calls") = 0
      /\ pc = "usage" /\ Count(heard, "call") > 0 => calls
      /\ pc = "completing" /\ Count(heard, "call") > 0 => Count(wire, "tool_calls") = 1
  BY <1>3, <1>5 DEF Faithful
<1>7. \A x \in Lines : \A y :
        /\ Append(heard, x) \in Seq(Lines)
        /\ Count(heard, y) \in Nat
        /\ Count(Append(heard, x), y) = IF x = y THEN Count(heard, y) + 1 ELSE Count(heard, y)
  <2> SUFFICES ASSUME NEW x \in Lines, NEW y
               PROVE  /\ Append(heard, x) \in Seq(Lines)
                      /\ Count(heard, y) \in Nat
                      /\ Count(Append(heard, x), y) =
                           IF x = y THEN Count(heard, y) + 1 ELSE Count(heard, y)
    OBVIOUS
  <2>1. Count(heard, y) \in Nat
    BY <1>2, CountType
  <2>2. Count(Append(heard, x), y) = IF x = y THEN Count(heard, y) + 1 ELSE Count(heard, y)
    BY <1>2, CountAppend
  <2> QED
    BY <1>2, <2>1, <2>2
<1>8. /\ Lines = {"text", "reasoning", "call", "nameless", "done"}
      /\ {"text_delta", "reasoning_delta", "started", "usage", "tool_calls", "completed"}
           \subseteq Contract!Types
      /\ {"headers", "role", "tool_calls"} \subseteq Wires \ Voices
      /\ {"content", "reasoning_content"} \subseteq Wires
  BY DEF Lines, LineOf, Contract!Types, Contract!Deltas, Wires, Voices
<1>9. CASE EventsQuiet
  BY <1>3, <1>4, <1>5, <1>9 DEF EventsQuiet, Faithful
<1>10. CASE EventsFail
  BY <1>10 DEF EventsFail
<1>11. CASE EventsMute
  <2> PICK line \in {"call", "nameless"} : heard' = Append(heard, line)
    BY <1>11 DEF EventsMute
  <2>1. pc = "reading" /\ pc' = "reading" /\ Full' = wire
    BY <1>5, <1>11 DEF EventsMute
  <2>2. SameSaid(wire, heard')
    BY <1>1, <1>2, <1>6, <1>8, SameSaidOther
  <2>3. Count(heard', "done") = 0 /\ Count(wire, "tool_calls") = 0
    BY <1>6, <1>7, <1>8, <2>1
  <2> QED
    BY <2>1, <2>2, <2>3 DEF Faithful
<1>12. CASE EventsSay
  <2> PICK line \in {"text", "reasoning"} :
         /\ heard' = Append(heard, line)
         /\ Yields(IF line = "text" THEN "text_delta" ELSE "reasoning_delta")
    BY <1>12 DEF EventsSay
  <2>1. pc = "reading" /\ pc' = "reading"
    BY <1>12 DEF EventsSay
  <2>2. Full' = Append(wire, Chunk(line))
    <3>1. CASE line = "text"
      BY <1>1, <1>5, <1>8, <3>1, ChunksAre DEF Chunk
    <3>2. CASE line = "reasoning"
      BY <1>1, <1>5, <1>8, <3>2, ChunksAre DEF Chunk
    <3> QED
      BY <3>1, <3>2
  <2>3. SameSaid(Append(wire, Chunk(line)), Append(heard, line))
    BY <1>1, <1>2, <1>6, SameSaidBoth
  <2>4. Count(heard', "done") = 0
    BY <1>6, <1>7, <1>8, <2>1
  <2>5. Count(Append(wire, Chunk(line)), "tool_calls") = 0
    <3>1. Chunk(line) \in Wires /\ Chunk(line) # "tool_calls"
      BY <1>8 DEF Chunk
    <3> QED
      BY <1>1, <1>6, <2>1, <3>1, WireAppend
  <2>6. SameSaid(Full', heard') /\ Count(Full', "tool_calls") = 0
    BY <2>2, <2>3, <2>5
  <2> QED
    BY <2>1, <2>4, <2>6 DEF Faithful
<1>13. CASE EventsRead
  <2>1. /\ pc = "reading" /\ pc' = "usage" /\ Full' = wire /\ kind' = kind
        /\ heard' \in {heard, Append(heard, "done")}
        /\ kind = "ollama" => heard' = Append(heard, "done")
        /\ Count(heard, "call") > 0 => calls'
    BY <1>4, <1>5, <1>13 DEF EventsRead
  <2>2. SameSaid(wire, heard')
    BY <1>1, <1>2, <1>6, <1>8, <2>1, SameSaidOther
  <2>3. Count(heard', "call") = Count(heard, "call")
    BY <1>7, <1>8, <2>1
  <2>4. kind' = "ollama" => Count(heard', "done") = 1
    <3>1. Count(heard, "done") = 0
      BY <1>6, <2>1
    <3>2. Count(Append(heard, "done"), "done") = 1
      BY <1>7, <1>8, <3>1
    <3> QED
      BY <2>1, <3>2
  <2> QED
    BY <1>6, <2>1, <2>2, <2>3, <2>4 DEF Faithful
<1>14. CASE EventsYield
  <2>1. CASE pc = "opening" /\ pc' = "sending" /\ Yields("started")
    <3>1. Full' = Append(Append(wire, "headers"), "role") /\ heard' = heard
      BY <1>1, <1>5, <1>8, <1>14, <2>1, ChunksAre DEF EventsYield
    <3>2. SameSaid(Append(wire, "headers"), heard) /\ Append(wire, "headers") \in Seq(Wires)
      BY <1>1, <1>2, <1>6, <1>8, SameSaidOther
    <3>3. SameSaid(Append(Append(wire, "headers"), "role"), heard)
      BY <1>2, <1>8, <3>2, SameSaidOther
    <3>4. Count(Append(wire, "headers"), "tool_calls") = 0
      BY <1>1, <1>6, <1>8, <2>1, WireAppend
    <3>5. Count(Append(Append(wire, "headers"), "role"), "tool_calls") = 0
      BY <1>8, <3>2, <3>4, WireAppend
    <3>6. SameSaid(Full', heard') /\ Count(Full', "tool_calls") = 0
      BY <3>1, <3>3, <3>5
    <3>7. Count(heard', "done") = 0
      BY <1>6, <2>1, <3>1
    <3> QED
      BY <2>1, <3>6, <3>7 DEF Faithful
  <2>2. CASE /\ pc = "usage" /\ pc' = (IF calls THEN "calls" ELSE "completing")
             /\ Yields("usage")
    <3>1. Full' = wire /\ heard' = heard /\ kind' = kind
      BY <1>1, <1>4, <1>5, <1>8, <1>14, <2>2, ChunksAre DEF EventsYield
    <3>2. pc' \in {"calls", "completing"}
          /\ (pc' = "completing" => ~(Count(heard, "call") > 0))
      BY <1>6, <2>2
    <3> QED
      BY <1>6, <2>2, <3>1, <3>2 DEF Faithful
  <2>3. CASE pc = "calls" /\ pc' = "completing" /\ Yields("tool_calls")
    <3>1. Full' = Append(wire, "tool_calls") /\ heard' = heard /\ kind' = kind
      BY <1>1, <1>4, <1>5, <1>8, <1>14, <2>3, ChunksAre DEF EventsYield
    <3>2. SameSaid(Append(wire, "tool_calls"), heard)
      BY <1>1, <1>2, <1>6, <1>8, SameSaidOther
    <3>3. Count(Append(wire, "tool_calls"), "tool_calls") = 1
      BY <1>1, <1>6, <1>8, <2>3, WireAppend
    <3>4. SameSaid(Full', heard') /\ Count(Full', "tool_calls") = 1
      BY <3>1, <3>2, <3>3
    <3> QED
      BY <1>6, <2>3, <3>1, <3>4 DEF Faithful
  <2> QED
    BY <1>14, <2>1, <2>2, <2>3 DEF EventsYield
<1>15. CASE EventsEnd
  <2>1. Full' = wire /\ heard' = heard /\ kind' = kind /\ pc = "completing" /\ pc' = "idle"
    BY <1>1, <1>4, <1>5, <1>8, <1>15, ChunksAre DEF EventsEnd
  <2> QED
    BY <1>6, <2>1 DEF Faithful
<1> QED
  BY <1>4, <1>9, <1>10, <1>11, <1>12, <1>13, <1>14, <1>15

LEMMA PullStreamChatting ==
  ASSUME ProviderInv, Numbered, Numbered', Chatting, Pull, handler = "streaming"
  PROVE  Chatting'
<1>1. /\ taken = Len(emitted) /\ Step
      /\ UNCHANGED <<handler, asked, tiers, connected, taken, wire, recorded>>
      /\ asked \in ChatShapes /\ asked.streamed /\ Following
      /\ wire \in Seq(Wires) /\ Untold(wire) /\ recorded = <<>>
  BY DEF Pull, chat, Chatting
<1>2. call.via = "events"
  BY <1>1, ChatShapesType DEF Following
<1>3. /\ UNCHANGED <<kind, call, count>>
      /\ \/ EventsQuiet \/ EventsFail \/ EventsMute \/ EventsSay \/ EventsRead
         \/ EventsYield \/ EventsEnd
  BY <1>1, <1>2, EventsStep
<1>4. \/ emitted' = emitted
      \/ \E type \in Contract!Types : Yields(type)
  BY <1>3 DEF EventsQuiet, EventsFail, EventsMute, EventsSay, EventsRead, EventsYield,
     EventsEnd, Contract!Types, Contract!Deltas
<1>5. Len(emitted) \in Nat /\ Len(emitted') \in {taken, taken + 1}
  BY <1>1, <1>4, EventsType, FullIs
<1>6. taken' \in 0 .. Len(emitted') /\ Len(emitted') <= taken' + 1
  BY <1>1, <1>5
<1>7. Following'
  <2>1. /\ call' = asked' /\ outcome' \in {"none", "answered", "failed", "stray"}
    BY <1>1, <1>3 DEF Following, EventsQuiet, EventsFail, EventsMute, EventsSay, EventsRead,
       EventsYield, EventsEnd
  <2>2. pc \in {"opening", "sending", "reading"} => metadata = None
    BY <1>1 DEF Following
  <2>3. outcome \in {"none"} \/ pc = "idle"
    BY DEF ProviderInv
  <2>4. pc' \in {"opening", "sending", "reading"} \/ outcome' = "failed" => metadata' = None
    BY <1>3, <2>2, <2>3 DEF EventsQuiet, EventsFail, EventsMute, EventsSay, EventsRead,
       EventsYield, EventsEnd
  <2> QED
    BY <2>1, <2>4 DEF Following
<1>8. outcome' \in {"none", "answered"} => Faithful'
  BY PullKeepsFaithful
<1>9. ClientGetsTheAnswer' /\ ClientIsTold'
  BY <1>1, NotEnded
<1> HIDE DEF ChatShapes
<1> QED
  BY <1>1, <1>6, <1>7, <1>8, <1>9 DEF Chatting

LEMMA NextChatting ==
  ASSUME ProviderInv, ProviderInv', Numbered, Numbered', Chatting, [ChatNext]_chatVars
  PROVE  Chatting'
<1>1. CASE \E c \in ChatShapes : Route(c)
  BY <1>1, RouteChatting
<1>2. CASE Ask
  BY <1>2, AskChatting
<1>3. CASE Pull
  BY <1>3, PullStreamChatting, PullTextChatting DEF Pull
<1>4. CASE Forward
  BY <1>4, ForwardChatting
<1>5. CASE HangUp
  BY <1>5, HangUpChatting
<1>6. CASE EndStream
  BY <1>6, EndStreamChatting
<1>7. CASE FallBack
  BY <1>7, FallBackChatting
<1>8. CASE Refuse
  BY <1>8, RefuseChatting
<1>9. CASE Reply
  BY <1>9, ReplyChatting
<1>10. CASE Disconnect
  BY <1>10, DisconnectChatting
<1>11. CASE handler = "free" /\ Next /\ UNCHANGED chat
  <2>1. /\ taken = 0 /\ wire = <<>> /\ wire \in Seq(Wires) /\ Untold(wire) /\ recorded = <<>>
        /\ UNCHANGED <<handler, asked, tiers, connected, taken, wire, recorded>>
    BY <1>11 DEF Chatting, chat
  <2>2. Len(emitted') \in Nat
    BY DEF Numbered
  <2>3. ClientGetsTheAnswer' /\ ClientIsTold'
    BY <1>11, <2>1, NotEnded
  <2> HIDE DEF ChatShapes
  <2> QED
    BY <1>11, <2>1, <2>2, <2>3 DEF Chatting
<1>12. CASE UNCHANGED chatVars
  <2>1. UNCHANGED <<vars, handler, asked, tiers, connected, taken, wire, recorded>>
    BY <1>12 DEF chatVars, chat
  <2>2. (Following' <=> Following) /\ (Faithful' <=> Faithful)
    BY <2>1 DEF vars, Following, Faithful, Full, Owed
  <2>3. ClientGetsTheAnswer' /\ ClientIsTold'
    BY <2>1 DEF vars, ClientGetsTheAnswer, ClientIsTold, Chatting
  <2> QED
    BY <2>1, <2>2, <2>3 DEF Chatting, vars
<1> QED
  BY <1>1, <1>2, <1>3, <1>4, <1>5, <1>6, <1>7, <1>8, <1>9, <1>10, <1>11, <1>12
     DEF ChatNext, Chat

-----------------------------------------------------------------------------
(* What follows.                                                           *)

ChatInv == ProviderInv /\ Numbered /\ Chatting

\* The invariant of a chat and the provider it drives.
THEOREM ChatInvariant == ChatSpec => []ChatInv
<1>1. ChatInit => ChatInv
  BY InitProvider, InitNumbered, InitChatting DEF ChatInit, ChatInv
<1>2. ChatInv /\ [ChatNext]_chatVars => ChatInv'
  BY ChatSteps, ProviderStepInv, ProviderStepSimulates, NextChatting DEF ChatInv
<1> QED
  BY <1>1, <1>2, PTL DEF ChatSpec

\* The variables of a chat and of its provider have their types, and the handler
\* passes on no event that is not there (web_app.py, _chat_completion).
THEOREM ChatTypeCorrect == ChatSpec => []ChatTypeOK
<1>1. ChatInv => ChatTypeOK
  <2> SUFFICES ASSUME ChatInv PROVE ChatTypeOK
    OBVIOUS
  <2>1. /\ wire \in Seq(Wires) /\ recorded \in Seq({"completed", "failed", "unwritten"})
        /\ TypeOK
        /\ handler \in {"free", "routed", "streaming", "waiting", "fallback", "last", "ended"}
        /\ asked \in ChatShapes \cup {None}
        /\ tiers \in 0 .. MaxTiers
        /\ connected \in BOOLEAN
        /\ taken \in 0 .. Len(emitted)
    BY DEF ChatInv, ProviderInv, Chatting
  <2>2. Range(wire) \subseteq Wires
    BY <2>1 DEF Range
  <2>3. Range(recorded) \subseteq {"completed", "failed", "unwritten"}
    BY <2>1 DEF Range
  <2> QED
    BY <2>1, <2>2, <2>3 DEF ChatTypeOK, Wires
<1> QED
  BY <1>1, ChatInvariant, PTL

\* Whatever the server does, and whoever uses the provider, an answer is told
\* with the metadata of its own call, but for Ollama's retries without a stream.
THEOREM AnswersAreDescribedHolds == ChatSpec => []AnswersAreDescribed
<1>1. ChatInv => AnswersAreDescribed
  BY DEF ChatInv, ProviderInv
<1> QED
  BY <1>1, ChatInvariant, PTL

\* A stream that is told to its end has told the client what the server said,
\* once and in order, through the retries of the provider.
THEOREM ClientGetsTheAnswerHolds == ChatSpec => []ClientGetsTheAnswer
<1>1. ChatInv => ClientGetsTheAnswer
  BY DEF ChatInv, Chatting
<1> QED
  BY <1>1, ChatInvariant, PTL

\* A client that stays is told how its chat ended, once and as the record has it; a
\* record that cannot be written ends an answered chat with a refusal.
THEOREM ClientIsToldHolds == ChatSpec => []ClientIsTold
<1>1. ChatInv => ClientIsTold
  BY DEF ChatInv, Chatting
<1> QED
  BY <1>1, ChatInvariant, PTL

\* The provider that a chat and its other users drive keeps the contract of
\* providers/base.py: every step of it is one of the contract, or none.
THEOREM ImplementsContractHolds == ChatSpec => ImplementsContract
<1>1. ChatInit => Contract!Init
  BY DEF ChatInit, Init, Contract!Init
<1>2. ChatInv /\ [ChatNext]_chatVars => [Contract!Next]_(Contract!vars)
  BY ChatSteps, ProviderStepSimulates DEF ChatInv, Simulates
<1> QED
  BY <1>1, <1>2, ChatInvariant, PTL DEF ChatSpec, ImplementsContract, Contract!Spec

=============================================================================
