------------------------- MODULE ResponseStreamProofs -------------------------
(***************************************************************************)
(* Theorems about module ResponseStream, for any tools, limits and tiers,  *)
(* and for providers that may fail before they start or not.               *)
(***************************************************************************)
EXTENDS ResponseStream, FiniteSetTheorems, SequenceTheorems, TLAPS

EventTypes ==
  {"created", "item.added", "part.added", "delta", "text.done", "part.done",
   "item.done", "completed", "failed", "error"}
EndingTypes == {"completed", "failed", "error"}
Events == [type : EventTypes, number : Nat \cup {-1}, text : Text]
Messages == [kind : {"call", "output"}, call : Call, text : Text]

-----------------------------------------------------------------------------
(* Types.                                                                  *)

\* A set of tools has an order.
LEMMA OrderType ==
  ASSUME NEW names, IsFiniteSet(names)
  PROVE  SetToSeq(names) \in Seq(names)
<1> DEFINE n == Cardinality(names)
<1>1. n \in Nat /\ ExistsBijection(1 .. n, names)
  BY FS_CardinalityType
<1>2. PICK f \in Bijection(1 .. n, names) : TRUE
  BY <1>1 DEF ExistsBijection
<1>3. f \in [1 .. n -> names] /\ IsInjective(f)
  BY <1>2 DEF Bijection, Injection, IsInjective
<1>4. SetToSeq(names) \in [1 .. n -> names]
  BY <1>3 DEF SetToSeq
<1> QED
  BY <1>1, <1>4

\* The calls of a round.
LEMMA CalledType ==
  ASSUME round \in 0 .. MaxRounds - 1, NEW names \in SUBSET (Hosted \cup Client)
  PROVE  Called(names) \in Seq(Call)
<1> DEFINE order == SetToSeq(names)
<1>1. order \in Seq(names)
  BY OrderType, FS_Subset, StreamAssumption
<1>2. Len(order) \in Nat
  BY <1>1
<1> HIDE DEF order
<1>3. ASSUME NEW i \in 1 .. Len(order)
      PROVE  <<round, order[i]>> \in Call
  <2>1. order[i] \in Hosted \cup Client
    BY <1>1
  <2> QED
    BY <2>1 DEF Call
<1>4. [i \in 1 .. Len(order) |-> <<round, order[i]>>] \in Seq(Call)
  BY <1>2, <1>3
<1> QED
  BY <1>4 DEF Called, order

LEMMA AnsweredType ==
  ASSUME round \in 0 .. MaxRounds - 1, NEW names \in SUBSET (Hosted \cup Client)
  PROVE  Answered(names) \in Seq(Messages)
<1> DEFINE these == Called(names)
<1>1. these \in Seq(Call)
  BY CalledType
<1>2. Len(these) \in Nat
  BY <1>1
<1> HIDE DEF these
<1>3. ASSUME NEW i \in 1 .. 2 * Len(these)
      PROVE  Message(IF i % 2 = 1 THEN "call" ELSE "output", these[(i + 1) \div 2], <<>>)
               \in Messages
  <2>1. (i + 1) \div 2 \in 1 .. Len(these)
    BY <1>2
  <2>2. these[(i + 1) \div 2] \in Call
    BY <1>1, <2>1
  <2>3. <<>> \in Text
    BY DEF Text
  <2> QED
    BY <2>2, <2>3 DEF Message, Messages
<1>4. 2 * Len(these) \in Nat
  BY <1>2
<1>5. [i \in 1 .. 2 * Len(these) |->
         Message(IF i % 2 = 1 THEN "call" ELSE "output", these[(i + 1) \div 2], <<>>)]
        \in Seq(Messages)
  BY <1>3, <1>4
<1> QED
  BY <1>5 DEF Answered, these

\* What TypeOK says, and that events and messages are sequences of such, and that
\* the mapper has completed before tools are run.
Typed ==
  /\ TypeOK
  /\ sent \in Seq(Events)
  /\ messages \in Seq(Messages)
  /\ pc \in {"tools", "client"} => completed \in Text

LEMMA InitTyped == Init => Typed
<1> SUFFICES ASSUME Init PROVE Typed
  OBVIOUS
<1>1. asked \in Seq(Call) /\ sent \in Seq(Events) /\ messages \in Seq(Messages)
  BY DEF Init
<1>2. <<>> \in Text
  BY DEF Text
<1>3. 0 \in 0 .. MaxRounds - 1 /\ MaxTiers \in 0 .. MaxTiers
  BY StreamAssumption
<1>4. DOMAIN sent = {} /\ DOMAIN messages = {}
  BY DEF Init
<1> HIDE DEF Text, Events, Messages, Call
<1> QED
  BY <1>1, <1>2, <1>3, <1>4 DEF Init, Typed, TypeOK

\* What the handler sends are events.
LEMMA SentTypes ==
  ASSUME last \in Nat \cup {-1}
  PROVE  /\ Preamble \in Seq(Events)
         /\ \A t \in Text : MapperEvents(last + 1, t) \in Seq(Events)
         /\ \A d \in Nat \X Nat : Event("delta", last + 1, <<d>>) \in Events
         /\ Event("failed", last + 1, <<>>) \in Events
         /\ \A t \in Text : Event("completed", last + 1, t) \in Events
         /\ ErrorResponse \in Events
<1>1. <<>> \in Text /\ \A d \in Nat \X Nat : <<d>> \in Text
  BY DEF Text
<1> HIDE DEF Text
<1>2. \A type \in EventTypes, n \in Nat \cup {-1}, x \in Text :
        Event(type, n, x) \in Events
  BY DEF Event, Events
<1>3. last + 1 \in Nat /\ last + 2 \in Nat /\ last + 3 \in Nat
  OBVIOUS
<1>4. \A t \in Text : MapperEvents(last + 1, t) \in Seq(Events)
  <2> TAKE t \in Text
  <2>1. /\ Event("text.done", last + 1, t) \in Events
        /\ Event("part.done", (last + 1) + 1, t) \in Events
        /\ Event("item.done", (last + 1) + 2, t) \in Events
    BY <1>2, <1>3 DEF EventTypes
  <2> QED
    BY <2>1 DEF MapperEvents
<1> QED
  BY <1>1, <1>2, <1>3, <1>4 DEF Preamble, ErrorResponse, EventTypes

LEMMA TextTyped ==
  ASSUME Typed
  PROVE  /\ prior \o parts \in Text
         /\ \A n \in Nat : Append(parts, <<round, n>>) \in Text
BY StreamAssumption DEF Typed, TypeOK, Text

LEMMA NextTyped == Typed /\ [Next]_vars => Typed'
<1> SUFFICES ASSUME Typed, [Next]_vars PROVE Typed'
  OBVIOUS
<1> USE StreamAssumption
<1>1. \A x \in Seq(Events) : \A i \in DOMAIN x :
        x[i].type \in EventTypes /\ x[i].number \in Nat \cup {-1}
  <2> TAKE x \in Seq(Events)
  <2> TAKE i \in DOMAIN x
  <2>1. x[i] \in Events
    OBVIOUS
  <2> QED
    BY <2>1 DEF Events
<1>2. \A x \in Seq(Messages) : \A i \in DOMAIN x :
        x[i].kind \in {"call", "output"} /\ x[i].call \in Call
  <2> TAKE x \in Seq(Messages)
  <2> TAKE i \in DOMAIN x
  <2>1. x[i] \in Messages
    OBVIOUS
  <2> QED
    BY <2>1 DEF Messages
<1>3. ASSUME sent' \in Seq(Events), messages' \in Seq(Messages),
             pc' \in {"opening", "streaming", "tools", "client", "finishing", "ended"},
             round' \in 0 .. MaxRounds - 1, tiers' \in 0 .. MaxTiers,
             connected' \in BOOLEAN, last' \in Nat \cup {-1}, parts' \in Text,
             prior' \in Text, completed' \in Text \cup {None},
             pc' \in {"tools", "client"} => completed' \in Text,
             calls' \subseteq Hosted \cup Client, asked' \in Seq(Call),
             unrecorded' \in BOOLEAN
      PROVE  Typed'
  BY <1>1, <1>2, <1>3 DEF Typed, TypeOK, EventTypes
<1>4. <<>> \in Text
  BY DEF Text
<1>send. /\ \A tail \in Seq(Events) : sent \o tail \in Seq(Events)
         /\ \A e \in Events : Append(sent, e) \in Seq(Events)
  BY DEF Typed
<1> HIDE DEF Text, Events, Messages
<1>5. CASE Open
  BY <1>3, <1>4, <1>5, SentTypes DEF Open, Typed, TypeOK
<1>6. CASE OpenFails
  <2>1. sent' \in Seq(Events)
    BY <1>4, <1>6, <1>send, SentTypes DEF OpenFails, Typed, TypeOK
  <2>2. tiers' \in 0 .. MaxTiers /\ pc' \in {"opening", "ended"}
    BY <1>6 DEF OpenFails, Typed, TypeOK
  <2> QED
    BY <1>3, <1>6, <2>1, <2>2 DEF OpenFails, Typed, TypeOK
<1>7. CASE Delta
  <2>1. Len(parts) + 1 \in Nat
    BY DEF Typed, TypeOK, Text
  <2>2. parts' \in Text
    BY <1>7, <2>1, TextTyped DEF Delta
  <2>3. <<round, Len(parts) + 1>> \in Nat \X Nat
    BY <2>1 DEF Typed, TypeOK
  <2>4. sent' \in Seq(Events)
    BY <1>7, <2>3, <1>4, <1>send, SentTypes DEF Delta, Typed, TypeOK
  <2>5. /\ last' = last + 1
        /\ UNCHANGED <<pc, round, tiers, connected, prior, completed, calls, asked,
                       messages, unrecorded>>
    BY <1>7 DEF Delta
  <2> QED
    BY <1>3, <2>2, <2>4, <2>5 DEF Typed, TypeOK
<1>8. CASE StreamFails
  BY <1>3, <1>4, <1>8, <1>send, SentTypes DEF StreamFails, Typed, TypeOK
<1>9. CASE \E requested \in SUBSET (Hosted \cup Client) : StreamEnds(requested)
  <2>1. FullText \in Text
    BY TextTyped DEF FullText
  <2>2. sent \o MapperEvents(last + 1, FullText) \in Seq(Events)
    BY <2>1, <1>send, SentTypes DEF Typed, TypeOK
  <2> QED
    BY <1>3, <1>9, <2>1, <2>2 DEF StreamEnds, LastMapped, Typed, TypeOK
<1>10. CASE PassCallsOn
  <2>1. asked' \in Seq(Call)
    <3>1. Called(calls \cap Client) \in Seq(Call)
      BY CalledType DEF Typed, TypeOK
    <3>2. asked \in Seq(Call) /\ asked' = asked \o Called(calls \cap Client)
      BY <1>10 DEF PassCallsOn, Typed, TypeOK
    <3> QED
      BY <3>1, <3>2, ConcatProperties
  <2> QED
    BY <1>3, <1>4, <1>10, <2>1, <1>send, SentTypes DEF PassCallsOn, Typed, TypeOK
<1>11. CASE RunTools
  <2>1. asked' \in Seq(Call)
    <3>1. Called(calls) \in Seq(Call)
      BY CalledType DEF Typed, TypeOK
    <3>2. asked \in Seq(Call) /\ asked' = asked \o Called(calls)
      BY <1>11 DEF RunTools, Typed, TypeOK
    <3> QED
      BY <3>1, <3>2, ConcatProperties
  <2>2. messages' \in Seq(Messages)
    BY <1>11, AnsweredType DEF RunTools, Typed, TypeOK
  <2>3. round' \in 0 .. MaxRounds - 1 /\ pc' \in {"opening", "finishing"}
    BY <1>11 DEF RunTools, NextRound, Typed, TypeOK
  <2> QED
    BY <1>3, <1>11, <2>1, <2>2, <2>3 DEF RunTools, Typed, TypeOK
<1>12. CASE Finish
  <2>1. sent' \in Seq(Events)
    <3>1. completed # None => CompletedEvent \in Events
      BY SentTypes DEF CompletedEvent, Typed, TypeOK
    <3>2. ErrorResponse \in Events
      BY SentTypes DEF Typed, TypeOK
    <3>3. completed # None =>
            /\ Append(sent, CompletedEvent) \in Seq(Events)
            /\ Append(Append(sent, CompletedEvent), ErrorResponse) \in Seq(Events)
      <4> HIDE DEF CompletedEvent, ErrorResponse
      <4> QED
        BY <3>1, <3>2, <1>send
    <3> QED
      BY <1>12, <3>3 DEF Finish, Typed
  <2> QED
    BY <1>3, <1>12, <2>1 DEF Finish, Typed, TypeOK
<1>13. CASE HangUp \/ Disconnect \/ UNCHANGED vars
  BY <1>3, <1>13 DEF HangUp, Disconnect, vars, Typed, TypeOK
<1> QED
  BY <1>5, <1>6, <1>7, <1>8, <1>9, <1>10, <1>11, <1>12, <1>13 DEF Next, Handler

\* Type correctness of a streamed response, through all its rounds.
THEOREM TypeCorrect == Spec => []TypeOK
<1>1. Spec => []Typed
  BY InitTyped, NextTyped, PTL DEF Spec
<1> QED
  BY <1>1, PTL DEF Typed

-----------------------------------------------------------------------------
(* The order of the events.                                                *)

InOrder(events) ==
  \A i, j \in DOMAIN events :
    i < j /\ events[i].type # "error" /\ events[j].type # "error"
      => events[i].number < events[j].number

\* Nothing has ended, and no number is above n.
OpenUpTo(events, n) ==
  \A i \in DOMAIN events : events[i].type \notin EndingTypes /\ events[i].number <= n

\* An ending comes last.
EndsOnce(events) ==
  \A i \in DOMAIN events : events[i].type \in EndingTypes => i = Len(events)

LEMMA NumberType ==
  ASSUME NEW s \in Seq(Events)
  PROVE  \A i \in DOMAIN s : s[i].number \in Int
<1> TAKE i \in DOMAIN s
<1>1. s[i] \in Events
  OBVIOUS
<1> QED
  BY <1>1 DEF Events

LEMMA AppendInOrder ==
  ASSUME NEW s \in Seq(Events), NEW n \in Int, NEW e \in Events,
         InOrder(s), OpenUpTo(s, n), e.type = "error" \/ n < e.number
  PROVE  InOrder(Append(s, e)) /\ EndsOnce(Append(s, e))
<1>1. /\ Len(Append(s, e)) = Len(s) + 1 /\ Len(s) \in Nat
      /\ DOMAIN s = 1 .. Len(s) /\ DOMAIN Append(s, e) = 1 .. Len(s) + 1
      /\ \A i \in 1 .. Len(s) : Append(s, e)[i] = s[i]
      /\ Append(s, e)[Len(s) + 1] = e
  OBVIOUS
<1>2. e.number \in Int
  BY DEF Events
<1>3. \A i \in 1 .. Len(s) : s[i].number \in Int
  BY <1>1, NumberType
<1> HIDE DEF Events
<1>4. InOrder(Append(s, e))
  BY <1>1, <1>2, <1>3 DEF InOrder, OpenUpTo
<1>5. EndsOnce(Append(s, e))
  BY <1>1 DEF EndsOnce, OpenUpTo
<1> QED
  BY <1>4, <1>5

LEMMA AppendOpen ==
  ASSUME NEW s \in Seq(Events), NEW n \in Int, NEW m \in Int, NEW e \in Events,
         OpenUpTo(s, n), n <= m, e.type \notin EndingTypes, e.number <= m
  PROVE  OpenUpTo(Append(s, e), m)
<1>1. /\ DOMAIN s = 1 .. Len(s) /\ DOMAIN Append(s, e) = 1 .. Len(s) + 1
      /\ Len(s) \in Nat
      /\ \A i \in 1 .. Len(s) : Append(s, e)[i] = s[i]
      /\ Append(s, e)[Len(s) + 1] = e
  OBVIOUS
<1>2. \A i \in 1 .. Len(s) : s[i].number \in Int
  BY <1>1, NumberType
<1> QED
  BY <1>1, <1>2 DEF OpenUpTo

\* A message is closed by three events.
LEMMA ClosedInOrder ==
  ASSUME NEW s \in Seq(Events), NEW n \in Nat \cup {-1}, NEW t \in Text,
         InOrder(s), OpenUpTo(s, n)
  PROVE  /\ InOrder(s \o MapperEvents(n + 1, t))
         /\ OpenUpTo(s \o MapperEvents(n + 1, t), n + 4)
<1> DEFINE a == Event("text.done", n + 1, t)
           b == Event("part.done", n + 2, t)
           c == Event("item.done", n + 3, t)
<1>1. /\ a \in Events /\ b \in Events /\ c \in Events
      /\ a.number = n + 1 /\ b.number = n + 2 /\ c.number = n + 3
      /\ {a.type, b.type, c.type} \cap EndingTypes = {}
  BY DEF Event, Events, EventTypes, EndingTypes
<1>2. s \o MapperEvents(n + 1, t) = Append(Append(Append(s, a), b), c)
  <2>1. MapperEvents(n + 1, t) = <<a, b, c>>
    BY DEF MapperEvents
  <2> HIDE DEF a, b, c
  <2>2. s \o <<a, b, c>> = Append(Append(Append(s, a), b), c)
    BY <1>1
  <2> QED
    BY <2>1, <2>2
<1> HIDE DEF a, b, c, Text
<1> DEFINE s1 == Append(s, a)
           s2 == Append(s1, b)
           s3 == Append(s2, c)
<1>3. n \in Int /\ n + 1 \in Int /\ n + 2 \in Int /\ n + 4 \in Int
  OBVIOUS
<1>4. s1 \in Seq(Events) /\ s2 \in Seq(Events)
  BY <1>1
<1>5. InOrder(s1) /\ OpenUpTo(s1, n + 1)
  <2>1. n < a.number /\ a.number <= n + 1 /\ n <= n + 1
    BY <1>1
  <2> QED
    BY <1>1, <1>3, <2>1, AppendInOrder, AppendOpen
<1> HIDE DEF s1
<1>6. InOrder(s2) /\ OpenUpTo(s2, n + 2)
  <2>1. n + 1 < b.number /\ b.number <= n + 2 /\ n + 1 <= n + 2
    BY <1>1
  <2> QED
    BY <1>1, <1>3, <1>4, <1>5, <2>1, AppendInOrder, AppendOpen
<1> HIDE DEF s2
<1>7. InOrder(s3) /\ OpenUpTo(s3, n + 4)
  <2>1. n + 2 < c.number /\ c.number <= n + 4 /\ n + 2 <= n + 4
    BY <1>1
  <2> QED
    BY <1>1, <1>3, <1>4, <1>6, <2>1, AppendInOrder, AppendOpen
<1> QED
  BY <1>2, <1>7 DEF s1, s2

\* Until the stream has ended its events are open, numbers the mapper withheld
\* included, and nothing is stored.
Ordered ==
  /\ InOrder(sent)
  /\ \A i \in DOMAIN sent :
       sent[i].type \in EndingTypes => i = Len(sent) \/ EndsTwice(i)
  /\ pc # "ended" => OpenUpTo(sent, last) /\ stored = None
  /\ pc = "opening" /\ round = 0 => sent = <<>>

LEMMA InitOrdered == Init => Ordered
BY DEF Init, Ordered, InOrder, OpenUpTo

\* An error response may follow an ending: it has no number.
LEMMA AppendError ==
  ASSUME NEW s \in Seq(Events), NEW e \in Events, InOrder(s), EndsOnce(s), e.type = "error"
  PROVE  /\ InOrder(Append(s, e))
         /\ \A i \in DOMAIN Append(s, e) :
              Append(s, e)[i].type \in EndingTypes => i \in {Len(s), Len(s) + 1}
<1>1. /\ Len(Append(s, e)) = Len(s) + 1 /\ Len(s) \in Nat
      /\ DOMAIN s = 1 .. Len(s) /\ DOMAIN Append(s, e) = 1 .. Len(s) + 1
      /\ \A i \in 1 .. Len(s) : Append(s, e)[i] = s[i]
      /\ Append(s, e)[Len(s) + 1] = e
  OBVIOUS
<1> HIDE DEF Events
<1> QED
  BY <1>1 DEF InOrder, EndsOnce

LEMMA OpenOrdered ==
  ASSUME Typed, Ordered, Open
  PROVE  Ordered'
<1>1. CASE round = 0
  <2>1. sent' = Preamble /\ last' = 2 /\ pc' = "streaming"
    BY <1>1 DEF Open
  <2>2. /\ InOrder(Preamble) /\ OpenUpTo(Preamble, 2)
    BY DEF InOrder, OpenUpTo, Preamble, Event, EndingTypes
  <2>3. stored' = None
    BY <1>1 DEF Open, Ordered
  <2> QED
    BY <2>1, <2>2, <2>3 DEF Ordered, OpenUpTo
<1>2. CASE round # 0
  BY <1>2 DEF Open, Ordered, OpenUpTo
<1> QED
  BY <1>1, <1>2

LEMMA NextOrdered == Typed /\ Ordered /\ [Next]_vars => Ordered'
<1> SUFFICES ASSUME Typed, Ordered, [Next]_vars PROVE Ordered'
  OBVIOUS
<1>1. /\ sent \in Seq(Events) /\ last \in Nat \cup {-1} /\ InOrder(sent)
      /\ pc # "ended" => stored = None
  BY DEF Typed, TypeOK, Ordered
<1>2. CASE Delta
  <2> DEFINE d == <<round, Len(parts) + 1>>
  <2>1. d \in Nat \X Nat /\ sent' = Append(sent, Event("delta", last + 1, <<d>>))
    BY <1>2, StreamAssumption DEF Delta, Typed, TypeOK, Text
  <2> HIDE DEF d
  <2>2. Event("delta", last + 1, <<d>>) \in Events
    BY <1>1, <2>1, SentTypes
  <2> DEFINE e == Event("delta", last + 1, <<d>>)
  <2>3. e.number = last + 1 /\ e.type \notin EndingTypes
    BY DEF Event, EndingTypes
  <2>4. sent' = Append(sent, e) /\ e \in Events
    BY <2>1, <2>2
  <2> HIDE DEF e
  <2>5. /\ last \in Int /\ last + 1 \in Int /\ last < e.number /\ last <= last + 1
        /\ e.number <= last + 1 /\ OpenUpTo(sent, last)
    BY <1>1, <1>2, <2>3 DEF Ordered, Delta
  <2>6. InOrder(sent') /\ EndsOnce(sent')
    BY <1>1, <2>4, <2>5, AppendInOrder
  <2>7. OpenUpTo(sent', last + 1)
    BY <1>1, <2>3, <2>4, <2>5, AppendOpen
  <2> QED
    BY <1>2, <2>6, <2>7 DEF Ordered, Delta, EndsOnce
<1>3. ASSUME NEW e \in Events, sent' = Append(sent, e), pc # "ended", pc' = "ended",
             e.type = "error" \/ e.number = last + 1
      PROVE  Ordered'
  <2>1. last \in Int /\ OpenUpTo(sent, last)
    BY <1>1, <1>3 DEF Ordered
  <2>2. e.type = "error" \/ last < e.number
    BY <1>3, <2>1
  <2>3. InOrder(Append(sent, e)) /\ EndsOnce(Append(sent, e))
    BY <1>1, <1>3, <2>1, <2>2, AppendInOrder
  <2> QED
    BY <1>3, <2>3 DEF Ordered, EndsOnce
<1>4. CASE OpenFails
  <2>1. CASE sent' = Append(sent, ErrorResponse) /\ pc' = "ended"
    BY <1>1, <1>3, <1>4, <2>1, SentTypes DEF OpenFails, ErrorResponse, Event
  <2>2. CASE UNCHANGED <<pc, sent>>
    BY <1>4, <2>2 DEF OpenFails, Ordered, OpenUpTo
  <2> QED
    BY <1>4, <2>1, <2>2 DEF OpenFails
<1>5. CASE StreamFails
  BY <1>1, <1>3, <1>5, SentTypes DEF StreamFails, Event
<1>6. CASE \E requested \in SUBSET (Hosted \cup Client) : StreamEnds(requested)
  <2>1. FullText \in Text
    BY TextTyped DEF FullText
  <2>2. /\ sent' = sent \o MapperEvents(last + 1, FullText) /\ last' = last + 4
        /\ pc = "streaming" /\ pc' \in {"finishing", "client", "tools"}
        /\ stored' = stored
    BY <1>6 DEF StreamEnds, LastMapped
  <2>3. InOrder(sent') /\ OpenUpTo(sent', last')
    BY <1>1, <2>1, <2>2, ClosedInOrder DEF Ordered
  <2> QED
    BY <1>1, <2>2, <2>3 DEF Ordered, OpenUpTo
<1>7. CASE PassCallsOn
  BY <1>1, <1>3, <1>7, SentTypes DEF PassCallsOn, ErrorResponse, Event
<1>8. CASE RunTools
  <2>1. pc = "tools" /\ UNCHANGED <<sent, last, stored>> /\ pc' \in {"opening", "finishing"}
    BY <1>8 DEF RunTools, NextRound
  <2>2. pc' = "opening" => round' # 0
    BY <1>8 DEF RunTools, NextRound, Typed, TypeOK
  <2> QED
    BY <2>1, <2>2 DEF Ordered, OpenUpTo
<1>9. CASE Finish
  <2> DEFINE e == CompletedEvent
             s == Append(sent, e)
  <2>1. pc = "finishing" /\ pc' = "ended" /\ OpenUpTo(sent, last) /\ stored = None
    BY <1>9 DEF Finish, Ordered
  <2>2. ASSUME completed # None
        PROVE  e \in Events /\ e.number = last + 1 /\ e.type = "completed"
    BY <1>1, <2>2, SentTypes DEF CompletedEvent, Event, Typed, TypeOK
  <2>3. ErrorResponse \in Events /\ ErrorResponse.type = "error"
    BY <1>1, SentTypes DEF ErrorResponse, Event
  <2> HIDE DEF e
  <2>4. CASE completed # None /\ sent' = s
    BY <1>1, <1>3, <2>1, <2>2, <2>4
  <2>5. CASE completed # None /\ sent' = Append(s, ErrorResponse) /\ unrecorded' /\ stored' = None
    <3>1. last \in Int /\ last < e.number
      BY <1>1, <2>2, <2>5
    <3>2. s \in Seq(Events) /\ InOrder(s) /\ EndsOnce(s) /\ Len(s) = Len(sent) + 1
          /\ s[Len(s)] = e /\ Len(sent) \in Nat
      BY <1>1, <2>1, <2>2, <2>5, <3>1, AppendInOrder
    <3> HIDE DEF s
    <3>3. /\ InOrder(sent')
          /\ \A i \in DOMAIN sent' :
               sent'[i].type \in EndingTypes => i \in {Len(s), Len(s) + 1}
      BY <2>3, <2>5, <3>2, AppendError
    <3>4. Len(sent') = Len(s) + 1 /\ sent'[Len(s)] = e /\ sent'[Len(s) + 1] = ErrorResponse
      BY <2>3, <2>5, <3>2
    <3>5. \A i \in {Len(s)} : EndsTwice(i)'
      BY <2>2, <2>3, <2>5, <3>4 DEF EndsTwice
    <3> QED
      BY <2>1, <3>3, <3>4, <3>5 DEF Ordered
  <2>6. CASE sent' = sent
    BY <2>1, <2>6 DEF Ordered, OpenUpTo
  <2> QED
    BY <1>9, <2>1, <2>4, <2>5, <2>6 DEF Finish, e
<1>10. CASE HangUp \/ Disconnect \/ UNCHANGED vars
  BY <1>10 DEF HangUp, Disconnect, vars, Ordered, EndsTwice
<1> QED
  BY <1>2, <1>4, <1>5, <1>6, <1>7, <1>8, <1>9, <1>10, OpenOrdered DEF Next, Handler

LEMMA OrderedHolds == Spec => [](Typed /\ Ordered)
BY InitTyped, NextTyped, InitOrdered, NextOrdered, PTL DEF Spec

\* Whatever is withheld, fails or is asked again, SSE events are numbered in the
\* order they are sent and an ending is the last of them, but for the error response
\* after a completed event whose statistics could not be written.
THEOREM EventsInOrderHolds == Spec => []EventsInOrder
<1>1. Ordered => EventsInOrder
  BY DEF Ordered, InOrder, EventsInOrder, Endings, Sent, EndingTypes
<1> QED
  BY <1>1, OrderedHolds, PTL

-----------------------------------------------------------------------------
(* The text the events tell.                                               *)

Deltas(events) == {i \in DOMAIN events : events[i].type = "delta"}

\* Events that are no deltas add nothing.
LEMMA TellsOther ==
  ASSUME NEW s \in Seq(Events), NEW t \in Seq(Events), NEW text \in Text,
         Tells(s, text), \A i \in DOMAIN t : t[i].type # "delta"
  PROVE  Tells(s \o t, text)
<1>1. /\ DOMAIN s = 1 .. Len(s) /\ DOMAIN t = 1 .. Len(t)
      /\ Len(s) \in Nat /\ Len(t) \in Nat
      /\ DOMAIN (s \o t) = 1 .. Len(s) + Len(t)
      /\ \A i \in 1 .. Len(s) : (s \o t)[i] = s[i]
      /\ \A i \in Len(s) + 1 .. Len(s) + Len(t) : (s \o t)[i] = t[i - Len(s)]
  OBVIOUS
<1>2. \A i \in Len(s) + 1 .. Len(s) + Len(t) : (s \o t)[i].type # "delta"
  <2> TAKE i \in Len(s) + 1 .. Len(s) + Len(t)
  <2>1. i - Len(s) \in DOMAIN t
    BY <1>1
  <2> QED
    BY <1>1, <2>1
<1>3. Deltas(s \o t) = Deltas(s)
  BY <1>1, <1>2 DEF Deltas
<1>4. \A i \in Deltas(s) : (s \o t)[i] = s[i]
  BY <1>1 DEF Deltas
<1> QED
  BY <1>3, <1>4 DEF Tells, Deltas

\* A delta adds what it says.
LEMMA TellsDelta ==
  ASSUME NEW s \in Seq(Events), NEW text \in Text, NEW n, NEW d \in Nat \X Nat,
         Tells(s, text)
  PROVE  Tells(Append(s, Event("delta", n, <<d>>)), Append(text, d))
<1> DEFINE e == Event("delta", n, <<d>>)
           new == Append(s, e)
           m == Len(s) + 1
           UpTo(i) == {j \in Deltas(s) : j <= i}
<1>1. /\ DOMAIN s = 1 .. Len(s) /\ Len(s) \in Nat /\ DOMAIN new = 1 .. m
      /\ \A i \in 1 .. Len(s) : new[i] = s[i]
      /\ new[m] = e
  OBVIOUS
<1>2. e.type = "delta" /\ e.text = <<d>>
  BY DEF Event
<1>3. /\ Len(text) \in Nat /\ Len(Append(text, d)) = Len(text) + 1
      /\ \A k \in 1 .. Len(text) : Append(text, d)[k] = text[k]
      /\ Append(text, d)[Len(text) + 1] = d
  BY DEF Text
<1>4. IsFiniteSet(Deltas(s)) /\ m \notin Deltas(s) /\ Deltas(s) \subseteq 1 .. Len(s)
  <2>1. Deltas(s) \subseteq 1 .. Len(s)
    BY <1>1 DEF Deltas
  <2>2. m \notin 1 .. Len(s)
    BY <1>1
  <2>3. IsFiniteSet(1 .. Len(s))
    BY <1>1, FS_Interval
  <2> QED
    BY <2>1, <2>2, <2>3, FS_Subset
<1>5. Cardinality(Deltas(s)) = Len(text)
  BY DEF Tells, Deltas
<1> HIDE DEF e
<1>6. Deltas(new) = Deltas(s) \cup {m}
  BY <1>1, <1>2 DEF Deltas
<1> HIDE DEF new
<1>7. Cardinality(Deltas(new)) = Len(text) + 1
  BY <1>4, <1>5, <1>6, FS_AddElement
<1>8. ASSUME NEW i \in Deltas(new)
      PROVE  new[i].text = <<Append(text, d)[Cardinality({j \in Deltas(new) : j <= i})]>>
  <2>1. CASE i = m
    <3>1. {j \in Deltas(new) : j <= i} = Deltas(new)
      BY <1>1, <1>4, <1>6, <2>1
    <3> QED
      BY <1>1, <1>2, <1>3, <1>7, <2>1, <3>1
  <2>2. CASE i # m
    <3>1. i \in Deltas(s) /\ i \in 1 .. Len(s)
      BY <1>4, <1>6, <1>8, <2>2
    <3>2. {j \in Deltas(new) : j <= i} = UpTo(i)
      BY <1>1, <1>6, <3>1
    <3>3. UpTo(i) \subseteq Deltas(s) /\ i \in UpTo(i)
      BY <3>1
    <3> HIDE DEF UpTo
    <3>4. IsFiniteSet(UpTo(i)) /\ Cardinality(UpTo(i)) <= Cardinality(Deltas(s))
      BY <1>4, <3>3, FS_Subset
    <3>5. Cardinality(UpTo(i)) \in Nat /\ Cardinality(UpTo(i)) # 0
      BY <3>3, <3>4, FS_CardinalityType, FS_EmptySet
    <3>6. Cardinality(UpTo(i)) \in 1 .. Len(text)
      BY <1>3, <1>5, <3>4, <3>5
    <3>7. s[i].text = <<text[Cardinality(UpTo(i))]>>
      BY <3>1 DEF Tells, Deltas, UpTo
    <3> QED
      BY <1>1, <1>3, <3>1, <3>2, <3>6, <3>7
  <2> QED
    BY <2>1, <2>2
<1> QED
  BY <1>3, <1>7, <1>8 DEF Tells, Deltas, new, e

\* What the handler and the mapper hold is what the client was told; it is
\* complete, or dropped, before the response is.
Told ==
  /\ pc = "opening" => Tells(sent, prior)
  /\ pc = "streaming" => Tells(sent, prior \o parts)
  /\ pc \in {"tools", "client"} => Tells(sent, completed)
  /\ pc = "finishing" /\ completed # None => Tells(sent, completed)
  /\ TextIsWhatWasSent

LEMMA AppendConcat ==
  ASSUME NEW S, NEW s \in Seq(S), NEW t \in Seq(S), NEW d \in S
  PROVE  s \o Append(t, d) = Append(s \o t, d)
<1>1. Append(t, d) = t \o <<d>> /\ Append(s \o t, d) = (s \o t) \o <<d>>
  OBVIOUS
<1>2. <<d>> \in Seq(S)
  OBVIOUS
<1> QED
  BY <1>1, <1>2, ConcatAssociative

LEMMA InitTold == Init => Told
<1> SUFFICES ASSUME Init PROVE Told
  OBVIOUS
<1>1. {i \in DOMAIN sent : sent[i].type = "delta"} = {}
  BY DEF Init
<1>2. Tells(sent, prior)
  BY <1>1, FS_EmptySet DEF Init, Tells
<1> QED
  BY <1>2 DEF Init, Told, TextIsWhatWasSent, Sent

\* Until the end nothing is stored and nothing completed.
LEMMA OpenTells ==
  ASSUME Ordered', pc' # "ended", stored' = None
  PROVE  TextIsWhatWasSent'
<1>1. OpenUpTo(sent, last)'
  BY DEF Ordered
<1>2. Sent("completed")' = {}
  BY <1>1 DEF OpenUpTo, Sent, EndingTypes
<1> QED
  BY <1>2 DEF TextIsWhatWasSent

\* A history whose answers all tell the text, and which ends with one.
Retells(history, text) ==
  /\ history[Len(history)].kind = "answer"
  /\ \A i \in DOMAIN history : history[i].kind = "answer" => history[i].text = text

\* However many calls were made, the answers of the stored history tell one text.
LEMMA HistoryRetells ==
  ASSUME Typed, NEW text \in Text
  PROVE  Retells(messages \o Answers(text), text)
<1> DEFINE these == Answers(text)
           A == [kind : {"answer"}, call : Call \cup {None}, text : {text}]
<1>1. asked \in Seq(Call) /\ messages \in Seq(Messages)
  BY DEF Typed, TypeOK
<1>2. these \in Seq(A) /\ Len(these) > 0
  <2>1. CASE asked = <<>>
    <3>1. Message("answer", None, text) \in A
      BY DEF Message
    <3>2. these = <<Message("answer", None, text)>>
      BY <2>1 DEF Answers
    <3> HIDE DEF A, these
    <3> QED
      BY <3>1, <3>2
  <2>2. CASE asked # <<>>
    <3>1. Len(asked) \in Nat /\ Len(asked) > 0
      BY <1>1, <2>2
    <3>2. \A i \in 1 .. Len(asked) : Message("answer", asked[i], text) \in A
      BY <1>1 DEF Message
    <3>3. these = [i \in 1 .. Len(asked) |-> Message("answer", asked[i], text)]
      BY <2>2 DEF Answers
    <3> HIDE DEF A, these
    <3> QED
      BY <3>1, <3>2, <3>3
  <2> QED
    BY <2>1, <2>2
<1>3. /\ \A i \in DOMAIN messages : messages[i].kind # "answer"
      /\ \A i \in DOMAIN these : these[i].kind = "answer" /\ these[i].text = text
  <2>1. \A i \in DOMAIN messages : messages[i] \in Messages
    BY <1>1
  <2>2. \A i \in DOMAIN these : these[i] \in A
    <3> HIDE DEF A, these
    <3> QED
      BY <1>2
  <2> QED
    BY <2>1, <2>2 DEF Messages
<1> HIDE DEF these, A
<1>4. /\ Len(messages) \in Nat /\ Len(these) \in Nat
      /\ DOMAIN messages = 1 .. Len(messages) /\ DOMAIN these = 1 .. Len(these)
      /\ DOMAIN (messages \o these) = 1 .. Len(messages) + Len(these)
      /\ Len(messages \o these) = Len(messages) + Len(these)
      /\ \A i \in 1 .. Len(messages) : (messages \o these)[i] = messages[i]
      /\ \A i \in Len(messages) + 1 .. Len(messages) + Len(these) :
           (messages \o these)[i] = these[i - Len(messages)]
  BY <1>1, <1>2
<1>5. \A i \in Len(messages) + 1 .. Len(messages) + Len(these) : i - Len(messages) \in DOMAIN these
  BY <1>4
<1>6. Len(messages) + Len(these) \in Len(messages) + 1 .. Len(messages) + Len(these)
  BY <1>2, <1>4
<1>7. \A i \in DOMAIN (messages \o these) :
        i \in DOMAIN messages \/ i \in Len(messages) + 1 .. Len(messages) + Len(these)
  BY <1>4
<1>8. Retells(messages \o these, text)
  BY <1>3, <1>4, <1>5, <1>6, <1>7 DEF Retells
<1> QED
  BY <1>8 DEF these

\* What is sent and stored last tells all there is to tell.
LEMMA EndTells ==
  ASSUME Typed, Ordered, pc # "ended", NEW tail \in Seq(Events), sent' = sent \o tail,
         \A i \in DOMAIN tail :
           tail[i].type # "delta" /\ (tail[i].type = "completed" => Tells(sent, tail[i].text)),
         stored' = None
         \/ \E text \in Text : Retells(stored', text) /\ Tells(sent, text)
  PROVE  TextIsWhatWasSent'
<1>1. sent \in Seq(Events) /\ OpenUpTo(sent, last)
  BY DEF Typed, Ordered
<1>2. \A text \in Text : Tells(sent, text) => Tells(sent', text)
  BY <1>1, TellsOther
<1>3. /\ DOMAIN sent = 1 .. Len(sent) /\ DOMAIN tail = 1 .. Len(tail)
      /\ Len(sent) \in Nat /\ Len(tail) \in Nat
      /\ DOMAIN sent' = 1 .. Len(sent) + Len(tail)
      /\ \A i \in 1 .. Len(sent) : sent'[i] = sent[i]
      /\ \A i \in Len(sent) + 1 .. Len(sent) + Len(tail) : sent'[i] = tail[i - Len(sent)]
  BY <1>1
<1>4. ASSUME NEW i \in Sent("completed")'
      PROVE  Tells(sent', sent'[i].text)
  <2>1. i \in DOMAIN sent' /\ sent'[i].type = "completed"
    BY DEF Sent
  <2>2. i \notin DOMAIN sent
    BY <1>1, <1>3, <2>1 DEF OpenUpTo, EndingTypes
  <2>3. i - Len(sent) \in DOMAIN tail /\ sent'[i] = tail[i - Len(sent)]
    BY <1>3, <2>1, <2>2
  <2>4. tail[i - Len(sent)].text \in Text
    <3>1. tail[i - Len(sent)] \in Events
      BY <2>3
    <3> QED
      BY <3>1 DEF Events
  <2> QED
    BY <1>2, <2>1, <2>3, <2>4
<1>5. stored' # None =>
        /\ stored'[Len(stored')].kind = "answer"
        /\ \A i \in DOMAIN stored' :
             stored'[i].kind = "answer" => Tells(sent', stored'[i].text)
  BY <1>2 DEF Retells
<1> QED
  BY <1>4, <1>5 DEF TextIsWhatWasSent

\* The one event a failure ends with tells nothing.
LEMMA FailureTells ==
  ASSUME Typed, Ordered, pc # "ended", NEW e \in Events, sent' = Append(sent, e),
         e.type \in {"failed", "error"}, stored' = None
  PROVE  TextIsWhatWasSent'
<1>1. sent \in Seq(Events)
  BY DEF Typed
<1>2. sent' = sent \o <<e>> /\ <<e>> \in Seq(Events)
  BY <1>1
<1>3. \A i \in DOMAIN <<e>> : <<e>>[i].type \notin {"delta", "completed"}
  OBVIOUS
<1> QED
  BY <1>2, <1>3, EndTells

LEMMA NextTold == Typed /\ Ordered /\ Ordered' /\ Told /\ [Next]_vars => Told'
<1> SUFFICES ASSUME Typed, Ordered, Ordered', Told, [Next]_vars PROVE Told'
  OBVIOUS
<1>1. /\ sent \in Seq(Events) /\ last \in Nat \cup {-1}
      /\ prior \in Text /\ parts \in Text /\ prior \o parts \in Text
      /\ completed \in Text \cup {None} /\ <<>> \in Text
  BY TextTyped DEF Typed, TypeOK, Text
<1>2. CASE Open
  <2>1. parts' = <<>> /\ prior' = prior /\ prior \o parts' = prior
    BY <1>1, <1>2 DEF Open, Text
  <2>2. Tells(sent', prior)
    <3>1. CASE round = 0
      <4>1. sent = <<>> /\ sent' = Preamble
        BY <1>2, <3>1 DEF Open, Ordered
      <4>2. sent' = sent \o Preamble /\ Preamble \in Seq(Events)
        BY <1>1, <4>1, SentTypes
      <4>3. \A i \in DOMAIN Preamble : Preamble[i].type # "delta"
        BY DEF Preamble, Event
      <4> QED
        BY <1>1, <1>2, <4>2, <4>3, TellsOther DEF Open, Told
    <3>2. CASE round # 0
      BY <1>2, <3>2 DEF Open, Told
    <3> QED
      BY <3>1, <3>2
  <2> QED
    BY <1>2, <2>1, <2>2, OpenTells DEF Open, Told, Ordered
<1>3. CASE OpenFails
  <2>1. CASE sent' = Append(sent, ErrorResponse) /\ pc' = "ended"
    <3>1. ErrorResponse.type = "error" /\ ErrorResponse \in Events
      BY <1>1, SentTypes DEF ErrorResponse, Event
    <3> QED
      BY <1>3, <2>1, <3>1, FailureTells DEF OpenFails, Told, Ordered
  <2>2. CASE UNCHANGED <<pc, sent>>
    BY <1>3, <2>2 DEF OpenFails, Told, TextIsWhatWasSent, Sent
  <2> QED
    BY <1>3, <2>1, <2>2 DEF OpenFails
<1>4. CASE Delta
  <2> DEFINE d == <<round, Len(parts) + 1>>
  <2>1. d \in Nat \X Nat
    BY <1>1, StreamAssumption DEF Typed, TypeOK, Text
  <2>2. /\ sent' = Append(sent, Event("delta", last + 1, <<d>>))
        /\ parts' = Append(parts, d) /\ prior' = prior
        /\ pc = "streaming" /\ pc' = "streaming" /\ stored' = None
    BY <1>4 DEF Delta, Ordered
  <2> HIDE DEF d
  <2>3. prior \o Append(parts, d) = Append(prior \o parts, d)
    <3> DEFINE S == Nat \X Nat
    <3>1. prior \in Seq(S) /\ parts \in Seq(S) /\ d \in S
      BY <1>1, <2>1 DEF Text
    <3> HIDE DEF S
    <3> QED
      BY <3>1, AppendConcat
  <2>4. Tells(sent', prior' \o parts')
    BY <1>1, <2>1, <2>2, <2>3, TellsDelta DEF Told
  <2> QED
    BY <2>2, <2>4, OpenTells DEF Told
<1>5. CASE StreamFails
  <2> DEFINE e == Event("failed", last + 1, <<>>)
  <2>1. e \in Events /\ e.type = "failed"
    BY <1>1, SentTypes DEF Event
  <2>2. sent' = Append(sent, e) /\ pc = "streaming" /\ pc' = "ended" /\ stored' = None
    BY <1>5 DEF StreamFails, Ordered
  <2> HIDE DEF e
  <2> QED
    BY <2>1, <2>2, FailureTells DEF Told
<1>6. CASE \E requested \in SUBSET (Hosted \cup Client) : StreamEnds(requested)
  <2>1. /\ pc = "streaming" /\ pc' \in {"finishing", "client", "tools"}
        /\ sent' = sent \o MapperEvents(last + 1, FullText)
        /\ completed' = FullText /\ stored' = None
    BY <1>6 DEF StreamEnds, Ordered
  <2>2. FullText \in Text /\ Tells(sent, FullText)
    BY <1>1, <2>1 DEF Told, FullText
  <2>3. MapperEvents(last + 1, FullText) \in Seq(Events)
    BY <1>1, <2>2, SentTypes
  <2>4. \A i \in DOMAIN MapperEvents(last + 1, FullText) :
          MapperEvents(last + 1, FullText)[i].type # "delta"
    BY DEF MapperEvents, Event
  <2>5. Tells(sent', FullText)
    BY <1>1, <2>1, <2>2, <2>3, <2>4, TellsOther
  <2> QED
    BY <2>1, <2>5, OpenTells DEF Told
<1>7. CASE PassCallsOn
  <2>1. ErrorResponse.type = "error" /\ ErrorResponse \in Events
    BY <1>1, SentTypes DEF ErrorResponse, Event
  <2> QED
    BY <1>7, <2>1, FailureTells DEF PassCallsOn, Told, Ordered
<1>8. CASE RunTools
  BY <1>8, OpenTells DEF RunTools, NextRound, Told, Ordered
<1>9. CASE Finish
  <2>1. CASE completed = None
    BY <1>9, <2>1 DEF Finish, Told, TextIsWhatWasSent, Sent
  <2>2. CASE completed # None
    <3> DEFINE e == CompletedEvent
    <3>1. /\ completed \in Text /\ Tells(sent, completed) /\ pc = "finishing"
          /\ pc' = "ended"
          /\ stored' = None \/ stored' = messages \o Answers(completed)
      BY <1>1, <1>9, <2>2 DEF Finish, Told, Ordered
    <3>2. Retells(messages \o Answers(completed), completed)
      BY <3>1, HistoryRetells
    <3>3. /\ e \in Events /\ e.type = "completed" /\ e.text = completed
          /\ ErrorResponse \in Events /\ ErrorResponse.type = "error"
      BY <1>1, <3>1, SentTypes DEF CompletedEvent, ErrorResponse, Event
    <3> HIDE DEF e
    <3> DEFINE tails == {<<>>, <<e>>, <<e, ErrorResponse>>}
    <3>4. \E tail \in tails : sent' = sent \o tail
      <4>1. /\ sent = sent \o <<>> /\ Append(sent, e) = sent \o <<e>>
            /\ Append(Append(sent, e), ErrorResponse) = sent \o <<e, ErrorResponse>>
        <5> HIDE DEF ErrorResponse
        <5> QED
          BY <1>1, <3>3
      <4>2. sent' \in {sent, Append(sent, e), Append(Append(sent, e), ErrorResponse)}
        BY <1>9, <2>2 DEF Finish, e
      <4> QED
        BY <4>1, <4>2
    <3>5. ASSUME NEW tail \in tails
          PROVE  /\ tail \in Seq(Events)
                 /\ \A i \in DOMAIN tail :
                      /\ tail[i].type # "delta"
                      /\ tail[i].type = "completed" => Tells(sent, tail[i].text)
      <4> HIDE DEF ErrorResponse
      <4>1. \A i \in DOMAIN tail : tail[i] \in {e, ErrorResponse}
        OBVIOUS
      <4>2. tail \in Seq(Events)
        <5>1. <<>> \in Seq(Events)
          OBVIOUS
        <5>2. <<e>> \in Seq(Events) /\ <<e, ErrorResponse>> \in Seq(Events)
          BY <3>3
        <5> QED
          BY <5>1, <5>2
      <4> QED
        BY <3>1, <3>3, <4>1, <4>2
    <3> HIDE DEF tails
    <3> QED
      BY <3>1, <3>2, <3>4, <3>5, EndTells DEF Told
  <2> QED
    BY <2>1, <2>2
<1>10. CASE HangUp
  BY <1>10 DEF HangUp, Told, TextIsWhatWasSent, Sent
<1>11. CASE Disconnect \/ UNCHANGED vars
  BY <1>11 DEF Disconnect, vars, Told, TextIsWhatWasSent, Sent
<1> QED
  BY <1>2, <1>3, <1>4, <1>5, <1>6, <1>7, <1>8, <1>9, <1>10, <1>11 DEF Next, Handler

LEMMA ToldHolds == Spec => []Told
BY OrderedHolds, InitTold, NextTold, PTL DEF Spec

\* In any round, the deltas a client has been sent add up to the text of the completed
\* response and of every answer in the history stored for the next one.
THEOREM TextIsWhatWasSentHolds == Spec => []TextIsWhatWasSent
BY ToldHolds, PTL DEF Told

=============================================================================
