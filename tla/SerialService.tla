---------------------------- MODULE SerialService ----------------------------
(***************************************************************************)
(* What the gateway promises its clients about inference, without saying   *)
(* how: requests queue, at most one of them is served at a time, and an    *)
(* Ollama model is asked to unload only when no request is queued and no   *)
(* other request is being served (docs/security.md, inference_queue.py).   *)
(***************************************************************************)

CONSTANTS
  Requests,   \* HTTP requests that need a provider
  Models      \* models an Ollama server can hold in memory

VARIABLES
  phase,      \* phase[r]: "new", "queued", "served" or "done"
  resident    \* models used and not yet asked to unload

svars == <<phase, resident>>

NobodyServed == \A r \in Requests : phase[r] # "served"
NobodyQueued == \A r \in Requests : phase[r] # "queued"

Init ==
  /\ phase = [r \in Requests |-> "new"]
  /\ resident = {}

Enqueue(r) ==
  /\ phase[r] = "new"
  /\ phase' = [phase EXCEPT ![r] = "queued"]
  /\ UNCHANGED resident

\* A request may find the server free on arrival or after having queued.
Begin(r) ==
  /\ phase[r] \in {"new", "queued"}
  /\ NobodyServed
  /\ phase' = [phase EXCEPT ![r] = "served"]
  /\ UNCHANGED resident

Use(r, m) ==
  /\ phase[r] = "served"
  /\ resident' = resident \cup {m}
  /\ UNCHANGED phase

\* The end of a request may unload models, if nobody is queueing for them.
Finish(r) ==
  /\ phase[r] = "served"
  /\ phase' = [phase EXCEPT ![r] = "done"]
  /\ \E gone \in SUBSET Models :
       /\ gone # {} => NobodyQueued
       /\ resident' = resident \ gone

IdleUnload(m) ==
  /\ NobodyServed
  /\ NobodyQueued
  /\ resident' = resident \ {m}
  /\ UNCHANGED phase

Next ==
  \/ \E r \in Requests : Enqueue(r) \/ Begin(r) \/ Finish(r)
  \/ \E r \in Requests, m \in Models : Use(r, m)
  \/ \E m \in Models : IdleUnload(m)

Spec == Init /\ [][Next]_svars

=============================================================================
