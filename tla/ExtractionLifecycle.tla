------------------------- MODULE ExtractionLifecycle -------------------------
(***************************************************************************)
(* What the extraction pipeline promises of a document version: at most    *)
(* one saved text, the phase of its one extraction job, and an audit trail *)
(* in which every change of either is explained by the event it comes with *)
(* in the same step.                                                       *)
(***************************************************************************)
EXTENDS Sequences

CONSTANTS Versions, Users, Ids, None

VARIABLES saved, phase, result, requester, audit

vars == <<saved, phase, result, requester, audit>>

Init ==
  /\ saved = [v \in Versions |-> None]
  /\ phase = [v \in Versions |-> "absent"]
  /\ result = [v \in Versions |-> None]
  /\ requester = [v \in Versions |-> None]
  /\ audit = [v \in Versions |-> <<>>]

Event(action, u) == [action |-> action, by |-> u]

Explain(v, events) == audit' = [audit EXCEPT ![v] = @ \o events]

(* An extraction is requested, first or after a failure. *)
Request(v, u) ==
  /\ phase[v] \in {"absent", "failed"}
  /\ phase' = [phase EXCEPT ![v] = "pending"]
  /\ requester' = [requester EXCEPT ![v] = u]
  /\ Explain(v, <<Event("queued", u)>>)
  /\ UNCHANGED <<saved, result>>

Begin(v) ==
  /\ phase[v] = "pending"
  /\ phase' = [phase EXCEPT ![v] = "running"]
  /\ UNCHANGED <<saved, result, requester, audit>>

(* The text is saved outside the queue, once. *)
Save(v, id, u) ==
  /\ saved[v] = None
  /\ saved' = [saved EXCEPT ![v] = id]
  /\ Explain(v, <<Event("saved", u)>>)
  /\ UNCHANGED <<phase, result, requester>>

Completed(v, id) ==
  /\ phase[v] = "running"
  /\ phase' = [phase EXCEPT ![v] = "completed"]
  /\ result' = [result EXCEPT ![v] = id]
  /\ UNCHANGED requester

(* The job saves the text and completes, in one step. *)
SaveAndComplete(v, id) ==
  /\ saved[v] = None
  /\ Completed(v, id)
  /\ saved' = [saved EXCEPT ![v] = id]
  /\ Explain(v, <<Event("saved", requester[v]), Event("completed", requester[v])>>)

(* The job completes with the text that is there. *)
Complete(v) ==
  /\ saved[v] # None
  /\ Completed(v, saved[v])
  /\ Explain(v, <<Event("completed", requester[v])>>)
  /\ UNCHANGED saved

(* The job fails, without an event if its requester lost the role. *)
Fail(v) ==
  /\ phase[v] = "running"
  /\ phase' = [phase EXCEPT ![v] = "failed"]
  /\ Explain(v, <<Event("failed", requester[v])>>) \/ UNCHANGED audit
  /\ UNCHANGED <<saved, result, requester>>

Next ==
  \E v \in Versions :
    \/ \E u \in Users : Request(v, u)
    \/ \E u \in Users, id \in Ids : Save(v, id, u)
    \/ \E id \in Ids : SaveAndComplete(v, id)
    \/ Begin(v) \/ Complete(v) \/ Fail(v)

Spec == Init /\ [][Next]_vars
=============================================================================
