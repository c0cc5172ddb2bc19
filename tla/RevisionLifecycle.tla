-------------------------- MODULE RevisionLifecycle --------------------------
(***************************************************************************)
(* What the scan pipeline promises of a document version, without workers, *)
(* locks, tokens, leases or clocks: its content status, its audit trail    *)
(* and the phase of its one scan job. Every step is atomic; a status only  *)
(* changes together with the audit event that explains it.                 *)
(***************************************************************************)
EXTENDS Sequences

CONSTANTS Versions, Users, None

VARIABLES content, audit, phase, requester

vars == <<content, audit, phase, requester>>

Terminal == {"clean", "rejected"}
Verdicts == Terminal \cup {"scan_failed"}

Init ==
  /\ content = [v \in Versions |-> "pending_upload"]
  /\ audit = [v \in Versions |-> <<>>]
  /\ phase = [v \in Versions |-> "absent"]
  /\ requester = [v \in Versions |-> None]

Explain(v, action, u) ==
  audit' = [audit EXCEPT ![v] = Append(@, [action |-> action, by |-> u])]

(* The content arrives, once. *)
Store(v, u) ==
  /\ content[v] = "pending_upload"
  /\ content' = [content EXCEPT ![v] = "pending_scan"]
  /\ Explain(v, "uploaded", u)
  /\ UNCHANGED <<phase, requester>>

(* A scan of stored content is requested, first or after a failure. *)
Request(v, u) ==
  /\ content[v] # "pending_upload"
  /\ phase[v] \in {"absent", "failed"}
  /\ phase' = [phase EXCEPT ![v] = "pending"]
  /\ requester' = [requester EXCEPT ![v] = u]
  /\ Explain(v, "queued", u)
  /\ UNCHANGED content

(* Work on the job begins; beginning again is not visible. *)
Begin(v) ==
  /\ phase[v] = "pending"
  /\ phase' = [phase EXCEPT ![v] = "running"]
  /\ UNCHANGED <<content, audit, requester>>

Undecided(v) == content[v] \in {"pending_scan", "scan_failed"}

(* A scan outside the queue gives a verdict. *)
Judge(v, verdict, u) ==
  /\ Undecided(v)
  /\ content' = [content EXCEPT ![v] = verdict]
  /\ Explain(v, verdict, u)
  /\ UNCHANGED <<phase, requester>>

(* The job gives its verdict in the name of its requester, and ends. *)
Decide(v, verdict) ==
  /\ phase[v] = "running"
  /\ Undecided(v)
  /\ content' = [content EXCEPT ![v] = verdict]
  /\ Explain(v, verdict, requester[v])
  /\ phase' = [phase EXCEPT ![v] = IF verdict \in Terminal THEN "completed" ELSE "failed"]
  /\ UNCHANGED requester

(* The job finds a verdict already there. *)
Agree(v) ==
  /\ phase[v] = "running"
  /\ content[v] \in Terminal
  /\ phase' = [phase EXCEPT ![v] = "completed"]
  /\ UNCHANGED <<content, audit, requester>>

(* The job ends without a verdict: its requester lost the role. *)
Refuse(v) ==
  /\ phase[v] = "running"
  /\ phase' = [phase EXCEPT ![v] = "failed"]
  /\ UNCHANGED <<content, audit, requester>>

Next ==
  \E v \in Versions :
    \/ \E u \in Users : Store(v, u) \/ Request(v, u)
    \/ \E u \in Users, verdict \in Verdicts : Judge(v, verdict, u)
    \/ \E verdict \in Verdicts : Decide(v, verdict)
    \/ Begin(v) \/ Agree(v) \/ Refuse(v)

Spec == Init /\ [][Next]_vars
=============================================================================
