---------------------------- MODULE Extractions ----------------------------
(***************************************************************************)
(* The extraction pipeline: the queue of extraction jobs (ExtractionJobs), *)
(* the workers that drain it, and the saving of extracted text as an       *)
(* immutable artifact (SavedExtractions.save), which a worker's job and a  *)
(* synchronous request share. The object is written before the locks are   *)
(* taken; the artifact row, the job's completion and their audit events    *)
(* are one commit under the lock of the version row, then of the job row.  *)
(* Every version has one extractor: its MIME type never changes.           *)
(***************************************************************************)
EXTENDS Integers, Sequences

CONSTANTS
  Versions,      \* document versions, in the order their jobs are picked
  Workers,       \* worker processes
  Clients,       \* requests: queue an extraction, or save one
  Users,
  Tokens,        \* claim tokens (uuid4)
  Ids,           \* artifact ids (uuid4); the object's key ends in the id
  None,
  MaxAttempts    \* bound: a job is claimed at most this often

Procs == Workers \cup Clients

Leases == {"held", "disputed", "over"}

ASSUME ConstantsAssumption ==
  /\ Versions \subseteq Nat
  /\ Workers \cap Clients = {}
  /\ None \notin Versions \cup Procs \cup Users \cup Tokens \cup Ids
  /\ None \notin Leases
  /\ MaxAttempts \in Nat

VARIABLES
  content,   \* document_versions.content_status, as far as it matters here
  art,       \* document_extractions: the id of the version's artifact
  store,     \* artifact objects the bucket holds
  job,       \* document_extraction_jobs, one row at most per version
  audit,     \* audit_logs of each version, oldest first
  vlock,     \* holder of FOR UPDATE on the version row
  jlock,     \* holder of FOR UPDATE on the job row
  admins,    \* users whose membership is active and holds tenant_admin
  pc, me,    \* where each process stands, and its locals
  vouched    \* history: processes whose user was an administrator at some
             \* instant since they locked the version

vars == <<content, art, store, job, audit, vlock, jlock, admins, pc, me, vouched>>

NoJob == [status |-> "absent", attempts |-> 0, claim_token |-> None, lease |-> None,
          requested_by |-> None, result_id |-> None]

Forgotten ==
  [kind |-> "none", v |-> None, user |-> None, token |-> None, id |-> None, found |-> FALSE]

Init ==
  /\ content = [v \in Versions |-> "pending_scan"]
  /\ art = [v \in Versions |-> None]
  /\ store = {}
  /\ job = [v \in Versions |-> NoJob]
  /\ audit = [v \in Versions |-> <<>>]
  /\ vlock = [v \in Versions |-> None]
  /\ jlock = [v \in Versions |-> None]
  /\ admins \in SUBSET Users
  /\ pc = [p \in Procs |-> "idle"]
  /\ me = [p \in Procs |-> Forgotten]
  /\ vouched = {}

Goto(p, label) == pc' = [pc EXCEPT ![p] = label]

Released(locks, p) == [v \in Versions |-> IF locks[v] = p THEN None ELSE locks[v]]

ReleaseLocks(p) ==
  /\ vlock' = Released(vlock, p)
  /\ jlock' = Released(jlock, p)

Event(action, u) == [action |-> action, by |-> u]

Explain(v, events) == audit' = [audit EXCEPT ![v] = @ \o events]

-----------------------------------------------------------------------------
(* The environment: verdicts, roles and time. *)

Judge(v, verdict) ==
  /\ vlock[v] = None
  /\ content[v] = "pending_scan"
  /\ content' = [content EXCEPT ![v] = verdict]
  /\ UNCHANGED <<art, store, job, audit, vlock, jlock, admins, pc, me, vouched>>

Revoke(u) ==
  /\ u \in admins
  /\ admins' = admins \ {u}
  /\ UNCHANGED <<content, art, store, job, audit, vlock, jlock, pc, me, vouched>>

HoldingVersion == {"recheck", "lock_job", "commit"}

Grant(u) ==
  /\ u \in Users \ admins
  /\ admins' = admins \cup {u}
  /\ vouched' = vouched \cup {p \in Procs : pc[p] \in HoldingVersion /\ me[p].user = u}
  /\ UNCHANGED <<content, art, store, job, audit, vlock, jlock, pc, me>>

(* A lease first holds on every clock, then the clocks of the workers may  *)
(* disagree about it, then it is over on every clock.                      *)
LeaseAfter(lease) == IF lease = "held" THEN "disputed" ELSE "over"

Tick(v) ==
  /\ job[v].lease \in {"held", "disputed"}
  /\ job' = [job EXCEPT ![v].lease = LeaseAfter(@)]
  /\ UNCHANGED <<content, art, store, audit, vlock, jlock, admins, pc, me, vouched>>

-----------------------------------------------------------------------------
(* A worker's round: ExtractionJobs.run_one. *)

StartDrain(w) ==
  /\ pc[w] = "idle"
  /\ Goto(w, "poll")
  /\ UNCHANGED <<content, art, store, job, audit, vlock, jlock, admins, me, vouched>>

(* Rows the claim query can return, and rows it returns on every clock:    *)
(* SKIP LOCKED passes over a locked row.                                   *)
Unlocked(v) == jlock[v] = None /\ job[v].attempts < MaxAttempts
Claimable == {v \in Versions : Unlocked(v) /\ (job[v].status = "pending" \/ job[v].lease \in {"disputed", "over"})}
Due == {v \in Versions : Unlocked(v) /\ (job[v].status = "pending" \/ job[v].lease = "over")}

FreshTokens ==
  {t \in Tokens : (\A v \in Versions : job[v].claim_token # t) /\ (\A p \in Procs : me[p].token # t)}

ClaimedJob(v, token) ==
  [job[v] EXCEPT !.status = "running", !.claim_token = token, !.lease = "held", !.attempts = @ + 1]

Claim(w) ==
  /\ pc[w] = "poll"
  /\ FreshTokens # {}
  /\ LET token == CHOOSE t \in FreshTokens : TRUE
     IN  \E v \in Claimable :
           /\ \A u \in Due : v <= u
           /\ job' = [job EXCEPT ![v] = ClaimedJob(v, token)]
           /\ me' = [me EXCEPT ![w] = [kind |-> "job", v |-> v, user |-> job[v].requested_by,
                                       token |-> token, id |-> None, found |-> FALSE]]
  /\ Goto(w, "start")
  /\ UNCHANGED <<content, art, store, audit, vlock, jlock, admins, vouched>>

NoWork(w) ==
  /\ pc[w] = "poll"
  /\ Due = {}
  /\ Goto(w, "idle")
  /\ UNCHANGED <<content, art, store, job, audit, vlock, jlock, admins, me, vouched>>

MayWrite(p) == me[p].user \in admins

(* The requester's membership is read; without the role the job fails.     *)
StartJob(w) ==
  /\ pc[w] = "start"
  /\ Goto(w, IF MayWrite(w) THEN "get" ELSE "fail_version")
  /\ UNCHANGED <<content, art, store, job, audit, vlock, jlock, admins, me, vouched>>

-----------------------------------------------------------------------------
(* SavedExtractions.save, for a worker's job or for a request. *)

(* Faulty: an object is removed when the work it was written for fails.    *)
KeptUnlessRefused(p) == store \ {me[p].id}

(* What a failure does to the bucket: nothing is ever deleted. *)
Kept(p) == store

(* An expected failure: rollback; a worker goes on to fail its job, a      *)
(* request is answered with the error.                                     *)
Refused(p) ==
  /\ ReleaseLocks(p)
  /\ Goto(p, IF p \in Workers THEN "fail_version" ELSE "done")
  /\ UNCHANGED <<content, art, job, audit, admins, me, vouched>>

(* Faulty: content that awaits its scan passes. *)
ClearedUnlessRejected(v) == content[v] # "rejected"

Cleared(v) == content[v] = "clean"

(* The version and its artifact, read without a lock. *)
Get(p) ==
  LET v == me[p].v
  IN  /\ pc[p] = "get"
      /\ IF ~Cleared(v)
         THEN Refused(p) /\ UNCHANGED store
         ELSE /\ me' = [me EXCEPT ![p].id = art[v], ![p].found = (art[v] # None)]
              /\ Goto(p, IF art[v] = None THEN "extract" ELSE "read_back")
              /\ UNCHANGED <<content, art, store, job, audit, vlock, jlock, admins, vouched>>

(* The artifact is downloaded and verified, with no transaction open. A    *)
(* request has its answer then; a job still completes.                     *)
ReadBack(p) ==
  /\ pc[p] = "read_back"
  /\ \/ /\ me[p].id \in store
        /\ Goto(p, IF p \in Workers THEN "lock_version" ELSE "done")
        /\ UNCHANGED <<content, art, store, job, audit, vlock, jlock, admins, me, vouched>>
     \/ Refused(p) /\ store' = Kept(p)

(* The content is read again, downloaded and parsed.                       *)
Extract(p) ==
  /\ pc[p] = "extract"
  /\ \/ /\ Cleared(me[p].v)
        /\ Goto(p, "put")
        /\ UNCHANGED <<content, art, store, job, audit, vlock, jlock, admins, me, vouched>>
     \/ Refused(p) /\ UNCHANGED store

FreshIds == {i \in Ids : i \notin store /\ \A p \in Procs : me[p].id # i}

(* The text is written under a new id; a PUT that fails may have written.  *)
Put(p) ==
  /\ pc[p] = "put"
  /\ FreshIds # {}
  /\ LET id == CHOOSE i \in FreshIds : TRUE
     IN  \/ /\ store' = store \cup {id}
            /\ me' = [me EXCEPT ![p].id = id]
            /\ Goto(p, "lock_version")
            /\ UNCHANGED <<content, art, job, audit, vlock, jlock, admins, vouched>>
         \/ Refused(p) /\ store' \in {store, store \cup {id}}

LockVersion(p) ==
  LET v == me[p].v
  IN  /\ pc[p] = "lock_version"
      /\ vlock[v] = None
      /\ vlock' = [vlock EXCEPT ![v] = p]
      /\ vouched' = IF MayWrite(p) THEN vouched \cup {p} ELSE vouched \ {p}
      /\ Goto(p, "recheck")
      /\ UNCHANGED <<content, art, store, job, audit, jlock, admins, me>>

(* Faulty: the artifact found or made before the lock is trusted. *)
PublishedIdOwn(p) == me[p].id

(* Under the lock the artifact is looked up again: the first one stays.    *)
PublishedId(p) == IF art[me[p].v] = None THEN me[p].id ELSE art[me[p].v]

(* Faulty: the answer from before the parsing is trusted. *)
RecheckSkipped(p) ==
  /\ pc[p] = "recheck"
  /\ me' = [me EXCEPT ![p].id = PublishedId(p)]
  /\ Goto(p, IF p \in Workers THEN "lock_job" ELSE "commit")
  /\ UNCHANGED <<content, art, store, job, audit, vlock, jlock, admins, vouched>>

(* Faulty: the artifact is committed before the claim is checked. *)
RecheckSavingEarly(p) ==
  LET v == me[p].v
  IN  /\ pc[p] = "recheck"
      /\ Cleared(v)
      /\ MayWrite(p)
      /\ me' = [me EXCEPT ![p].id = PublishedId(p)]
      /\ art' = [art EXCEPT ![v] = PublishedId(p)]
      /\ Goto(p, IF p \in Workers THEN "lock_job" ELSE "commit")
      /\ UNCHANGED <<content, store, job, audit, vlock, jlock, admins, vouched>>

(* Status and membership are read again under the version lock.            *)
Recheck(p) ==
  LET v == me[p].v
  IN  /\ pc[p] = "recheck"
      /\ IF Cleared(v) /\ MayWrite(p)
         THEN /\ me' = [me EXCEPT ![p].id = PublishedId(p)]
              /\ Goto(p, IF p \in Workers THEN "lock_job" ELSE "commit")
              /\ UNCHANGED <<content, art, store, job, audit, vlock, jlock, admins, vouched>>
         ELSE Refused(p) /\ store' = Kept(p)

(* locked_claim: the claim is still this worker's, and its lease holds.    *)
ClaimHeld(w) ==
  LET j == job[me[w].v] IN j.status = "running" /\ j.claim_token = me[w].token

(* Faulty: ClaimLost leaves the transaction open. *)
ClaimLostKeepingLocks(w) ==
  /\ pc[w] \in {"lock_job", "fail_job"}
  /\ jlock[me[w].v] = None
  /\ ~ClaimHeld(w) \/ job[me[w].v].lease \in {"disputed", "over"}
  /\ Goto(w, "idle")
  /\ UNCHANGED <<content, art, store, job, audit, vlock, jlock, admins, me, vouched>>

(* The job row is locked and the claim is lost: all is rolled back.        *)
ClaimLost(w) ==
  /\ pc[w] \in {"lock_job", "fail_job"}
  /\ jlock[me[w].v] = None
  /\ ~ClaimHeld(w) \/ job[me[w].v].lease \in {"disputed", "over"}
  /\ store' = IF pc[w] = "lock_job" THEN Kept(w) ELSE store
  /\ ReleaseLocks(w)
  /\ Goto(w, "idle")
  /\ UNCHANGED <<content, art, job, audit, admins, me, vouched>>

LockJob(w) ==
  /\ pc[w] = "lock_job"
  /\ jlock[me[w].v] = None
  /\ ClaimHeld(w) /\ job[me[w].v].lease \in {"held", "disputed"}
  /\ jlock' = [jlock EXCEPT ![me[w].v] = w]
  /\ Goto(w, "commit")
  /\ UNCHANGED <<content, art, store, job, audit, vlock, admins, me, vouched>>

(* Faulty: the saving is recorded for an artifact that was there already.  *)
SavedEventsAlways(p) == <<Event("saved", me[p].user)>>

SavedEvents(p) == IF art[me[p].v] = None THEN <<Event("saved", me[p].user)>> ELSE <<>>

Settled(v, status, id) ==
  [job[v] EXCEPT !.status = status, !.claim_token = None, !.lease = None, !.result_id = id]

(* One commit: the artifact, if it is new, and for a job its completion.   *)
(* A job whose artifact was there from the start has read it already.      *)
Commit(p) ==
  LET v == me[p].v
  IN  /\ pc[p] = "commit"
      /\ art' = [art EXCEPT ![v] = me[p].id]
      /\ IF p \in Workers
         THEN /\ job' = [job EXCEPT ![v] = Settled(v, "completed", me[p].id)]
              /\ Explain(v, Append(SavedEvents(p), Event("completed", me[p].user)))
         ELSE Explain(v, SavedEvents(p)) /\ UNCHANGED job
      /\ ReleaseLocks(p)
      /\ Goto(p, IF me[p].found THEN "idle" ELSE "reread")
      /\ UNCHANGED <<content, store, admins, me, vouched>>

(* The saved text is downloaded once more for the answer. If that fails,   *)
(* a worker takes the path of a failed job, although its job is completed. *)
Reread(p) ==
  /\ pc[p] = "reread"
  /\ \/ /\ me[p].id \in store
        /\ Goto(p, IF p \in Workers THEN "idle" ELSE "done")
        /\ UNCHANGED <<content, art, store, job, audit, vlock, jlock, admins, me, vouched>>
     \/ Refused(p) /\ store' = Kept(p)

-----------------------------------------------------------------------------
(* The path of a failed job. *)

FailLockVersion(w) ==
  LET v == me[w].v
  IN  /\ pc[w] = "fail_version"
      /\ vlock[v] = None
      /\ vlock' = [vlock EXCEPT ![v] = w]
      /\ Goto(w, "fail_job")
      /\ UNCHANGED <<content, art, store, job, audit, jlock, admins, me, vouched>>

(* Faulty: a failure is recorded without a look at the claim. *)
FailLockJobUnfenced(w) ==
  /\ pc[w] = "fail_job"
  /\ jlock[me[w].v] = None
  /\ jlock' = [jlock EXCEPT ![me[w].v] = w]
  /\ Goto(w, "fail_commit")
  /\ UNCHANGED <<content, art, store, job, audit, vlock, admins, me, vouched>>

FailLockJob(w) ==
  /\ pc[w] = "fail_job"
  /\ jlock[me[w].v] = None
  /\ ClaimHeld(w) /\ job[me[w].v].lease \in {"held", "disputed"}
  /\ jlock' = [jlock EXCEPT ![me[w].v] = w]
  /\ Goto(w, "fail_commit")
  /\ UNCHANGED <<content, art, store, job, audit, vlock, admins, me, vouched>>

(* The failure is recorded in the requester's name if the role is left.    *)
FailCommit(w) ==
  LET v == me[w].v
  IN  /\ pc[w] = "fail_commit"
      /\ job' = [job EXCEPT ![v] = Settled(v, "failed", None)]
      /\ Explain(v, IF MayWrite(w) THEN <<Event("failed", me[w].user)>> ELSE <<>>)
      /\ ReleaseLocks(w)
      /\ Goto(w, "idle")
      /\ UNCHANGED <<content, art, store, admins, me, vouched>>

(* The process dies, or an unexpected exception ends the drain.            *)
Crash(w) ==
  /\ pc[w] # "idle"
  /\ ReleaseLocks(w)
  /\ Goto(w, "idle")
  /\ UNCHANGED <<content, art, store, job, audit, admins, me, vouched>>

-----------------------------------------------------------------------------
(* A request. *)

Admit(c, kind, v, u) ==
  /\ pc[c] = "idle"
  /\ u \in admins
  /\ me' = [me EXCEPT ![c] = [Forgotten EXCEPT !.kind = kind, !.v = v, !.user = u]]
  /\ Goto(c, IF kind = "save" THEN "get" ELSE "queue")
  /\ UNCHANGED <<content, art, store, job, audit, vlock, jlock, admins, vouched>>

EnqueueLockVersion(c) ==
  LET v == me[c].v
  IN  /\ pc[c] = "queue"
      /\ vlock[v] = None
      /\ IF Cleared(v)
         THEN /\ vlock' = [vlock EXCEPT ![v] = c]
              /\ Goto(c, "read_job")
         ELSE Goto(c, "done") /\ UNCHANGED vlock         \* ContentNotCleared
      /\ UNCHANGED <<content, art, store, job, audit, jlock, admins, me, vouched>>

(* Faulty: a completed job can be queued again. *)
QueueableUnlessActive(v) == job[v].status \notin {"pending", "running"}

Queueable(v) == job[v].status \in {"absent", "failed"}

EnqueueReadJob(c) ==
  LET v == me[c].v
  IN  /\ pc[c] = "read_job"
      /\ jlock[v] = None
      /\ IF Queueable(v)
         THEN /\ jlock' = [jlock EXCEPT ![v] = IF job[v].status = "absent" THEN None ELSE c]
              /\ Goto(c, "commit_job")
              /\ UNCHANGED vlock
         ELSE ReleaseLocks(c) /\ Goto(c, "done")
      /\ UNCHANGED <<content, art, store, job, audit, admins, me, vouched>>

EnqueueCommit(c) ==
  LET v == me[c].v
  IN  /\ pc[c] = "commit_job"
      /\ job' = [job EXCEPT ![v].status = "pending", ![v].requested_by = me[c].user]
      /\ Explain(v, <<Event("queued", me[c].user)>>)
      /\ ReleaseLocks(c)
      /\ Goto(c, "done")
      /\ UNCHANGED <<content, art, store, admins, me, vouched>>

(* An exception or a cancelled request: rollback. *)
Abort(c) ==
  /\ pc[c] \notin {"idle", "done"}
  /\ ReleaseLocks(c)
  /\ Goto(c, "done")
  /\ UNCHANGED <<content, art, store, job, audit, admins, me, vouched>>

-----------------------------------------------------------------------------
SaveStep(p) ==
  \/ Get(p) \/ ReadBack(p) \/ Extract(p) \/ Put(p) \/ LockVersion(p) \/ Recheck(p)
  \/ Commit(p) \/ Reread(p)

WorkerStep(w) ==
  \/ StartDrain(w) \/ Claim(w) \/ NoWork(w) \/ StartJob(w) \/ SaveStep(w)
  \/ LockJob(w) \/ ClaimLost(w) \/ FailLockVersion(w) \/ FailLockJob(w) \/ FailCommit(w)

RequestStep(c) ==
  SaveStep(c) \/ EnqueueLockVersion(c) \/ EnqueueReadJob(c) \/ EnqueueCommit(c)

Next ==
  \/ \E v \in Versions, verdict \in {"clean", "rejected"} : Judge(v, verdict)
  \/ \E u \in Users : Revoke(u) \/ Grant(u)
  \/ \E v \in Versions : Tick(v)
  \/ \E w \in Workers : WorkerStep(w) \/ Crash(w)
  \/ \E c \in Clients, kind \in {"enqueue", "save"}, v \in Versions, u \in Users :
       Admit(c, kind, v, u)
  \/ \E c \in Clients : RequestStep(c) \/ Abort(c)

Spec == Init /\ [][Next]_vars

FairSpec ==
  /\ Spec
  /\ \A w \in Workers : WF_vars(WorkerStep(w))
  /\ \A c \in Clients : WF_vars(RequestStep(c))

-----------------------------------------------------------------------------
(* A row of document_extraction_jobs with its check constraints valid_claim *)
(* and valid_result.                                                        *)
JobRows ==
  {r \in [status : {"absent", "pending", "running", "completed", "failed"},
          attempts : 0 .. MaxAttempts, claim_token : Tokens \cup {None},
          lease : Leases \cup {None}, requested_by : Users \cup {None},
          result_id : Ids \cup {None}] :
     /\ r.status = "running" <=> r.claim_token # None
     /\ r.status = "running" <=> r.lease # None
     /\ r.status = "completed" <=> r.result_id # None
     /\ r.status = "absent" <=> r.requested_by = None}

Labels == {"idle", "poll", "start", "get", "read_back", "extract", "put", "lock_version",
           "reread", "fail_version", "fail_job", "fail_commit", "queue", "read_job",
           "commit_job", "done"} \cup HoldingVersion

Memory == [kind : {"none", "job", "save", "enqueue"}, v : Versions \cup {None},
           user : Users \cup {None}, token : Tokens \cup {None}, id : Ids \cup {None},
           found : BOOLEAN]

Events == [action : {"queued", "saved", "completed", "failed"}, by : Users]

(* Every variable has its type; no commit ever trips valid_claim or        *)
(* valid_result.                                                           *)
TypeOK ==
  /\ content \in [Versions -> {"pending_scan", "clean", "rejected"}]
  /\ art \in [Versions -> Ids \cup {None}]
  /\ store \in SUBSET Ids
  /\ job \in [Versions -> JobRows]
  /\ audit \in [Versions -> Seq(Events)]
  /\ vlock \in [Versions -> Procs \cup {None}]
  /\ jlock \in [Versions -> Procs \cup {None}]
  /\ admins \in SUBSET Users
  /\ pc \in [Procs -> Labels]
  /\ me \in [Procs -> Memory]
  /\ vouched \in SUBSET Procs

(* A saved artifact can be read: its object is in the bucket, although it  *)
(* was written before the locks and other attempts failed meanwhile.       *)
ArtifactStored == \A v \in Versions : art[v] # None => art[v] \in store

(* Text is saved only of content that the scanner cleared. *)
SavedTextWasCleared == \A v \in Versions : art[v] # None => content[v] = "clean"

(* A completed job names the artifact of its version, whoever saved it.    *)
CompletedNamesArtifact ==
  \A v \in Versions : job[v].status = "completed" => job[v].result_id = art[v] /\ art[v] # None

(* A completed job stays completed with its result: not even the worker    *)
(* that completed it, failing right afterwards, takes that back.           *)
CompletionFinal ==
  [][\A v \in Versions : job[v].status = "completed" => job'[v] = job[v]]_vars

Recorded(trail, action) == {i \in DOMAIN trail : trail[i].action = action}

(* The events of a version add up: one saving if and only if there is an   *)
(* artifact, one completion if and only if the job is completed.           *)
EventsAddUp ==
  \A v \in Versions :
    /\ IF art[v] = None THEN Recorded(audit[v], "saved") = {}
       ELSE \E i \in DOMAIN audit[v] : Recorded(audit[v], "saved") = {i}
    /\ IF job[v].status # "completed" THEN Recorded(audit[v], "completed") = {}
       ELSE \E i \in DOMAIN audit[v] : Recorded(audit[v], "completed") = {i}

(* Nothing is saved or completed for a user who lost the role before the   *)
(* version was locked and has not regained it since.                       *)
SavedForAdministrators ==
  [][\A p \in Procs :
       pc[p] = "commit" /\ pc'[p] # "commit" /\ <<art, job>>' # <<art, job>> => p \in vouched]_vars

Lifecycle == INSTANCE ExtractionLifecycle WITH
  saved <- art,
  phase <- [v \in Versions |-> job[v].status],
  result <- [v \in Versions |-> job[v].result_id],
  requester <- [v \in Versions |-> job[v].requested_by]

(* The pipeline implements the life cycle: the artifact, the completion    *)
(* and their events appear together or not at all, and a worker that lost  *)
(* its claim leaves nothing but an object nobody names.                    *)
ImplementsLifecycle == Lifecycle!Spec

(* Every request that waits for the version row is answered. *)
RequestsFinish ==
  \A c \in Clients : (pc[c] \in {"lock_version", "queue"}) ~> (pc[c] \in {"reread", "done"})
=============================================================================
