------------------------------ MODULE Uploads ------------------------------
(***************************************************************************)
(* How the content of a document version arrives (UploadService.upload):   *)
(* the version row in PostgreSQL, the private bucket, and requests that    *)
(* upload to the same versions. The row is locked, and only then is the    *)
(* object written, under a key of its own; the row names it in the commit  *)
(* that follows. Neither the store's answer nor the commit's is certain to *)
(* come back, and a PUT may take effect after its sender gave it up.       *)
(***************************************************************************)
EXTENDS Integers, Sequences, FiniteSets

CONSTANTS
  Versions,      \* document versions, registered and awaiting their content
  Requests,      \* upload requests, each served once
  Users,
  Keys,          \* object keys (they end in a uuid4)
  None,
  PutAttempts    \* total_max_attempts of the S3 client

ASSUME ConstantsAssumption ==
  /\ None \notin Versions \cup Requests \cup Users \cup Keys
  /\ PutAttempts \in Nat \ {0}

VARIABLES
  row,      \* document_versions: content_status and storage_key
  audit,    \* audit_logs of each version, oldest first
  store,    \* object versions the bucket holds under each key
  late,     \* PUTs given up by their sender that may still take effect
  vlock,    \* holder of FOR UPDATE on the version row
  admins,   \* users whose membership is active and holds tenant_admin
  pc, rq,   \* where each request stands, and its parameters and locals
  vouched   \* history: requests whose user was an administrator at some
            \* instant since they locked the row

vars == <<row, audit, store, late, vlock, admins, pc, rq, vouched>>

Terminal == {"clean", "rejected"}
Verdicts == Terminal \cup {"scan_failed"}

NoContent == [status |-> "pending_upload", key |-> None]
NoRequest == [v |-> None, user |-> None, key |-> None, puts |-> 0, reply |-> "none"]

Init ==
  /\ row = [v \in Versions |-> NoContent]
  /\ audit = [v \in Versions |-> <<>>]
  /\ store = [k \in Keys |-> 0]
  /\ late = {}
  /\ vlock = [v \in Versions |-> None]
  /\ admins \in SUBSET Users
  /\ pc = [r \in Requests |-> "idle"]
  /\ rq = [r \in Requests |-> NoRequest]
  /\ vouched = {}

Goto(r, label) == pc' = [pc EXCEPT ![r] = label]

Release(r) == vlock' = [v \in Versions |-> IF vlock[v] = r THEN None ELSE vlock[v]]

Recorded(v, action, user) ==
  [audit EXCEPT ![v] = Append(@, [action |-> action, by |-> user])]

Reply(r, answer) == rq' = [rq EXCEPT ![r].reply = answer]

-----------------------------------------------------------------------------
(* The environment: roles, and the scans that follow an upload.            *)

HoldingLock == {"recheck", "put", "commit"}

Revoke(u) ==
  /\ u \in admins
  /\ admins' = admins \ {u}
  /\ UNCHANGED <<row, audit, store, late, vlock, pc, rq, vouched>>

Grant(u) ==
  /\ u \in Users \ admins
  /\ admins' = admins \cup {u}
  /\ vouched' = vouched \cup {r \in Requests : pc[r] \in HoldingLock /\ rq[r].user = u}
  /\ UNCHANGED <<row, audit, store, late, vlock, pc, rq>>

(* A scan publishes its verdict under the lock of the version row. Bound:  *)
(* a failed scan that fails again is left out.                             *)
Judge(v, verdict, u) ==
  /\ vlock[v] = None
  /\ row[v].status \in {"pending_scan", "scan_failed"}
  /\ row[v].status # verdict
  /\ row' = [row EXCEPT ![v].status = verdict]
  /\ audit' = Recorded(v, verdict, u)
  /\ UNCHANGED <<store, late, vlock, admins, pc, rq, vouched>>

-----------------------------------------------------------------------------
(* One request.                                                            *)

(* Admitted by get_writer; the version is read without a lock for its      *)
(* registered size, checksum and type, which never change.                 *)
Admit(r, v, u) ==
  /\ pc[r] = "idle"
  /\ u \in admins
  /\ rq' = [rq EXCEPT ![r] = [NoRequest EXCEPT !.v = v, !.user = u]]
  /\ Goto(r, "receive")
  /\ UNCHANGED <<row, audit, store, late, vlock, admins, vouched>>

(* The body arrives, with no transaction open, and is what was registered. *)
Receive(r) ==
  /\ pc[r] = "receive"
  /\ Goto(r, "lock")
  /\ UNCHANGED <<row, audit, store, late, vlock, admins, rq, vouched>>

LockVersion(r) ==
  /\ pc[r] = "lock"
  /\ vlock[rq[r].v] = None
  /\ vlock' = [vlock EXCEPT ![rq[r].v] = r]
  /\ vouched' = IF rq[r].user \in admins THEN vouched \cup {r} ELSE vouched \ {r}
  /\ Goto(r, "recheck")
  /\ UNCHANGED <<row, audit, store, late, admins, rq>>

(* Faulty: the role that admitted the request is trusted. *)
MayStillWriteTrusted(r) == TRUE

MayStillWrite(r) == rq[r].user \in admins

(* Faulty: whoever holds the lock writes. *)
AlreadyStoredUnchecked(r) == FALSE

AlreadyStored(r) == row[rq[r].v].status # "pending_upload"

FreshKeys == {k \in Keys : store[k] = 0 /\ k \notin late /\ \A r \in Requests : rq[r].key # k}

(* Membership is read again under the lock, then the row: content that is  *)
(* there already is answered as it is.                                     *)
Recheck(r) ==
  /\ pc[r] = "recheck"
  /\ IF ~MayStillWrite(r)
     THEN Reply(r, "error") /\ Release(r) /\ Goto(r, "done")
     ELSE IF AlreadyStored(r)
     THEN Reply(r, "ok") /\ Release(r) /\ Goto(r, "done")
     ELSE /\ \E k \in FreshKeys : rq' = [rq EXCEPT ![r].key = k]
          /\ Goto(r, "put")
          /\ UNCHANGED vlock
  /\ UNCHANGED <<row, audit, store, late, admins, vouched>>

(* Faulty: PutObject without If-None-Match. *)
WrittenUnconditionally(k) == [store EXCEPT ![k] = @ + 1]

(* PutObject with If-None-Match "*": an existing object is not replaced.   *)
Written(k) == [store EXCEPT ![k] = IF @ = 0 THEN 1 ELSE @]

(* The object is written and the answer arrives. *)
PutAnswered(r) ==
  /\ pc[r] = "put"
  /\ rq[r].puts < PutAttempts
  /\ store[rq[r].key] = 0
  /\ store' = Written(rq[r].key)
  /\ rq' = [rq EXCEPT ![r].puts = @ + 1]
  /\ Goto(r, "commit")
  /\ UNCHANGED <<row, audit, late, vlock, admins, vouched>>

(* No answer: the PUT was lost, or it took effect, or it still may.        *)
PutUnanswered(r) ==
  /\ pc[r] = "put"
  /\ rq[r].puts < PutAttempts
  /\ rq' = [rq EXCEPT ![r].puts = @ + 1]
  /\ \/ UNCHANGED <<store, late>>
     \/ store' = Written(rq[r].key) /\ UNCHANGED late
     \/ late' = late \cup {rq[r].key} /\ UNCHANGED store
  /\ UNCHANGED <<row, audit, vlock, admins, pc, vouched>>

LateWrite(k) ==
  /\ k \in late
  /\ late' = late \ {k}
  /\ store' = Written(k)
  /\ UNCHANGED <<row, audit, vlock, admins, pc, rq, vouched>>

(* Faulty: the failed attempt's object is removed. *)
Discarding(r) == [store EXCEPT ![rq[r].key] = 0]

(* What a failed request does to the bucket: nothing is ever deleted.      *)
Discarded(r) == store

(* Faulty: the status stays what it was. *)
StoredRowKeepingStatus(r) == [row[rq[r].v] EXCEPT !.key = rq[r].key]

StoredRow(r) == [status |-> "pending_scan", key |-> rq[r].key]

(* The row names the object: one commit with its audit event. The answer   *)
(* to the commit may be lost, and then the request has failed.             *)
Commit(r) ==
  LET v == rq[r].v
  IN  /\ pc[r] = "commit"
      /\ row' = [row EXCEPT ![v] = StoredRow(r)]
      /\ audit' = Recorded(v, "uploaded", rq[r].user)
      /\ Release(r)
      /\ Goto(r, "done")
      /\ \/ Reply(r, "ok") /\ UNCHANGED store
         \/ Reply(r, "error") /\ store' = Discarded(r)
      /\ UNCHANGED <<late, admins, vouched>>

(* Faulty: the lock outlives the failure. *)
FailKeepingLock(r) ==
  /\ pc[r] \notin {"idle", "done"}
  /\ Reply(r, "error")
  /\ Goto(r, "done")
  /\ UNCHANGED <<row, audit, store, late, vlock, admins, vouched>>

(* A wrong or slow body, a client that goes away, a store that refuses or  *)
(* does not answer, a process that dies: rollback, and no reply but an     *)
(* error. With the last PUT unanswered nothing else is left to do.         *)
Fail(r) ==
  /\ pc[r] \notin {"idle", "done"}
  /\ store' = IF rq[r].key = None THEN store ELSE Discarded(r)
  /\ Reply(r, "error")
  /\ Release(r)
  /\ Goto(r, "done")
  /\ UNCHANGED <<row, audit, late, admins, vouched>>

Step(r) ==
  \/ Receive(r) \/ LockVersion(r) \/ Recheck(r)
  \/ PutAnswered(r) \/ PutUnanswered(r) \/ Commit(r)

(* The step a request takes when nothing else is possible for it: a full   *)
(* count of unanswered PUTs, or an object that exists (412).               *)
Unanswerable(r) ==
  /\ pc[r] = "put"
  /\ rq[r].puts = PutAttempts \/ store[rq[r].key] # 0
  /\ Fail(r)

Next ==
  \/ \E r \in Requests, v \in Versions, u \in Users : Admit(r, v, u)
  \/ \E r \in Requests : Step(r) \/ Fail(r)
  \/ \E k \in Keys : LateWrite(k)
  \/ \E u \in Users : Revoke(u) \/ Grant(u)
  \/ \E v \in Versions, verdict \in Verdicts, u \in Users : Judge(v, verdict, u)

Spec == Init /\ [][Next]_vars

(* Scheduling: a request that can go on, or has nothing left but to fail,  *)
(* eventually does.                                                        *)
FairSpec == Spec /\ \A r \in Requests : WF_vars(Step(r) \/ Unanswerable(r))

-----------------------------------------------------------------------------
Events == [action : {"uploaded"} \cup Verdicts, by : Users]

Rows == [status : {"pending_upload", "pending_scan"} \cup Verdicts, key : Keys \cup {None}]

Memory == [v : Versions \cup {None}, user : Users \cup {None}, key : Keys \cup {None},
           puts : 0 .. PutAttempts, reply : {"none", "ok", "error"}]

(* Every variable has its type; for the rows this includes the check       *)
(* constraint complete_storage_reference of db/models.py.                  *)
TypeOK ==
  /\ row \in [Versions -> Rows]
  /\ \A v \in Versions : row[v].status = "pending_upload" <=> row[v].key = None
  /\ audit \in [Versions -> Seq(Events)]
  /\ store \in [Keys -> Nat]
  /\ late \in SUBSET Keys
  /\ vlock \in [Versions -> Requests \cup {None}]
  /\ admins \in SUBSET Users
  /\ pc \in [Requests -> {"idle", "receive", "lock", "done"} \cup HoldingLock]
  /\ rq \in [Requests -> Memory]
  /\ vouched \in SUBSET Requests

(* A row names an object that is there: no cleanup takes it away, not even *)
(* that of the request that stored it and never learned of its commit.     *)
NamesStoredObject ==
  \A v \in Versions : row[v].key # None => store[row[v].key] > 0

(* What was written under the key a row names is never written again: not  *)
(* by the retry of a PUT, and not by a PUT that takes effect late.         *)
WrittenOnce ==
  \A v \in Versions : row[v].key # None => store[row[v].key] < 2

(* The content of a version is fixed by the first upload: whoever races    *)
(* it, retries it or comes late neither replaces it nor sends the version  *)
(* back to the start of its scan.                                          *)
ContentFixed ==
  [][\A v \in Versions :
       row[v].key # None => /\ row'[v].key = row[v].key
                            /\ row'[v].status # row[v].status => row'[v].status \in Verdicts]_vars

(* A request that was answered with success left content behind, and an    *)
(* object that no row names belongs to a request that was not.             *)
OrphansWereRefused ==
  \A r \in Requests :
    rq[r].reply = "ok" =>
      /\ row[rq[r].v].key # None
      /\ rq[r].key # None => rq[r].key = row[rq[r].v].key

(* No content is stored for a user who lost the role before the row was    *)
(* locked and has not regained it since.                                   *)
StoredForAdministrators ==
  [][\A r \in Requests :
       pc[r] = "commit" /\ pc'[r] = "done" /\ row' # row => r \in vouched]_vars

Lifecycle == INSTANCE RevisionLifecycle WITH
  content <- [v \in Versions |-> row[v].status],
  phase <- [v \in Versions |-> "absent"],
  requester <- [v \in Versions |-> None]

(* The upload is one atomic step of the life cycle, as the scan queue      *)
(* takes it to be: status and audit event together, once per version.      *)
UploadIsAtomic == Lifecycle!Spec

(* Every request that has its body is answered: the lock that is held      *)
(* across the PUT is always given back.                                    *)
UploadsFinish == \A r \in Requests : (pc[r] = "lock") ~> (pc[r] = "done")
=============================================================================
