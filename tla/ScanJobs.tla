------------------------------ MODULE ScanJobs ------------------------------
(***************************************************************************)
(* The scan queue of suitsflow: the document versions, the scan job rows,  *)
(* the row locks PostgreSQL grants on both, the worker processes that      *)
(* drain the queue (worker.drain calling ScanJobs.run_one), and the HTTP   *)
(* requests that queue a scan (ScanJobs.enqueue) or run one synchronously  *)
(* (ScanService.scan).                                                     *)
(*                                                                         *)
(* One action is one statement that other processes can observe or be      *)
(* blocked by: a locked read, an unlocked read, a commit or a rollback.    *)
(* Rows are written in a transaction and become visible at its commit, so  *)
(* the writes of a transaction are part of its commit action; what it has  *)
(* locked until then is in vlock and jlock.                                *)
(***************************************************************************)
EXTENDS Integers, Sequences

CONSTANTS
  Versions,      \* document versions, in the order their jobs are picked
  Workers,       \* worker processes, each one run of worker.drain at a time
  Clients,       \* HTTP requests, each served once
  Users,         \* members of the tenant
  Tokens,        \* claim tokens (uuid4)
  None,          \* SQL NULL, and "nobody" for a lock
  Lease,         \* lease granted by a claim, in clock ticks (15 minutes)
  Skew,          \* how far a worker's clock may be off, in ticks
  MaxAttempts,   \* bound: a job is claimed at most this often
  MaxJobs        \* --max-jobs of a drain

Procs == Workers \cup Clients

ASSUME ConstantsAssumption ==
  /\ Versions \subseteq Nat
  /\ Workers \cap Clients = {}
  /\ None \notin Procs \cup Int \cup Users \cup Tokens
  /\ Lease \in Nat \ {0}
  /\ Skew \in Nat
  /\ MaxAttempts \in Nat
  /\ MaxJobs \in Nat \ {0}

Terminal == {"clean", "rejected"}
Verdicts == Terminal \cup {"scan_failed"}
ContentStatus == {"pending_upload", "pending_scan"} \cup Verdicts
JobStatus == {"absent", "pending", "running", "completed", "failed"}
Answers == Terminal \cup {"unavailable"}
AuditActions == {"uploaded", "queued"} \cup Verdicts

(* The clock readings of different workers differ by at most 2 * Skew. *)
Offsets == (0 - Skew) .. Skew

(* A lease is kept as the time that remains of it; below the floor it has  *)
(* expired on every clock.                                                 *)
LeaseFloor == 0 - Skew - 1

VARIABLES
  content,   \* document_versions.content_status
  audit,     \* audit_logs of each version, oldest first
  job,       \* document_scan_jobs, one row at most per version
  vlock,     \* holder of FOR UPDATE on the version row
  jlock,     \* holder of FOR UPDATE on the job row
  admins,    \* users whose membership is active and holds tenant_admin
  pc,        \* where each worker and each request stands
  wk,        \* local variables of run_one, and the drain's loop counter
  rq,        \* parameters and local variables of a request
  answers,   \* history: what the scanner has ever answered on a version
  vouched    \* history: workers whose requester was an administrator at
             \* some instant since they took the job lock

vars == <<content, audit, job, vlock, jlock, admins, pc, wk, rq, answers, vouched>>

NoJob == [status |-> "absent", attempts |-> 0, claim_token |-> None,
          lease_until |-> None, requested_by |-> None]

Forgotten == [v |-> None, token |-> None, actor |-> None, permitted |-> FALSE,
              verdict |-> "scan_failed", left |-> 0]

NoRequest == [kind |-> "none", v |-> None, user |-> None, verdict |-> "scan_failed"]

Init ==
  /\ content = [v \in Versions |-> "pending_upload"]
  /\ audit = [v \in Versions |-> <<>>]
  /\ job = [v \in Versions |-> NoJob]
  /\ vlock = [v \in Versions |-> None]
  /\ jlock = [v \in Versions |-> None]
  /\ admins \in SUBSET Users
  /\ pc = [p \in Procs |-> "idle"]
  /\ wk = [w \in Workers |-> Forgotten]
  /\ rq = [c \in Clients |-> NoRequest]
  /\ answers = [v \in Versions |-> {}]
  /\ vouched = {}

Goto(p, label) == pc' = [pc EXCEPT ![p] = label]

(* A commit or a rollback gives back every row lock of the process. *)
Released(locks, p) == [v \in Versions |-> IF locks[v] = p THEN None ELSE locks[v]]

ReleaseLocks(p) ==
  /\ vlock' = Released(vlock, p)
  /\ jlock' = Released(jlock, p)

Recorded(v, action, user) ==
  [audit EXCEPT ![v] = Append(@, [action |-> action, by |-> user])]

-----------------------------------------------------------------------------
(* The environment: uploads, membership changes and time. *)

(* The transaction that stores the content of a version. Its steps are in  *)
(* the uploads module; here it is the lock, the check and the commit.      *)
Upload(v, u) ==
  /\ vlock[v] = None
  /\ u \in admins
  /\ content[v] = "pending_upload"
  /\ content' = [content EXCEPT ![v] = "pending_scan"]
  /\ audit' = Recorded(v, "uploaded", u)
  /\ UNCHANGED <<job, vlock, jlock, admins, pc, wk, rq, answers, vouched>>

Revoke(u) ==
  /\ u \in admins
  /\ admins' = admins \ {u}
  /\ UNCHANGED <<content, audit, job, vlock, jlock, pc, wk, rq, answers, vouched>>

AwaitingCommit == {"recheck", "publish"}

Grant(u) ==
  /\ u \in Users \ admins
  /\ admins' = admins \cup {u}
  /\ vouched' = vouched \cup {w \in Workers : pc[w] \in AwaitingCommit /\ wk[w].actor = u}
  /\ UNCHANGED <<content, audit, job, vlock, jlock, pc, wk, rq, answers>>

Running(v) == job[v].status = "running"

Ticking(v) == Running(v) /\ job[v].lease_until > LeaseFloor

Tick ==
  /\ \E v \in Versions : Ticking(v)
  /\ job' = [v \in Versions |->
               IF Ticking(v) THEN [job[v] EXCEPT !.lease_until = @ - 1] ELSE job[v]]
  /\ UNCHANGED <<content, audit, vlock, jlock, admins, pc, wk, rq, answers, vouched>>

-----------------------------------------------------------------------------
(* A worker. *)

StartDrain(w) ==
  /\ pc[w] = "idle"
  /\ wk' = [wk EXCEPT ![w].left = MaxJobs]
  /\ Goto(w, "poll")
  /\ UNCHANGED <<content, audit, job, vlock, jlock, admins, rq, answers, vouched>>

(* Lease comparisons, read on a clock that is off by off. *)
Expired(v, off) == Running(v) /\ job[v].lease_until < off
LeaseHeld(v, off) == job[v].lease_until # None /\ job[v].lease_until > off

(* Faulty: without FOR UPDATE SKIP LOCKED. *)
ClaimableIgnoringLocks(off) ==
  {v \in Versions : /\ job[v].status = "pending" \/ Expired(v, off)
                    /\ job[v].attempts < MaxAttempts}

(* Faulty: the job of a dead worker is never taken up again. *)
ClaimablePendingOnly(off) ==
  {v \in Versions : /\ job[v].status = "pending"
                    /\ jlock[v] = None
                    /\ job[v].attempts < MaxAttempts}

(* The rows the claim query can return: FOR UPDATE SKIP LOCKED passes over *)
(* a row another transaction has locked.                                   *)
Claimable(off) ==
  {v \in Versions : /\ job[v].status = "pending" \/ Expired(v, off)
                    /\ jlock[v] = None
                    /\ job[v].attempts < MaxAttempts}

(* uuid4: a token no row and no worker holds. *)
FreshTokens ==
  {t \in Tokens : /\ \A v \in Versions : job[v].claim_token # t
                  /\ \A w \in Workers : wk[w].token # t}

(* Faulty: a reclaim keeps the token of the claim it supersedes. *)
ClaimedJobSameToken(v, off, token) ==
  [job[v] EXCEPT !.status = "running",
                 !.claim_token = IF @ = None THEN token ELSE @,
                 !.lease_until = Lease + off,
                 !.attempts = @ + 1]

ClaimedJob(v, off, token) ==
  [job[v] EXCEPT !.status = "running",
                 !.claim_token = token,
                 !.lease_until = Lease + off,
                 !.attempts = @ + 1]

(* One short transaction: pick the oldest claimable row, stamp it, commit. *)
Claim(w) ==
  /\ pc[w] = "poll"
  /\ FreshTokens # {}
  /\ \E off \in Offsets : \E v \in Claimable(off) :
       /\ \A u \in Claimable(off) : v <= u
       /\ LET claimed == ClaimedJob(v, off, CHOOSE t \in FreshTokens : TRUE)
          IN  /\ job' = [job EXCEPT ![v] = claimed]
              /\ wk' = [wk EXCEPT ![w] = [Forgotten EXCEPT
                                            !.v = v,
                                            !.token = claimed.claim_token,
                                            !.actor = claimed.requested_by,
                                            !.left = wk[w].left - 1]]
  /\ Goto(w, "read_principal")
  /\ UNCHANGED <<content, audit, vlock, jlock, admins, rq, answers, vouched>>

(* The claim query returns nothing: run_one answers False and drain ends. *)
NoWork(w) ==
  /\ pc[w] = "poll"
  /\ \E off \in Offsets : Claimable(off) = {}
  /\ wk' = [wk EXCEPT ![w] = Forgotten]
  /\ Goto(w, "idle")
  /\ UNCHANGED <<content, audit, job, vlock, jlock, admins, rq, answers, vouched>>

ReadPrincipal(w) ==
  /\ pc[w] = "read_principal"
  /\ wk' = [wk EXCEPT ![w].permitted = wk[w].actor \in admins]
  /\ Goto(w, "read_version")
  /\ UNCHANGED <<content, audit, job, vlock, jlock, admins, rq, answers, vouched>>

(* The content is downloaded and scanned only for an administrator's job  *)
(* and only while no final verdict is recorded.                           *)
ReadVersion(w) ==
  /\ pc[w] = "read_version"
  /\ Goto(w, IF wk[w].permitted /\ content[wk[w].v] \notin Terminal
             THEN "inspect" ELSE "lock_version")
  /\ UNCHANGED <<content, audit, job, vlock, jlock, admins, wk, rq, answers, vouched>>

(* Faulty: the scanner fails open. *)
VerdictOfFailingOpen(answer) == IF answer = "rejected" THEN "rejected" ELSE "clean"

(* Only an explicit clean or rejected counts: an unreachable store or      *)
(* scanner, or any other answer, is a failed scan.                         *)
VerdictOf(answer) == IF answer \in Terminal THEN answer ELSE "scan_failed"

(* Download and scan, with no row locked. *)
Inspect(w) ==
  /\ pc[w] = "inspect"
  /\ \E answer \in Answers :
       /\ wk' = [wk EXCEPT ![w].verdict = VerdictOf(answer)]
       /\ answers' = [answers EXCEPT ![wk[w].v] = @ \cup {answer}]
  /\ Goto(w, "lock_version")
  /\ UNCHANGED <<content, audit, job, vlock, jlock, admins, rq, vouched>>

LockVersion(w) ==
  /\ pc[w] = "lock_version"
  /\ vlock[wk[w].v] = None
  /\ vlock' = [vlock EXCEPT ![wk[w].v] = w]
  /\ Goto(w, "lock_job")
  /\ UNCHANGED <<content, audit, job, jlock, admins, wk, rq, answers, vouched>>

(* run_one has returned True: the next round of the drain loop, if any. *)
NextRound(w) ==
  /\ wk' = [wk EXCEPT ![w] = [Forgotten EXCEPT !.left = wk[w].left]]
  /\ Goto(w, IF wk[w].left = 0 THEN "idle" ELSE "poll")

(* Faulty: the lease is compared and the token is not. *)
StaleByLease(w, off) == ~LeaseHeld(wk[w].v, off)

(* The fence: the claim is no longer this worker's, or its lease is over. *)
Stale(w, off) ==
  \/ job[wk[w].v].claim_token # wk[w].token
  \/ ~LeaseHeld(wk[w].v, off)

(* Faulty: a lost claim leaves the transaction open. *)
FencedKeepingLocks(w) ==
  /\ pc[w] = "lock_job"
  /\ jlock[wk[w].v] = None
  /\ \E off \in Offsets : Stale(w, off)
  /\ NextRound(w)
  /\ UNCHANGED <<content, audit, job, vlock, jlock, admins, rq, answers, vouched>>

(* Lock the job row, find the claim lost, roll back. *)
Fenced(w) ==
  /\ pc[w] = "lock_job"
  /\ jlock[wk[w].v] = None
  /\ \E off \in Offsets : Stale(w, off)
  /\ ReleaseLocks(w)
  /\ NextRound(w)
  /\ UNCHANGED <<content, audit, job, admins, rq, answers, vouched>>

(* Lock the job row and find the claim still held. *)
Confirm(w) ==
  /\ pc[w] = "lock_job"
  /\ jlock[wk[w].v] = None
  /\ \E off \in Offsets : ~Stale(w, off)
  /\ jlock' = [jlock EXCEPT ![wk[w].v] = w]
  /\ vouched' = IF wk[w].actor \in admins THEN vouched \cup {w} ELSE vouched \ {w}
  /\ Goto(w, "recheck")
  /\ UNCHANGED <<content, audit, job, vlock, admins, wk, rq, answers>>

(* Faulty: the answer from before the scan is trusted. *)
RecheckSkipped(w) ==
  /\ pc[w] = "recheck"
  /\ Goto(w, "publish")
  /\ UNCHANGED <<content, audit, job, vlock, jlock, admins, wk, rq, answers, vouched>>

(* The requester's membership is read again under the locks. *)
Recheck(w) ==
  /\ pc[w] = "recheck"
  /\ wk' = [wk EXCEPT ![w].permitted = @ /\ wk[w].actor \in admins]
  /\ Goto(w, "publish")
  /\ UNCHANGED <<content, audit, job, vlock, jlock, admins, rq, answers, vouched>>

(* Faulty: the status read before the scan is trusted. *)
DecidesAnyStatus(w) == wk[w].permitted

(* Whether this commit writes the verdict on the version. *)
Decides(w) == wk[w].permitted /\ content[wk[w].v] \notin Terminal

PublishedContent(w) == IF Decides(w) THEN wk[w].verdict ELSE content[wk[w].v]

(* Faulty: a scan that was allowed counts as completed. *)
OutcomeWithoutContent(w) == IF wk[w].permitted THEN "completed" ELSE "failed"

Outcome(w) ==
  IF wk[w].permitted /\ PublishedContent(w) \in Terminal THEN "completed" ELSE "failed"

(* Faulty: the claim is not cleared. *)
SettledJobKeepingClaim(w) == [job[wk[w].v] EXCEPT !.status = Outcome(w)]

SettledJob(w) ==
  [job[wk[w].v] EXCEPT !.status = Outcome(w), !.claim_token = None, !.lease_until = None]

(* One commit: the verdict with its audit event, and the job's outcome. *)
Publish(w) ==
  LET v == wk[w].v
  IN  /\ pc[w] = "publish"
      /\ content' = [content EXCEPT ![v] = PublishedContent(w)]
      /\ audit' = IF Decides(w) THEN Recorded(v, wk[w].verdict, wk[w].actor) ELSE audit
      /\ job' = [job EXCEPT ![v] = SettledJob(w)]
      /\ ReleaseLocks(w)
      /\ NextRound(w)
      /\ UNCHANGED <<admins, rq, answers, vouched>>

(* The process dies, or an exception leaves run_one: the transaction is    *)
(* rolled back and the drain is over; a claim that was committed stays.    *)
Crash(w) ==
  /\ pc[w] # "idle"
  /\ ReleaseLocks(w)
  /\ wk' = [wk EXCEPT ![w] = Forgotten]
  /\ Goto(w, "idle")
  /\ UNCHANGED <<content, audit, job, admins, rq, answers, vouched>>

-----------------------------------------------------------------------------
(* A request: queue a scan, or scan while the client waits. *)

(* get_principal has admitted the request and its role suffices. *)
Admit(c, kind, v, u) ==
  /\ pc[c] = "idle"
  /\ u \in admins
  /\ rq' = [rq EXCEPT ![c] = [kind |-> kind, v |-> v, user |-> u, verdict |-> "scan_failed"]]
  /\ Goto(c, "lock_version")
  /\ UNCHANGED <<content, audit, job, vlock, jlock, admins, wk, answers, vouched>>

Requested(c, kind) == pc[c] = "lock_version" /\ rq[c].kind = kind /\ vlock[rq[c].v] = None

(* The response is sent; whatever was locked is released. *)
Finish(c) == ReleaseLocks(c) /\ Goto(c, "done")

EnqueueLockVersion(c) ==
  LET v == rq[c].v
  IN  /\ Requested(c, "enqueue")
      /\ IF content[v] = "pending_upload"
         THEN Finish(c)                     \* ContentNotUploaded
         ELSE /\ vlock' = [vlock EXCEPT ![v] = c]
              /\ Goto(c, "read_job")
              /\ UNCHANGED jlock
      /\ UNCHANGED <<content, audit, job, admins, wk, rq, answers, vouched>>

(* A job that exists and has not failed is answered as it is. *)
Queueable(v) == job[v].status \in {"absent", "failed"}

EnqueueReadJob(c) ==
  LET v == rq[c].v
  IN  /\ pc[c] = "read_job"
      /\ jlock[v] = None
      /\ IF Queueable(v)
         THEN /\ jlock' = [jlock EXCEPT ![v] = IF job[v].status = "absent" THEN None ELSE c]
              /\ Goto(c, "commit_job")
              /\ UNCHANGED vlock
         ELSE Finish(c)
      /\ UNCHANGED <<content, audit, job, admins, wk, rq, answers, vouched>>

(* Faulty: a retry stays in the name of the first requester. *)
PendingJobOfFirstRequester(v, u) ==
  IF job[v].status = "absent"
  THEN [NoJob EXCEPT !.status = "pending", !.requested_by = u]
  ELSE [job[v] EXCEPT !.status = "pending"]

PendingJob(v, u) ==
  IF job[v].status = "absent"
  THEN [NoJob EXCEPT !.status = "pending", !.requested_by = u]
  ELSE [job[v] EXCEPT !.status = "pending", !.requested_by = u]

EnqueueCommit(c) ==
  LET v == rq[c].v
      u == rq[c].user
  IN  /\ pc[c] = "commit_job"
      /\ job' = [job EXCEPT ![v] = PendingJob(v, u)]
      /\ audit' = Recorded(v, "queued", u)
      /\ Finish(c)
      /\ UNCHANGED <<content, admins, wk, rq, answers, vouched>>

(* ScanService.scan: 409 before an upload, the row as it is once final.    *)
ScanLockVersion(c) ==
  LET v == rq[c].v
  IN  /\ Requested(c, "scan")
      /\ IF content[v] \in Terminal \cup {"pending_upload"}
         THEN Finish(c)
         ELSE /\ vlock' = [vlock EXCEPT ![v] = c]
              /\ Goto(c, "scan")
              /\ UNCHANGED jlock
      /\ UNCHANGED <<content, audit, job, admins, wk, rq, answers, vouched>>

(* Here the version row stays locked through download and scan. *)
ScanInspect(c) ==
  /\ pc[c] = "scan"
  /\ \E answer \in Answers :
       /\ rq' = [rq EXCEPT ![c].verdict = VerdictOf(answer)]
       /\ answers' = [answers EXCEPT ![rq[c].v] = @ \cup {answer}]
  /\ Goto(c, "commit_scan")
  /\ UNCHANGED <<content, audit, job, vlock, jlock, admins, wk, vouched>>

ScanCommit(c) ==
  LET v == rq[c].v
  IN  /\ pc[c] = "commit_scan"
      /\ content' = [content EXCEPT ![v] = rq[c].verdict]
      /\ audit' = Recorded(v, rq[c].verdict, rq[c].user)
      /\ Finish(c)
      /\ UNCHANGED <<job, admins, wk, rq, answers, vouched>>

(* An exception or a cancelled request: except BaseException, rollback. *)
Abort(c) ==
  /\ pc[c] \notin {"idle", "done"}
  /\ Finish(c)
  /\ UNCHANGED <<content, audit, job, admins, wk, rq, answers, vouched>>

-----------------------------------------------------------------------------
WorkerStep(w) ==
  \/ StartDrain(w) \/ Claim(w) \/ NoWork(w) \/ ReadPrincipal(w) \/ ReadVersion(w)
  \/ Inspect(w) \/ LockVersion(w) \/ Fenced(w) \/ Confirm(w) \/ Recheck(w) \/ Publish(w)

RequestStep(c) ==
  \/ EnqueueLockVersion(c) \/ EnqueueReadJob(c) \/ EnqueueCommit(c)
  \/ ScanLockVersion(c) \/ ScanInspect(c) \/ ScanCommit(c)

Next ==
  \/ \E v \in Versions, u \in Users : Upload(v, u)
  \/ \E u \in Users : Revoke(u) \/ Grant(u)
  \/ Tick
  \/ \E w \in Workers : WorkerStep(w) \/ Crash(w)
  \/ \E c \in Clients, kind \in {"enqueue", "scan"}, v \in Versions, u \in Users :
       Admit(c, kind, v, u)
  \/ \E c \in Clients : RequestStep(c) \/ Abort(c)

Spec == Init /\ [][Next]_vars

-----------------------------------------------------------------------------
WorkerLabels == {"idle", "poll", "read_principal", "read_version", "inspect",
                 "lock_version", "lock_job", "recheck", "publish"}
RequestLabels == {"idle", "lock_version", "read_job", "commit_job", "scan",
                  "commit_scan", "done"}

Leases == LeaseFloor .. (Lease + Skew)

(* A row of document_scan_jobs with its check constraint valid_claim: a job *)
(* has a token and a lease exactly while it runs.                           *)
JobRows ==
  {r \in [status : JobStatus, attempts : Nat, claim_token : Tokens \cup {None},
          lease_until : Leases \cup {None}, requested_by : Users \cup {None}] :
     /\ r.status = "running" <=> r.claim_token # None
     /\ r.status = "running" <=> r.lease_until # None
     /\ r.status = "absent" <=> r.requested_by = None}

WorkerMemory == [v : Versions \cup {None}, token : Tokens \cup {None},
                 actor : Users \cup {None}, permitted : BOOLEAN,
                 verdict : Verdicts, left : Nat]

Requests == [kind : {"none", "enqueue", "scan"}, v : Versions \cup {None},
             user : Users \cup {None}, verdict : Verdicts]

Events == [action : AuditActions, by : Users]

(* Every variable has its type; for the job rows this includes the check   *)
(* constraint valid_claim of db/models.py, which no commit ever trips.     *)
TypeOK ==
  /\ content \in [Versions -> ContentStatus]
  /\ audit \in [Versions -> Seq(Events)]
  /\ job \in [Versions -> JobRows]
  /\ vlock \in [Versions -> Procs \cup {None}]
  /\ jlock \in [Versions -> Procs \cup {None}]
  /\ admins \in SUBSET Users
  /\ pc \in [Procs -> WorkerLabels \cup RequestLabels]
  /\ wk \in [Workers -> WorkerMemory]
  /\ rq \in [Clients -> Requests]
  /\ answers \in [Versions -> SUBSET Answers]
  /\ vouched \in SUBSET Workers
  /\ \A w \in Workers : pc[w] \in WorkerLabels
  /\ \A c \in Clients : pc[c] \in RequestLabels

Claiming(w) == pc[w] \notin {"idle", "poll"}

(* The job row says that w holds its claim. *)
Owner(w) == Claiming(w) /\ Running(wk[w].v) /\ job[wk[w].v].claim_token = wk[w].token

(* Two workers never both hold the claim of one job, however many leases   *)
(* have expired and however late a worker comes back.                      *)
SingleOwner ==
  \A a, b \in Workers : Owner(a) /\ Owner(b) /\ wk[a].v = wk[b].v => a = b

(* From the fence check to the commit the claim stays this worker's, even  *)
(* when its lease expires in between: nobody can reclaim a locked row.     *)
PublisherOwns == \A w \in Workers : pc[w] \in AwaitingCommit => Owner(w)

(* A clean or rejected verdict is never replaced, whoever else is scanning *)
(* the same version at the same time.                                      *)
VerdictFinal ==
  [][\A v \in Versions : content[v] \in Terminal => content'[v] = content[v]]_vars

(* A version is clean (or rejected) only if the scanner said so of it:     *)
(* outages, refusals and crashes never make a file downloadable.           *)
VerdictWasAnswered ==
  \A v \in Versions : content[v] \in Terminal => content[v] \in answers[v]

StatusAfter(action) == IF action = "uploaded" THEN "pending_scan" ELSE action

(* The audit trail tells the whole story of a version: its last event that *)
(* is not a queueing is the version's status, without any such event the   *)
(* version awaits its upload, and a final verdict is recorded once.        *)
AuditTrail ==
  \A v \in Versions :
    /\ (\A i \in DOMAIN audit[v] : audit[v][i].action = "queued")
         => content[v] = "pending_upload"
    /\ \A i \in DOMAIN audit[v] :
         /\ audit[v][i].action # "queued"
         /\ \A j \in DOMAIN audit[v] : j > i => audit[v][j].action = "queued"
         => content[v] = StatusAfter(audit[v][i].action)
    /\ \A i, j \in DOMAIN audit[v] :
         audit[v][i].action \in Terminal /\ audit[v][j].action \in Verdicts => j <= i

(* A completed job means a final verdict, so an extraction or a download   *)
(* that waits for the job never meets an unscanned version.                *)
CompletedMeansVerdict ==
  \A v \in Versions : job[v].status = "completed" => content[v] \in Terminal

(* The job runs in the name of whoever queued it last, and a worker that   *)
(* holds the claim acts in that name.                                      *)
RequesterAudited ==
  \A v \in Versions :
    /\ job[v].status = "absent" => \A i \in DOMAIN audit[v] : audit[v][i].action # "queued"
    /\ \A i \in DOMAIN audit[v] :
         /\ audit[v][i].action = "queued"
         /\ \A j \in DOMAIN audit[v] : j > i => audit[v][j].action # "queued"
         => job[v].requested_by = audit[v][i].by
    /\ \A w \in Workers : Owner(w) /\ wk[w].v = v => wk[w].actor = job[v].requested_by

(* No worker publishes a verdict for a requester who lost the role before  *)
(* the worker took its locks and has not regained it since.                *)
PublishesForAdministrators ==
  [][\A w \in Workers :
       pc[w] = "publish" /\ wk[w].permitted /\ pc'[w] # "publish"
                         /\ audit' # audit => w \in vouched]_vars

-----------------------------------------------------------------------------
(* What the queue promises, whoever works on it and whatever goes wrong.   *)
Lifecycle == INSTANCE RevisionLifecycle WITH
  phase <- [v \in Versions |-> job[v].status],
  requester <- [v \in Versions |-> job[v].requested_by]

(* The queue implements the life cycle: a crashed, late or superseded      *)
(* worker leaves no trace, status and audit trail change together, a final *)
(* verdict stays, and a job's verdict carries its requester's name.        *)
ImplementsLifecycle == Lifecycle!Spec

-----------------------------------------------------------------------------
(* Progress. Fairness here is scheduling: a process that can take its next *)
(* step eventually does. Starting drains again and again is the task of    *)
(* the deployment (worker.py, line 1).                                     *)
FairSpec ==
  /\ Spec
  /\ \A w \in Workers : WF_vars(WorkerStep(w))
  /\ \A c \in Clients : WF_vars(RequestStep(c))

(* Every admitted request is answered: nobody waits for a row lock that is *)
(* never given back, though workers crash, lose leases and are fenced.     *)
RequestsFinish == \A c \in Clients : (pc[c] = "lock_version") ~> (pc[c] = "done")

(* The timing under which jobs end: a worker scans and waits for row locks *)
(* for less than its lease, so no lease runs out under a worker that is    *)
(* still at it, and workers crash only on the first claim of a job.        *)
TimelyTick ==
  /\ Tick
  /\ \A w \in Workers : Owner(w) => job[wk[w].v].lease_until > Skew + 1

RareCrash(w) == Crash(w) /\ Claiming(w) /\ job[wk[w].v].attempts = 1

TimelyNext ==
  \/ \E v \in Versions, u \in Users : Upload(v, u)
  \/ \E u \in Users : Revoke(u) \/ Grant(u)
  \/ TimelyTick
  \/ \E w \in Workers : WorkerStep(w) \/ RareCrash(w)
  \/ \E c \in Clients, kind \in {"enqueue", "scan"}, v \in Versions, u \in Users :
       Admit(c, kind, v, u)
  \/ \E c \in Clients : RequestStep(c) \/ Abort(c)

TimelySpec ==
  /\ Init
  /\ [][TimelyNext]_vars
  /\ \A w \in Workers : WF_vars(WorkerStep(w))
  /\ \A c \in Clients : WF_vars(RequestStep(c))
  /\ WF_vars(TimelyTick)

(* Every queued job ends: completed, or failed and open to another try. A  *)
(* job whose worker died is taken up again when its lease has run out.     *)
JobsSettle ==
  \A v \in Versions :
    (job[v].status \in {"pending", "running"}) ~> (job[v].status \in {"completed", "failed"})
=============================================================================
