--------------------------- MODULE ScanJobsProofs ---------------------------
(* Proofs about the scan queue, for every value of the constants. *)
EXTENDS ScanJobs, TLAPS

(* What a process knows of the row it works on. *)
Memory ==
  /\ \A w \in Workers : /\ Claiming(w) => /\ wk[w].v \in Versions
                                          /\ wk[w].token \in Tokens
                                          /\ wk[w].actor \in Users
                        /\ pc[w] = "poll" => wk[w].left > 0
  /\ \A c \in Clients : pc[c] # "idle" => rq[c].v \in Versions /\ rq[c].user \in Users

WorkerLocked == {"lock_job", "recheck", "publish"}
RequestLocked == {"read_job", "commit_job", "scan", "commit_scan"}

(* Which locks a process holds at which label. *)
Locking ==
  /\ \A w \in Workers : /\ pc[w] \in WorkerLocked => vlock[wk[w].v] = w
                        /\ pc[w] \in AwaitingCommit => jlock[wk[w].v] = w
  /\ \A c \in Clients : pc[c] \in RequestLocked => vlock[rq[c].v] = c

(* What the version lock keeps true until the commit. *)
Rows ==
  /\ \A v \in Versions : job[v].status # "absent" => content[v] # "pending_upload"
  /\ \A c \in Clients :
       /\ pc[c] \in {"read_job", "commit_job"} => content[rq[c].v] # "pending_upload"
       /\ pc[c] = "commit_job" => job[rq[c].v].status \in {"absent", "failed"}
       /\ pc[c] \in {"scan", "commit_scan"} =>
            content[rq[c].v] \notin Terminal \cup {"pending_upload"}

-----------------------------------------------------------------------------
(* Types. *)

LabelsOK ==
  /\ pc \in [Procs -> WorkerLabels \cup RequestLabels]
  /\ \A w \in Workers : pc[w] \in WorkerLabels
  /\ \A c \in Clients : pc[c] \in RequestLabels

LEMMA WorkerGoto ==
  ASSUME LabelsOK, NEW w \in Workers, NEW label \in WorkerLabels, Goto(w, label)
  PROVE  LabelsOK'
  BY ConstantsAssumption DEF LabelsOK, Goto, Procs

LEMMA RequestGoto ==
  ASSUME LabelsOK, NEW c \in Clients, NEW label \in RequestLabels, Goto(c, label)
  PROVE  LabelsOK'
  BY ConstantsAssumption DEF LabelsOK, Goto, Procs

Locks == [Versions -> Procs \cup {None}]

LEMMA ReleaseType ==
  ASSUME vlock \in Locks, jlock \in Locks, NEW p, ReleaseLocks(p)
  PROVE  vlock' \in Locks /\ jlock' \in Locks
  BY DEF Locks, ReleaseLocks, Released

LEMMA RecordedType ==
  ASSUME audit \in [Versions -> Seq(Events)], NEW v \in Versions,
         NEW action \in AuditActions, NEW user \in Users
  PROVE  Recorded(v, action, user) \in [Versions -> Seq(Events)]
<1>1. [action |-> action, by |-> user] \in Events
  BY DEF Events
<1>. QED BY <1>1 DEF Recorded

LEMMA RowTypes ==
  ASSUME NEW r \in JobRows
  PROVE  /\ \A l \in Leases : r.status = "running" => [r EXCEPT !.lease_until = l] \in JobRows
         /\ \A t \in Tokens, l \in Leases, n \in Nat : r.status # "absent" =>
              [r EXCEPT !.status = "running", !.claim_token = t,
                        !.lease_until = l, !.attempts = n] \in JobRows
         /\ \A s \in {"completed", "failed"} : r.status = "running" =>
              [r EXCEPT !.status = s, !.claim_token = None, !.lease_until = None] \in JobRows
         /\ \A u \in Users : r.status = "failed" =>
              [r EXCEPT !.status = "pending", !.requested_by = u] \in JobRows
         /\ \A u \in Users : [NoJob EXCEPT !.status = "pending", !.requested_by = u] \in JobRows
<1> USE ConstantsAssumption DEF JobRows
<1>1. ASSUME NEW l \in Leases, r.status = "running"
      PROVE  [r EXCEPT !.lease_until = l] \in JobRows
  BY <1>1 DEF Leases, LeaseFloor
<1>2. ASSUME NEW t \in Tokens, NEW l \in Leases, NEW n \in Nat, r.status # "absent"
      PROVE  [r EXCEPT !.status = "running", !.claim_token = t,
                       !.lease_until = l, !.attempts = n] \in JobRows
  <2> DEFINE q == [r EXCEPT !.status = "running", !.claim_token = t,
                            !.lease_until = l, !.attempts = n]
  <2>1. /\ q.status = "running" /\ q.claim_token = t /\ q.lease_until = l
        /\ q.attempts = n /\ q.requested_by = r.requested_by
    OBVIOUS
  <2>2. q \in [status : JobStatus, attempts : Nat, claim_token : Tokens \cup {None},
               lease_until : Leases \cup {None}, requested_by : Users \cup {None}]
    BY DEF JobStatus
  <2>3. t # None /\ l # None /\ r.requested_by # None
    BY <1>2 DEF Leases, LeaseFloor
  <2>. QED BY ONLY <2>1, <2>2, <2>3 DEF JobRows
<1>3. ASSUME NEW s \in {"completed", "failed"}, r.status = "running"
      PROVE  [r EXCEPT !.status = s, !.claim_token = None, !.lease_until = None] \in JobRows
  BY <1>3 DEF JobStatus
<1>4. ASSUME NEW u \in Users, r.status = "failed"
      PROVE  [r EXCEPT !.status = "pending", !.requested_by = u] \in JobRows
  BY <1>4 DEF JobStatus
<1>5. ASSUME NEW u \in Users
      PROVE  [NoJob EXCEPT !.status = "pending", !.requested_by = u] \in JobRows
  BY DEF JobStatus, NoJob
<1>. QED BY ONLY <1>1, <1>2, <1>3, <1>4, <1>5

LEMMA InitType == Init => TypeOK
  BY ConstantsAssumption
  DEF Init, TypeOK, NoJob, Forgotten, NoRequest, JobRows, WorkerMemory, Requests,
      ContentStatus, Verdicts, Terminal, JobStatus, WorkerLabels, RequestLabels, Running,
      Events, Procs

LEMMA Typed ==
  ASSUME TypeOK
  PROVE  /\ LabelsOK
         /\ vlock \in Locks /\ jlock \in Locks
         /\ \A v \in Versions : job[v] \in JobRows /\ content[v] \in ContentStatus
         /\ \A w \in Workers : wk[w] \in WorkerMemory
         /\ \A c \in Clients : rq[c] \in Requests
  BY DEF TypeOK, LabelsOK, Locks

LEMMA MemoryTypes ==
  ASSUME NEW m \in WorkerMemory
  PROVE  /\ \A n \in Nat : [m EXCEPT !.left = n] \in WorkerMemory
         /\ \A b \in BOOLEAN : [m EXCEPT !.permitted = b] \in WorkerMemory
         /\ \A s \in Verdicts : [m EXCEPT !.verdict = s] \in WorkerMemory
         /\ [Forgotten EXCEPT !.left = m.left] \in WorkerMemory
         /\ Forgotten \in WorkerMemory
<1> USE DEF WorkerMemory
<1>1. ASSUME NEW n \in Nat PROVE [m EXCEPT !.left = n] \in WorkerMemory
  OBVIOUS
<1>2. ASSUME NEW b \in BOOLEAN PROVE [m EXCEPT !.permitted = b] \in WorkerMemory
  OBVIOUS
<1>3. ASSUME NEW s \in Verdicts PROVE [m EXCEPT !.verdict = s] \in WorkerMemory
  OBVIOUS
<1>4. Forgotten \in WorkerMemory
  BY DEF Forgotten, Verdicts
<1>5. [Forgotten EXCEPT !.left = m.left] \in WorkerMemory
  BY <1>4
<1>. QED BY ONLY <1>1, <1>2, <1>3, <1>4, <1>5

LEMMA VerdictOfType == \A answer : VerdictOf(answer) \in Verdicts
  BY DEF VerdictOf, Verdicts

LEMMA NextRoundType ==
  ASSUME TypeOK, NEW w \in Workers, NextRound(w)
  PROVE  wk' \in [Workers -> WorkerMemory] /\ LabelsOK'
<1>1. [Forgotten EXCEPT !.left = wk[w].left] \in WorkerMemory
  BY Typed, MemoryTypes
<1>2. wk' \in [Workers -> WorkerMemory]
  BY <1>1 DEF NextRound, TypeOK
<1>3. LabelsOK'
  <2>1. CASE wk[w].left = 0
    BY <2>1, Typed, WorkerGoto DEF NextRound, WorkerLabels
  <2>2. CASE wk[w].left # 0
    BY <2>2, Typed, WorkerGoto DEF NextRound, WorkerLabels
  <2>. QED BY <2>1, <2>2
<1>. QED BY <1>2, <1>3

(* What a claim stamps on the row and what the worker remembers of it. *)
LEMMA ClaimFacts ==
  ASSUME TypeOK, NEW w \in Workers, Claim(w)
  PROVE  \E v \in Versions, t \in FreshTokens, l \in Leases :
           /\ job[v].status \in {"pending", "running"} /\ jlock[v] = None
           /\ job' = [job EXCEPT ![v] =
                        [job[v] EXCEPT !.status = "running", !.claim_token = t,
                                       !.lease_until = l, !.attempts = job[v].attempts + 1]]
           /\ wk' = [wk EXCEPT ![w] =
                       [Forgotten EXCEPT !.v = v, !.token = t,
                                         !.actor = job[v].requested_by,
                                         !.left = wk[w].left - 1]]
<1>0. PICK off \in Offsets : \E v \in Claimable(off) :
        LET claimed == ClaimedJob(v, off, CHOOSE t \in FreshTokens : TRUE)
        IN  /\ job' = [job EXCEPT ![v] = claimed]
            /\ wk' = [wk EXCEPT ![w] = [Forgotten EXCEPT
                                          !.v = v,
                                          !.token = claimed.claim_token,
                                          !.actor = claimed.requested_by,
                                          !.left = wk[w].left - 1]]
  BY DEF Claim
<1>1. PICK v \in Claimable(off) :
        LET claimed == ClaimedJob(v, off, CHOOSE t \in FreshTokens : TRUE)
        IN  /\ job' = [job EXCEPT ![v] = claimed]
            /\ wk' = [wk EXCEPT ![w] = [Forgotten EXCEPT
                                          !.v = v,
                                          !.token = claimed.claim_token,
                                          !.actor = claimed.requested_by,
                                          !.left = wk[w].left - 1]]
  BY <1>0
<1> DEFINE t == CHOOSE x \in FreshTokens : TRUE
           l == Lease + off
<1>2. t \in FreshTokens
  BY DEF Claim
<1>3. l \in Leases
  BY ConstantsAssumption DEF Offsets, Leases, LeaseFloor
<1>4. /\ v \in Versions /\ jlock[v] = None
      /\ job[v].status \in {"pending", "running"}
  BY DEF Claimable, Expired, Running
<1>5. job[v] \in JobRows
  BY <1>4, Typed
<1>6. ClaimedJob(v, off, t).claim_token = t
  BY <1>5 DEF ClaimedJob, JobRows
<1>7. ClaimedJob(v, off, t).requested_by = job[v].requested_by
  BY <1>5 DEF ClaimedJob, JobRows
<1>8. job' = [job EXCEPT ![v] =
                [job[v] EXCEPT !.status = "running", !.claim_token = t,
                               !.lease_until = l, !.attempts = job[v].attempts + 1]]
  BY <1>1 DEF ClaimedJob
<1>9. wk' = [wk EXCEPT ![w] =
               [Forgotten EXCEPT !.v = v, !.token = t, !.actor = job[v].requested_by,
                                 !.left = wk[w].left - 1]]
  BY <1>1, <1>6, <1>7
<1> HIDE DEF t, l
<1>. QED BY <1>2, <1>3, <1>4, <1>8, <1>9

LEMMA TickFacts ==
  ASSUME TypeOK, Tick
  PROVE  \A v \in Versions :
           \/ job'[v] = job[v]
           \/ \E l \in Leases : Running(v) /\ job'[v] = [job[v] EXCEPT !.lease_until = l]
<1> SUFFICES ASSUME NEW v \in Versions, Ticking(v)
             PROVE  \E l \in Leases : Running(v) /\ job'[v] = [job[v] EXCEPT !.lease_until = l]
  BY DEF Tick
<1>1. job[v].lease_until \in Leases /\ Running(v)
  BY Typed DEF JobRows, Ticking, Running
<1>2. job[v].lease_until - 1 \in Leases
  BY <1>1, ConstantsAssumption DEF Leases, LeaseFloor, Ticking
<1>3. job'[v] = [job[v] EXCEPT !.lease_until = job[v].lease_until - 1]
  BY DEF Tick
<1>. QED BY <1>1, <1>2, <1>3

LEMMA FinishType ==
  ASSUME TypeOK, NEW c \in Clients, Finish(c)
  PROVE  vlock' \in Locks /\ jlock' \in Locks /\ LabelsOK'
  BY Typed, ReleaseType, RequestGoto DEF Finish, RequestLabels

LEMMA TypeStep ==
  ASSUME TypeOK, Memory, Locking, Rows, PublisherOwns, [Next]_vars
  PROVE  TypeOK'
<1>1. ASSUME NEW v \in Versions, NEW u \in Users, Upload(v, u) PROVE TypeOK'
  <2>1. content' \in [Versions -> ContentStatus]
    BY <1>1 DEF Upload, TypeOK, ContentStatus
  <2>2. audit' \in [Versions -> Seq(Events)]
    BY <1>1, RecordedType DEF Upload, TypeOK, AuditActions
  <2>. QED BY <1>1, <2>1, <2>2 DEF Upload, TypeOK
<1>2. ASSUME NEW u \in Users, Revoke(u) PROVE TypeOK'
  BY <1>2 DEF Revoke, TypeOK
<1>3. ASSUME NEW u \in Users, Grant(u) PROVE TypeOK'
  BY <1>3 DEF Grant, TypeOK
<1>4. CASE Tick
  <2>1. \A v \in Versions : job'[v] \in JobRows
    <3> SUFFICES ASSUME NEW v \in Versions PROVE job'[v] \in JobRows
      OBVIOUS
    <3>1. CASE job'[v] = job[v]
      BY <3>1, Typed
    <3>2. ASSUME NEW l \in Leases, Running(v), job'[v] = [job[v] EXCEPT !.lease_until = l]
          PROVE  job'[v] \in JobRows
      <4>1. job[v] \in JobRows /\ job[v].status = "running"
        BY <3>2, Typed DEF Running
      <4>. QED BY <3>2, <4>1, RowTypes
    <3>. QED BY <1>4, <3>1, <3>2, TickFacts
  <2>2. job' \in [Versions -> JobRows]
    BY <1>4, <2>1 DEF Tick
  <2>. QED BY <1>4, <2>2 DEF Tick, TypeOK
<1>5. ASSUME NEW w \in Workers, StartDrain(w) PROVE TypeOK'
  <2>1. [wk[w] EXCEPT !.left = MaxJobs] \in WorkerMemory
    BY Typed, MemoryTypes, ConstantsAssumption
  <2>2. wk' \in [Workers -> WorkerMemory]
    BY <1>5, <2>1 DEF StartDrain, TypeOK
  <2>3. LabelsOK'
    BY <1>5, Typed, WorkerGoto DEF StartDrain, WorkerLabels
  <2>. QED BY <1>5, <2>2, <2>3 DEF StartDrain, TypeOK, LabelsOK
<1>6. ASSUME NEW w \in Workers, Claim(w) PROVE TypeOK'
  <2>1. PICK v \in Versions, t \in FreshTokens, l \in Leases :
           /\ job[v].status \in {"pending", "running"} /\ jlock[v] = None
           /\ job' = [job EXCEPT ![v] =
                        [job[v] EXCEPT !.status = "running", !.claim_token = t,
                                       !.lease_until = l, !.attempts = job[v].attempts + 1]]
           /\ wk' = [wk EXCEPT ![w] =
                       [Forgotten EXCEPT !.v = v, !.token = t,
                                         !.actor = job[v].requested_by,
                                         !.left = wk[w].left - 1]]
    BY <1>6, ClaimFacts
  <2>2. t \in Tokens /\ job[v] \in JobRows
    BY Typed DEF FreshTokens
  <2>3. job[v].attempts + 1 \in Nat /\ job[v].requested_by \in Users \cup {None}
        /\ job[v].status # "absent"
    BY <2>1, <2>2 DEF JobRows
  <2>4. job' \in [Versions -> JobRows]
    <3>1. [job[v] EXCEPT !.status = "running", !.claim_token = t,
                         !.lease_until = l, !.attempts = job[v].attempts + 1] \in JobRows
      BY <2>2, <2>3, RowTypes
    <3>. QED BY <2>1, <3>1 DEF TypeOK
  <2>5. wk[w].left - 1 \in Nat
    BY <1>6, Typed DEF Claim, Memory, WorkerMemory
  <2>6. [Forgotten EXCEPT !.v = v, !.token = t, !.actor = job[v].requested_by,
                          !.left = wk[w].left - 1] \in WorkerMemory
    BY <2>2, <2>3, <2>5 DEF Forgotten, WorkerMemory, Verdicts
  <2>7. wk' \in [Workers -> WorkerMemory]
    BY <2>1, <2>6 DEF TypeOK
  <2>8. LabelsOK'
    BY <1>6, Typed, WorkerGoto DEF Claim, WorkerLabels
  <2>. QED BY <1>6, <2>4, <2>7, <2>8 DEF Claim, TypeOK, LabelsOK
<1>7. ASSUME NEW w \in Workers, NoWork(w) \/ Crash(w) PROVE TypeOK'
  <2>1. wk' \in [Workers -> WorkerMemory]
    BY <1>7, Typed, MemoryTypes DEF NoWork, Crash, TypeOK
  <2>2. LabelsOK'
    BY <1>7, Typed, WorkerGoto DEF NoWork, Crash, WorkerLabels
  <2>3. vlock' \in Locks /\ jlock' \in Locks
    BY <1>7, Typed, ReleaseType DEF NoWork, Crash
  <2>. QED BY <1>7, <2>1, <2>2, <2>3 DEF NoWork, Crash, TypeOK, LabelsOK, Locks
<1>8. ASSUME NEW w \in Workers, ReadPrincipal(w) PROVE TypeOK'
  <2>1. [wk[w] EXCEPT !.permitted = wk[w].actor \in admins] \in WorkerMemory
    <3> DEFINE b == wk[w].actor \in admins
    <3>1. b \in BOOLEAN
      OBVIOUS
    <3> HIDE DEF b
    <3>2. [wk[w] EXCEPT !.permitted = b] \in WorkerMemory
      BY <3>1, Typed, MemoryTypes
    <3>. QED BY <3>2 DEF b
  <2>2. wk' \in [Workers -> WorkerMemory]
    BY <1>8, <2>1 DEF ReadPrincipal, TypeOK
  <2>3. LabelsOK'
    BY <1>8, Typed, WorkerGoto DEF ReadPrincipal, WorkerLabels
  <2>. QED BY <1>8, <2>2, <2>3 DEF ReadPrincipal, TypeOK, LabelsOK
<1>9. ASSUME NEW w \in Workers, ReadVersion(w) PROVE TypeOK'
  <2>1. LabelsOK'
    <3>1. CASE wk[w].permitted /\ content[wk[w].v] \notin Terminal
      BY <1>9, <3>1, Typed, WorkerGoto DEF ReadVersion, WorkerLabels
    <3>2. CASE ~(wk[w].permitted /\ content[wk[w].v] \notin Terminal)
      BY <1>9, <3>2, Typed, WorkerGoto DEF ReadVersion, WorkerLabels
    <3>. QED BY <3>1, <3>2
  <2>. QED BY <1>9, <2>1 DEF ReadVersion, TypeOK, LabelsOK
<1>10. ASSUME NEW w \in Workers, Inspect(w) PROVE TypeOK'
  <2>1. PICK answer \in Answers :
          /\ wk' = [wk EXCEPT ![w].verdict = VerdictOf(answer)]
          /\ answers' = [answers EXCEPT ![wk[w].v] = @ \cup {answer}]
    BY <1>10 DEF Inspect
  <2>2. [wk[w] EXCEPT !.verdict = VerdictOf(answer)] \in WorkerMemory
    BY Typed, MemoryTypes, VerdictOfType
  <2>3. wk' \in [Workers -> WorkerMemory]
    BY <2>1, <2>2 DEF TypeOK
  <2>4. answers' \in [Versions -> SUBSET Answers]
    BY <2>1 DEF TypeOK
  <2>5. LabelsOK'
    BY <1>10, Typed, WorkerGoto DEF Inspect, WorkerLabels
  <2>. QED BY <1>10, <2>3, <2>4, <2>5 DEF Inspect, TypeOK, LabelsOK
<1>11. ASSUME NEW w \in Workers, LockVersion(w) PROVE TypeOK'
  <2>1. LabelsOK'
    BY <1>11, Typed, WorkerGoto DEF LockVersion, WorkerLabels
  <2>2. vlock' \in Locks
    BY <1>11, Typed DEF LockVersion, Locks, Procs
  <2>. QED BY <1>11, <2>1, <2>2 DEF LockVersion, TypeOK, LabelsOK, Locks
<1>12. ASSUME NEW w \in Workers, Fenced(w) PROVE TypeOK'
  <2>1. wk' \in [Workers -> WorkerMemory] /\ LabelsOK'
    BY <1>12, NextRoundType DEF Fenced
  <2>2. vlock' \in Locks /\ jlock' \in Locks
    BY <1>12, Typed, ReleaseType DEF Fenced
  <2>. QED BY <1>12, <2>1, <2>2 DEF Fenced, TypeOK, LabelsOK, Locks
<1>13. ASSUME NEW w \in Workers, Confirm(w) PROVE TypeOK'
  <2>1. LabelsOK'
    BY <1>13, Typed, WorkerGoto DEF Confirm, WorkerLabels
  <2>2. jlock' \in Locks
    BY <1>13, Typed DEF Confirm, Locks, Procs
  <2>3. vouched' \in SUBSET Workers
    BY <1>13 DEF Confirm, TypeOK
  <2>. QED BY <1>13, <2>1, <2>2, <2>3 DEF Confirm, TypeOK, LabelsOK, Locks
<1>14. ASSUME NEW w \in Workers, Recheck(w) PROVE TypeOK'
  <2>1. [wk[w] EXCEPT !.permitted = @ /\ wk[w].actor \in admins] \in WorkerMemory
    BY Typed, MemoryTypes
  <2>2. wk' \in [Workers -> WorkerMemory]
    BY <1>14, <2>1 DEF Recheck, TypeOK
  <2>3. LabelsOK'
    BY <1>14, Typed, WorkerGoto DEF Recheck, WorkerLabels
  <2>. QED BY <1>14, <2>2, <2>3 DEF Recheck, TypeOK, LabelsOK
<1>15. ASSUME NEW w \in Workers, Publish(w) PROVE TypeOK'
  <2>1. /\ wk[w].v \in Versions /\ wk[w].actor \in Users /\ wk[w].verdict \in Verdicts
        /\ job[wk[w].v].status = "running"
    BY <1>15, Typed DEF Publish, Memory, Claiming, PublisherOwns, AwaitingCommit, Owner,
                        Running, WorkerMemory
  <2>2. content' \in [Versions -> ContentStatus]
    BY <1>15, <2>1, Typed DEF Publish, TypeOK, PublishedContent, ContentStatus
  <2>3. audit' \in [Versions -> Seq(Events)]
    BY <1>15, <2>1, RecordedType DEF Publish, TypeOK, AuditActions
  <2>4. SettledJob(w) \in JobRows
    BY <2>1, Typed, RowTypes DEF SettledJob, Outcome
  <2>5. job' \in [Versions -> JobRows]
    BY <1>15, <2>4 DEF Publish, TypeOK
  <2>6. wk' \in [Workers -> WorkerMemory] /\ LabelsOK'
    BY <1>15, NextRoundType DEF Publish
  <2>7. vlock' \in Locks /\ jlock' \in Locks
    BY <1>15, Typed, ReleaseType DEF Publish
  <2>. QED
    BY <1>15, <2>2, <2>3, <2>5, <2>6, <2>7 DEF Publish, TypeOK, LabelsOK, Locks
<1>16. ASSUME NEW c \in Clients, NEW kind \in {"enqueue", "scan"}, NEW v \in Versions,
              NEW u \in Users, Admit(c, kind, v, u)
       PROVE  TypeOK'
  <2>1. [kind |-> kind, v |-> v, user |-> u, verdict |-> "scan_failed"] \in Requests
    BY DEF Requests, Verdicts
  <2>2. rq' \in [Clients -> Requests]
    BY <1>16, <2>1 DEF Admit, TypeOK
  <2>3. LabelsOK'
    BY <1>16, Typed, RequestGoto DEF Admit, RequestLabels
  <2>. QED BY <1>16, <2>2, <2>3 DEF Admit, TypeOK, LabelsOK
<1>17. ASSUME NEW c \in Clients, EnqueueLockVersion(c) \/ ScanLockVersion(c) PROVE TypeOK'
  <2>1. CASE Finish(c)
    BY <1>17, <2>1, FinishType DEF EnqueueLockVersion, ScanLockVersion, TypeOK, LabelsOK, Locks
  <2>2. CASE /\ vlock' = [vlock EXCEPT ![rq[c].v] = c] /\ UNCHANGED jlock
             /\ Goto(c, "read_job") \/ Goto(c, "scan")
    <3>1. LabelsOK'
      BY <2>2, Typed, RequestGoto DEF RequestLabels
    <3>2. vlock' \in Locks
      BY <2>2, Typed DEF Locks, Procs
    <3>. QED
      BY <1>17, <2>2, <3>1, <3>2
      DEF EnqueueLockVersion, ScanLockVersion, TypeOK, LabelsOK, Locks
  <2>. QED BY <1>17, <2>1, <2>2 DEF EnqueueLockVersion, ScanLockVersion
<1>18. ASSUME NEW c \in Clients, EnqueueReadJob(c) PROVE TypeOK'
  <2>1. CASE Finish(c)
    BY <1>18, <2>1, FinishType DEF EnqueueReadJob, TypeOK, LabelsOK, Locks
  <2>2. CASE Queueable(rq[c].v)
    <3>1. LabelsOK'
      BY <1>18, <2>2, Typed, RequestGoto DEF EnqueueReadJob, RequestLabels
    <3>2. jlock' \in Locks
      BY <1>18, <2>2, Typed DEF EnqueueReadJob, Locks, Procs
    <3>. QED BY <1>18, <2>2, <3>1, <3>2 DEF EnqueueReadJob, TypeOK, LabelsOK, Locks
  <2>. QED BY <1>18, <2>1, <2>2 DEF EnqueueReadJob
<1>19. ASSUME NEW c \in Clients, EnqueueCommit(c) PROVE TypeOK'
  <2>1. /\ rq[c].v \in Versions /\ rq[c].user \in Users
        /\ job[rq[c].v].status \in {"absent", "failed"}
    BY <1>19 DEF EnqueueCommit, Memory, Rows
  <2>2. PendingJob(rq[c].v, rq[c].user) \in JobRows
    BY <2>1, Typed, RowTypes DEF PendingJob
  <2>3. job' \in [Versions -> JobRows]
    BY <1>19, <2>2 DEF EnqueueCommit, TypeOK
  <2>4. audit' \in [Versions -> Seq(Events)]
    BY <1>19, <2>1, RecordedType DEF EnqueueCommit, TypeOK, AuditActions
  <2>5. vlock' \in Locks /\ jlock' \in Locks /\ LabelsOK'
    BY <1>19, FinishType DEF EnqueueCommit
  <2>. QED BY <1>19, <2>3, <2>4, <2>5 DEF EnqueueCommit, TypeOK, LabelsOK, Locks
<1>20. ASSUME NEW c \in Clients, ScanInspect(c) PROVE TypeOK'
  <2>1. PICK answer \in Answers :
          /\ rq' = [rq EXCEPT ![c].verdict = VerdictOf(answer)]
          /\ answers' = [answers EXCEPT ![rq[c].v] = @ \cup {answer}]
    BY <1>20 DEF ScanInspect
  <2>2. [rq[c] EXCEPT !.verdict = VerdictOf(answer)] \in Requests
    BY Typed, VerdictOfType DEF Requests
  <2>3. rq' \in [Clients -> Requests]
    BY <2>1, <2>2 DEF TypeOK
  <2>4. answers' \in [Versions -> SUBSET Answers]
    BY <2>1 DEF TypeOK
  <2>5. LabelsOK'
    BY <1>20, Typed, RequestGoto DEF ScanInspect, RequestLabels
  <2>. QED BY <1>20, <2>3, <2>4, <2>5 DEF ScanInspect, TypeOK, LabelsOK
<1>21. ASSUME NEW c \in Clients, ScanCommit(c) PROVE TypeOK'
  <2>1. rq[c].v \in Versions /\ rq[c].user \in Users /\ rq[c].verdict \in Verdicts
    BY <1>21, Typed DEF ScanCommit, Memory, Requests
  <2>2. content' \in [Versions -> ContentStatus]
    BY <1>21, <2>1 DEF ScanCommit, TypeOK, ContentStatus
  <2>3. audit' \in [Versions -> Seq(Events)]
    BY <1>21, <2>1, RecordedType DEF ScanCommit, TypeOK, AuditActions
  <2>4. vlock' \in Locks /\ jlock' \in Locks /\ LabelsOK'
    BY <1>21, FinishType DEF ScanCommit
  <2>. QED BY <1>21, <2>2, <2>3, <2>4 DEF ScanCommit, TypeOK, LabelsOK, Locks
<1>22. ASSUME NEW c \in Clients, Abort(c) PROVE TypeOK'
  BY <1>22, FinishType DEF Abort, TypeOK, LabelsOK, Locks
<1>23. CASE UNCHANGED vars
  BY <1>23 DEF vars, TypeOK
<1>. QED
  BY <1>1, <1>2, <1>3, <1>4, <1>5, <1>6, <1>7, <1>8, <1>9, <1>10, <1>11, <1>12, <1>13,
     <1>14, <1>15, <1>16, <1>17, <1>18, <1>19, <1>20, <1>21, <1>22, <1>23
  DEF Next, WorkerStep, RequestStep

-----------------------------------------------------------------------------
(* What a step leaves alone. *)

LEMMA WorkerFrame ==
  ASSUME TypeOK, NEW w \in Workers, NEW label, Goto(w, label)
  PROVE  /\ pc'[w] = label
         /\ \A x \in Workers : x # w => pc'[x] = pc[x]
         /\ \A c \in Clients : pc'[c] = pc[c]
  BY ConstantsAssumption DEF TypeOK, Goto, Procs

LEMMA RequestFrame ==
  ASSUME TypeOK, NEW c \in Clients, NEW label, Goto(c, label)
  PROVE  /\ pc'[c] = label
         /\ \A d \in Clients : d # c => pc'[d] = pc[d]
         /\ \A w \in Workers : pc'[w] = pc[w]
  BY ConstantsAssumption DEF TypeOK, Goto, Procs

LEMMA NextRoundFrame ==
  ASSUME TypeOK, NEW w \in Workers, NextRound(w)
  PROVE  /\ pc'[w] \in {"idle", "poll"}
         /\ pc'[w] = "poll" => wk'[w].left > 0
         /\ \A x \in Workers : x # w => pc'[x] = pc[x] /\ wk'[x] = wk[x]
         /\ \A c \in Clients : pc'[c] = pc[c]
<1>1. wk[w].left \in Nat /\ wk[w] \in WorkerMemory
  BY Typed DEF WorkerMemory
<1>2. wk'[w] = [Forgotten EXCEPT !.left = wk[w].left]
  BY DEF NextRound, TypeOK
<1>3. wk'[w].left = wk[w].left
  BY <1>2 DEF Forgotten
<1>4. \A x \in Workers : x # w => wk'[x] = wk[x]
  BY DEF NextRound, TypeOK
<1>5. CASE wk[w].left = 0
  <2>1. Goto(w, "idle")
    BY <1>5 DEF NextRound
  <2>. QED BY <1>4, <2>1, WorkerFrame
<1>6. CASE wk[w].left # 0
  <2>1. Goto(w, "poll")
    BY <1>6 DEF NextRound
  <2>. QED BY <1>1, <1>3, <1>4, <1>6, <2>1, WorkerFrame
<1>. QED BY <1>5, <1>6

(* Releasing the locks of one process leaves those of the others alone. *)
LEMMA ReleaseFrame ==
  ASSUME TypeOK, NEW p, ReleaseLocks(p), NEW q \in Procs, q # p, NEW v \in Versions
  PROVE  /\ vlock[v] = q => vlock'[v] = q
         /\ jlock[v] = q => jlock'[v] = q
  BY DEF ReleaseLocks, Released

LEMMA MemoryStep ==
  ASSUME TypeOK, Memory, [Next]_vars
  PROVE  Memory'
<1>1. ASSUME NEW v \in Versions, NEW u \in Users, Upload(v, u) PROVE Memory'
  BY <1>1 DEF Upload, Memory, Claiming, Goto, TypeOK, Procs, Forgotten, Finish
<1>2. ASSUME NEW u \in Users, Revoke(u) PROVE Memory'
  BY <1>2 DEF Revoke, Memory, Claiming, Goto, TypeOK, Procs, Forgotten, Finish
<1>3. ASSUME NEW u \in Users, Grant(u) PROVE Memory'
  BY <1>3 DEF Grant, Memory, Claiming, Goto, TypeOK, Procs, Forgotten, Finish
<1>4. CASE Tick
  BY <1>4 DEF Tick, Memory, Claiming, Goto, TypeOK, Procs, Forgotten, Finish
<1>5. ASSUME NEW w \in Workers, StartDrain(w) PROVE Memory'
  BY <1>5, ConstantsAssumption, Typed DEF StartDrain, Memory, Claiming, Goto, TypeOK, Procs, Forgotten, Finish
<1>6. ASSUME NEW w \in Workers, Claim(w) PROVE Memory'
  <2>1. PICK v \in Versions, t \in FreshTokens, l \in Leases :
           /\ job[v].status \in {"pending", "running"} /\ jlock[v] = None
           /\ job' = [job EXCEPT ![v] =
                        [job[v] EXCEPT !.status = "running", !.claim_token = t,
                                       !.lease_until = l, !.attempts = job[v].attempts + 1]]
           /\ wk' = [wk EXCEPT ![w] =
                       [Forgotten EXCEPT !.v = v, !.token = t,
                                         !.actor = job[v].requested_by,
                                         !.left = wk[w].left - 1]]
    BY <1>6, TypeOK, ClaimFacts
  <2>2. t \in Tokens /\ job[v].requested_by \in Users
    BY <2>1, Typed DEF FreshTokens, JobRows
  <2>3. wk'[w].v = v /\ wk'[w].token = t /\ wk'[w].actor = job[v].requested_by
    BY <2>1 DEF TypeOK, Forgotten
  <2>4. \A x \in Workers : x # w => wk'[x] = wk[x]
    BY <2>1 DEF TypeOK
  <2>5. Goto(w, "read_principal") /\ rq' = rq
    BY <1>6 DEF Claim
  <2>. QED BY <2>2, <2>3, <2>4, <2>5, WorkerFrame DEF Memory, Claiming
<1>7. ASSUME NEW w \in Workers, NoWork(w) PROVE Memory'
  BY <1>7 DEF NoWork, Memory, Claiming, Goto, TypeOK, Procs, Forgotten, Finish
<1>8. ASSUME NEW w \in Workers, ReadPrincipal(w) PROVE Memory'
  BY <1>8 DEF ReadPrincipal, Memory, Claiming, Goto, TypeOK, Procs, Forgotten, Finish
<1>9. ASSUME NEW w \in Workers, ReadVersion(w) PROVE Memory'
  BY <1>9 DEF ReadVersion, Memory, Claiming, Goto, TypeOK, Procs, Forgotten, Finish
<1>10. ASSUME NEW w \in Workers, Inspect(w) PROVE Memory'
  BY <1>10 DEF Inspect, Memory, Claiming, Goto, TypeOK, Procs, Forgotten, Finish
<1>11. ASSUME NEW w \in Workers, LockVersion(w) PROVE Memory'
  BY <1>11 DEF LockVersion, Memory, Claiming, Goto, TypeOK, Procs, Forgotten, Finish
<1>12. ASSUME NEW w \in Workers, Fenced(w) PROVE Memory'
  BY <1>12, NextRoundFrame DEF Fenced, Memory, Claiming, Goto, TypeOK, Procs, Forgotten, Finish
<1>13. ASSUME NEW w \in Workers, Confirm(w) PROVE Memory'
  BY <1>13 DEF Confirm, Memory, Claiming, Goto, TypeOK, Procs, Forgotten, Finish
<1>14. ASSUME NEW w \in Workers, Recheck(w) PROVE Memory'
  BY <1>14 DEF Recheck, Memory, Claiming, Goto, TypeOK, Procs, Forgotten, Finish
<1>15. ASSUME NEW w \in Workers, Publish(w) PROVE Memory'
  BY <1>15, NextRoundFrame DEF Publish, Memory, Claiming, Goto, TypeOK, Procs, Forgotten, Finish
<1>16. ASSUME NEW w \in Workers, Crash(w) PROVE Memory'
  BY <1>16 DEF Crash, Memory, Claiming, Goto, TypeOK, Procs, Forgotten, Finish
<1>17. ASSUME NEW c \in Clients, NEW kind \in {"enqueue", "scan"}, NEW v \in Versions,
              NEW u \in Users, Admit(c, kind, v, u) PROVE Memory'
  BY <1>17, RequestFrame DEF Admit, Memory, Claiming, Goto, TypeOK, Procs, Forgotten, Finish
<1>18. ASSUME NEW c \in Clients, EnqueueLockVersion(c) PROVE Memory'
  <2>1. /\ pc[c] = "lock_version" /\ rq' = rq /\ wk' = wk
        /\ \E label \in RequestLabels : Goto(c, label)
    BY <1>18 DEF EnqueueLockVersion, Requested, Finish, RequestLabels
  <2>. QED BY <2>1, RequestFrame DEF Memory, Claiming
<1>19. ASSUME NEW c \in Clients, EnqueueReadJob(c) PROVE Memory'
  BY <1>19, RequestFrame DEF EnqueueReadJob, Memory, Claiming, Goto, TypeOK, Procs, Forgotten, Finish
<1>20. ASSUME NEW c \in Clients, EnqueueCommit(c) PROVE Memory'
  BY <1>20, RequestFrame DEF EnqueueCommit, Memory, Claiming, Goto, TypeOK, Procs, Forgotten, Finish
<1>21. ASSUME NEW c \in Clients, ScanLockVersion(c) PROVE Memory'
  <2>1. /\ pc[c] = "lock_version" /\ rq' = rq /\ wk' = wk
        /\ \E label \in RequestLabels : Goto(c, label)
    BY <1>21 DEF ScanLockVersion, Requested, Finish, RequestLabels
  <2>. QED BY <2>1, RequestFrame DEF Memory, Claiming
<1>22. ASSUME NEW c \in Clients, ScanInspect(c) PROVE Memory'
  <2>1. rq'[c].v = rq[c].v /\ rq'[c].user = rq[c].user /\ \A d \in Clients : d # c => rq'[d] = rq[d]
    BY <1>22, Typed DEF ScanInspect, TypeOK, Requests
  <2>2. pc[c] = "scan" /\ Goto(c, "commit_scan") /\ wk' = wk
    BY <1>22 DEF ScanInspect
  <2>. QED BY <2>1, <2>2, RequestFrame DEF Memory, Claiming
<1>23. ASSUME NEW c \in Clients, ScanCommit(c) PROVE Memory'
  BY <1>23, RequestFrame DEF ScanCommit, Memory, Claiming, Goto, TypeOK, Procs, Forgotten, Finish
<1>24. ASSUME NEW c \in Clients, Abort(c) PROVE Memory'
  BY <1>24, RequestFrame DEF Abort, Memory, Claiming, Goto, TypeOK, Procs, Forgotten, Finish
<1>25. CASE UNCHANGED vars
  BY <1>25 DEF vars, Memory, Claiming, Goto, TypeOK, Procs, Forgotten, Finish
<1>. QED
  BY <1>1, <1>2, <1>3, <1>4, <1>5, <1>6, <1>7, <1>8, <1>9, <1>10, <1>11, <1>12, <1>13, <1>14, <1>15, <1>16, <1>17, <1>18, <1>19, <1>20, <1>21, <1>22, <1>23, <1>24, <1>25
  DEF Next, WorkerStep, RequestStep

-----------------------------------------------------------------------------
(* Locks. *)

LEMMA WorkerReleases ==
  ASSUME TypeOK, Memory, Locking, NEW w \in Workers, ReleaseLocks(w),
         pc'[w] \in {"idle", "poll"}, rq' = rq,
         \A x \in Workers : x # w => pc'[x] = pc[x] /\ wk'[x] = wk[x],
         \A c \in Clients : pc'[c] = pc[c]
  PROVE  Locking'
<1>1. ASSUME NEW x \in Workers
      PROVE  /\ pc'[x] \in WorkerLocked => vlock'[wk'[x].v] = x
             /\ pc'[x] \in AwaitingCommit => jlock'[wk'[x].v] = x
  <2>1. CASE x = w
    BY <2>1 DEF WorkerLocked, AwaitingCommit
  <2>2. CASE x # w
    <3>1. pc[x] \in WorkerLocked \cup AwaitingCommit => wk[x].v \in Versions
      BY DEF Memory, Claiming, WorkerLocked, AwaitingCommit
    <3>. QED BY <2>2, <3>1, ReleaseFrame DEF Locking, Procs
  <2>. QED BY <2>1, <2>2
<1>2. ASSUME NEW c \in Clients, pc'[c] \in RequestLocked
      PROVE  vlock'[rq'[c].v] = c
  <2>1. rq[c].v \in Versions /\ vlock[rq[c].v] = c /\ c # w
    BY <1>2, ConstantsAssumption DEF Memory, RequestLocked, Locking
  <2>. QED BY <2>1, ReleaseFrame DEF Procs
<1>. QED BY <1>1, <1>2 DEF Locking

LEMMA RequestReleases ==
  ASSUME TypeOK, Memory, Locking, NEW c \in Clients, Finish(c), wk' = wk, rq' = rq
  PROVE  Locking'
<1>0. /\ pc'[c] = "done" /\ ReleaseLocks(c)
      /\ \A d \in Clients : d # c => pc'[d] = pc[d]
      /\ \A w \in Workers : pc'[w] = pc[w]
  BY RequestFrame DEF Finish
<1>1. ASSUME NEW x \in Workers
      PROVE  /\ pc'[x] \in WorkerLocked => vlock'[wk'[x].v] = x
             /\ pc'[x] \in AwaitingCommit => jlock'[wk'[x].v] = x
  <2>1. pc[x] \in WorkerLocked \cup AwaitingCommit => wk[x].v \in Versions
    BY DEF Memory, Claiming, WorkerLocked, AwaitingCommit
  <2>2. x # c
    BY ConstantsAssumption
  <2>. QED BY <1>0, <2>1, <2>2, ReleaseFrame DEF Locking, Procs
<1>2. ASSUME NEW d \in Clients, pc'[d] \in RequestLocked
      PROVE  vlock'[rq'[d].v] = d
  <2>1. d # c
    BY <1>0, <1>2 DEF RequestLocked
  <2>2. rq[d].v \in Versions /\ vlock[rq[d].v] = d
    BY <1>0, <1>2, <2>1 DEF Memory, RequestLocked, Locking
  <2>. QED BY <1>0, <2>1, <2>2, ReleaseFrame DEF Procs
<1>. QED BY <1>1, <1>2 DEF Locking

(* A request takes the lock of its version. *)
LEMMA RequestLocks ==
  ASSUME TypeOK, Memory, Locking, NEW c \in Clients, NEW label, Goto(c, label),
         pc[c] # "idle", vlock[rq[c].v] \in {None, c}, wk' = wk, rq' = rq,
         vlock' = [vlock EXCEPT ![rq[c].v] = c],
         \A v \in Versions, w \in Workers : jlock[v] = w => jlock'[v] = w
  PROVE  Locking'
<1>1. /\ pc'[c] = label
      /\ \A d \in Clients : d # c => pc'[d] = pc[d]
      /\ \A w \in Workers : pc'[w] = pc[w]
  BY RequestFrame
<1>2. rq[c].v \in Versions
  BY DEF Memory
<1>3. \A v \in Versions, q \in Procs : vlock[v] = q => vlock'[v] = q
  BY <1>2, ConstantsAssumption DEF TypeOK, Procs
<1>4. vlock'[rq[c].v] = c
  BY <1>2 DEF TypeOK
<1>5. \A w \in Workers : pc[w] \in WorkerLocked \cup AwaitingCommit => wk[w].v \in Versions
  BY DEF Memory, Claiming, WorkerLocked, AwaitingCommit
<1>6. \A d \in Clients : pc[d] \in RequestLocked => rq[d].v \in Versions
  BY DEF Memory, RequestLocked
<1>. QED BY <1>1, <1>3, <1>4, <1>5, <1>6 DEF Locking, Procs

LEMMA LockingStep ==
  ASSUME TypeOK, Memory, Locking, [Next]_vars
  PROVE  Locking'
<1>1. ASSUME NEW v \in Versions, NEW u \in Users, Upload(v, u) PROVE Locking'
  BY <1>1 DEF Upload, Locking, TypeOK, WorkerLocked, RequestLocked, AwaitingCommit
<1>2. ASSUME NEW u \in Users, Revoke(u) PROVE Locking'
  BY <1>2 DEF Revoke, Locking, TypeOK, WorkerLocked, RequestLocked, AwaitingCommit
<1>3. ASSUME NEW u \in Users, Grant(u) PROVE Locking'
  BY <1>3 DEF Grant, Locking, TypeOK, WorkerLocked, RequestLocked, AwaitingCommit
<1>4. CASE Tick
  BY <1>4 DEF Tick, Locking, TypeOK, WorkerLocked, RequestLocked, AwaitingCommit
<1>5. ASSUME NEW w \in Workers, StartDrain(w) PROVE Locking'
  BY <1>5, WorkerFrame DEF StartDrain, Locking, TypeOK, WorkerLocked, RequestLocked, AwaitingCommit, Goto
<1>6. ASSUME NEW w \in Workers, Claim(w) PROVE Locking'
  BY <1>6, WorkerFrame DEF Claim, Locking, TypeOK, WorkerLocked, RequestLocked, AwaitingCommit, Goto
<1>7. ASSUME NEW w \in Workers, NoWork(w) PROVE Locking'
  BY <1>7, WorkerFrame DEF NoWork, Locking, TypeOK, WorkerLocked, RequestLocked, AwaitingCommit, Goto
<1>8. ASSUME NEW w \in Workers, ReadPrincipal(w) PROVE Locking'
  BY <1>8, WorkerFrame DEF ReadPrincipal, Locking, TypeOK, WorkerLocked, RequestLocked, AwaitingCommit, Goto
<1>9. ASSUME NEW w \in Workers, ReadVersion(w) PROVE Locking'
  BY <1>9, WorkerFrame DEF ReadVersion, Locking, TypeOK, WorkerLocked, RequestLocked, AwaitingCommit, Goto
<1>10. ASSUME NEW w \in Workers, Inspect(w) PROVE Locking'
  BY <1>10, WorkerFrame DEF Inspect, Locking, TypeOK, WorkerLocked, RequestLocked, AwaitingCommit, Goto
<1>11. ASSUME NEW w \in Workers, LockVersion(w) PROVE Locking'
  BY <1>11, WorkerFrame, ConstantsAssumption DEF LockVersion, Locking, TypeOK, WorkerLocked, RequestLocked, AwaitingCommit, Memory, Claiming, Procs
<1>12. ASSUME NEW w \in Workers, Fenced(w) PROVE Locking'
  BY <1>12, NextRoundFrame, WorkerReleases DEF Fenced
<1>13. ASSUME NEW w \in Workers, Confirm(w) PROVE Locking'
  BY <1>13, WorkerFrame, ConstantsAssumption DEF Confirm, Locking, TypeOK, WorkerLocked, RequestLocked, AwaitingCommit, Memory, Claiming, Procs
<1>14. ASSUME NEW w \in Workers, Recheck(w) PROVE Locking'
  BY <1>14, WorkerFrame DEF Recheck, Locking, TypeOK, WorkerLocked, RequestLocked, AwaitingCommit, Goto
<1>15. ASSUME NEW w \in Workers, Publish(w) PROVE Locking'
  BY <1>15, NextRoundFrame, WorkerReleases DEF Publish
<1>16. ASSUME NEW w \in Workers, Crash(w) PROVE Locking'
  <2>1. \A x \in Workers : x # w => wk'[x] = wk[x]
    BY <1>16 DEF Crash, TypeOK
  <2>. QED BY <1>16, <2>1, WorkerFrame, WorkerReleases DEF Crash
<1>17. ASSUME NEW c \in Clients, NEW kind \in {"enqueue", "scan"}, NEW v \in Versions,
              NEW u \in Users, Admit(c, kind, v, u) PROVE Locking'
  <2>1. /\ Goto(c, "lock_version") /\ wk' = wk /\ vlock' = vlock /\ jlock' = jlock
        /\ \A d \in Clients : d # c => rq'[d] = rq[d]
    BY <1>17 DEF Admit, TypeOK
  <2>. QED BY <2>1, RequestFrame DEF Locking, RequestLocked
<1>18. ASSUME NEW c \in Clients, EnqueueLockVersion(c) PROVE Locking'
  <2>1. CASE Finish(c)
    BY <1>18, <2>1, RequestReleases DEF EnqueueLockVersion
  <2>2. CASE vlock' = [vlock EXCEPT ![rq[c].v] = c] /\ Goto(c, "read_job") /\ UNCHANGED jlock
    BY <1>18, <2>2, RequestLocks DEF EnqueueLockVersion, Requested
  <2>. QED BY <1>18, <2>1, <2>2 DEF EnqueueLockVersion
<1>19. ASSUME NEW c \in Clients, EnqueueReadJob(c) PROVE Locking'
  <2>1. CASE Finish(c)
    BY <1>19, <2>1, RequestReleases DEF EnqueueReadJob
  <2>2. CASE Queueable(rq[c].v)
    <3>1. rq[c].v \in Versions /\ vlock[rq[c].v] = c
      BY <1>19 DEF EnqueueReadJob, Memory, Locking, RequestLocked
    <3>2. \A v \in Versions, w \in Workers : jlock[v] = w => jlock'[v] = w
      BY <1>19, <2>2, <3>1, ConstantsAssumption DEF EnqueueReadJob, TypeOK, Procs
    <3>3. vlock' = [vlock EXCEPT ![rq[c].v] = c]
      BY <1>19, <2>2, <3>1 DEF EnqueueReadJob, TypeOK
    <3>. QED BY <1>19, <2>2, <3>1, <3>2, <3>3, RequestLocks DEF EnqueueReadJob
  <2>. QED BY <1>19, <2>1, <2>2 DEF EnqueueReadJob
<1>20. ASSUME NEW c \in Clients, EnqueueCommit(c) PROVE Locking'
  BY <1>20, RequestReleases DEF EnqueueCommit
<1>21. ASSUME NEW c \in Clients, ScanLockVersion(c) PROVE Locking'
  <2>1. CASE Finish(c)
    BY <1>21, <2>1, RequestReleases DEF ScanLockVersion
  <2>2. CASE vlock' = [vlock EXCEPT ![rq[c].v] = c] /\ Goto(c, "scan") /\ UNCHANGED jlock
    BY <1>21, <2>2, RequestLocks DEF ScanLockVersion, Requested
  <2>. QED BY <1>21, <2>1, <2>2 DEF ScanLockVersion
<1>22. ASSUME NEW c \in Clients, ScanInspect(c) PROVE Locking'
  <2>1. \A d \in Clients : rq'[d].v = rq[d].v
    BY <1>22, Typed DEF ScanInspect, TypeOK, Requests
  <2>2. /\ pc[c] = "scan" /\ Goto(c, "commit_scan")
        /\ wk' = wk /\ vlock' = vlock /\ jlock' = jlock
    BY <1>22 DEF ScanInspect
  <2>. QED BY <2>1, <2>2, RequestFrame DEF Locking, RequestLocked
<1>23. ASSUME NEW c \in Clients, ScanCommit(c) PROVE Locking'
  BY <1>23, RequestReleases DEF ScanCommit
<1>24. ASSUME NEW c \in Clients, Abort(c) PROVE Locking'
  BY <1>24, RequestReleases DEF Abort
<1>25. CASE UNCHANGED vars
  BY <1>25 DEF vars, Locking, TypeOK, WorkerLocked, RequestLocked, AwaitingCommit
<1>. QED
  BY <1>1, <1>2, <1>3, <1>4, <1>5, <1>6, <1>7, <1>8, <1>9, <1>10, <1>11, <1>12, <1>13, <1>14, <1>15, <1>16, <1>17, <1>18, <1>19, <1>20, <1>21, <1>22, <1>23, <1>24, <1>25
  DEF Next, WorkerStep, RequestStep

-----------------------------------------------------------------------------
(* Rows under the version lock. *)

LEMMA RowsStep ==
  ASSUME TypeOK, Memory, Locking, Rows, PublisherOwns, [Next]_vars
  PROVE  Rows'
<1>1. ASSUME NEW v \in Versions, NEW u \in Users, Upload(v, u) PROVE Rows'
  BY <1>1 DEF Upload, Rows, TypeOK, Memory, Locking, RequestLocked
<1>2. ASSUME NEW u \in Users, Revoke(u) PROVE Rows'
  BY <1>2 DEF Revoke, Rows, TypeOK, Memory, Locking, RequestLocked
<1>3. ASSUME NEW u \in Users, Grant(u) PROVE Rows'
  BY <1>3 DEF Grant, Rows, TypeOK, Memory, Locking, RequestLocked
<1>4. CASE Tick
  BY <1>4, TickFacts DEF Tick, Rows, TypeOK, Memory, Locking, RequestLocked
<1>5. ASSUME NEW w \in Workers, StartDrain(w) PROVE Rows'
  BY <1>5, WorkerFrame, ConstantsAssumption DEF StartDrain, Rows, TypeOK, Memory, Locking, RequestLocked
<1>6. ASSUME NEW w \in Workers, Claim(w) PROVE Rows'
  <2>1. PICK v \in Versions, t \in FreshTokens, l \in Leases :
           /\ job[v].status \in {"pending", "running"} /\ jlock[v] = None
           /\ job' = [job EXCEPT ![v] =
                        [job[v] EXCEPT !.status = "running", !.claim_token = t,
                                       !.lease_until = l, !.attempts = job[v].attempts + 1]]
           /\ wk' = [wk EXCEPT ![w] =
                       [Forgotten EXCEPT !.v = v, !.token = t,
                                         !.actor = job[v].requested_by,
                                         !.left = wk[w].left - 1]]
    BY <1>6, TypeOK, ClaimFacts
  <2>2. \A u \in Versions : /\ job'[u].status = IF u = v THEN "running" ELSE job[u].status
    BY <2>1 DEF TypeOK, JobRows
  <2>3. Goto(w, "read_principal") /\ rq' = rq /\ content' = content
    BY <1>6 DEF Claim
  <2>. QED BY <2>1, <2>2, <2>3, WorkerFrame DEF Rows, Memory
<1>7. ASSUME NEW w \in Workers, NoWork(w) PROVE Rows'
  BY <1>7, WorkerFrame, ConstantsAssumption DEF NoWork, Rows, TypeOK, Memory, Locking, RequestLocked
<1>8. ASSUME NEW w \in Workers, ReadPrincipal(w) PROVE Rows'
  BY <1>8, WorkerFrame, ConstantsAssumption DEF ReadPrincipal, Rows, TypeOK, Memory, Locking, RequestLocked
<1>9. ASSUME NEW w \in Workers, ReadVersion(w) PROVE Rows'
  BY <1>9, WorkerFrame, ConstantsAssumption DEF ReadVersion, Rows, TypeOK, Memory, Locking, RequestLocked
<1>10. ASSUME NEW w \in Workers, Inspect(w) PROVE Rows'
  BY <1>10, WorkerFrame, ConstantsAssumption DEF Inspect, Rows, TypeOK, Memory, Locking, RequestLocked
<1>11. ASSUME NEW w \in Workers, LockVersion(w) PROVE Rows'
  BY <1>11, WorkerFrame, ConstantsAssumption DEF LockVersion, Rows, TypeOK, Memory, Locking, RequestLocked
<1>12. ASSUME NEW w \in Workers, Fenced(w) PROVE Rows'
  BY <1>12, NextRoundFrame DEF Fenced, Rows, TypeOK, Memory, Locking, RequestLocked
<1>13. ASSUME NEW w \in Workers, Confirm(w) PROVE Rows'
  BY <1>13, WorkerFrame, ConstantsAssumption DEF Confirm, Rows, TypeOK, Memory, Locking, RequestLocked
<1>14. ASSUME NEW w \in Workers, Recheck(w) PROVE Rows'
  BY <1>14, WorkerFrame, ConstantsAssumption DEF Recheck, Rows, TypeOK, Memory, Locking, RequestLocked
<1>15. ASSUME NEW w \in Workers, Publish(w) PROVE Rows'
  <2>1. /\ wk[w].v \in Versions /\ vlock[wk[w].v] = w /\ job[wk[w].v].status = "running"
        /\ wk[w].verdict \in Verdicts
    BY <1>15, Typed DEF Publish, Memory, Claiming, Locking, WorkerLocked, PublisherOwns,
                     AwaitingCommit, Owner, Running, WorkerMemory
  <2>2. content'[wk[w].v] # "pending_upload"
    BY <1>15, <2>1 DEF Publish, PublishedContent, Decides, Rows, TypeOK, Verdicts, Terminal
  <2>3. \A v \in Versions \ {wk[w].v} : content'[v] = content[v] /\ job'[v] = job[v]
    BY <1>15, <2>1 DEF Publish, TypeOK
  <2>4. \A c \in Clients : pc[c] \in RequestLocked => rq[c].v \in Versions \ {wk[w].v}
    BY <2>1, ConstantsAssumption DEF Locking, Memory, RequestLocked
  <2>5. rq' = rq /\ \A c \in Clients : pc'[c] = pc[c]
    BY <1>15, NextRoundFrame DEF Publish
  <2>. QED BY <2>2, <2>3, <2>4, <2>5 DEF Rows, RequestLocked
<1>16. ASSUME NEW w \in Workers, Crash(w) PROVE Rows'
  BY <1>16, WorkerFrame, ConstantsAssumption DEF Crash, Rows, TypeOK, Memory, Locking, RequestLocked
<1>17. ASSUME NEW c \in Clients, NEW kind \in {"enqueue", "scan"}, NEW v \in Versions,
              NEW u \in Users, Admit(c, kind, v, u) PROVE Rows'
  <2>1. /\ Goto(c, "lock_version") /\ job' = job /\ content' = content
        /\ \A d \in Clients : d # c => rq'[d] = rq[d]
    BY <1>17 DEF Admit, TypeOK
  <2>. QED BY <2>1, RequestFrame DEF Rows
<1>18. ASSUME NEW c \in Clients, EnqueueLockVersion(c) PROVE Rows'
  <2>1. rq' = rq /\ job' = job /\ content' = content
    BY <1>18 DEF EnqueueLockVersion
  <2>2. CASE Finish(c)
    BY <2>1, <2>2, RequestFrame DEF Finish, Rows
  <2>3. CASE Goto(c, "read_job") /\ content[rq[c].v] \notin {"pending_upload"}
    BY <2>1, <2>3, RequestFrame DEF Rows
  <2>. QED BY <1>18, <2>2, <2>3 DEF EnqueueLockVersion
<1>19. ASSUME NEW c \in Clients, EnqueueReadJob(c) PROVE Rows'
  <2>1. rq' = rq /\ job' = job /\ content' = content /\ pc[c] = "read_job"
    BY <1>19 DEF EnqueueReadJob
  <2>2. CASE Finish(c)
    BY <2>1, <2>2, RequestFrame DEF Finish, Rows
  <2>3. CASE Goto(c, "commit_job") /\ Queueable(rq[c].v)
    BY <2>1, <2>3, RequestFrame DEF Rows, Queueable
  <2>. QED BY <1>19, <2>2, <2>3 DEF EnqueueReadJob
<1>20. ASSUME NEW c \in Clients, EnqueueCommit(c) PROVE Rows'
  BY <1>20, RequestFrame, ConstantsAssumption, Typed DEF EnqueueCommit, Rows, TypeOK, Memory, Locking, RequestLocked, Finish, Terminal, Requests, Verdicts
<1>21. ASSUME NEW c \in Clients, ScanLockVersion(c) PROVE Rows'
  <2>1. rq' = rq /\ job' = job /\ content' = content
    BY <1>21 DEF ScanLockVersion
  <2>2. CASE Finish(c)
    BY <2>1, <2>2, RequestFrame DEF Finish, Rows
  <2>3. CASE Goto(c, "scan") /\ content[rq[c].v] \notin Terminal \cup {"pending_upload"}
    BY <2>1, <2>3, RequestFrame DEF Rows
  <2>. QED BY <1>21, <2>2, <2>3 DEF ScanLockVersion
<1>22. ASSUME NEW c \in Clients, ScanInspect(c) PROVE Rows'
  <2>1. \A d \in Clients : rq'[d].v = rq[d].v
    BY <1>22, Typed DEF ScanInspect, TypeOK, Requests
  <2>2. /\ pc[c] = "scan" /\ Goto(c, "commit_scan") /\ job' = job /\ content' = content
    BY <1>22 DEF ScanInspect
  <2>. QED BY <2>1, <2>2, RequestFrame DEF Rows
<1>23. ASSUME NEW c \in Clients, ScanCommit(c) PROVE Rows'
  BY <1>23, RequestFrame, ConstantsAssumption, Typed DEF ScanCommit, Rows, TypeOK, Memory, Locking, RequestLocked, Finish, Terminal, Requests, Verdicts
<1>24. ASSUME NEW c \in Clients, Abort(c) PROVE Rows'
  <2>1. Goto(c, "done") /\ job' = job /\ content' = content /\ rq' = rq
    BY <1>24 DEF Abort, Finish
  <2>. QED BY <2>1, RequestFrame DEF Rows
<1>25. CASE UNCHANGED vars
  BY <1>25 DEF vars, Rows, TypeOK, Memory, Locking, RequestLocked
<1>. QED
  BY <1>1, <1>2, <1>3, <1>4, <1>5, <1>6, <1>7, <1>8, <1>9, <1>10, <1>11, <1>12, <1>13, <1>14, <1>15, <1>16, <1>17, <1>18, <1>19, <1>20, <1>21, <1>22, <1>23, <1>24, <1>25
  DEF Next, WorkerStep, RequestStep

-----------------------------------------------------------------------------
(* Claims. *)

(* Whoever holds the claim acts in the requester's name. *)
Acting == \A w \in Workers : Owner(w) => wk[w].actor = job[wk[w].v].requested_by

Claims == SingleOwner /\ PublisherOwns /\ Acting

LEMMA TickKeeps ==
  ASSUME TypeOK, Tick
  PROVE  \A v \in Versions : /\ job'[v].status = job[v].status
                             /\ job'[v].claim_token = job[v].claim_token
                             /\ job'[v].requested_by = job[v].requested_by
<1> SUFFICES ASSUME NEW v \in Versions
             PROVE  /\ job'[v].status = job[v].status
                    /\ job'[v].claim_token = job[v].claim_token
                    /\ job'[v].requested_by = job[v].requested_by
  OBVIOUS
<1>1. job[v] \in JobRows
  BY Typed
<1>2. \/ job'[v] = job[v]
      \/ \E l \in Leases : job'[v] = [job[v] EXCEPT !.lease_until = l]
  BY TickFacts
<1>. QED BY <1>1, <1>2 DEF JobRows

(* A step that claims nothing, takes no running job over and leaves those  *)
(* about to commit their claims.                                           *)
LEMMA ClaimsFrame ==
  ASSUME Memory, Claims,
         \A x \in Workers : Claiming(x)' => /\ Claiming(x)
                                            /\ wk'[x].v = wk[x].v
                                            /\ wk'[x].token = wk[x].token
                                            /\ wk'[x].actor = wk[x].actor,
         \A v \in Versions : job'[v].status = "running" =>
                               /\ job[v].status = "running"
                               /\ job'[v].claim_token = job[v].claim_token
                               /\ job'[v].requested_by = job[v].requested_by,
         \A x \in Workers : pc'[x] \in AwaitingCommit =>
                               /\ Owner(x)
                               /\ job'[wk[x].v].status = "running"
  PROVE  Claims'
<1>1. \A x \in Workers : Owner(x)' => /\ Owner(x) /\ wk[x].v \in Versions
                                      /\ wk'[x].v = wk[x].v
                                      /\ wk'[x].actor = wk[x].actor
                                      /\ job'[wk[x].v].requested_by = job[wk[x].v].requested_by
  BY DEF Owner, Running, Memory, Claiming
<1>2. SingleOwner'
  BY <1>1 DEF Claims, SingleOwner
<1>3. Acting'
  BY <1>1 DEF Claims, Acting
<1>4. PublisherOwns'
  <2> SUFFICES ASSUME NEW x \in Workers, pc'[x] \in AwaitingCommit
               PROVE  Owner(x)'
    BY DEF PublisherOwns
  <2>1. Claiming(x)'
    BY DEF Claiming, AwaitingCommit
  <2>. QED BY <2>1 DEF Owner, Running, Memory
<1>. QED BY <1>2, <1>3, <1>4 DEF Claims

(* The common case: the step changes no job row. *)
LEMMA ClaimsQuiet ==
  ASSUME TypeOK, Memory, Claims, job' = job, NEW w \in Workers,
         \A x \in Workers \ {w} : pc'[x] = pc[x] /\ wk'[x] = wk[x],
         Claiming(w)' => /\ Claiming(w)
                         /\ wk'[w].v = wk[w].v
                         /\ wk'[w].token = wk[w].token
                         /\ wk'[w].actor = wk[w].actor,
         pc'[w] \in AwaitingCommit => Owner(w)
  PROVE  Claims'
<1>1. \A x \in Workers : Claiming(x)' => /\ Claiming(x)
                                         /\ wk'[x].v = wk[x].v
                                         /\ wk'[x].token = wk[x].token
                                         /\ wk'[x].actor = wk[x].actor
  BY DEF Claiming
<1>2. \A x \in Workers : pc'[x] \in AwaitingCommit => Owner(x)
  BY DEF Claims, PublisherOwns
<1>3. \A x \in Workers : Owner(x) => job'[wk[x].v].status = "running"
  BY DEF Owner, Running
<1>. QED BY <1>1, <1>2, <1>3, ClaimsFrame

LEMMA ClaimsUntouched ==
  ASSUME TypeOK, Memory, Claims, job' = job, wk' = wk, \A x \in Workers : pc'[x] = pc[x]
  PROVE  Claims'
<1>1. \A x \in Workers : Claiming(x)' = Claiming(x)
  BY DEF Claiming
<1>2. \A x \in Workers : pc'[x] \in AwaitingCommit => Owner(x)
  BY DEF Claims, PublisherOwns
<1>3. \A x \in Workers : Owner(x) => job'[wk[x].v].status = "running"
  BY DEF Owner, Running
<1>. QED BY <1>1, <1>2, <1>3, ClaimsFrame

LEMMA ClaimsStep ==
  ASSUME TypeOK, Memory, Locking, Rows, Claims, [Next]_vars
  PROVE  Claims'
<1>1. ASSUME NEW v \in Versions, NEW u \in Users, Upload(v, u)
      PROVE  Claims'
  BY <1>1, ClaimsUntouched DEF Upload
<1>2. ASSUME NEW u \in Users, Revoke(u) \/ Grant(u) PROVE Claims'
  BY <1>2, ClaimsUntouched DEF Revoke, Grant
<1>3. CASE Tick
  <2>1. wk' = wk /\ pc' = pc
    BY <1>3 DEF Tick
  <2>2. \A x \in Workers : Claiming(x)' = Claiming(x)
    BY <2>1 DEF Claiming
  <2>3. \A x \in Workers : pc'[x] \in AwaitingCommit =>
          Owner(x) /\ job'[wk[x].v].status = "running"
    BY <1>3, <2>1, TickKeeps DEF Claims, PublisherOwns, Owner, Running, Memory
  <2>. QED BY <1>3, <2>1, <2>2, <2>3, TickKeeps, ClaimsFrame
<1>4. ASSUME NEW w \in Workers, StartDrain(w) \/ NoWork(w) \/ Crash(w) PROVE Claims'
  <2>1. /\ job' = job /\ pc'[w] \in {"idle", "poll"}
        /\ \A x \in Workers \ {w} : pc'[x] = pc[x] /\ wk'[x] = wk[x]
    BY <1>4, WorkerFrame DEF StartDrain, NoWork, Crash, TypeOK
  <2>. QED BY <2>1, ClaimsQuiet DEF Claiming, AwaitingCommit
<1>5. ASSUME NEW w \in Workers, Fenced(w) PROVE Claims'
  BY <1>5, NextRoundFrame, ClaimsQuiet DEF Fenced, Claiming, AwaitingCommit
<1>6. ASSUME NEW w \in Workers, Claim(w) PROVE Claims'
  <2>1. PICK v \in Versions, t \in FreshTokens, l \in Leases :
           /\ job[v].status \in {"pending", "running"} /\ jlock[v] = None
           /\ job' = [job EXCEPT ![v] =
                        [job[v] EXCEPT !.status = "running", !.claim_token = t,
                                       !.lease_until = l, !.attempts = job[v].attempts + 1]]
           /\ wk' = [wk EXCEPT ![w] =
                       [Forgotten EXCEPT !.v = v, !.token = t,
                                         !.actor = job[v].requested_by,
                                         !.left = wk[w].left - 1]]
    BY <1>6, TypeOK, ClaimFacts
  <2>2. t \in Tokens /\ \A x \in Workers : wk[x].token # t
    BY DEF FreshTokens
  <2>3. /\ job'[v].status = "running" /\ job'[v].claim_token = t
        /\ job'[v].requested_by = job[v].requested_by
        /\ \A u \in Versions \ {v} : job'[u] = job[u]
    BY <2>1, Typed DEF TypeOK, JobRows
  <2>4. /\ wk'[w].v = v /\ wk'[w].token = t /\ wk'[w].actor = job[v].requested_by
        /\ \A x \in Workers \ {w} : wk'[x] = wk[x]
    BY <2>1 DEF TypeOK, Forgotten
  <2>5. pc'[w] = "read_principal" /\ \A x \in Workers \ {w} : pc'[x] = pc[x]
    BY <1>6, WorkerFrame DEF Claim
  <2>6. \A x \in Workers \ {w} : Owner(x)' => Owner(x) /\ wk[x].v \in Versions \ {v}
    BY <2>2, <2>3, <2>4, <2>5 DEF Owner, Running, Memory, Claiming
  <2>7. SingleOwner'
    <3> SUFFICES ASSUME NEW a \in Workers, NEW b \in Workers, Owner(a)', Owner(b)',
                        wk'[a].v = wk'[b].v
                 PROVE  a = b
      BY DEF SingleOwner
    <3>1. CASE a # w /\ b # w
      BY <2>4, <2>6, <3>1 DEF Claims, SingleOwner
    <3>2. CASE a = w \/ b = w
      BY <2>4, <2>6, <3>2
    <3>. QED BY <3>1, <3>2
  <2>8. Acting'
    <3> SUFFICES ASSUME NEW x \in Workers, Owner(x)'
                 PROVE  wk'[x].actor = job'[wk'[x].v].requested_by
      BY DEF Acting
    <3>. QED BY <2>3, <2>4, <2>6 DEF Claims, Acting
  <2>9. PublisherOwns'
    <3> SUFFICES ASSUME NEW x \in Workers, pc'[x] \in AwaitingCommit PROVE Owner(x)'
      BY DEF PublisherOwns
    <3>1. x # w /\ pc[x] \in AwaitingCommit
      BY <2>5 DEF AwaitingCommit
    <3>2. Owner(x) /\ wk[x].v \in Versions /\ jlock[wk[x].v] = x
      BY <3>1 DEF Claims, PublisherOwns, Locking, Owner, Memory
    <3>3. wk[x].v # v
      BY <2>1, <3>2, ConstantsAssumption DEF Procs
    <3>. QED BY <2>3, <2>4, <2>5, <3>1, <3>2, <3>3 DEF Owner, Running, Claiming
  <2>. QED BY <2>7, <2>8, <2>9 DEF Claims
<1>7. ASSUME NEW w \in Workers,
             ReadPrincipal(w) \/ ReadVersion(w) \/ Inspect(w) \/ LockVersion(w) \/ Recheck(w)
      PROVE  Claims'
  <2>1. /\ job' = job /\ Claiming(w)
        /\ wk'[w].v = wk[w].v /\ wk'[w].token = wk[w].token /\ wk'[w].actor = wk[w].actor
        /\ \A x \in Workers \ {w} : wk'[x] = wk[x]
    BY <1>7, Typed
    DEF ReadPrincipal, ReadVersion, Inspect, LockVersion, Recheck, Claiming, TypeOK, WorkerMemory
  <2>2. \A x \in Workers \ {w} : pc'[x] = pc[x]
    BY <1>7, WorkerFrame DEF ReadPrincipal, ReadVersion, Inspect, LockVersion, Recheck
  <2>3. pc'[w] \in AwaitingCommit => Owner(w)
    BY <1>7, WorkerFrame DEF ReadPrincipal, ReadVersion, Inspect, LockVersion, Recheck,
                             AwaitingCommit, Claims, PublisherOwns
  <2>. QED BY <2>1, <2>2, <2>3, ClaimsQuiet
<1>8. ASSUME NEW w \in Workers, Confirm(w) PROVE Claims'
  <2>1. job' = job /\ wk' = wk /\ pc[w] = "lock_job" /\ Goto(w, "recheck")
    BY <1>8 DEF Confirm
  <2>2. PICK off \in Offsets : ~Stale(w, off)
    BY <1>8 DEF Confirm
  <2>3. Owner(w)
    BY <2>1, <2>2, Typed DEF Stale, LeaseHeld, Owner, Claiming, Running, JobRows, Memory
  <2>. QED BY <2>1, <2>3, WorkerFrame, ClaimsQuiet DEF Owner
<1>9. ASSUME NEW w \in Workers, Publish(w) PROVE Claims'
  <2>1. wk[w].v \in Versions /\ vlock[wk[w].v] = w
    BY <1>9 DEF Publish, Memory, Claiming, Locking, WorkerLocked
  <2>2. job'[wk[w].v].status # "running" /\ \A v \in Versions \ {wk[w].v} : job'[v] = job[v]
    BY <1>9, <2>1, Typed DEF Publish, SettledJob, Outcome, TypeOK, JobRows
  <2>3. /\ pc'[w] \in {"idle", "poll"}
        /\ \A x \in Workers \ {w} : pc'[x] = pc[x] /\ wk'[x] = wk[x]
    BY <1>9, NextRoundFrame DEF Publish
  <2>4. \A x \in Workers : pc'[x] \in AwaitingCommit =>
          Owner(x) /\ job'[wk[x].v].status = "running"
    <3> SUFFICES ASSUME NEW x \in Workers, pc'[x] \in AwaitingCommit
                 PROVE  Owner(x) /\ job'[wk[x].v].status = "running"
      OBVIOUS
    <3>1. x # w /\ pc[x] \in AwaitingCommit
      BY <2>3 DEF AwaitingCommit
    <3>2. Owner(x) /\ wk[x].v \in Versions /\ vlock[wk[x].v] = x
      BY <3>1 DEF Claims, PublisherOwns, Locking, WorkerLocked, AwaitingCommit, Memory, Claiming
    <3>. QED BY <2>1, <2>2, <3>1, <3>2 DEF Owner, Running
  <2>5. \A x \in Workers : Claiming(x)' => /\ Claiming(x)
                                           /\ wk'[x] = wk[x]
    BY <2>3 DEF Claiming
  <2>. QED BY <2>2, <2>4, <2>5, ClaimsFrame
<1>10. ASSUME NEW c \in Clients, NEW kind \in {"enqueue", "scan"}, NEW v \in Versions,
              NEW u \in Users, Admit(c, kind, v, u)
       PROVE  Claims'
  BY <1>10, RequestFrame, ClaimsUntouched DEF Admit
<1>11. ASSUME NEW c \in Clients,
              \/ EnqueueLockVersion(c) \/ EnqueueReadJob(c) \/ ScanLockVersion(c)
              \/ ScanInspect(c) \/ ScanCommit(c) \/ Abort(c)
       PROVE  Claims'
  <2>1. job' = job /\ wk' = wk /\ \E label : Goto(c, label)
    BY <1>11 DEF EnqueueLockVersion, EnqueueReadJob, ScanLockVersion, ScanInspect, ScanCommit,
                 Abort, Finish
  <2>. QED BY <2>1, RequestFrame, ClaimsUntouched
<1>12. ASSUME NEW c \in Clients, EnqueueCommit(c) PROVE Claims'
  <2>1. /\ rq[c].v \in Versions /\ job[rq[c].v].status # "running"
    BY <1>12 DEF EnqueueCommit, Memory, Rows
  <2>2. /\ job'[rq[c].v].status = "pending"
        /\ \A v \in Versions \ {rq[c].v} : job'[v] = job[v]
    BY <1>12, <2>1, Typed DEF EnqueueCommit, PendingJob, TypeOK, JobRows, NoJob
  <2>3. wk' = wk /\ \A x \in Workers : pc'[x] = pc[x]
    BY <1>12, RequestFrame DEF EnqueueCommit, Finish
  <2>4. \A x \in Workers : pc'[x] \in AwaitingCommit =>
          Owner(x) /\ job'[wk[x].v].status = "running"
    BY <2>1, <2>2, <2>3 DEF Claims, PublisherOwns, Owner, Running, Memory
  <2>5. \A x \in Workers : Claiming(x)' = Claiming(x)
    BY <2>3 DEF Claiming
  <2>. QED BY <2>2, <2>3, <2>4, <2>5, ClaimsFrame
<1>13. CASE UNCHANGED vars
  BY <1>13, ClaimsUntouched DEF vars
<1>. QED
  BY <1>1, <1>2, <1>3, <1>4, <1>5, <1>6, <1>7, <1>8, <1>9, <1>10, <1>11, <1>12, <1>13
  DEF Next, WorkerStep, RequestStep

-----------------------------------------------------------------------------
(* Verdicts. *)

(* A final verdict in somebody's hands was answered by the scanner for the *)
(* version it will be written on.                                          *)
Known ==
  /\ \A w \in Workers : Claiming(w) /\ wk[w].verdict \in Terminal =>
                          wk[w].verdict \in answers[wk[w].v]
  /\ \A c \in Clients : pc[c] # "idle" /\ rq[c].verdict \in Terminal =>
                          rq[c].verdict \in answers[rq[c].v]

Contents == Known /\ VerdictWasAnswered /\ CompletedMeansVerdict

LEMMA VerdictOfTerminal ==
  ASSUME NEW answer, VerdictOf(answer) \in Terminal
  PROVE  VerdictOf(answer) = answer
  BY DEF VerdictOf, Terminal

LEMMA ContentsFrame ==
  ASSUME Memory, Contents, answers' = answers, content' = content,
         \A x \in Workers : Claiming(x)' /\ wk'[x].verdict \in Terminal =>
                              /\ Claiming(x)
                              /\ wk'[x].v = wk[x].v
                              /\ wk'[x].verdict = wk[x].verdict,
         \A c \in Clients : pc'[c] # "idle" /\ rq'[c].verdict \in Terminal =>
                              /\ pc[c] # "idle"
                              /\ rq'[c].v = rq[c].v
                              /\ rq'[c].verdict = rq[c].verdict,
         \A v \in Versions : job'[v].status = "completed" => job[v].status = "completed"
  PROVE  Contents'
  BY DEF Contents, Known, VerdictWasAnswered, CompletedMeansVerdict

(* The step of a worker that changes neither content nor job rows. *)
LEMMA ContentsWorker ==
  ASSUME TypeOK, Memory, Contents, NEW w \in Workers,
         answers' = answers, content' = content, job' = job, rq' = rq,
         \A x \in Workers \ {w} : pc'[x] = pc[x] /\ wk'[x] = wk[x],
         \A c \in Clients : pc'[c] = pc[c],
         Claiming(w)' => Claiming(w) /\ wk'[w].v = wk[w].v /\ wk'[w].verdict = wk[w].verdict
  PROVE  Contents'
  BY ContentsFrame DEF Claiming

(* The step of a request that changes neither content nor answers. *)
LEMMA ContentsRequest ==
  ASSUME TypeOK, Memory, Contents, NEW c \in Clients, NEW label, Goto(c, label),
         pc[c] # "idle", answers' = answers, content' = content, wk' = wk, rq' = rq,
         \A v \in Versions : job'[v].status = "completed" => job[v].status = "completed"
  PROVE  Contents'
  BY RequestFrame, ContentsFrame DEF Claiming

LEMMA ContentsStep ==
  ASSUME TypeOK, Memory, Locking, Rows, Claims, Contents, [Next]_vars
  PROVE  Contents'
<1>1. ASSUME NEW v \in Versions, NEW u \in Users, Upload(v, u) PROVE Contents'
  <2>1. /\ content[v] = "pending_upload" /\ content'[v] = "pending_scan"
        /\ \A x \in Versions \ {v} : content'[x] = content[x]
        /\ UNCHANGED <<pc, wk, rq, job, answers>>
    BY <1>1 DEF Upload, TypeOK
  <2>. QED
    BY <2>1 DEF Contents, Known, VerdictWasAnswered, CompletedMeansVerdict, Claiming, Terminal
<1>2. ASSUME NEW u \in Users, Revoke(u) \/ Grant(u) PROVE Contents'
  BY <1>2, ContentsFrame DEF Revoke, Grant, Claiming
<1>3. CASE Tick
  BY <1>3, TickKeeps, ContentsFrame DEF Tick, Claiming
<1>4. ASSUME NEW w \in Workers, StartDrain(w) \/ NoWork(w) \/ Crash(w) PROVE Contents'
  <2>1. /\ answers' = answers /\ content' = content /\ job' = job /\ rq' = rq
        /\ pc'[w] \in {"idle", "poll"} /\ \A c \in Clients : pc'[c] = pc[c]
        /\ \A x \in Workers \ {w} : pc'[x] = pc[x] /\ wk'[x] = wk[x]
    BY <1>4, WorkerFrame DEF StartDrain, NoWork, Crash, TypeOK
  <2>. QED BY <2>1, ContentsWorker DEF Claiming
<1>5. ASSUME NEW w \in Workers, Fenced(w) PROVE Contents'
  BY <1>5, NextRoundFrame, ContentsWorker DEF Fenced, Claiming
<1>6. ASSUME NEW w \in Workers, Claim(w) PROVE Contents'
  <2>1. PICK v \in Versions, t \in FreshTokens, l \in Leases :
           /\ job[v].status \in {"pending", "running"} /\ jlock[v] = None
           /\ job' = [job EXCEPT ![v] =
                        [job[v] EXCEPT !.status = "running", !.claim_token = t,
                                       !.lease_until = l, !.attempts = job[v].attempts + 1]]
           /\ wk' = [wk EXCEPT ![w] =
                       [Forgotten EXCEPT !.v = v, !.token = t,
                                         !.actor = job[v].requested_by,
                                         !.left = wk[w].left - 1]]
    BY <1>6, TypeOK, ClaimFacts
  <2>2. \A u \in Versions : job'[u].status = "completed" => job[u].status = "completed"
    BY <2>1, Typed DEF TypeOK, JobRows
  <2>3. /\ wk'[w].verdict \notin Terminal
        /\ \A x \in Workers \ {w} : wk'[x] = wk[x]
    BY <2>1 DEF TypeOK, Forgotten, Terminal
  <2>4. /\ answers' = answers /\ content' = content /\ rq' = rq
        /\ \A x \in Workers \ {w} : pc'[x] = pc[x]
        /\ \A c \in Clients : pc'[c] = pc[c]
    BY <1>6, WorkerFrame DEF Claim
  <2>. QED BY <2>2, <2>3, <2>4, ContentsFrame DEF Claiming
<1>7. ASSUME NEW w \in Workers,
             ReadPrincipal(w) \/ ReadVersion(w) \/ LockVersion(w) \/ Confirm(w) \/ Recheck(w)
      PROVE  Contents'
  <2>1. /\ answers' = answers /\ content' = content /\ job' = job /\ rq' = rq /\ Claiming(w)
        /\ wk'[w].v = wk[w].v /\ wk'[w].verdict = wk[w].verdict
        /\ \A x \in Workers \ {w} : wk'[x] = wk[x]
    BY <1>7, Typed
    DEF ReadPrincipal, ReadVersion, LockVersion, Confirm, Recheck, Claiming, TypeOK, WorkerMemory
  <2>2. \E label : Goto(w, label)
    BY <1>7 DEF ReadPrincipal, ReadVersion, LockVersion, Confirm, Recheck
  <2>. QED BY <2>1, <2>2, WorkerFrame, ContentsWorker
<1>8. ASSUME NEW w \in Workers, Inspect(w) PROVE Contents'
  <2>1. PICK answer \in Answers :
          /\ wk' = [wk EXCEPT ![w].verdict = VerdictOf(answer)]
          /\ answers' = [answers EXCEPT ![wk[w].v] = @ \cup {answer}]
    BY <1>8 DEF Inspect
  <2>2. /\ pc[w] = "inspect" /\ Goto(w, "lock_version")
        /\ content' = content /\ job' = job /\ rq' = rq
    BY <1>8 DEF Inspect
  <2>3. wk[w].v \in Versions /\ Claiming(w)
    BY <2>2 DEF Memory, Claiming
  <2>4. /\ wk'[w].v = wk[w].v /\ wk'[w].verdict = VerdictOf(answer)
        /\ \A x \in Workers \ {w} : wk'[x] = wk[x]
    BY <2>1, Typed DEF TypeOK, WorkerMemory
  <2>5. answer \in answers'[wk[w].v] /\ \A v \in Versions : answers[v] \subseteq answers'[v]
    BY <2>1, <2>3 DEF TypeOK
  <2>6. VerdictOf(answer) \in Terminal => VerdictOf(answer) \in answers'[wk[w].v]
    BY <2>5, VerdictOfTerminal
  <2>7. Known'
    BY <2>2, <2>4, <2>5, <2>6, WorkerFrame DEF Contents, Known, Memory, Claiming
  <2>. QED BY <2>2, <2>5, <2>7 DEF Contents, VerdictWasAnswered, CompletedMeansVerdict
<1>9. ASSUME NEW w \in Workers, Publish(w) PROVE Contents'
  <2> DEFINE v == wk[w].v
  <2>1. v \in Versions /\ Claiming(w)
    BY <1>9 DEF Publish, Memory, Claiming
  <2>2. /\ answers' = answers /\ rq' = rq
        /\ pc'[w] \in {"idle", "poll"} /\ \A c \in Clients : pc'[c] = pc[c]
        /\ \A x \in Workers \ {w} : pc'[x] = pc[x] /\ wk'[x] = wk[x]
    BY <1>9, NextRoundFrame DEF Publish
  <2>3. /\ content'[v] = PublishedContent(w)
        /\ job'[v].status = Outcome(w)
        /\ \A x \in Versions \ {v} : content'[x] = content[x] /\ job'[x] = job[x]
    BY <1>9, <2>1, Typed DEF Publish, SettledJob, TypeOK, JobRows
  <2>4. Known'
    BY <2>2 DEF Contents, Known, Claiming
  <2>5. PublishedContent(w) \in Terminal => PublishedContent(w) \in answers[v]
    BY <2>1 DEF Contents, Known, VerdictWasAnswered, PublishedContent
  <2>6. Outcome(w) = "completed" => PublishedContent(w) \in Terminal
    BY DEF Outcome
  <2> HIDE DEF v
  <2>7. VerdictWasAnswered'
    BY <2>1, <2>2, <2>3, <2>5 DEF Contents, VerdictWasAnswered
  <2>8. CompletedMeansVerdict'
    BY <2>1, <2>3, <2>6 DEF Contents, CompletedMeansVerdict
  <2>. QED BY <2>4, <2>7, <2>8 DEF Contents
<1>10. ASSUME NEW c \in Clients, NEW kind \in {"enqueue", "scan"}, NEW v \in Versions,
              NEW u \in Users, Admit(c, kind, v, u)
       PROVE  Contents'
  <2>1. /\ answers' = answers /\ content' = content /\ wk' = wk /\ job' = job
        /\ rq'[c].verdict \notin Terminal
        /\ \A d \in Clients \ {c} : rq'[d] = rq[d]
        /\ Goto(c, "lock_version")
    BY <1>10 DEF Admit, TypeOK, Terminal
  <2>. QED BY <2>1, RequestFrame, ContentsFrame DEF Claiming
<1>11. ASSUME NEW c \in Clients,
              \/ EnqueueLockVersion(c) \/ EnqueueReadJob(c) \/ ScanLockVersion(c) \/ Abort(c)
       PROVE  Contents'
  <2>1. /\ pc[c] # "idle" /\ answers' = answers /\ content' = content
        /\ wk' = wk /\ rq' = rq /\ job' = job /\ \E label : Goto(c, label)
    BY <1>11 DEF EnqueueLockVersion, EnqueueReadJob, ScanLockVersion, Abort, Finish, Requested
  <2>. QED BY <2>1, ContentsRequest
<1>12. ASSUME NEW c \in Clients, EnqueueCommit(c) PROVE Contents'
  <2>1. rq[c].v \in Versions
    BY <1>12 DEF EnqueueCommit, Memory
  <2>2. \A v \in Versions : job'[v].status = "completed" => job[v].status = "completed"
    BY <1>12, <2>1, Typed DEF EnqueueCommit, PendingJob, TypeOK, JobRows, NoJob
  <2>. QED BY <1>12, <2>2, ContentsRequest DEF EnqueueCommit, Finish
<1>13. ASSUME NEW c \in Clients, ScanInspect(c) PROVE Contents'
  <2>1. PICK answer \in Answers :
          /\ rq' = [rq EXCEPT ![c].verdict = VerdictOf(answer)]
          /\ answers' = [answers EXCEPT ![rq[c].v] = @ \cup {answer}]
    BY <1>13 DEF ScanInspect
  <2>2. /\ pc[c] = "scan" /\ Goto(c, "commit_scan")
        /\ content' = content /\ job' = job /\ wk' = wk
    BY <1>13 DEF ScanInspect
  <2>3. rq[c].v \in Versions
    BY <2>2 DEF Memory
  <2>4. /\ rq'[c].v = rq[c].v /\ rq'[c].verdict = VerdictOf(answer)
        /\ \A d \in Clients \ {c} : rq'[d] = rq[d]
    BY <2>1, Typed DEF TypeOK, Requests
  <2>5. answer \in answers'[rq[c].v] /\ \A v \in Versions : answers[v] \subseteq answers'[v]
    BY <2>1, <2>3 DEF TypeOK
  <2>6. VerdictOf(answer) \in Terminal => VerdictOf(answer) \in answers'[rq[c].v]
    BY <2>5, VerdictOfTerminal
  <2>7. Known'
    BY <2>2, <2>4, <2>5, <2>6, RequestFrame DEF Contents, Known, Memory, Claiming
  <2>. QED BY <2>2, <2>5, <2>7 DEF Contents, VerdictWasAnswered, CompletedMeansVerdict
<1>14. ASSUME NEW c \in Clients, ScanCommit(c) PROVE Contents'
  <2>1. rq[c].v \in Versions /\ content[rq[c].v] \notin Terminal
    BY <1>14 DEF ScanCommit, Memory, Rows
  <2>2. /\ content'[rq[c].v] = rq[c].verdict
        /\ \A v \in Versions \ {rq[c].v} : content'[v] = content[v]
        /\ answers' = answers /\ job' = job /\ wk' = wk /\ rq' = rq
        /\ pc[c] = "commit_scan" /\ Goto(c, "done")
    BY <1>14, <2>1 DEF ScanCommit, TypeOK, Finish
  <2>3. Known'
    BY <2>2, RequestFrame DEF Contents, Known, Claiming
  <2>4. VerdictWasAnswered'
    BY <2>1, <2>2 DEF Contents, Known, VerdictWasAnswered
  <2>5. CompletedMeansVerdict'
    BY <2>1, <2>2 DEF Contents, CompletedMeansVerdict
  <2>. QED BY <2>3, <2>4, <2>5 DEF Contents
<1>15. CASE UNCHANGED vars
  BY <1>15, ContentsFrame DEF vars, Claiming
<1>. QED
  BY <1>1, <1>2, <1>3, <1>4, <1>5, <1>6, <1>7, <1>8, <1>9, <1>10, <1>11, <1>12, <1>13,
     <1>14, <1>15
  DEF Next, WorkerStep, RequestStep

-----------------------------------------------------------------------------
(* Requesters. *)

(* Who may publish under the locks has been vouched for under the locks. *)
Vouching ==
  \A w \in Workers :
    /\ pc[w] = "recheck" /\ wk[w].actor \in admins => w \in vouched
    /\ pc[w] = "publish" /\ wk[w].permitted => w \in vouched

LEMMA VouchingFrame ==
  ASSUME Vouching, vouched' = vouched, admins' \subseteq admins,
         \A x \in Workers : pc'[x] \in AwaitingCommit => pc'[x] = pc[x] /\ wk'[x] = wk[x]
  PROVE  Vouching'
  BY DEF Vouching, AwaitingCommit

LEMMA VouchingStep ==
  ASSUME TypeOK, Vouching, [Next]_vars
  PROVE  Vouching'
<1>1. ASSUME NEW v \in Versions, NEW u \in Users, Upload(v, u) PROVE Vouching'
  BY <1>1, VouchingFrame DEF Upload
<1>2. ASSUME NEW u \in Users, Revoke(u) PROVE Vouching'
  BY <1>2, VouchingFrame DEF Revoke
<1>3. ASSUME NEW u \in Users, Grant(u) PROVE Vouching'
  BY <1>3 DEF Grant, Vouching, AwaitingCommit
<1>4. CASE Tick
  BY <1>4, VouchingFrame DEF Tick
<1>5. ASSUME NEW w \in Workers, StartDrain(w) \/ NoWork(w) \/ Crash(w) PROVE Vouching'
  <2>1. /\ vouched' = vouched /\ admins' = admins /\ pc'[w] \in {"idle", "poll"}
        /\ \A x \in Workers \ {w} : pc'[x] = pc[x] /\ wk'[x] = wk[x]
    BY <1>5, WorkerFrame DEF StartDrain, NoWork, Crash, TypeOK
  <2>. QED BY <2>1, VouchingFrame DEF AwaitingCommit
<1>6. ASSUME NEW w \in Workers, Fenced(w) \/ Publish(w) PROVE Vouching'
  BY <1>6, NextRoundFrame, VouchingFrame DEF Fenced, Publish, AwaitingCommit
<1>7. ASSUME NEW w \in Workers, Claim(w) PROVE Vouching'
  <2>1. \A x \in Workers \ {w} : wk'[x] = wk[x]
    <3>1. PICK m : wk' = [wk EXCEPT ![w] = m]
      BY <1>7, ClaimFacts
    <3>. QED BY <3>1 DEF TypeOK
  <2>2. Goto(w, "read_principal") /\ vouched' = vouched /\ admins' = admins
    BY <1>7 DEF Claim
  <2>. QED BY <2>1, <2>2, WorkerFrame, VouchingFrame DEF AwaitingCommit
<1>8. ASSUME NEW w \in Workers,
             ReadPrincipal(w) \/ ReadVersion(w) \/ Inspect(w) \/ LockVersion(w)
      PROVE  Vouching'
  <2>1. /\ vouched' = vouched /\ admins' = admins /\ pc'[w] \notin AwaitingCommit
        /\ \A x \in Workers \ {w} : pc'[x] = pc[x]
    BY <1>8, WorkerFrame DEF ReadPrincipal, ReadVersion, Inspect, LockVersion, AwaitingCommit
  <2>2. \A x \in Workers \ {w} : wk'[x] = wk[x]
    BY <1>8 DEF ReadPrincipal, ReadVersion, Inspect, LockVersion, TypeOK
  <2>. QED BY <2>1, <2>2, VouchingFrame
<1>9. ASSUME NEW w \in Workers, Confirm(w) PROVE Vouching'
  <2>1. /\ wk' = wk /\ admins' = admins
        /\ vouched' = IF wk[w].actor \in admins THEN vouched \cup {w} ELSE vouched \ {w}
        /\ pc'[w] = "recheck" /\ \A x \in Workers \ {w} : pc'[x] = pc[x]
    BY <1>9, WorkerFrame DEF Confirm
  <2>. QED BY <2>1 DEF Vouching
<1>10. ASSUME NEW w \in Workers, Recheck(w) PROVE Vouching'
  <2>1. /\ pc[w] = "recheck" /\ pc'[w] = "publish" /\ vouched' = vouched /\ admins' = admins
        /\ \A x \in Workers \ {w} : pc'[x] = pc[x]
    BY <1>10, WorkerFrame DEF Recheck
  <2>2. /\ wk'[w].permitted => wk[w].actor \in admins
        /\ \A x \in Workers \ {w} : wk'[x] = wk[x]
    BY <1>10, Typed DEF Recheck, TypeOK, WorkerMemory
  <2>. QED BY <2>1, <2>2 DEF Vouching
<1>11. ASSUME NEW c \in Clients, NEW kind \in {"enqueue", "scan"}, NEW v \in Versions,
              NEW u \in Users, Admit(c, kind, v, u)
       PROVE  Vouching'
  BY <1>11, RequestFrame, VouchingFrame DEF Admit
<1>12. ASSUME NEW c \in Clients, RequestStep(c) \/ Abort(c) PROVE Vouching'
  <2>1. wk' = wk /\ vouched' = vouched /\ admins' = admins /\ \E label : Goto(c, label)
    BY <1>12 DEF RequestStep, EnqueueLockVersion, EnqueueReadJob, EnqueueCommit,
                 ScanLockVersion, ScanInspect, ScanCommit, Abort, Finish
  <2>. QED BY <2>1, RequestFrame, VouchingFrame
<1>13. CASE UNCHANGED vars
  BY <1>13, VouchingFrame DEF vars
<1>. QED
  BY <1>1, <1>2, <1>3, <1>4, <1>5, <1>6, <1>7, <1>8, <1>9, <1>10, <1>11, <1>12, <1>13
  DEF Next, WorkerStep

-----------------------------------------------------------------------------
(* The theorems. *)

(* Types, what each process remembers and which locks it holds, what the   *)
(* locks protect, and the claims: none is inductive without the others.    *)
Inv == TypeOK /\ Memory /\ Locking /\ Rows /\ Claims /\ Contents /\ Vouching

LEMMA InvInit == Init => Inv
<1> SUFFICES ASSUME Init PROVE Inv
  OBVIOUS
<1>1. TypeOK
  BY InitType
<1>2. /\ \A w \in Workers : pc[w] = "idle"
      /\ \A c \in Clients : pc[c] = "idle"
      /\ \A v \in Versions : job[v].status = "absent" /\ content[v] = "pending_upload"
  BY DEF Init, Procs, NoJob
<1>. QED
  BY <1>1, <1>2
  DEF Inv, Memory, Locking, Rows, Claims, SingleOwner, PublisherOwns, Acting, Owner, Contents,
      Known, VerdictWasAnswered, CompletedMeansVerdict, Vouching, Claiming, WorkerLocked,
      RequestLocked, AwaitingCommit, Terminal

LEMMA InvStep == Inv /\ [Next]_vars => Inv'
  BY TypeStep, MemoryStep, LockingStep, RowsStep, ClaimsStep, ContentsStep, VouchingStep
  DEF Inv, Claims

LEMMA Invariance == Spec => []Inv
  BY InvInit, InvStep, PTL DEF Spec

(* TypeOK holds for any numbers of versions, workers, requests and users: *)
(* in particular no commit trips the check constraint valid_claim.        *)
THEOREM TypeCorrect == Spec => []TypeOK
<1>1. Inv => TypeOK
  BY DEF Inv
<1>. QED BY <1>1, Invariance, PTL

(* Fencing: two workers never both hold a job's claim, for any lease, any  *)
(* clock skew and any number of crashes.                                   *)
THEOREM ExclusiveClaims == Spec => []SingleOwner
<1>1. Inv => SingleOwner
  BY DEF Inv, Claims
<1>. QED BY <1>1, Invariance, PTL

(* A worker that has passed the fence check keeps its claim until it       *)
(* commits, although its lease may run out in between.                     *)
THEOREM KeptClaims == Spec => []PublisherOwns
<1>1. Inv => PublisherOwns
  BY DEF Inv, Claims
<1>. QED BY <1>1, Invariance, PTL

(* A final verdict is one the scanner gave for that version.               *)
THEOREM TrueVerdicts == Spec => []VerdictWasAnswered
<1>1. Inv => VerdictWasAnswered
  BY DEF Inv, Contents
<1>. QED BY <1>1, Invariance, PTL

(* A job is completed only over a final verdict.                           *)
THEOREM CompletedVerdicts == Spec => []CompletedMeansVerdict
<1>1. Inv => CompletedMeansVerdict
  BY DEF Inv, Contents
<1>. QED BY <1>1, Invariance, PTL

(* Only uploads, commits of workers and commits of synchronous scans write *)
(* the content status, and none of them over a final verdict.              *)
LEMMA FinalStep ==
  ASSUME Inv, [Next]_vars, NEW v \in Versions, content[v] \in Terminal
  PROVE  content'[v] = content[v]
<1>1. ASSUME NEW x \in Versions, NEW u \in Users, Upload(x, u) PROVE content'[v] = content[v]
  BY <1>1 DEF Upload, Inv, TypeOK, Terminal
<1>2. ASSUME NEW w \in Workers, Publish(w) PROVE content'[v] = content[v]
  BY <1>2 DEF Publish, PublishedContent, Decides, Inv, TypeOK
<1>3. ASSUME NEW c \in Clients, ScanCommit(c) PROVE content'[v] = content[v]
  <2>1. rq[c].v # v
    BY <1>3 DEF ScanCommit, Inv, Rows
  <2>. QED BY <1>3, <2>1 DEF ScanCommit, Inv, TypeOK
<1>4. CASE UNCHANGED content
  BY <1>4
<1>. QED
  BY <1>1, <1>2, <1>3, <1>4
  DEF vars, Next, WorkerStep, RequestStep, Revoke, Grant, Tick, StartDrain, Claim, NoWork,
      ReadPrincipal, ReadVersion, Inspect, LockVersion, Fenced, Confirm, Recheck, Crash,
      Admit, EnqueueLockVersion, EnqueueReadJob, EnqueueCommit, ScanLockVersion,
      ScanInspect, Abort

(* A clean or rejected verdict is never replaced. *)
THEOREM FinalVerdicts == Spec => VerdictFinal
<1>1. Inv /\ [Next]_vars =>
        [\A v \in Versions : content[v] \in Terminal => content'[v] = content[v]]_vars
  BY FinalStep
<1>. QED BY <1>1, Invariance, PTL DEF Spec, VerdictFinal

(* A worker's verdict is published only for a requester who was an         *)
(* administrator at some instant since the worker took the job lock.       *)
THEOREM AuthorizedVerdicts == Spec => PublishesForAdministrators
<1>1. Inv /\ [Next]_vars =>
        [\A w \in Workers :
           pc[w] = "publish" /\ wk[w].permitted /\ pc'[w] # "publish"
                             /\ audit' # audit => w \in vouched]_vars
  BY DEF Inv, Vouching
<1>. QED BY <1>1, Invariance, PTL DEF Spec, PublishesForAdministrators

(* The content status as the extraction pipeline sees it: undecided until  *)
(* there is a verdict.                                                     *)
Judged == [v \in Versions |-> IF content[v] \in Terminal THEN content[v] ELSE "pending_scan"]

LEMMA JudgedStep ==
  ASSUME Inv, [Next]_vars, NEW v \in Versions, Judged'[v] # Judged[v]
  PROVE  /\ Judged[v] = "pending_scan" /\ Judged'[v] \in Terminal
         /\ vlock[v] \in Procs /\ vlock'[v] = None
<1>0. TypeOK /\ Memory /\ Locking
  BY DEF Inv
<1>1. /\ Judged[v] = IF content[v] \in Terminal THEN content[v] ELSE "pending_scan"
      /\ Judged'[v] = IF content'[v] \in Terminal THEN content'[v] ELSE "pending_scan"
  BY DEF Judged
<1>2. content[v] \notin Terminal /\ content'[v] \in Terminal
  BY <1>1, FinalStep
<1>3. ASSUME NEW x \in Versions, NEW u \in Users, Upload(x, u) PROVE FALSE
  BY <1>0, <1>2, <1>3 DEF Upload, TypeOK, Terminal
<1>4. ASSUME NEW w \in Workers, Publish(w) PROVE vlock[v] \in Procs /\ vlock'[v] = None
  <2>1. wk[w].v = v
    BY <1>0, <1>2, <1>4 DEF Publish, TypeOK
  <2>2. vlock[v] = w /\ w \in Procs
    BY <1>0, <1>4, <2>1 DEF Publish, Locking, WorkerLocked, AwaitingCommit, Procs
  <2>. QED BY <1>4, <2>2 DEF Publish, ReleaseLocks, Released
<1>5. ASSUME NEW c \in Clients, ScanCommit(c) PROVE vlock[v] \in Procs /\ vlock'[v] = None
  <2>1. rq[c].v = v
    BY <1>0, <1>2, <1>5 DEF ScanCommit, TypeOK
  <2>2. vlock[v] = c /\ c \in Procs
    BY <1>0, <1>5, <2>1 DEF ScanCommit, Locking, RequestLocked, Procs
  <2>. QED BY <1>5, <2>2 DEF ScanCommit, Finish, ReleaseLocks, Released
<1>6. CASE UNCHANGED content
  BY <1>2, <1>6
<1>7. vlock[v] \in Procs /\ vlock'[v] = None
  BY <1>3, <1>4, <1>5, <1>6
  DEF vars, Next, WorkerStep, RequestStep, Revoke, Grant, Tick, StartDrain, Claim, NoWork,
      ReadPrincipal, ReadVersion, Inspect, LockVersion, Fenced, Confirm, Recheck, Crash,
      Admit, EnqueueLockVersion, EnqueueReadJob, EnqueueCommit, ScanLockVersion,
      ScanInspect, Abort
<1>. QED BY <1>1, <1>2, <1>7

(* What the extraction pipeline takes for granted of its environment       *)
(* (Judge in module Extractions): a version is judged at most once, in the *)
(* commit of a process that held its row lock, hence never while a saving  *)
(* of its text holds that lock.                                            *)
THEOREM JudgedUnderLock ==
  Spec => [][\A v \in Versions : Judged'[v] # Judged[v] =>
               /\ Judged[v] = "pending_scan" /\ Judged'[v] \in Terminal
               /\ vlock[v] \in Procs /\ vlock'[v] = None]_vars
<1>1. Inv /\ [Next]_vars =>
        [\A v \in Versions : Judged'[v] # Judged[v] =>
           /\ Judged[v] = "pending_scan" /\ Judged'[v] \in Terminal
           /\ vlock[v] \in Procs /\ vlock'[v] = None]_vars
  BY JudgedStep
<1>. QED BY <1>1, Invariance, PTL DEF Spec

-----------------------------------------------------------------------------
(* Refinement. *)

Phase == [v \in Versions |-> job[v].status]
Requester == [v \in Versions |-> job[v].requested_by]

LifecycleUnchanged ==
  content' = content /\ audit' = audit /\ Phase' = Phase /\ Requester' = Requester

LEMMA RefinementInit == Init => Lifecycle!Init
  BY DEF Init, NoJob, Lifecycle!Init

(* A commit of a worker is the abstract job's end, in one of three ways. *)
LEMMA PublishRefines ==
  ASSUME Inv, NEW w \in Workers, Publish(w)
  PROVE  Lifecycle!Next
<1>1. PICK v \in Versions, verdict \in Verdicts :
        /\ v = wk[w].v /\ verdict = wk[w].verdict
        /\ job[v].status = "running" /\ wk[w].actor = job[v].requested_by
  BY Typed DEF Publish, Inv, Memory, Claiming, Claims, PublisherOwns, Acting, AwaitingCommit,
               Owner, Running, WorkerMemory
<1>2. content[v] # "pending_upload" /\ content[v] \in ContentStatus
  BY <1>1, Typed DEF Inv, Rows
<1>3. SettledJob(w).status = Outcome(w) /\ SettledJob(w).requested_by = job[v].requested_by
  BY <1>1, Typed DEF Inv, SettledJob, JobRows
<1>4. job' = [job EXCEPT ![v] = SettledJob(w)]
  BY <1>1 DEF Publish
<1>5. /\ Phase' = [Phase EXCEPT ![v] = Outcome(w)]
      /\ Requester' = Requester
  BY <1>1, <1>3, <1>4 DEF Phase, Requester, Inv, TypeOK
<1>6. /\ content' = [content EXCEPT ![v] = PublishedContent(w)]
      /\ audit' = IF Decides(w) THEN Recorded(v, verdict, wk[w].actor) ELSE audit
  BY <1>1 DEF Publish
<1>7. CASE Decides(w)
  <2>1. Lifecycle!Undecided(v)
    BY <1>1, <1>2, <1>7 DEF Decides, Lifecycle!Undecided, ContentStatus, Verdicts, Terminal
  <2>2. Outcome(w) = IF verdict \in Terminal THEN "completed" ELSE "failed"
    BY <1>1, <1>7 DEF Outcome, Decides, PublishedContent
  <2>3. /\ content' = [content EXCEPT ![v] = verdict]
        /\ audit' = Recorded(v, verdict, job[v].requested_by)
    BY <1>1, <1>6, <1>7 DEF PublishedContent
  <2>4. Lifecycle!Decide(v, verdict)
    BY <1>1, <1>5, <2>1, <2>2, <2>3
    DEF Lifecycle!Decide, Lifecycle!Explain, Lifecycle!Terminal, Terminal, Recorded,
        Phase, Requester
  <2>. QED BY <1>1, <2>4 DEF Lifecycle!Next, Lifecycle!Verdicts, Verdicts,
                             Lifecycle!Terminal, Terminal
<1>8. CASE ~Decides(w)
  <2>1. content' = content /\ audit' = audit
    BY <1>1, <1>6, <1>8 DEF PublishedContent, Inv, TypeOK
  <2>2. CASE Outcome(w) = "completed"
    <3>1. content[v] \in Terminal
      BY <1>1, <1>8, <2>2 DEF Outcome, PublishedContent
    <3>2. Lifecycle!Agree(v)
      BY <1>1, <1>5, <2>1, <2>2, <3>1
      DEF Lifecycle!Agree, Lifecycle!Terminal, Terminal, Phase, Requester
    <3>. QED BY <1>1, <3>2 DEF Lifecycle!Next
  <2>3. CASE Outcome(w) = "failed"
    <3>1. Lifecycle!Refuse(v)
      BY <1>1, <1>5, <2>1, <2>3 DEF Lifecycle!Refuse, Phase, Requester
    <3>. QED BY <1>1, <3>1 DEF Lifecycle!Next
  <2>. QED BY <2>2, <2>3 DEF Outcome
<1>. QED BY <1>7, <1>8

LEMMA RefinementStep ==
  ASSUME Inv, [Next]_vars
  PROVE  Lifecycle!Next \/ LifecycleUnchanged
<1>1. ASSUME NEW v \in Versions, NEW u \in Users, Upload(v, u) PROVE Lifecycle!Next
  <2>1. Lifecycle!Store(v, u)
    BY <1>1 DEF Upload, Recorded, Lifecycle!Store, Lifecycle!Explain
  <2>. QED BY <2>1 DEF Lifecycle!Next
<1>2. CASE Tick
  BY <1>2, TickKeeps DEF Inv, Tick, LifecycleUnchanged, Phase, Requester
<1>3. ASSUME NEW w \in Workers, Claim(w) PROVE Lifecycle!Next \/ LifecycleUnchanged
  <2>0. TypeOK
    BY DEF Inv
  <2>1. PICK v \in Versions, t \in FreshTokens, l \in Leases :
           /\ job[v].status \in {"pending", "running"} /\ jlock[v] = None
           /\ job' = [job EXCEPT ![v] =
                        [job[v] EXCEPT !.status = "running", !.claim_token = t,
                                       !.lease_until = l, !.attempts = job[v].attempts + 1]]
           /\ wk' = [wk EXCEPT ![w] =
                       [Forgotten EXCEPT !.v = v, !.token = t,
                                         !.actor = job[v].requested_by,
                                         !.left = wk[w].left - 1]]
    BY <1>3, <2>0, ClaimFacts
  <2>2. /\ Phase' = [Phase EXCEPT ![v] = "running"]
        /\ Requester' = Requester
    BY <2>0, <2>1, Typed DEF Phase, Requester, TypeOK, JobRows
  <2>3. content' = content /\ audit' = audit
    BY <1>3 DEF Claim
  <2>4. CASE job[v].status = "pending"
    <3>1. Lifecycle!Begin(v)
      BY <2>2, <2>3, <2>4 DEF Lifecycle!Begin, Phase, Requester
    <3>. QED BY <3>1 DEF Lifecycle!Next
  <2>5. CASE job[v].status = "running"
    BY <2>2, <2>3, <2>5 DEF LifecycleUnchanged, Phase
  <2>. QED BY <2>1, <2>4, <2>5
<1>4. ASSUME NEW w \in Workers, Publish(w) PROVE Lifecycle!Next
  BY <1>4, PublishRefines
<1>5. ASSUME NEW c \in Clients, EnqueueCommit(c) PROVE Lifecycle!Next
  <2>1. PICK v \in Versions, u \in Users :
        /\ v = rq[c].v /\ u = rq[c].user /\ content[v] # "pending_upload"
        /\ job[v].status \in {"absent", "failed"} /\ job[v] \in JobRows
    BY <1>5, Typed DEF EnqueueCommit, Inv, Memory, Rows
  <2>2. PendingJob(v, u).status = "pending" /\ PendingJob(v, u).requested_by = u
    BY <2>1 DEF PendingJob, NoJob, JobRows
  <2>3. /\ job' = [job EXCEPT ![v] = PendingJob(v, u)]
        /\ audit' = Recorded(v, "queued", u) /\ content' = content
    BY <1>5, <2>1 DEF EnqueueCommit
  <2>4. /\ Phase' = [Phase EXCEPT ![v] = "pending"]
        /\ Requester' = [Requester EXCEPT ![v] = u]
    BY <2>1, <2>2, <2>3 DEF Phase, Requester, Inv, TypeOK
  <2>5. Lifecycle!Request(v, u)
    BY <2>1, <2>3, <2>4
    DEF Recorded, Lifecycle!Request, Lifecycle!Explain, Phase, Requester
  <2>. QED BY <2>1, <2>5 DEF Lifecycle!Next
<1>6. ASSUME NEW c \in Clients, ScanCommit(c) PROVE Lifecycle!Next
  <2>1. PICK v \in Versions, u \in Users, verdict \in Verdicts :
        /\ v = rq[c].v /\ u = rq[c].user /\ verdict = rq[c].verdict
        /\ content[v] \notin Terminal \cup {"pending_upload"} /\ content[v] \in ContentStatus
    BY <1>6, Typed DEF ScanCommit, Inv, Memory, Rows, Requests
  <2>2. Lifecycle!Judge(v, verdict, u)
    BY <1>6, <2>1
    DEF ScanCommit, Recorded, Lifecycle!Judge, Lifecycle!Explain, Lifecycle!Undecided,
        ContentStatus, Verdicts, Terminal
  <2>. QED
    BY <2>1, <2>2 DEF Lifecycle!Next, Lifecycle!Verdicts, Verdicts, Lifecycle!Terminal, Terminal
<1>7. CASE UNCHANGED <<content, audit, job>>
  BY <1>7 DEF LifecycleUnchanged, Phase, Requester
<1>. QED
  BY <1>1, <1>2, <1>3, <1>4, <1>5, <1>6, <1>7
  DEF vars, Next, WorkerStep, RequestStep, Revoke, Grant, StartDrain, NoWork,
      ReadPrincipal, ReadVersion, Inspect, LockVersion, Fenced, Confirm, Recheck, Crash,
      Admit, EnqueueLockVersion, EnqueueReadJob, ScanLockVersion, ScanInspect, Abort

(* The queue with its workers, leases, clocks and crashes implements the   *)
(* life cycle in which every job begins and ends in one step each.         *)
THEOREM Refinement == Spec => ImplementsLifecycle
<1>1. Inv /\ [Next]_vars => [Lifecycle!Next]_Lifecycle!vars
  BY RefinementStep DEF LifecycleUnchanged, Phase, Requester, Lifecycle!vars
<1>. QED
  BY <1>1, RefinementInit, Invariance, PTL DEF Spec, ImplementsLifecycle, Lifecycle!Spec

-----------------------------------------------------------------------------
(* The audit trail. The invariants about it follow from the abstract steps *)
(* alone, so the refinement carries them over to the queue.                *)

(* A version with a final verdict in its trail has a final status. *)
DecidedForGood(v) ==
  \A i \in DOMAIN audit[v] : audit[v][i].action \in Terminal => content[v] \in Terminal

Told(v) ==
  /\ (\A i \in DOMAIN audit[v] : audit[v][i].action = "queued") => content[v] = "pending_upload"
  /\ \A i \in DOMAIN audit[v] :
       /\ audit[v][i].action # "queued"
       /\ \A j \in DOMAIN audit[v] : j > i => audit[v][j].action = "queued"
       => content[v] = StatusAfter(audit[v][i].action)
  /\ \A i, j \in DOMAIN audit[v] :
       audit[v][i].action \in Terminal /\ audit[v][j].action \in Verdicts => j <= i
  /\ DecidedForGood(v)

(* The requester of the job is the user of the last queueing. *)
Queued(v) ==
  /\ Phase[v] = "absent" => \A i \in DOMAIN audit[v] : audit[v][i].action # "queued"
  /\ \A i \in DOMAIN audit[v] :
       /\ audit[v][i].action = "queued"
       /\ \A j \in DOMAIN audit[v] : j > i => audit[v][j].action # "queued"
       => Requester[v] = audit[v][i].by

Trail == \A v \in Versions : Told(v) /\ Queued(v)

LEMMA Appended ==
  ASSUME NEW S, NEW s \in Seq(S), NEW e \in S
  PROVE  /\ Len(s) \in Nat /\ DOMAIN s = 1 .. Len(s)
         /\ DOMAIN Append(s, e) = 1 .. Len(s) + 1
         /\ \A i \in 1 .. Len(s) : Append(s, e)[i] = s[i]
         /\ Append(s, e)[Len(s) + 1] = e
OBVIOUS

(* The trail grows by a queueing: the status stays. *)
LEMMA ToldByQueueing ==
  ASSUME NEW v \in Versions, audit[v] \in Seq(Events), NEW e \in Events, Told(v),
         audit'[v] = Append(audit[v], e), e.action = "queued", content'[v] = content[v]
  PROVE  Told(v)'
<1>. DEFINE n == Len(audit[v])
<1>1. /\ n \in Nat /\ DOMAIN audit[v] = 1 .. n /\ DOMAIN audit'[v] = 1 .. n + 1
      /\ \A i \in 1 .. n : audit'[v][i] = audit[v][i]
      /\ audit'[v][n + 1] = e
  BY Appended
<1>. HIDE DEF n
<1>2. (\A i \in 1 .. n + 1 : audit'[v][i].action = "queued") => content'[v] = "pending_upload"
  BY <1>1 DEF Told
<1>3. ASSUME NEW i \in 1 .. n + 1, audit'[v][i].action # "queued",
             \A j \in 1 .. n + 1 : j > i => audit'[v][j].action = "queued"
      PROVE  content'[v] = StatusAfter(audit'[v][i].action)
  <2>1. i \in 1 .. n
    BY <1>1, <1>3
  <2>2. \A j \in 1 .. n : j > i => audit[v][j].action = "queued"
    BY <1>1, <1>3
  <2>. QED BY <1>1, <1>3, <2>1, <2>2 DEF Told
<1>4. ASSUME NEW i \in 1 .. n + 1, NEW j \in 1 .. n + 1, audit'[v][i].action \in Terminal,
             audit'[v][j].action \in Verdicts
      PROVE  j <= i
  <2>1. i \in 1 .. n /\ j \in 1 .. n
    BY <1>1, <1>4 DEF Terminal, Verdicts
  <2>. QED BY <1>1, <1>4, <2>1 DEF Told
<1>5. DecidedForGood(v)'
  BY <1>1 DEF Told, DecidedForGood, Terminal
<1>. QED BY <1>1, <1>2, <1>3, <1>4, <1>5 DEF Told

(* The trail grows by an event that sets the status, which was not final.  *)
LEMMA ToldByEvent ==
  ASSUME NEW v \in Versions, audit[v] \in Seq(Events), NEW e \in Events, Told(v),
         audit'[v] = Append(audit[v], e), e.action # "queued",
         content[v] \notin Terminal, content'[v] = StatusAfter(e.action)
  PROVE  Told(v)'
<1>. DEFINE n == Len(audit[v])
<1>1. /\ n \in Nat /\ DOMAIN audit[v] = 1 .. n /\ DOMAIN audit'[v] = 1 .. n + 1
      /\ \A i \in 1 .. n : audit'[v][i] = audit[v][i]
      /\ audit'[v][n + 1] = e
  BY Appended
<1>. HIDE DEF n
<1>2. \E i \in 1 .. n + 1 : audit'[v][i].action # "queued"
  BY <1>1
<1>3. ASSUME NEW i \in 1 .. n + 1, audit'[v][i].action # "queued",
             \A j \in 1 .. n + 1 : j > i => audit'[v][j].action = "queued"
      PROVE  content'[v] = StatusAfter(audit'[v][i].action)
  <2>1. i = n + 1
    BY <1>1, <1>3
  <2>. QED BY <1>1, <2>1
<1>4. \A i \in 1 .. n : audit'[v][i].action \notin Terminal
  BY <1>1 DEF Told, DecidedForGood
<1>5. ASSUME NEW i \in 1 .. n + 1, NEW j \in 1 .. n + 1, audit'[v][i].action \in Terminal,
             audit'[v][j].action \in Verdicts
      PROVE  j <= i
  <2>1. i = n + 1
    BY <1>1, <1>4, <1>5
  <2>. QED BY <1>1, <2>1
<1>6. DecidedForGood(v)'
  BY <1>1, <1>4 DEF DecidedForGood, StatusAfter, Terminal
<1>. QED BY <1>1, <1>2, <1>3, <1>5, <1>6 DEF Told

LEMMA QueuedByAppending ==
  ASSUME NEW v \in Versions, audit[v] \in Seq(Events), NEW e \in Events, Queued(v),
         audit'[v] = Append(audit[v], e),
         e.action = "queued" => Phase'[v] # "absent" /\ Requester'[v] = e.by,
         e.action # "queued" => Requester'[v] = Requester[v],
         Phase'[v] = "absent" => Phase[v] = "absent"
  PROVE  Queued(v)'
<1>. DEFINE n == Len(audit[v])
<1>1. /\ n \in Nat /\ DOMAIN audit[v] = 1 .. n /\ DOMAIN audit'[v] = 1 .. n + 1
      /\ \A i \in 1 .. n : audit'[v][i] = audit[v][i]
      /\ audit'[v][n + 1] = e
  BY Appended
<1>. HIDE DEF n
<1>0. \A i \in 1 .. n + 1 : i \in 1 .. n \/ i = n + 1
  BY <1>1
<1>2. ASSUME Phase'[v] = "absent", NEW i \in 1 .. n + 1
      PROVE  audit'[v][i].action # "queued"
  <2>1. CASE i = n + 1
    BY <1>1, <1>2, <2>1
  <2>2. CASE i \in 1 .. n
    <3>1. audit[v][i].action # "queued"
      BY <1>1, <1>2, <2>2 DEF Queued
    <3>. QED BY <1>1, <2>2, <3>1
  <2>. QED BY <1>0, <2>1, <2>2
<1>3. ASSUME NEW i \in 1 .. n + 1, audit'[v][i].action = "queued",
             \A j \in 1 .. n + 1 : j > i => audit'[v][j].action # "queued"
      PROVE  Requester'[v] = audit'[v][i].by
  <2>1. CASE e.action = "queued"
    <3>1. i = n + 1
      BY <1>1, <1>3, <2>1
    <3>. QED BY <1>1, <2>1, <3>1
  <2>2. CASE e.action # "queued"
    <3>0. i # n + 1
      BY <1>1, <1>3, <2>2
    <3>1. i \in 1 .. n
      BY <1>0, <3>0
    <3>2. ASSUME NEW j \in 1 .. n, j > i PROVE audit[v][j].action # "queued"
      <4>1. j \in 1 .. n + 1 /\ audit'[v][j] = audit[v][j]
        BY <1>1
      <4>. QED BY <1>3, <3>2, <4>1
    <3>3. audit[v][i].action = "queued" /\ audit'[v][i] = audit[v][i]
      BY <1>1, <1>3, <3>1
    <3>4. Requester[v] = audit[v][i].by
      BY <1>1, <3>1, <3>2, <3>3 DEF Queued
    <3>. QED BY <1>3, <2>2, <3>3, <3>4
  <2>. QED BY <2>1, <2>2
<1>. QED BY <1>1, <1>2, <1>3 DEF Queued

LEMMA TrailKept ==
  ASSUME NEW v \in Versions, Told(v), Queued(v), audit'[v] = audit[v], content'[v] = content[v],
         Phase'[v] = "absent" => Phase[v] = "absent", Requester'[v] = Requester[v]
  PROVE  Told(v)' /\ Queued(v)'
<1>1. Told(v)'
  BY DEF Told, DecidedForGood
<1>2. Queued(v)'
  BY DEF Queued
<1>. QED BY <1>1, <1>2

(* A step of the life cycle at v, seen through the trail. *)
LEMMA TrailStepAt ==
  ASSUME TypeOK, Trail, NEW v \in Versions, NEW e \in Events,
         audit' = [audit EXCEPT ![v] = Append(audit[v], e)],
         \A x \in Versions \ {v} : content'[x] = content[x],
         \/ e.action = "queued" /\ content'[v] = content[v]
         \/ /\ e.action # "queued" /\ content[v] \notin Terminal
            /\ content'[v] = StatusAfter(e.action),
         \A x \in Versions \ {v} : Phase'[x] = Phase[x] /\ Requester'[x] = Requester[x],
         e.action = "queued" => Phase'[v] # "absent" /\ Requester'[v] = e.by,
         e.action # "queued" => Requester'[v] = Requester[v],
         Phase'[v] = "absent" => Phase[v] = "absent"
  PROVE  Trail'
<1>1. /\ audit[v] \in Seq(Events) /\ audit'[v] = Append(audit[v], e)
      /\ \A x \in Versions \ {v} : audit'[x] = audit[x]
  BY DEF TypeOK
<1>2. Told(v) /\ Queued(v)
  BY DEF Trail
<1>3. Queued(v)'
  BY <1>1, <1>2, QueuedByAppending
<1>4. Told(v)'
  <2>1. CASE e.action = "queued"
    BY <1>1, <1>2, <2>1, ToldByQueueing
  <2>2. CASE e.action # "queued"
    BY <1>1, <1>2, <2>2, ToldByEvent
  <2>. QED BY <2>1, <2>2
<1>5. ASSUME NEW x \in Versions \ {v} PROVE Told(x)' /\ Queued(x)'
  BY <1>1, TrailKept DEF Trail
<1>. QED BY <1>3, <1>4, <1>5 DEF Trail

LEMMA TrailStep ==
  ASSUME Inv, Trail, [Next]_vars
  PROVE  Trail'
<1>0. TypeOK
  BY DEF Inv
<1>1. CASE LifecycleUnchanged
  <2>1. ASSUME NEW x \in Versions PROVE Told(x)' /\ Queued(x)'
    BY <1>1, TrailKept DEF LifecycleUnchanged, Trail
  <2>. QED BY <2>1 DEF Trail
<1>2. CASE Lifecycle!Next
  <2>1. ASSUME NEW v \in Versions, NEW u \in Users, Lifecycle!Store(v, u) PROVE Trail'
    <3>. DEFINE e == [action |-> "uploaded", by |-> u]
    <3>1. /\ content[v] = "pending_upload" /\ content' = [content EXCEPT ![v] = "pending_scan"]
          /\ audit' = [audit EXCEPT ![v] = Append(audit[v], e)]
          /\ Phase' = Phase /\ Requester' = Requester
      BY <2>1 DEF Lifecycle!Store, Lifecycle!Explain, Phase, Requester
    <3>2. e \in Events /\ e.action = "uploaded"
      BY DEF Events, AuditActions
    <3>3. /\ content'[v] = StatusAfter(e.action) /\ content[v] \notin Terminal
          /\ \A x \in Versions \ {v} : content'[x] = content[x]
      BY <1>0, <3>1, <3>2 DEF TypeOK, StatusAfter, Terminal
    <3>. HIDE DEF e
    <3>. QED BY <1>0, <3>1, <3>2, <3>3, TrailStepAt
  <2>2. ASSUME NEW v \in Versions, NEW u \in Users, Lifecycle!Request(v, u) PROVE Trail'
    <3>. DEFINE e == [action |-> "queued", by |-> u]
    <3>1. /\ content' = content
          /\ audit' = [audit EXCEPT ![v] = Append(audit[v], e)]
          /\ Phase' = [Phase EXCEPT ![v] = "pending"]
          /\ Requester' = [Requester EXCEPT ![v] = u]
      BY <2>2 DEF Lifecycle!Request, Lifecycle!Explain, Phase, Requester
    <3>2. e \in Events /\ e.action = "queued" /\ e.by = u
      BY DEF Events, AuditActions
    <3>3. /\ Phase'[v] = "pending" /\ Requester'[v] = u
          /\ \A x \in Versions \ {v} : Phase'[x] = Phase[x] /\ Requester'[x] = Requester[x]
      BY <3>1 DEF Phase, Requester
    <3>. HIDE DEF e
    <3>. QED BY <1>0, <3>1, <3>2, <3>3, TrailStepAt
  <2>3. ASSUME NEW v \in Versions, NEW verdict \in Verdicts, NEW u \in Users,
               Lifecycle!Judge(v, verdict, u)
        PROVE  Trail'
    <3>. DEFINE e == [action |-> verdict, by |-> u]
    <3>1. /\ content[v] \in {"pending_scan", "scan_failed"}
          /\ content' = [content EXCEPT ![v] = verdict]
          /\ audit' = [audit EXCEPT ![v] = Append(audit[v], e)]
          /\ Phase' = Phase /\ Requester' = Requester
      BY <2>3 DEF Lifecycle!Judge, Lifecycle!Undecided, Lifecycle!Explain, Phase, Requester
    <3>2. e \in Events /\ e.action = verdict /\ verdict \notin {"queued", "uploaded"}
      BY DEF Events, AuditActions, Verdicts, Terminal
    <3>3. /\ content'[v] = StatusAfter(e.action) /\ content[v] \notin Terminal
          /\ \A x \in Versions \ {v} : content'[x] = content[x]
      BY <1>0, <3>1, <3>2 DEF TypeOK, StatusAfter, Terminal
    <3>. HIDE DEF e
    <3>. QED BY <1>0, <3>1, <3>2, <3>3, TrailStepAt
  <2>4. ASSUME NEW v \in Versions, NEW verdict \in Verdicts, Lifecycle!Decide(v, verdict)
        PROVE  Trail'
    <3>. DEFINE e == [action |-> verdict, by |-> Requester[v]]
    <3>1. /\ content[v] \in {"pending_scan", "scan_failed"} /\ Phase[v] = "running"
          /\ content' = [content EXCEPT ![v] = verdict]
          /\ audit' = [audit EXCEPT ![v] = Append(audit[v], e)]
          /\ \A x \in Versions \ {v} : Phase'[x] = Phase[x]
          /\ Phase'[v] # "absent" /\ Requester' = Requester
      BY <2>4 DEF Lifecycle!Decide, Lifecycle!Undecided, Lifecycle!Explain, Phase, Requester
    <3>2. Requester[v] \in Users
      BY <1>0, <3>1, Typed DEF Phase, Requester, JobRows
    <3>3. e \in Events /\ e.action = verdict /\ verdict \notin {"queued", "uploaded"}
      BY <3>2 DEF Events, AuditActions, Verdicts, Terminal
    <3>4. /\ content'[v] = StatusAfter(e.action) /\ content[v] \notin Terminal
          /\ \A x \in Versions \ {v} : content'[x] = content[x]
      BY <1>0, <3>1, <3>3 DEF TypeOK, StatusAfter, Terminal
    <3>. HIDE DEF e
    <3>. QED BY <1>0, <3>1, <3>3, <3>4, TrailStepAt
  <2>5. ASSUME NEW v \in Versions, Lifecycle!Begin(v) \/ Lifecycle!Agree(v) \/ Lifecycle!Refuse(v)
        PROVE  Trail'
    <3>1. /\ content' = content /\ audit' = audit /\ Requester' = Requester
          /\ \A x \in Versions : Phase'[x] = "absent" => Phase[x] = "absent"
      BY <2>5 DEF Lifecycle!Begin, Lifecycle!Agree, Lifecycle!Refuse, Phase, Requester
    <3>2. ASSUME NEW x \in Versions PROVE Told(x)' /\ Queued(x)'
      BY <3>1, TrailKept DEF Trail
    <3>. QED BY <3>2 DEF Trail
  <2>. QED
    BY <1>2, <2>1, <2>2, <2>3, <2>4, <2>5
    DEF Lifecycle!Next, Lifecycle!Verdicts, Lifecycle!Terminal, Verdicts, Terminal
<1>. QED BY <1>1, <1>2, RefinementStep

LEMMA TrailInvariance == Spec => []Trail
<1>1. ASSUME Init PROVE Trail
  <2>1. ASSUME NEW v \in Versions PROVE DOMAIN audit[v] = {} /\ content[v] = "pending_upload"
    BY <1>1 DEF Init
  <2>2. ASSUME NEW v \in Versions PROVE Told(v) /\ Queued(v)
    BY <2>1 DEF Told, Queued, DecidedForGood
  <2>. QED BY <2>2 DEF Trail
<1>2. Inv /\ Trail /\ [Next]_vars => Trail'
  BY TrailStep
<1>. QED BY <1>1, <1>2, Invariance, PTL DEF Spec

(* The trail of a version tells its status, and its final verdict once,    *)
(* whatever workers and requests do at the same time.                      *)
THEOREM ToldTrail == Spec => []AuditTrail
<1>1. Trail => AuditTrail
  BY DEF Trail, Told, AuditTrail
<1>. QED BY <1>1, TrailInvariance, PTL

(* A job names the user of the last queueing in the trail, and the worker  *)
(* that holds its claim acts for that user.                                *)
THEOREM NamedRequester == Spec => []RequesterAudited
<1>1. Inv /\ Trail => RequesterAudited
  BY DEF Inv, Claims, Acting, Trail, Queued, Phase, Requester, RequesterAudited
<1>. QED BY <1>1, TrailInvariance, Invariance, PTL

-----------------------------------------------------------------------------
(* Who holds a lock, and who waits for one. *)

(* The version a process works on. *)
At(p) == IF p \in Workers THEN wk[p].v ELSE rq[p].v

LockLabels == WorkerLocked \cup RequestLocked
JobLabels == AwaitingCommit \cup {"commit_job"}

(* A locked version has a process at work on it, and a locked job is       *)
(* locked by whoever has locked its version and is about to commit.        *)
Held ==
  \A v \in Versions, p \in Procs :
    /\ vlock[v] = p => pc[p] \in LockLabels /\ At(p) = v
    /\ jlock[v] = p => vlock[v] = p /\ pc[p] \in JobLabels

Holds(p) == \E v \in Versions : vlock[v] = p \/ jlock[v] = p

Waits(p) ==
  \/ pc[p] = "lock_version" /\ vlock[At(p)] # None
  \/ pc[p] \in {"lock_job", "read_job"} /\ jlock[At(p)] # None

(* Whoever holds a row lock can go on: nobody waits for one row while      *)
(* holding another, and no lock stays with a process that has gone idle.   *)
HoldersGoOn ==
  \A p \in Procs : Holds(p) => pc[p] \notin {"idle", "poll", "done"} /\ ~Waits(p)

(* What a step of p may do to the locks. *)
LEMMA HeldAfter ==
  ASSUME Held, NEW p \in Procs,
         \A q \in Procs : q # p => pc'[q] = pc[q] /\ At(q)' = At(q),
         \A x \in Versions : vlock'[x] \in {vlock[x], None, p},
         \A x \in Versions : vlock'[x] = p => pc'[p] \in LockLabels /\ At(p)' = x,
         \A x \in Versions : jlock'[x] \in {jlock[x], None, p},
         \A x \in Versions : vlock[x] \notin {None, p} => vlock'[x] = vlock[x],
         \A x \in Versions : jlock'[x] = p => vlock'[x] = p /\ pc'[p] \in JobLabels
  PROVE  Held'
<1>0. \A q \in Procs : q # None
  BY ConstantsAssumption
<1>1. ASSUME NEW x \in Versions, NEW q \in Procs, vlock'[x] = q
      PROVE  pc'[q] \in LockLabels /\ At(q)' = x
  BY <1>0, <1>1 DEF Held
<1>2. ASSUME NEW x \in Versions, NEW q \in Procs, jlock'[x] = q
      PROVE  vlock'[x] = q /\ pc'[q] \in JobLabels
  BY <1>0, <1>2 DEF Held
<1>. QED BY <1>1, <1>2 DEF Held, LockLabels, WorkerLocked, RequestLocked, JobLabels, AwaitingCommit

LEMMA HeldMove ==
  ASSUME TypeOK, Held, NEW p \in Procs,
         \A q \in Procs : q # p => pc'[q] = pc[q] /\ At(q)' = At(q),
         vlock' = vlock, jlock' = jlock,
         pc[p] \in LockLabels => pc'[p] \in LockLabels /\ At(p)' = At(p),
         pc[p] \in JobLabels => pc'[p] \in JobLabels
  PROVE  Held'
<1>1. \A x \in Versions : vlock'[x] = p => pc'[p] \in LockLabels /\ At(p)' = x
  BY DEF Held
<1>2. \A x \in Versions : jlock'[x] = p => vlock'[x] = p /\ pc'[p] \in JobLabels
  BY DEF Held
<1>. QED BY <1>1, <1>2, HeldAfter

LEMMA HeldRelease ==
  ASSUME TypeOK, Held, NEW p \in Procs, ReleaseLocks(p),
         \A q \in Procs : q # p => pc'[q] = pc[q] /\ At(q)' = At(q)
  PROVE  Held'
<1>0. p # None
  BY ConstantsAssumption
<1>1. ASSUME NEW x \in Versions
      PROVE  /\ vlock'[x] = IF vlock[x] = p THEN None ELSE vlock[x]
             /\ jlock'[x] = IF jlock[x] = p THEN None ELSE jlock[x]
  BY DEF ReleaseLocks, Released
<1>2. \A x \in Versions : /\ vlock'[x] \in {vlock[x], None, p} /\ vlock'[x] # p
                          /\ jlock'[x] \in {jlock[x], None, p} /\ jlock'[x] # p
                          /\ vlock[x] \notin {None, p} => vlock'[x] = vlock[x]
  BY <1>0, <1>1
<1>. QED BY <1>2, HeldAfter

LEMMA HeldLock ==
  ASSUME TypeOK, Held, NEW p \in Procs,
         \A q \in Procs : q # p => pc'[q] = pc[q] /\ At(q)' = At(q),
         At(p) \in Versions, vlock[At(p)] = None, vlock' = [vlock EXCEPT ![At(p)] = p],
         jlock' = jlock, pc[p] \notin LockLabels, pc'[p] \in LockLabels, At(p)' = At(p)
  PROVE  Held'
<1>1. \A x \in Versions : vlock'[x] = IF x = At(p) THEN p ELSE vlock[x]
  BY DEF TypeOK
<1>2. \A x \in Versions : /\ vlock'[x] \in {vlock[x], None, p}
                          /\ vlock[x] \notin {None, p} => vlock'[x] = vlock[x]
  BY <1>1
<1>3. \A x \in Versions : vlock'[x] = p => pc'[p] \in LockLabels /\ At(p)' = x
  BY <1>1 DEF Held
<1>4. \A x \in Versions : jlock'[x] = p => vlock'[x] = p /\ pc'[p] \in JobLabels
  BY DEF Held
<1>. QED BY <1>2, <1>3, <1>4, HeldAfter

LEMMA HeldLockJob ==
  ASSUME TypeOK, Held, NEW p \in Procs,
         \A q \in Procs : q # p => pc'[q] = pc[q] /\ At(q)' = At(q),
         vlock' = vlock, vlock[At(p)] = p,
         \A x \in Versions : jlock'[x] = jlock[x] \/ (x = At(p) /\ jlock'[x] \in {None, p}),
         pc'[p] \in JobLabels, At(p)' = At(p)
  PROVE  Held'
<1>0. pc'[p] \in LockLabels
  BY DEF JobLabels, LockLabels, AwaitingCommit, WorkerLocked, RequestLocked
<1>1. \A x \in Versions : vlock'[x] = p => pc'[p] \in LockLabels /\ At(p)' = x
  BY <1>0 DEF Held
<1>2. \A x \in Versions : jlock'[x] = p => vlock'[x] = p /\ pc'[p] \in JobLabels
  BY DEF Held
<1>. QED BY <1>1, <1>2, HeldAfter

(* A worker's, or a request's, step leaves the others where they are. *)
LEMMA WorkerAlone ==
  ASSUME NEW w \in Workers, rq' = rq,
         \A x \in Workers : x # w => pc'[x] = pc[x] /\ wk'[x] = wk[x],
         \A c \in Clients : pc'[c] = pc[c]
  PROVE  \A q \in Procs : q # w => pc'[q] = pc[q] /\ At(q)' = At(q)
  BY ConstantsAssumption DEF At, Procs

LEMMA RequestAlone ==
  ASSUME TypeOK, NEW c \in Clients, NEW label, Goto(c, label), wk' = wk,
         \A d \in Clients : d # c => rq'[d] = rq[d]
  PROVE  \A q \in Procs : q # c => pc'[q] = pc[q] /\ At(q)' = At(q)
  BY RequestFrame, ConstantsAssumption DEF At, Procs

LEMMA RequestFinishes ==
  ASSUME TypeOK, Held, NEW c \in Clients, Finish(c), wk' = wk, rq' = rq
  PROVE  Held'
<1>1. Goto(c, "done") /\ ReleaseLocks(c) /\ c \in Procs
  BY DEF Finish, Procs
<1>. QED BY <1>1, RequestAlone, HeldRelease

LEMMA HeldStep ==
  ASSUME Inv, Held, [Next]_vars
  PROVE  Held'
<1>. USE ConstantsAssumption
<1>0. /\ TypeOK /\ Memory /\ Locking
      /\ \A w \in Workers : w \in Procs /\ At(w) = wk[w].v /\ At(w)' = wk'[w].v
      /\ \A c \in Clients : c \in Procs /\ At(c) = rq[c].v /\ At(c)' = rq'[c].v
  BY DEF Inv, Procs, At
<1>1. ASSUME UNCHANGED <<pc, wk, rq, vlock, jlock>> PROVE Held'
  <2>1. \A q \in Procs : pc'[q] = pc[q] /\ At(q)' = At(q)
    BY <1>1 DEF At
  <2>. QED BY <1>1, <2>1 DEF Held, LockLabels, WorkerLocked, RequestLocked, JobLabels, AwaitingCommit
<1>2. ASSUME NEW w \in Workers,
             StartDrain(w) \/ Claim(w) \/ NoWork(w) \/ ReadPrincipal(w) \/ ReadVersion(w)
               \/ Inspect(w)
      PROVE  Held'
  <2>1. PICK label : Goto(w, label)
    BY <1>2 DEF StartDrain, Claim, NoWork, ReadPrincipal, ReadVersion, Inspect
  <2>2. \A x \in Workers : x # w => wk'[x] = wk[x]
    BY <1>0, <1>2 DEF StartDrain, Claim, NoWork, ReadPrincipal, ReadVersion, Inspect, TypeOK
  <2>3. /\ rq' = rq /\ vlock' = vlock /\ jlock' = jlock
        /\ pc[w] \notin LockLabels \cup JobLabels
    BY <1>2 DEF StartDrain, Claim, NoWork, ReadPrincipal, ReadVersion, Inspect, LockLabels,
                WorkerLocked, RequestLocked, JobLabels, AwaitingCommit
  <2>. QED BY <1>0, <2>1, <2>2, <2>3, WorkerFrame, WorkerAlone, HeldMove
<1>3. ASSUME NEW w \in Workers, LockVersion(w) PROVE Held'
  <2>1. /\ Goto(w, "lock_job") /\ pc[w] = "lock_version" /\ wk[w].v \in Versions
        /\ vlock[wk[w].v] = None /\ vlock' = [vlock EXCEPT ![wk[w].v] = w]
        /\ jlock' = jlock /\ wk' = wk /\ rq' = rq
    BY <1>0, <1>3 DEF LockVersion, Memory, Claiming
  <2>2. pc'[w] \in LockLabels /\ pc[w] \notin LockLabels
    BY <1>0, <2>1, WorkerFrame DEF LockLabels, WorkerLocked, RequestLocked
  <2>3. \A q \in Procs : q # w => pc'[q] = pc[q] /\ At(q)' = At(q)
    BY <1>0, <2>1, WorkerFrame, WorkerAlone
  <2>4. /\ w \in Procs /\ At(w) \in Versions /\ vlock[At(w)] = None /\ At(w)' = At(w)
        /\ vlock' = [vlock EXCEPT ![At(w)] = w]
    BY <1>0, <2>1
  <2>. QED BY <1>0, <2>1, <2>2, <2>3, <2>4, HeldLock
<1>4. ASSUME NEW w \in Workers, Fenced(w) \/ Publish(w) \/ Crash(w) PROVE Held'
  <2>1. /\ ReleaseLocks(w) /\ rq' = rq
        /\ \A x \in Workers : x # w => pc'[x] = pc[x] /\ wk'[x] = wk[x]
        /\ \A c \in Clients : pc'[c] = pc[c]
    <3>1. CASE Fenced(w) \/ Publish(w)
      BY <1>0, <3>1, NextRoundFrame DEF Fenced, Publish
    <3>2. CASE Crash(w)
      BY <1>0, <3>2, WorkerFrame DEF Crash, TypeOK
    <3>. QED BY <1>4, <3>1, <3>2
  <2>. QED BY <1>0, <2>1, WorkerAlone, HeldRelease
<1>5. ASSUME NEW w \in Workers, Confirm(w) PROVE Held'
  <2>1. /\ Goto(w, "recheck") /\ pc[w] = "lock_job" /\ wk[w].v \in Versions
        /\ vlock' = vlock /\ vlock[wk[w].v] = w /\ jlock' = [jlock EXCEPT ![wk[w].v] = w]
        /\ wk' = wk /\ rq' = rq
    BY <1>0, <1>5 DEF Confirm, Memory, Claiming, Locking, WorkerLocked
  <2>2. \A x \in Versions : jlock'[x] = jlock[x] \/ (x = wk[w].v /\ jlock'[x] \in {None, w})
    BY <1>0, <2>1 DEF TypeOK
  <2>3. pc'[w] \in JobLabels
    BY <1>0, <2>1, WorkerFrame DEF JobLabels, AwaitingCommit
  <2>. QED BY <1>0, <2>1, <2>2, <2>3, WorkerFrame, WorkerAlone, HeldLockJob
<1>6. ASSUME NEW w \in Workers, Recheck(w) PROVE Held'
  <2>1. /\ Goto(w, "publish") /\ vlock' = vlock /\ jlock' = jlock /\ rq' = rq
        /\ wk' = [wk EXCEPT ![w].permitted = @ /\ wk[w].actor \in admins]
    BY <1>6 DEF Recheck
  <2>2. wk'[w].v = wk[w].v /\ \A x \in Workers : x # w => wk'[x] = wk[x]
    BY <1>0, <2>1, Typed DEF TypeOK, WorkerMemory
  <2>3. pc'[w] \in LockLabels /\ pc'[w] \in JobLabels
    BY <1>0, <2>1, WorkerFrame DEF LockLabels, WorkerLocked, JobLabels, AwaitingCommit
  <2>. QED BY <1>0, <2>1, <2>2, <2>3, WorkerFrame, WorkerAlone, HeldMove
<1>7. ASSUME NEW c \in Clients, NEW kind \in {"enqueue", "scan"}, NEW v \in Versions,
             NEW u \in Users, Admit(c, kind, v, u)
      PROVE  Held'
  <2>1. /\ Goto(c, "lock_version") /\ pc[c] = "idle" /\ wk' = wk
        /\ vlock' = vlock /\ jlock' = jlock /\ \A d \in Clients : d # c => rq'[d] = rq[d]
    BY <1>0, <1>7 DEF Admit, TypeOK
  <2>2. pc[c] \notin LockLabels \cup JobLabels
    BY <2>1 DEF LockLabels, WorkerLocked, RequestLocked, JobLabels, AwaitingCommit
  <2>. QED BY <1>0, <2>1, <2>2, RequestAlone, HeldMove
<1>8. ASSUME NEW c \in Clients, EnqueueLockVersion(c) \/ ScanLockVersion(c) PROVE Held'
  <2>1. CASE Finish(c)
    BY <1>0, <1>8, <2>1, RequestFinishes DEF EnqueueLockVersion, ScanLockVersion
  <2>2. ASSUME NEW label \in {"read_job", "scan"}, Goto(c, label), jlock' = jlock,
               vlock' = [vlock EXCEPT ![rq[c].v] = c]
        PROVE  Held'
    <3>1. /\ pc[c] = "lock_version" /\ rq[c].v \in Versions /\ vlock[rq[c].v] = None
          /\ wk' = wk /\ rq' = rq
      BY <1>0, <1>8 DEF EnqueueLockVersion, ScanLockVersion, Requested, Memory
    <3>2. pc'[c] \in LockLabels /\ pc[c] \notin LockLabels
      BY <1>0, <2>2, <3>1, RequestFrame DEF LockLabels, WorkerLocked, RequestLocked
    <3>3. \A q \in Procs : q # c => pc'[q] = pc[q] /\ At(q)' = At(q)
      BY <1>0, <2>2, <3>1, RequestAlone
    <3>4. /\ c \in Procs /\ At(c) \in Versions /\ vlock[At(c)] = None /\ At(c)' = At(c)
          /\ vlock' = [vlock EXCEPT ![At(c)] = c]
      BY <1>0, <2>2, <3>1
    <3>. QED BY <1>0, <2>2, <3>2, <3>3, <3>4, HeldLock
  <2>3. \/ Finish(c)
        \/ \E label \in {"read_job", "scan"} :
             Goto(c, label) /\ jlock' = jlock /\ vlock' = [vlock EXCEPT ![rq[c].v] = c]
    BY <1>8 DEF EnqueueLockVersion, ScanLockVersion
  <2>. QED BY <2>1, <2>2, <2>3
<1>9. ASSUME NEW c \in Clients, EnqueueReadJob(c) PROVE Held'
  <2>1. CASE Finish(c)
    BY <1>0, <1>9, <2>1, RequestFinishes DEF EnqueueReadJob
  <2>2. CASE Queueable(rq[c].v)
    <3>1. /\ Goto(c, "commit_job") /\ rq[c].v \in Versions /\ vlock[rq[c].v] = c
          /\ wk' = wk /\ rq' = rq /\ vlock' = vlock
          /\ jlock' = [jlock EXCEPT ![rq[c].v] =
                         IF job[rq[c].v].status = "absent" THEN None ELSE c]
      BY <1>0, <1>9, <2>2 DEF EnqueueReadJob, Memory, Locking, RequestLocked
    <3>2. \A x \in Versions : jlock'[x] = jlock[x] \/ (x = rq[c].v /\ jlock'[x] \in {None, c})
      BY <1>0, <3>1 DEF TypeOK
    <3>3. pc'[c] \in JobLabels
      BY <1>0, <3>1, RequestFrame DEF JobLabels
    <3>. QED BY <1>0, <3>1, <3>2, <3>3, RequestAlone, HeldLockJob
  <2>. QED BY <1>9, <2>1, <2>2 DEF EnqueueReadJob
<1>10. ASSUME NEW c \in Clients, EnqueueCommit(c) \/ ScanCommit(c) \/ Abort(c) PROVE Held'
  BY <1>0, <1>10, RequestFinishes DEF EnqueueCommit, ScanCommit, Abort
<1>11. ASSUME NEW c \in Clients, ScanInspect(c) PROVE Held'
  <2>1. /\ Goto(c, "commit_scan") /\ wk' = wk /\ vlock' = vlock /\ jlock' = jlock
        /\ \A d \in Clients : d # c => rq'[d] = rq[d]
    BY <1>0, <1>11 DEF ScanInspect, TypeOK
  <2>2. rq'[c].v = rq[c].v
    BY <1>0, <1>11, Typed DEF ScanInspect, TypeOK, Requests
  <2>3. pc'[c] \in LockLabels /\ pc[c] \notin JobLabels
    BY <1>0, <1>11, <2>1, RequestFrame
    DEF ScanInspect, LockLabels, RequestLocked, JobLabels, AwaitingCommit
  <2>. QED BY <1>0, <2>1, <2>2, <2>3, RequestAlone, HeldMove
<1>. QED
  BY <1>1, <1>2, <1>3, <1>4, <1>5, <1>6, <1>7, <1>8, <1>9, <1>10, <1>11
  DEF Next, WorkerStep, RequestStep, Upload, Revoke, Grant, Tick, vars

LEMMA HeldInvariance == Spec => []Held
<1>1. Init => Held
  BY ConstantsAssumption DEF Init, Held
<1>. QED BY <1>1, HeldStep, Invariance, PTL DEF Spec

(* Row locks never close a cycle: whoever has locked a version or a job is *)
(* never kept waiting by another lock, however many workers and requests   *)
(* meet, and a crash, a lost claim or an aborted request leaves no lock.   *)
THEOREM NoLockCycle == Spec => []HoldersGoOn
<1>1. ASSUME Inv, Held, NEW p \in Procs, NEW v \in Versions, vlock[v] = p \/ jlock[v] = p
      PROVE  pc[p] \notin {"idle", "poll", "done"} /\ ~Waits(p)
  <2>1. vlock[v] = p /\ pc[p] \in LockLabels /\ At(p) = v
    BY <1>1 DEF Held
  <2>2. pc[p] \in {"lock_job", "read_job"} => jlock[v] = None
    <3>1. jlock[v] \in Procs => jlock[v] = p /\ pc[p] \in JobLabels
      BY <1>1, <2>1 DEF Held
    <3>2. jlock[v] \in Procs \cup {None}
      BY <1>1 DEF Inv, TypeOK
    <3>. QED BY <3>1, <3>2 DEF JobLabels, AwaitingCommit
  <2>. QED BY <2>1, <2>2 DEF Waits, LockLabels, WorkerLocked, RequestLocked
<1>2. Inv /\ Held => HoldersGoOn
  BY <1>1 DEF HoldersGoOn, Holds
<1>. QED BY <1>2, Invariance, HeldInvariance, PTL
=============================================================================
