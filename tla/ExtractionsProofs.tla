------------------------- MODULE ExtractionsProofs -------------------------
(* Proofs about the extraction pipeline, for every value of the constants. *)
EXTENDS Extractions, SequenceTheorems, TLAPS

Busy(p) == pc[p] \notin {"idle", "poll"}

(* What a process has in its hands at each label. *)
Naming == {"read_back", "lock_version", "recheck", "lock_job", "commit", "reread"}

Known ==
  /\ \A p \in Procs : /\ Busy(p) => me[p].v \in Versions /\ me[p].user \in Users
                      /\ pc[p] \in Naming => me[p].id \in Ids
  /\ \A c \in Clients : pc[c] # "poll"

VersionLocked ==
  HoldingVersion \cup {"fail_job", "fail_commit", "read_job", "commit_job"}

(* The locks that a process holds, and what they keep true until the       *)
(* commit: the claim is the worker's own, the job may still be queued.     *)
Locking ==
  /\ \A p \in Procs : pc[p] \in VersionLocked => vlock[me[p].v] = p
  /\ \A w \in Workers :
       pc[w] \in {"commit", "fail_commit"} => jlock[me[w].v] = w /\ ClaimHeld(w)
  /\ \A c \in Clients : pc[c] = "commit_job" => Queueable(me[c].v)

(* The object is in the bucket before the version is locked; past the      *)
(* second check the text is cleared, and no other artifact is in its way.  *)
Publishing ==
  \A p \in Procs :
    /\ pc[p] \in {"lock_version", "recheck", "lock_job", "commit"} => me[p].id \in store
    /\ pc[p] \in {"lock_job", "commit"} =>
         Cleared(me[p].v) /\ art[me[p].v] \in {None, me[p].id}

Artifacts == ArtifactStored /\ SavedTextWasCleared /\ CompletedNamesArtifact

(* A worker whose token the job carries works for the job's requester.     *)
Claims ==
  \A w \in Workers : Busy(w) /\ ClaimHeld(w) => job[me[w].v].requested_by = me[w].user

(* The membership that is about to be read, or was read, was there at some *)
(* instant since the version was locked.                                   *)
Vouching ==
  \A p \in Procs :
    /\ pc[p] = "recheck" /\ MayWrite(p) => p \in vouched
    /\ pc[p] \in {"lock_job", "commit"} => p \in vouched

Inv == TypeOK /\ Known /\ Locking /\ Publishing /\ Artifacts /\ Claims /\ Vouching

-----------------------------------------------------------------------------
LEMMA InvInit == Init => Inv
<1>. SUFFICES ASSUME Init PROVE Inv
  OBVIOUS
<1>1. NoJob \in JobRows
  BY ConstantsAssumption DEF NoJob, JobRows
<1>2. TypeOK
  BY <1>1 DEF Init, TypeOK, Forgotten, Memory, Labels, Events
<1>3. Known /\ Locking /\ Publishing /\ Claims /\ Vouching
  BY ConstantsAssumption
  DEF Init, Known, Busy, Naming, Locking, VersionLocked, HoldingVersion, Publishing, Claims, Vouching, Procs
<1>4. Artifacts
  BY DEF Init, NoJob, Artifacts, ArtifactStored, SavedTextWasCleared, CompletedNamesArtifact
<1>. QED BY <1>2, <1>3, <1>4 DEF Inv

-----------------------------------------------------------------------------
(* The rows of the jobs. *)

LEMMA Ticked ==
  ASSUME TypeOK, NEW v \in Versions, Tick(v)
  PROVE  /\ job' \in [Versions -> JobRows]
         /\ job[v].status = "running"
         /\ \A x \in Versions : /\ job'[x].status = job[x].status
                                /\ job'[x].claim_token = job[x].claim_token
                                /\ job'[x].requested_by = job[x].requested_by
                                /\ job'[x].result_id = job[x].result_id
         /\ \A x \in Versions \ {v} : job'[x] = job[x]
<1>1. /\ job' = [job EXCEPT ![v] = [job[v] EXCEPT !.lease = LeaseAfter(job[v].lease)]]
      /\ job \in [Versions -> JobRows]
  BY DEF Tick, TypeOK
<1>2. job[v].lease # None /\ job[v].status = "running"
  BY <1>1, ConstantsAssumption DEF Tick, JobRows, Leases
<1>3. /\ job'[v] \in JobRows
      /\ job'[v].status = job[v].status /\ job'[v].claim_token = job[v].claim_token
      /\ job'[v].requested_by = job[v].requested_by /\ job'[v].result_id = job[v].result_id
  BY <1>1, <1>2, ConstantsAssumption DEF JobRows, LeaseAfter, Leases
<1>. QED BY <1>1, <1>2, <1>3

LEMMA Claimed ==
  ASSUME TypeOK, NEW w \in Workers, Claim(w)
  PROVE  \E v \in Versions, t \in Tokens :
           /\ jlock[v] = None /\ job[v].status \in {"pending", "running"}
           /\ \A x \in Versions : job[x].claim_token # t
           /\ \A p \in Procs : me[p].token # t
           /\ job' \in [Versions -> JobRows] /\ job'[v].status = "running"
           /\ job'[v].claim_token = t /\ job'[v].requested_by = job[v].requested_by
           /\ job'[v].result_id = job[v].result_id
           /\ \A x \in Versions \ {v} : job'[x] = job[x]
           /\ me' \in [Procs -> Memory]
           /\ me'[w].v = v /\ me'[w].user = job[v].requested_by /\ me'[w].user \in Users
           /\ me'[w].token = t /\ me'[w].id = None
           /\ \A p \in Procs \ {w} : me'[p] = me[p]
<1>1. PICK t \in FreshTokens : \E v \in Claimable :
        /\ job' = [job EXCEPT ![v] = ClaimedJob(v, t)]
        /\ me' = [me EXCEPT ![w] = [kind |-> "job", v |-> v, user |-> job[v].requested_by,
                                    token |-> t, id |-> None, found |-> FALSE]]
  BY DEF Claim
<1>2. PICK v \in Claimable :
        /\ job' = [job EXCEPT ![v] = ClaimedJob(v, t)]
        /\ me' = [me EXCEPT ![w] = [kind |-> "job", v |-> v, user |-> job[v].requested_by,
                                    token |-> t, id |-> None, found |-> FALSE]]
  BY <1>1
<1>3. /\ t \in Tokens /\ t # None /\ \A x \in Versions : job[x].claim_token # t
      /\ \A p \in Procs : me[p].token # t
  BY ConstantsAssumption DEF FreshTokens
<1>4. /\ v \in Versions /\ jlock[v] = None /\ job[v].attempts < MaxAttempts
      /\ job[v].status = "pending" \/ job[v].lease \in {"disputed", "over"}
      /\ job[v] \in JobRows
  BY DEF Claimable, Unlocked, TypeOK
<1>5. /\ job[v].status \in {"pending", "running"} /\ job[v].requested_by \in Users
      /\ job[v].result_id = None
  BY <1>4, ConstantsAssumption DEF JobRows, Leases
<1>6. job'[v] = [job[v] EXCEPT !.status = "running", !.claim_token = t, !.lease = "held",
                               !.attempts = @ + 1]
  BY <1>2, <1>4 DEF ClaimedJob, TypeOK
<1>7. /\ job'[v].status = "running" /\ job'[v].claim_token = t /\ job'[v].lease = "held"
      /\ job'[v].requested_by = job[v].requested_by /\ job'[v].result_id = None
      /\ job'[v].attempts = job[v].attempts + 1
      /\ job'[v] = [status |-> "running", attempts |-> job[v].attempts + 1, claim_token |-> t,
                    lease |-> "held", requested_by |-> job[v].requested_by, result_id |-> None]
  BY <1>4, <1>5, <1>6 DEF JobRows
<1>8. job'[v] \in JobRows
  <2>1. job[v].attempts + 1 \in 0 .. MaxAttempts /\ "held" # None /\ job[v].requested_by # None
    BY <1>4, <1>5, ConstantsAssumption DEF JobRows, Leases
  <2>. QED BY <1>3, <1>5, <1>7, <2>1 DEF JobRows, Leases
<1>9. \A x \in Versions \ {v} : job'[x] = job[x]
  BY <1>2 DEF TypeOK
<1>10. job' \in [Versions -> JobRows]
  BY <1>2, <1>4, <1>6, <1>8 DEF TypeOK
<1>11. w \in Procs /\ me \in [Procs -> Memory]
  BY DEF Procs, TypeOK
<1>12. /\ me'[w] = [kind |-> "job", v |-> v, user |-> job[v].requested_by, token |-> t,
                    id |-> None, found |-> FALSE]
       /\ \A p \in Procs \ {w} : me'[p] = me[p]
  BY <1>2, <1>11
<1>13. me' \in [Procs -> Memory]
  BY <1>2, <1>3, <1>4, <1>5, <1>11, <1>12 DEF Memory
<1>. QED BY <1>3, <1>4, <1>5, <1>7, <1>9, <1>10, <1>12, <1>13

(* A row of the types, whatever the constraints. *)
Columns ==
  [status : {"absent", "pending", "running", "completed", "failed"},
   attempts : 0 .. MaxAttempts, claim_token : Tokens \cup {None},
   lease : Leases \cup {None}, requested_by : Users \cup {None},
   result_id : Ids \cup {None}]

LEMMA SettledRow ==
  ASSUME TypeOK, NEW v \in Versions, NEW status \in {"completed", "failed"},
         NEW id \in Ids \cup {None}, job[v].status = "running",
         status = "completed" <=> id # None,
         job' = [job EXCEPT ![v] = Settled(v, status, id)]
  PROVE  /\ job' \in [Versions -> JobRows]
         /\ job'[v].status = status /\ job'[v].result_id = id
         /\ job'[v].requested_by = job[v].requested_by
         /\ \A x \in Versions \ {v} : job'[x] = job[x]
<1>. DEFINE q == Settled(v, status, id)
<1>1. job[v] \in Columns /\ job[v].requested_by # None
  BY DEF TypeOK, JobRows, Columns
<1>2. /\ q.status = status /\ q.claim_token = None /\ q.lease = None /\ q.result_id = id
      /\ q.requested_by = job[v].requested_by /\ q \in Columns
  BY <1>1 DEF Settled, Columns
<1>3. q \in JobRows
  BY ONLY <1>1, <1>2, status \in {"completed", "failed"}, status = "completed" <=> id # None
  DEF JobRows, Columns
<1>. QED BY <1>2, <1>3 DEF TypeOK

LEMMA QueuedRow ==
  ASSUME TypeOK, NEW v \in Versions, NEW u \in Users, Queueable(v),
         job' = [job EXCEPT ![v].status = "pending", ![v].requested_by = u]
  PROVE  /\ job' \in [Versions -> JobRows]
         /\ job'[v].status = "pending" /\ job'[v].result_id = job[v].result_id
         /\ job'[v].requested_by = u
         /\ \A x \in Versions \ {v} : job'[x] = job[x]
<1>. DEFINE q == [job[v] EXCEPT !.status = "pending", !.requested_by = u]
<1>1. /\ job[v] \in Columns
      /\ job[v].claim_token = None /\ job[v].lease = None /\ job[v].result_id = None
  BY DEF TypeOK, JobRows, Queueable, Columns
<1>2. /\ q.status = "pending" /\ q.claim_token = None /\ q.lease = None /\ q.result_id = None
      /\ q.requested_by = u /\ q \in Columns
  BY <1>1 DEF Columns
<1>3. u # None
  BY ConstantsAssumption
<1>4. q \in JobRows
  BY ONLY <1>2, <1>3 DEF JobRows, Columns
<1>5. job' = [job EXCEPT ![v] = q]
  BY DEF TypeOK
<1>. QED BY <1>1, <1>2, <1>4, <1>5 DEF TypeOK

-----------------------------------------------------------------------------
(* Locals and locks. *)

LEMMA Identified ==
  ASSUME TypeOK, NEW p \in Procs, NEW i \in Ids \cup {None}, me' = [me EXCEPT ![p].id = i]
  PROVE  /\ me' \in [Procs -> Memory]
         /\ \A q \in Procs : /\ me'[q].v = me[q].v /\ me'[q].user = me[q].user
                             /\ me'[q].token = me[q].token
         /\ me'[p].id = i
         /\ \A q \in Procs \ {p} : me'[q] = me[q]
<1>1. me' = [me EXCEPT ![p] = [me[p] EXCEPT !.id = i]] /\ me \in [Procs -> Memory]
  BY DEF TypeOK
<1>2. /\ me'[p] \in Memory /\ me'[p].v = me[p].v /\ me'[p].user = me[p].user
      /\ me'[p].token = me[p].token /\ me'[p].id = i
  BY <1>1 DEF Memory
<1>. QED BY <1>1, <1>2

(* The same for the first look at the artifact, found or not. *)
LEMMA LookedUp ==
  ASSUME TypeOK, NEW p \in Procs, NEW i \in Ids \cup {None},
         me' = [me EXCEPT ![p].id = i, ![p].found = (i # None)]
  PROVE  /\ me' \in [Procs -> Memory]
         /\ me'[p].v = me[p].v /\ me'[p].user = me[p].user /\ me'[p].id = i
         /\ \A q \in Procs \ {p} : me'[q] = me[q]
<1>1. PICK found \in BOOLEAN : me' = [me EXCEPT ![p].id = i, ![p].found = found]
  OBVIOUS
<1>2. me \in [Procs -> Memory] /\ me[p] \in Memory
  BY DEF TypeOK
<1>3. me' = [me EXCEPT ![p] = [me[p] EXCEPT !.id = i, !.found = found]]
  BY <1>1, <1>2
<1>4. me'[p] = [kind |-> me[p].kind, v |-> me[p].v, user |-> me[p].user, token |-> me[p].token,
                id |-> i, found |-> found]
  BY <1>2, <1>3 DEF Memory
<1>5. me'[p] \in Memory
  BY <1>2, <1>4 DEF Memory
<1>. QED BY <1>2, <1>3, <1>4, <1>5

LEMMA Admitted ==
  ASSUME TypeOK, NEW c \in Clients, NEW kind \in {"enqueue", "save"}, NEW v \in Versions,
         NEW u \in Users, Admit(c, kind, v, u)
  PROVE  /\ me' \in [Procs -> Memory]
         /\ me'[c].v = v /\ me'[c].user = u
         /\ \A q \in Procs \ {c} : me'[q] = me[q]
         /\ pc' = [pc EXCEPT ![c] = IF kind = "save" THEN "get" ELSE "queue"]
<1>1. /\ me' = [me EXCEPT ![c] = [Forgotten EXCEPT !.kind = kind, !.v = v, !.user = u]]
      /\ me \in [Procs -> Memory] /\ c \in Procs
  BY DEF TypeOK, Admit, Procs
<1>2. me'[c] \in Memory /\ me'[c].v = v /\ me'[c].user = u
  BY <1>1 DEF Memory, Forgotten
<1>. QED BY <1>1, <1>2 DEF Admit, Goto

LEMMA Freed ==
  ASSUME TypeOK, NEW p \in Procs, ReleaseLocks(p)
  PROVE  /\ vlock' \in [Versions -> Procs \cup {None}]
         /\ jlock' \in [Versions -> Procs \cup {None}]
         /\ \A v \in Versions : /\ vlock[v] # p => vlock'[v] = vlock[v]
                                /\ jlock[v] # p => jlock'[v] = jlock[v]
BY DEF TypeOK, ReleaseLocks, Released

(* What an expected failure leaves behind. *)
LEMMA Refusal ==
  ASSUME TypeOK, NEW p \in Procs, Refused(p)
  PROVE  /\ pc' = [pc EXCEPT ![p] = IF p \in Workers THEN "fail_version" ELSE "done"]
         /\ UNCHANGED <<content, art, job, audit, admins, me, vouched>>
         /\ vlock' \in [Versions -> Procs \cup {None}]
         /\ jlock' \in [Versions -> Procs \cup {None}]
         /\ \A v \in Versions : /\ vlock[v] # p => vlock'[v] = vlock[v]
                                /\ jlock[v] # p => jlock'[v] = jlock[v]
BY Freed DEF Refused, Goto

LEMMA ExplainType ==
  ASSUME audit \in [Versions -> Seq(Events)], NEW v \in Versions,
         NEW events \in Seq(Events), Explain(v, events)
  PROVE  audit' \in [Versions -> Seq(Events)]
BY DEF Explain

LEMMA PairAppended ==
  ASSUME NEW S, NEW x \in S, NEW y \in S
  PROVE  Append(<<x>>, y) = <<x, y>>
<1>. DEFINE s == Append(<<x>>, y)
           t == <<x, y>>
<1>1. s \in Seq(S) /\ Len(s) = 2 /\ t \in Seq(S) /\ Len(t) = 2
  OBVIOUS
<1>2. s[1] = t[1] /\ s[2] = t[2]
  OBVIOUS
<1>3. \A i \in 1 .. Len(s) : s[i] = t[i]
  BY <1>1, <1>2
<1>. HIDE DEF s, t
<1>4. s = t
  BY <1>1, <1>3, SeqEqual
<1>. QED BY <1>4 DEF s, t

LEMMA EventsTyped ==
  ASSUME NEW u \in Users
  PROVE  /\ \A action \in {"queued", "saved", "completed", "failed"} :
              <<Event(action, u)>> \in Seq(Events)
         /\ <<Event("saved", u), Event("completed", u)>> \in Seq(Events)
         /\ <<>> \in Seq(Events)
         /\ Append(<<Event("saved", u)>>, Event("completed", u))
              = <<Event("saved", u), Event("completed", u)>>
         /\ Append(<<>>, Event("completed", u)) = <<Event("completed", u)>>
<1>1. \A action \in {"queued", "saved", "completed", "failed"} : Event(action, u) \in Events
  BY DEF Event, Events
<1>. DEFINE saved == Event("saved", u)
            completed == Event("completed", u)
<1>2. saved \in Events /\ completed \in Events
  BY <1>1
<1>3. /\ \A e \in Events : <<e>> \in Seq(Events)
      /\ \A e, f \in Events : <<e, f>> \in Seq(Events)
      /\ <<>> \in Seq(Events)
  OBVIOUS
<1>. HIDE DEF saved, completed
<1>4. Append(<<saved>>, completed) = <<saved, completed>>
  BY <1>2, PairAppended
<1>5. Append(<<>>, completed) = <<completed>>
  OBVIOUS
<1>6. <<saved, completed>> \in Seq(Events)
  BY <1>2, <1>3
<1>. QED BY <1>1, <1>3, <1>4, <1>5, <1>6 DEF saved, completed

-----------------------------------------------------------------------------
(* Types. *)

LEMMA SaveType ==
  ASSUME TypeOK, Known, Locking, NEW p \in Procs, SaveStep(p)
  PROVE  TypeOK'
<1>. USE DEF Goto, Labels, HoldingVersion, Kept
<1>0. \A x : Refused(p) /\ store' = x /\ x \in SUBSET Ids => TypeOK'
  BY Refusal DEF TypeOK
<1>1. CASE Get(p)
  <2>1. art[me[p].v] \in Ids \cup {None}
    BY <1>1 DEF Get, Known, Busy, Naming, TypeOK
  <2>2. CASE Refused(p) /\ UNCHANGED store
    BY <1>0, <2>2 DEF TypeOK
  <2>3. CASE me' = [me EXCEPT ![p].id = art[me[p].v], ![p].found = (art[me[p].v] # None)]
    <3>1. me' \in [Procs -> Memory]
      BY <2>1, <2>3, LookedUp
    <3>. QED BY <1>1, <2>2, <3>1 DEF Get, TypeOK
  <2>. QED BY <1>1, <2>2, <2>3 DEF Get
<1>2. CASE ReadBack(p)
  <2>1. CASE Refused(p) /\ store' = store
    BY <1>0, <2>1 DEF TypeOK
  <2>. QED BY <1>2, <2>1 DEF ReadBack, TypeOK
<1>3. CASE Extract(p)
  <2>1. CASE Refused(p) /\ store' = store
    BY <1>0, <2>1 DEF TypeOK
  <2>. QED BY <1>3, <2>1 DEF Extract, TypeOK
<1>4. CASE Put(p)
  <2>1. PICK i \in Ids :
          \/ /\ store' = store \cup {i}
             /\ me' = [me EXCEPT ![p].id = i]
             /\ Goto(p, "lock_version")
             /\ UNCHANGED <<content, art, job, audit, vlock, jlock, admins, vouched>>
          \/ Refused(p) /\ store' \in {store, store \cup {i}}
    BY <1>4 DEF Put, FreshIds
  <2>2. CASE Refused(p) /\ store' \in {store, store \cup {i}}
    BY <1>0, <2>2 DEF TypeOK
  <2>. QED BY <2>1, <2>2, Identified DEF TypeOK
<1>5. CASE LockVersion(p)
  BY <1>5 DEF LockVersion, TypeOK
<1>6. CASE Recheck(p)
  <2>1. PublishedId(p) \in Ids \cup {None}
    BY <1>6 DEF PublishedId, Recheck, Known, Busy, Naming, TypeOK
  <2>2. CASE Refused(p) /\ store' = store
    BY <1>0, <2>2 DEF TypeOK
  <2>3. CASE me' = [me EXCEPT ![p].id = PublishedId(p)]
    <3>1. me' \in [Procs -> Memory]
      BY <2>1, <2>3, Identified
    <3>2. CASE ~(Refused(p) /\ store' = store)
      BY <1>6, <3>1, <3>2 DEF Recheck, TypeOK
    <3>. QED BY <2>2, <3>2
  <2>. QED BY <1>6, <2>2, <2>3 DEF Recheck
<1>7. CASE Commit(p)
  <2>1. me[p].v \in Versions /\ me[p].user \in Users /\ me[p].id \in Ids
    BY <1>7 DEF Commit, Known, Busy, Naming
  <2>2. art' \in [Versions -> Ids \cup {None}]
    BY <1>7, <2>1 DEF Commit, TypeOK
  <2>3. job' \in [Versions -> JobRows]
    <3>1. CASE p \in Workers
      BY <1>7, <2>1, <3>1, SettledRow, ConstantsAssumption DEF Commit, Locking, ClaimHeld
    <3>. QED BY <1>7, <3>1 DEF Commit, TypeOK
  <2>4. audit' \in [Versions -> Seq(Events)]
    <3>. DEFINE events == IF p \in Workers
                          THEN Append(SavedEvents(p), Event("completed", me[p].user))
                          ELSE SavedEvents(p)
    <3>1. events \in Seq(Events)
      BY <2>1, EventsTyped DEF SavedEvents
    <3>2. Explain(me[p].v, events)
      BY <1>7 DEF Commit
    <3>. QED BY <2>1, <3>1, <3>2, ExplainType DEF TypeOK
  <2>. QED BY <1>7, <2>2, <2>3, <2>4, Freed DEF Commit, TypeOK
<1>8. CASE Reread(p)
  <2>1. CASE Refused(p) /\ store' = store
    BY <1>0, <2>1 DEF TypeOK
  <2>. QED BY <1>8, <2>1 DEF Reread, TypeOK
<1>. QED BY <1>1, <1>2, <1>3, <1>4, <1>5, <1>6, <1>7, <1>8 DEF SaveStep

(* A lock is free or held by a process; a process is at a label. *)
LEMMA LockTyped ==
  ASSUME NEW lock \in [Versions -> Procs \cup {None}], NEW v, NEW p \in Procs \cup {None}
  PROVE  [lock EXCEPT ![v] = p] \in [Versions -> Procs \cup {None}]
OBVIOUS

LEMMA LabelTyped ==
  ASSUME NEW p, NEW label \in Labels, pc \in [Procs -> Labels], Goto(p, label)
  PROVE  pc' \in [Procs -> Labels]
BY DEF Goto

LEMMA TypeStep ==
  ASSUME TypeOK, Known, Locking, [Next]_vars
  PROVE  TypeOK'
<1>. USE DEF Goto, Labels, HoldingVersion, Procs, Kept
<1>1. ASSUME NEW p \in Procs, SaveStep(p) PROVE TypeOK'
  BY <1>1, SaveType
<1>2. ASSUME NEW v \in Versions, NEW verdict \in {"clean", "rejected"}, Judge(v, verdict)
      PROVE  TypeOK'
  BY <1>2 DEF Judge, TypeOK
<1>3. ASSUME NEW u \in Users, Revoke(u) \/ Grant(u) PROVE TypeOK'
  BY <1>3 DEF Revoke, Grant, TypeOK
<1>4. ASSUME NEW v \in Versions, Tick(v) PROVE TypeOK'
  BY <1>4, Ticked DEF Tick, TypeOK
<1>5. ASSUME NEW w \in Workers, StartDrain(w) \/ NoWork(w) \/ StartJob(w) PROVE TypeOK'
  BY <1>5 DEF StartDrain, NoWork, StartJob, TypeOK
<1>6. ASSUME NEW w \in Workers, Claim(w) PROVE TypeOK'
  BY <1>6, Claimed DEF Claim, TypeOK
<1>7. ASSUME NEW w \in Workers, LockJob(w) \/ FailLockVersion(w) \/ FailLockJob(w) PROVE TypeOK'
  <2>1. w \in Procs
    OBVIOUS
  <2>2. CASE LockJob(w)
    BY <2>1, <2>2 DEF LockJob, TypeOK
  <2>3. CASE FailLockVersion(w)
    BY <2>1, <2>3 DEF FailLockVersion, TypeOK
  <2>4. CASE FailLockJob(w)
    BY <2>1, <2>4 DEF FailLockJob, TypeOK
  <2>. QED BY <1>7, <2>2, <2>3, <2>4
<1>8. ASSUME NEW w \in Workers, ClaimLost(w) \/ Crash(w) PROVE TypeOK'
  BY <1>8, Freed DEF ClaimLost, Crash, TypeOK
<1>9. ASSUME NEW w \in Workers, FailCommit(w) PROVE TypeOK'
  <2>1. me[w].v \in Versions /\ me[w].user \in Users
    BY <1>9 DEF FailCommit, Known, Busy
  <2>2. job' \in [Versions -> JobRows]
    BY <1>9, <2>1, SettledRow DEF FailCommit, Locking, ClaimHeld
  <2>3. audit' \in [Versions -> Seq(Events)]
    BY <1>9, <2>1, ExplainType, EventsTyped DEF FailCommit, TypeOK
  <2>. QED BY <1>9, <2>2, <2>3, Freed DEF FailCommit, TypeOK
<1>10. ASSUME NEW c \in Clients, NEW kind \in {"enqueue", "save"}, NEW v \in Versions,
              NEW u \in Users, Admit(c, kind, v, u)
       PROVE  TypeOK'
  BY <1>10, Admitted DEF Admit, TypeOK
<1>11. ASSUME NEW c \in Clients, EnqueueLockVersion(c) PROVE TypeOK'
  <2>1. vlock' = vlock \/ vlock' = [vlock EXCEPT ![me[c].v] = c]
    BY <1>11 DEF EnqueueLockVersion
  <2>2. vlock' \in [Versions -> Procs \cup {None}]
    BY <2>1, LockTyped DEF TypeOK
  <2>3. pc' \in [Procs -> Labels]
    <3>1. Goto(c, "read_job") \/ Goto(c, "done")
      BY <1>11 DEF EnqueueLockVersion
    <3>. QED BY <3>1, LabelTyped DEF TypeOK
  <2>. QED BY <1>11, <2>2, <2>3 DEF EnqueueLockVersion, TypeOK
<1>12. ASSUME NEW c \in Clients, EnqueueReadJob(c) PROVE TypeOK'
  <2>1. CASE ReleaseLocks(c) /\ Goto(c, "done")
    BY <1>12, <2>1, Freed DEF EnqueueReadJob, TypeOK
  <2>2. CASE /\ \E x \in {None, c} : jlock' = [jlock EXCEPT ![me[c].v] = x]
             /\ Goto(c, "commit_job") /\ UNCHANGED vlock
    <3>0. PICK x \in {None, c} : jlock' = [jlock EXCEPT ![me[c].v] = x]
      BY <2>2
    <3>1. jlock' \in [Versions -> Procs \cup {None}]
      <4>1. x \in Procs \cup {None} /\ jlock \in [Versions -> Procs \cup {None}]
        BY DEF TypeOK
      <4>. QED BY <3>0, <4>1, LockTyped
    <3>2. pc' \in [Procs -> Labels]
      BY <2>2, LabelTyped DEF TypeOK
    <3>. QED BY <1>12, <2>2, <3>1, <3>2 DEF EnqueueReadJob, TypeOK
  <2>. QED BY <1>12, <2>1, <2>2 DEF EnqueueReadJob
<1>13. ASSUME NEW c \in Clients, EnqueueCommit(c) PROVE TypeOK'
  <2>1. me[c].v \in Versions /\ me[c].user \in Users
    BY <1>13 DEF EnqueueCommit, Known, Busy
  <2>2. job' \in [Versions -> JobRows]
    BY <1>13, <2>1, QueuedRow DEF EnqueueCommit, Locking
  <2>3. audit' \in [Versions -> Seq(Events)]
    BY <1>13, <2>1, ExplainType, EventsTyped DEF EnqueueCommit, TypeOK
  <2>. QED BY <1>13, <2>2, <2>3, Freed DEF EnqueueCommit, TypeOK
<1>14. ASSUME NEW c \in Clients, Abort(c) PROVE TypeOK'
  BY <1>14, Freed DEF Abort, TypeOK
<1>15. CASE UNCHANGED vars
  BY <1>15 DEF vars, TypeOK
<1>. QED
  BY <1>1, <1>2, <1>3, <1>4, <1>5, <1>6, <1>7, <1>8, <1>9, <1>10, <1>11, <1>12, <1>13, <1>14,
     <1>15 DEF Next, WorkerStep, RequestStep

-----------------------------------------------------------------------------
(* What a process has in its hands. *)

LEMMA KnownMove ==
  ASSUME TypeOK, Known, NEW p \in Procs, NEW label, pc' = [pc EXCEPT ![p] = label], me' = me,
         label \in {"idle", "poll"} \/ Busy(p),
         label \in Naming => pc[p] \in Naming,
         label = "poll" => p \in Workers
  PROVE  Known'
BY ConstantsAssumption DEF TypeOK, Known, Busy, Naming

LEMMA KnownSave ==
  ASSUME TypeOK, Known, NEW p \in Procs, SaveStep(p)
  PROVE  Known'
<1>. USE DEF Goto
<1>0. Refused(p) /\ Busy(p) => Known'
  BY Refusal, KnownMove DEF Naming
<1>1. CASE Get(p)
  <2>1. CASE Refused(p)
    BY <1>0, <1>1, <2>1 DEF Get, Busy
  <2>2. CASE ~Refused(p)
    <3>1. me[p].v \in Versions /\ art[me[p].v] \in Ids \cup {None}
      BY <1>1 DEF Get, Known, Busy, Naming, TypeOK
    <3>2. /\ me' = [me EXCEPT ![p].id = art[me[p].v], ![p].found = (art[me[p].v] # None)]
          /\ pc' = [pc EXCEPT ![p] = IF art[me[p].v] = None THEN "extract" ELSE "read_back"]
      BY <1>1, <2>2 DEF Get
    <3>3. /\ me'[p].v = me[p].v /\ me'[p].user = me[p].user /\ me'[p].id = art[me[p].v]
          /\ \A q \in Procs \ {p} : me'[q] = me[q]
      BY <3>1, <3>2, LookedUp
    <3>4. /\ me'[p].v \in Versions /\ me'[p].user \in Users
          /\ pc'[p] \in Naming => me'[p].id \in Ids
          /\ pc'[p] # "poll" /\ \A q \in Procs \ {p} : pc'[q] = pc[q]
      BY <1>1, <3>1, <3>2, <3>3 DEF Get, Known, Busy, Naming, TypeOK
    <3>. QED BY <3>3, <3>4 DEF Known, Busy, Procs
  <2>. QED BY <2>1, <2>2
<1>2. CASE ReadBack(p)
  BY <1>0, <1>2, KnownMove DEF ReadBack, Busy, Naming
<1>3. CASE Extract(p)
  BY <1>0, <1>3, KnownMove DEF Extract, Busy, Naming
<1>4. CASE Put(p)
  <2>1. CASE Refused(p)
    BY <1>0, <1>4, <2>1 DEF Put, Busy
  <2>2. CASE ~Refused(p)
    <3>1. PICK i \in Ids : me' = [me EXCEPT ![p].id = i]
      BY <1>4, <2>2 DEF Put, FreshIds
    <3>2. pc' = [pc EXCEPT ![p] = "lock_version"]
      BY <1>4, <2>2 DEF Put
    <3>3. /\ me'[p].v = me[p].v /\ me'[p].user = me[p].user /\ me'[p].id = i
          /\ \A q \in Procs \ {p} : me'[q] = me[q]
      BY <3>1, Identified
    <3>. QED BY <1>4, <3>2, <3>3 DEF Put, Known, Busy, Naming, TypeOK
  <2>. QED BY <2>1, <2>2
<1>5. CASE LockVersion(p)
  BY <1>5, KnownMove DEF LockVersion, Busy, Naming
<1>6. CASE Recheck(p)
  <2>1. CASE Refused(p)
    BY <1>0, <1>6, <2>1 DEF Recheck, Busy
  <2>2. CASE ~Refused(p)
    <3>1. me[p].v \in Versions /\ me[p].id \in Ids
      BY <1>6 DEF Recheck, Known, Busy, Naming
    <3>2. PublishedId(p) \in Ids
      BY <3>1 DEF PublishedId, TypeOK
    <3>3. /\ me' = [me EXCEPT ![p].id = PublishedId(p)]
          /\ pc' = [pc EXCEPT ![p] = IF p \in Workers THEN "lock_job" ELSE "commit"]
      BY <1>6, <2>2 DEF Recheck
    <3>4. /\ me'[p].v = me[p].v /\ me'[p].user = me[p].user /\ me'[p].id = PublishedId(p)
          /\ \A q \in Procs \ {p} : me'[q] = me[q]
      BY <3>2, <3>3, Identified
    <3>5. /\ me'[p].v \in Versions /\ me'[p].user \in Users /\ me'[p].id \in Ids
          /\ pc'[p] # "poll" /\ \A q \in Procs \ {p} : pc'[q] = pc[q]
      BY <1>6, <3>2, <3>3, <3>4 DEF Recheck, Known, Busy, TypeOK
    <3>. QED BY <3>4, <3>5 DEF Known, Busy, Procs
  <2>. QED BY <2>1, <2>2
<1>7. CASE Commit(p)
  BY <1>7, KnownMove DEF Commit, Busy, Naming
<1>8. CASE Reread(p)
  BY <1>0, <1>8, KnownMove DEF Reread, Busy, Naming
<1>. QED BY <1>1, <1>2, <1>3, <1>4, <1>5, <1>6, <1>7, <1>8 DEF SaveStep

LEMMA KnownStep ==
  ASSUME TypeOK, Known, [Next]_vars
  PROVE  Known'
<1>. USE DEF Goto, Procs
<1>1. ASSUME NEW p \in Procs, SaveStep(p) PROVE Known'
  BY <1>1, KnownSave
<1>2. ASSUME NEW w \in Workers, Claim(w) PROVE Known'
  <2>1. /\ me'[w].v \in Versions /\ me'[w].user \in Users
        /\ \A p \in Procs \ {w} : me'[p] = me[p]
    BY <1>2, Claimed
  <2>2. pc' = [pc EXCEPT ![w] = "start"]
    BY <1>2 DEF Claim
  <2>. QED BY <2>1, <2>2 DEF Known, Busy, TypeOK, Naming
<1>3. ASSUME NEW w \in Workers,
             \/ StartDrain(w) \/ NoWork(w) \/ StartJob(w) \/ LockJob(w) \/ ClaimLost(w)
             \/ FailLockVersion(w) \/ FailLockJob(w) \/ FailCommit(w) \/ Crash(w)
      PROVE  Known'
  BY <1>3, KnownMove
  DEF StartDrain, NoWork, StartJob, LockJob, ClaimLost, FailLockVersion, FailLockJob, FailCommit,
      Crash, Busy, Naming
<1>4. ASSUME NEW c \in Clients, NEW kind \in {"enqueue", "save"}, NEW v \in Versions,
             NEW u \in Users, Admit(c, kind, v, u)
      PROVE  Known'
  <2>1. /\ me'[c].v \in Versions /\ me'[c].user \in Users
        /\ \A p \in Procs \ {c} : me'[p] = me[p]
        /\ pc' = [pc EXCEPT ![c] = IF kind = "save" THEN "get" ELSE "queue"]
    BY <1>4, Admitted
  <2>. QED BY <2>1 DEF Known, Busy, TypeOK, Naming
<1>5. ASSUME NEW c \in Clients, EnqueueLockVersion(c) \/ EnqueueReadJob(c) \/ EnqueueCommit(c)
      PROVE  Known'
  BY <1>5, KnownMove DEF EnqueueLockVersion, EnqueueReadJob, EnqueueCommit, Busy, Naming
<1>6. ASSUME NEW c \in Clients, Abort(c) PROVE Known'
  <2>1. pc[c] # "idle" /\ me' = me /\ pc' = [pc EXCEPT ![c] = "done"]
    BY <1>6 DEF Abort
  <2>2. Busy(c)
    BY <2>1 DEF Known, Busy
  <2>. QED BY <2>1, <2>2, KnownMove DEF Naming
<1>7. CASE pc' = pc /\ me' = me
  BY <1>7 DEF Known, Busy, Naming
<1>. QED
  BY <1>1, <1>2, <1>3, <1>4, <1>5, <1>6, <1>7
  DEF Next, WorkerStep, RequestStep, Judge, Revoke, Grant, Tick, vars

-----------------------------------------------------------------------------
(* Locks. *)

(* A step of p that takes only free locks, releases only its own, and      *)
(* changes a job only under the lock of its version, or claims it, leaves  *)
(* the locks of the others and what they rely on as they were.             *)
LEMMA Undisturbed ==
  ASSUME TypeOK, Known, Locking, NEW p \in Procs,
         \A q \in Procs \ {p} : pc'[q] = pc[q] /\ me'[q] = me[q],
         \A x \in Versions : /\ vlock[x] \notin {p, None} => vlock'[x] = vlock[x]
                             /\ jlock[x] \notin {p, None} => jlock'[x] = jlock[x],
         \A x \in Versions :
           \/ job'[x] = job[x]
           \/ vlock[x] = p
           \/ jlock[x] = None /\ job[x].status \in {"pending", "running"},
         pc'[p] \in VersionLocked => vlock'[me'[p].v] = p,
         p \in Workers /\ pc'[p] \in {"commit", "fail_commit"} =>
           jlock'[me'[p].v] = p /\ ClaimHeld(p)',
         p \in Clients /\ pc'[p] = "commit_job" => Queueable(me[p].v)' /\ me'[p] = me[p]
  PROVE  Locking'
<1>1. \A q \in Procs : pc[q] \in VersionLocked => me[q].v \in Versions /\ q # None
  BY ConstantsAssumption DEF Known, Busy, VersionLocked, HoldingVersion
<1>2. ASSUME NEW q \in Procs, pc'[q] \in VersionLocked PROVE vlock'[me'[q].v] = q
  BY <1>1, <1>2 DEF Locking
<1>3. ASSUME NEW w \in Workers, pc'[w] \in {"commit", "fail_commit"}
      PROVE  jlock'[me'[w].v] = w /\ ClaimHeld(w)'
  <2>1. CASE w # p
    <3>1. /\ w \in Procs /\ me[w].v \in Versions /\ w # None
          /\ vlock[me[w].v] = w /\ jlock[me[w].v] = w /\ ClaimHeld(w) /\ me'[w] = me[w]
      BY <1>1, <1>3, <2>1 DEF Locking, VersionLocked, HoldingVersion, Procs
    <3>2. job'[me[w].v] = job[me[w].v]
      BY <2>1, <3>1
    <3>. QED BY <2>1, <3>1, <3>2 DEF ClaimHeld
  <2>. QED BY <1>3, <2>1
<1>4. ASSUME NEW c \in Clients, pc'[c] = "commit_job" PROVE Queueable(me[c].v)' 
  <2>1. CASE c # p
    <3>1. /\ c \in Procs /\ me[c].v \in Versions /\ c # None
          /\ vlock[me[c].v] = c /\ Queueable(me[c].v) /\ me'[c] = me[c]
      BY <1>1, <1>4, <2>1 DEF Locking, VersionLocked, HoldingVersion, Procs
    <3>2. job'[me[c].v] = job[me[c].v]
      BY <2>1, <3>1 DEF Queueable
    <3>. QED BY <3>1, <3>2 DEF Queueable
  <2>. QED BY <1>4, <2>1
<1>. QED BY <1>2, <1>3, <1>4 DEF Locking

(* A step after which p holds no lock of a version. *)
LEMMA LockingMove ==
  ASSUME TypeOK, Known, Locking, NEW p \in Procs,
         NEW label \in Labels \ VersionLocked, pc' = [pc EXCEPT ![p] = label],
         \A q \in Procs \ {p} : me'[q] = me[q],
         \A x \in Versions : job'[x] = job[x] \/ vlock[x] = p,
         \A x \in Versions : /\ vlock[x] \notin {p, None} => vlock'[x] = vlock[x]
                             /\ jlock[x] \notin {p, None} => jlock'[x] = jlock[x]
  PROVE  Locking'
<1>1. /\ pc'[p] \notin VersionLocked
      /\ \A q \in Procs \ {p} : pc'[q] = pc[q] /\ me'[q] = me[q]
  BY DEF TypeOK
<1>2. pc'[p] \notin {"commit", "fail_commit", "commit_job"}
  BY <1>1 DEF VersionLocked, HoldingVersion
<1>. QED BY <1>1, <1>2, Undisturbed

LEMMA LockingSave ==
  ASSUME TypeOK, Known, Locking, NEW p \in Procs, SaveStep(p)
  PROVE  Locking'
<1>. USE DEF Goto
<1>0. /\ {"fail_version", "done", "extract", "read_back", "lock_version", "put", "reread",
           "idle"} \subseteq Labels \ VersionLocked
      /\ p # None
  BY ConstantsAssumption DEF Labels, VersionLocked, HoldingVersion
<1>1. CASE Refused(p)
  <2>1. PICK label \in Labels \ VersionLocked : pc' = [pc EXCEPT ![p] = label]
    BY <1>0, <1>1, Refusal
  <2>. QED BY <1>1, <2>1, Refusal, LockingMove
<1>2. CASE Get(p) /\ ~Refused(p)
  <2>1. PICK label \in Labels \ VersionLocked : pc' = [pc EXCEPT ![p] = label]
    BY <1>0, <1>2 DEF Get
  <2>2. \A q \in Procs \ {p} : me'[q] = me[q]
    BY <1>2 DEF Get, TypeOK
  <2>. QED BY <1>2, <2>1, <2>2, LockingMove DEF Get
<1>3. CASE ReadBack(p) /\ ~Refused(p)
  <2>1. PICK label \in Labels \ VersionLocked : pc' = [pc EXCEPT ![p] = label]
    BY <1>0, <1>3 DEF ReadBack
  <2>. QED BY <1>3, <2>1, LockingMove DEF ReadBack
<1>4. CASE Extract(p) /\ ~Refused(p)
  <2>1. PICK label \in Labels \ VersionLocked : pc' = [pc EXCEPT ![p] = label]
    BY <1>0, <1>4 DEF Extract
  <2>. QED BY <1>4, <2>1, LockingMove DEF Extract
<1>5. CASE Put(p) /\ ~Refused(p)
  <2>1. PICK label \in Labels \ VersionLocked : pc' = [pc EXCEPT ![p] = label]
    BY <1>0, <1>5 DEF Put
  <2>2. \A q \in Procs \ {p} : me'[q] = me[q]
    BY <1>5 DEF Put, TypeOK
  <2>. QED BY <1>5, <2>1, <2>2, LockingMove DEF Put
<1>6. CASE LockVersion(p)
  <2>1. me[p].v \in Versions /\ me' = me /\ pc'[p] = "recheck" /\ job' = job /\ jlock' = jlock
    BY <1>6 DEF LockVersion, Known, Busy, TypeOK
  <2>2. vlock'[me[p].v] = p /\ \A x \in Versions : vlock[x] # None => vlock'[x] = vlock[x]
    BY <1>6, <2>1 DEF LockVersion, TypeOK
  <2>3. \A q \in Procs \ {p} : pc'[q] = pc[q]
    BY <1>6 DEF LockVersion, TypeOK
  <2>. QED BY <2>1, <2>2, <2>3, Undisturbed
<1>7. CASE Recheck(p) /\ ~Refused(p)
  <2>0. me[p].v \in Versions /\ vlock[me[p].v] = p /\ me[p].id \in Ids
    BY <1>7 DEF Recheck, Known, Busy, Naming, Locking, VersionLocked, HoldingVersion
  <2>1. PublishedId(p) \in Ids \cup {None} /\ me' = [me EXCEPT ![p].id = PublishedId(p)]
    BY <1>7, <2>0 DEF Recheck, PublishedId, TypeOK
  <2>2. me'[p].v = me[p].v /\ \A q \in Procs \ {p} : me'[q] = me[q]
    BY <2>1, Identified
  <2>3. /\ pc'[p] = IF p \in Workers THEN "lock_job" ELSE "commit"
        /\ \A q \in Procs \ {p} : pc'[q] = pc[q]
        /\ vlock' = vlock /\ jlock' = jlock /\ job' = job
    BY <1>7 DEF Recheck, TypeOK
  <2>. QED BY <2>0, <2>1, <2>2, <2>3, Undisturbed
<1>8. CASE Commit(p)
  <2>1. me[p].v \in Versions /\ vlock[me[p].v] = p
    BY <1>8 DEF Commit, Known, Busy, Locking, VersionLocked, HoldingVersion
  <2>2. /\ pc'[p] \in {"reread", "idle"} /\ me' = me
        /\ \A q \in Procs \ {p} : pc'[q] = pc[q]
        /\ \A x \in Versions : x # me[p].v => job'[x] = job[x]
    BY <1>8 DEF Commit, TypeOK
  <2>3. pc'[p] \notin VersionLocked
    BY <1>0, <2>2
  <2>. QED BY <1>8, <2>1, <2>2, <2>3, Freed, Undisturbed DEF Commit
<1>9. CASE Reread(p) /\ ~Refused(p)
  <2>1. PICK label \in Labels \ VersionLocked : pc' = [pc EXCEPT ![p] = label]
    BY <1>0, <1>9 DEF Reread
  <2>. QED BY <1>9, <2>1, LockingMove DEF Reread
<1>. QED BY <1>1, <1>2, <1>3, <1>4, <1>5, <1>6, <1>7, <1>8, <1>9 DEF SaveStep

LEMMA LockingStep ==
  ASSUME TypeOK, Known, Locking, [Next]_vars
  PROVE  Locking'
<1>. USE DEF Goto
<1>0. /\ {"poll", "idle", "start", "get", "fail_version", "done", "queue"}
           \subseteq Labels \ VersionLocked
      /\ \A w \in Workers : w \in Procs /\ w \notin Clients
      /\ \A c \in Clients : c \in Procs /\ c \notin Workers
  BY ConstantsAssumption DEF Labels, VersionLocked, HoldingVersion, Procs
<1>1. ASSUME NEW p \in Procs, SaveStep(p) PROVE Locking'
  BY <1>1, LockingSave
<1>2. ASSUME NEW w \in Workers, StartDrain(w) \/ NoWork(w) \/ StartJob(w) PROVE Locking'
  <2>1. PICK label \in Labels \ VersionLocked : pc' = [pc EXCEPT ![w] = label]
    BY <1>0, <1>2 DEF StartDrain, NoWork, StartJob
  <2>. QED BY <1>0, <1>2, <2>1, LockingMove DEF StartDrain, NoWork, StartJob
<1>3. ASSUME NEW w \in Workers, ClaimLost(w) \/ Crash(w) PROVE Locking'
  <2>1. pc' = [pc EXCEPT ![w] = "idle"] /\ me' = me /\ job' = job /\ ReleaseLocks(w)
    BY <1>3 DEF ClaimLost, Crash
  <2>. QED BY <1>0, <2>1, Freed, LockingMove
<1>4. ASSUME NEW w \in Workers, Claim(w) PROVE Locking'
  <2>1. /\ \A q \in Procs \ {w} : me'[q] = me[q]
        /\ \A x \in Versions : job'[x] = job[x] \/
              (jlock[x] = None /\ job[x].status \in {"pending", "running"})
    BY <1>4, Claimed
  <2>2. /\ \A q \in Procs \ {w} : pc'[q] = pc[q]
        /\ pc'[w] = "start" /\ vlock' = vlock /\ jlock' = jlock
    BY <1>0, <1>4 DEF Claim, TypeOK
  <2>3. pc'[w] \notin VersionLocked
    BY <1>0, <2>2
  <2>. QED BY <1>0, <2>1, <2>2, <2>3, Undisturbed
<1>5. ASSUME NEW w \in Workers, LockJob(w) \/ FailLockJob(w) PROVE Locking'
  <2>1. /\ me[w].v \in Versions /\ vlock[me[w].v] = w /\ ClaimHeld(w) /\ jlock[me[w].v] = None
        /\ me' = me /\ job' = job /\ vlock' = vlock /\ jlock' = [jlock EXCEPT ![me[w].v] = w]
    BY <1>0, <1>5
    DEF LockJob, FailLockJob, Known, Busy, Locking, VersionLocked, HoldingVersion
  <2>2. /\ \A q \in Procs \ {w} : pc'[q] = pc[q]
        /\ pc'[w] \in {"commit", "fail_commit"}
    BY <1>0, <1>5 DEF LockJob, FailLockJob, TypeOK
  <2>3. jlock'[me[w].v] = w /\ \A x \in Versions : jlock[x] # None => jlock'[x] = jlock[x]
    BY <2>1 DEF TypeOK
  <2>4. ClaimHeld(w)'
    BY <2>1 DEF ClaimHeld
  <2>. QED BY <1>0, <2>1, <2>2, <2>3, <2>4, Undisturbed
<1>6. ASSUME NEW w \in Workers, FailLockVersion(w) PROVE Locking'
  <2>1. me[w].v \in Versions /\ me' = me /\ pc'[w] = "fail_job" /\ job' = job /\ jlock' = jlock
    BY <1>0, <1>6 DEF FailLockVersion, Known, Busy, TypeOK
  <2>2. vlock'[me[w].v] = w /\ \A x \in Versions : vlock[x] # None => vlock'[x] = vlock[x]
    BY <1>6, <2>1 DEF FailLockVersion, TypeOK
  <2>3. \A q \in Procs \ {w} : pc'[q] = pc[q]
    BY <1>6 DEF FailLockVersion, TypeOK
  <2>. QED BY <1>0, <2>1, <2>2, <2>3, Undisturbed
<1>7. ASSUME NEW w \in Workers, FailCommit(w) PROVE Locking'
  <2>1. me[w].v \in Versions /\ vlock[me[w].v] = w
    BY <1>0, <1>7 DEF FailCommit, Known, Busy, Locking, VersionLocked, HoldingVersion
  <2>2. /\ pc'[w] = "idle" /\ me' = me
        /\ \A q \in Procs \ {w} : pc'[q] = pc[q]
        /\ \A x \in Versions : x # me[w].v => job'[x] = job[x]
    BY <1>0, <1>7 DEF FailCommit, TypeOK
  <2>3. pc'[w] \notin VersionLocked
    BY <1>0, <2>2
  <2>. QED BY <1>0, <1>7, <2>1, <2>2, <2>3, Freed, Undisturbed DEF FailCommit
<1>8. ASSUME NEW c \in Clients, NEW kind \in {"enqueue", "save"}, NEW v \in Versions,
             NEW u \in Users, Admit(c, kind, v, u)
      PROVE  Locking'
  <2>1. PICK label \in Labels \ VersionLocked : pc' = [pc EXCEPT ![c] = label]
    BY <1>0, <1>8 DEF Admit
  <2>. QED BY <1>0, <1>8, <2>1, Admitted, LockingMove DEF Admit
<1>9. ASSUME NEW c \in Clients, EnqueueLockVersion(c) PROVE Locking'
  <2>1. CASE pc' = [pc EXCEPT ![c] = "done"] /\ vlock' = vlock
    BY <1>0, <1>9, <2>1, LockingMove DEF EnqueueLockVersion
  <2>2. CASE pc' = [pc EXCEPT ![c] = "read_job"] /\ vlock' = [vlock EXCEPT ![me[c].v] = c]
    <3>1. me[c].v \in Versions /\ vlock[me[c].v] = None /\ me' = me /\ job' = job /\ jlock' = jlock
      BY <1>0, <1>9 DEF EnqueueLockVersion, Known, Busy
    <3>2. /\ pc'[c] = "read_job" /\ \A q \in Procs \ {c} : pc'[q] = pc[q]
          /\ vlock'[me[c].v] = c /\ \A x \in Versions : vlock[x] # None => vlock'[x] = vlock[x]
      BY <1>0, <2>2, <3>1 DEF TypeOK
    <3>. QED BY <1>0, <3>1, <3>2, Undisturbed
  <2>. QED BY <1>9, <2>1, <2>2 DEF EnqueueLockVersion
<1>10. ASSUME NEW c \in Clients, EnqueueReadJob(c) PROVE Locking'
  <2>1. CASE ReleaseLocks(c) /\ pc' = [pc EXCEPT ![c] = "done"]
    <3>1. me' = me /\ job' = job
      BY <1>10 DEF EnqueueReadJob
    <3>. QED BY <1>0, <2>1, <3>1, Freed, LockingMove
  <2>2. CASE Queueable(me[c].v)
    <3>1. /\ me[c].v \in Versions /\ vlock[me[c].v] = c /\ jlock[me[c].v] = None
          /\ me' = me /\ job' = job /\ vlock' = vlock
          /\ jlock' = [jlock EXCEPT ![me[c].v] =
                         IF job[me[c].v].status = "absent" THEN None ELSE c]
      BY <1>0, <1>10, <2>2
      DEF EnqueueReadJob, Known, Busy, Locking, VersionLocked, HoldingVersion
    <3>2. /\ pc'[c] = "commit_job" /\ \A q \in Procs \ {c} : pc'[q] = pc[q]
          /\ \A x \in Versions : jlock[x] # None => jlock'[x] = jlock[x]
      BY <1>0, <1>10, <2>2, <3>1 DEF EnqueueReadJob, TypeOK
    <3>3. Queueable(me[c].v)'
      BY <2>2, <3>1 DEF Queueable
    <3>. QED BY <1>0, <3>1, <3>2, <3>3, Undisturbed
  <2>. QED BY <1>10, <2>1, <2>2 DEF EnqueueReadJob
<1>11. ASSUME NEW c \in Clients, EnqueueCommit(c) PROVE Locking'
  <2>1. me[c].v \in Versions /\ vlock[me[c].v] = c
    BY <1>0, <1>11 DEF EnqueueCommit, Known, Busy, Locking, VersionLocked, HoldingVersion
  <2>2. /\ pc' = [pc EXCEPT ![c] = "done"] /\ me' = me /\ ReleaseLocks(c)
        /\ \A x \in Versions : job'[x] = job[x] \/ vlock[x] = c
    BY <1>11, <2>1 DEF EnqueueCommit, TypeOK
  <2>3. PICK label \in Labels \ VersionLocked : pc' = [pc EXCEPT ![c] = label]
    BY <1>0, <2>2
  <2>4. /\ c \in Procs
        /\ \A x \in Versions : /\ vlock[x] \notin {c, None} => vlock'[x] = vlock[x]
                               /\ jlock[x] \notin {c, None} => jlock'[x] = jlock[x]
    BY <1>0, <2>2, Freed
  <2>. QED BY <2>2, <2>3, <2>4, LockingMove
<1>12. ASSUME NEW c \in Clients, Abort(c) PROVE Locking'
  <2>1. pc' = [pc EXCEPT ![c] = "done"] /\ me' = me /\ job' = job /\ ReleaseLocks(c)
    BY <1>12 DEF Abort
  <2>. QED BY <1>0, <2>1, Freed, LockingMove
<1>13. ASSUME UNCHANGED <<pc, me, vlock, jlock>>,
              \A x \in Versions : /\ job'[x].status = job[x].status
                                  /\ job'[x].claim_token = job[x].claim_token
       PROVE  Locking'
  BY <1>13 DEF Locking, Known, Busy, VersionLocked, HoldingVersion, ClaimHeld, Queueable, Procs
<1>14. ASSUME NEW v \in Versions, Tick(v) PROVE Locking'
  BY <1>13, <1>14, Ticked DEF Tick
<1>15. CASE UNCHANGED <<pc, me, vlock, jlock, job>>
  BY <1>13, <1>15
<1>. QED
  BY <1>0, <1>1, <1>2, <1>3, <1>4, <1>5, <1>6, <1>7, <1>8, <1>9, <1>10, <1>11, <1>12, <1>14, <1>15
  DEF Next, WorkerStep, RequestStep, Judge, Revoke, Grant, vars

-----------------------------------------------------------------------------
(* Artifacts. *)

(* Cleared content stays cleared, and nothing leaves the bucket. *)
LEMMA NothingLost ==
  ASSUME TypeOK, [Next]_vars
  PROVE  /\ store \subseteq store'
         /\ \A x \in Versions : Cleared(x) => Cleared(x)'
<1>. USE DEF Kept
<1>1. ASSUME NEW p \in Procs, SaveStep(p) PROVE store \subseteq store' /\ content' = content
  BY <1>1
  DEF SaveStep, Refused, Get, ReadBack, Extract, Put, LockVersion, Recheck, Commit, Reread
<1>2. ASSUME NEW v \in Versions, NEW verdict \in {"clean", "rejected"}, Judge(v, verdict)
      PROVE  store' = store /\ \A x \in Versions : Cleared(x) => Cleared(x)'
  BY <1>2 DEF Judge, Cleared, TypeOK
<1>3. CASE store' = store /\ content' = content
  BY <1>3 DEF Cleared
<1>. QED
  BY <1>1, <1>2, <1>3
  DEF Next, WorkerStep, RequestStep, Procs, Cleared, Revoke, Grant, Tick, StartDrain, Claim, NoWork,
      StartJob, LockJob, ClaimLost, FailLockVersion, FailLockJob, FailCommit, Crash, Admit,
      EnqueueLockVersion, EnqueueReadJob, EnqueueCommit, Abort, vars

(* The step of p leaves what the others are about to publish as it is. *)
LEMMA OthersPublish ==
  ASSUME TypeOK, Known, Locking, Publishing, [Next]_vars, NEW p \in Procs,
         \A q \in Procs \ {p} : pc'[q] = pc[q] /\ me'[q] = me[q],
         \A x \in Versions : art'[x] = art[x] \/ vlock[x] = p,
         pc'[p] \in {"lock_version", "recheck", "lock_job", "commit"} => me'[p].id \in store',
         pc'[p] \in {"lock_job", "commit"} =>
           /\ me'[p].v = me[p].v /\ me[p].v \in Versions /\ Cleared(me[p].v)
           /\ art'[me[p].v] \in {None, me'[p].id}
  PROVE  Publishing'
<1>1. ASSUME NEW q \in Procs,
             pc'[q] \in {"lock_version", "recheck", "lock_job", "commit"}
      PROVE  me'[q].id \in store'
  BY <1>1, NothingLost DEF Publishing
<1>2. ASSUME NEW q \in Procs, pc'[q] \in {"lock_job", "commit"}
      PROVE  content'[me'[q].v] = "clean" /\ art'[me'[q].v] \in {None, me'[q].id}
  <2>1. CASE q = p
    BY <1>2, <2>1, NothingLost DEF Cleared
  <2>2. CASE q # p
    <3>1. /\ pc[q] \in {"lock_job", "commit"} /\ me'[q] = me[q] /\ me[q].v \in Versions
          /\ vlock[me[q].v] = q /\ Cleared(me[q].v) /\ art[me[q].v] \in {None, me[q].id}
      BY <1>2, <2>2 DEF Known, Busy, Locking, VersionLocked, HoldingVersion, Publishing
    <3>2. art'[me[q].v] = art[me[q].v]
      BY <2>2, <3>1
    <3>. QED BY <3>1, <3>2, NothingLost DEF Cleared
  <2>. QED BY <2>1, <2>2
<1>. QED BY <1>1, <1>2 DEF Publishing, Cleared

LEMMA PublishingSave ==
  ASSUME TypeOK, Known, Locking, Publishing, ArtifactStored, [Next]_vars,
         NEW p \in Procs, SaveStep(p)
  PROVE  Publishing'
<1>. USE DEF Goto
<1>1. CASE Refused(p)
  <2>1. /\ pc' = [pc EXCEPT ![p] = IF p \in Workers THEN "fail_version" ELSE "done"]
        /\ me' = me /\ art' = art
    BY <1>1, Refusal
  <2>2. /\ pc'[p] \in {"fail_version", "done"}
        /\ \A q \in Procs \ {p} : pc'[q] = pc[q]
    BY <2>1 DEF TypeOK
  <2>. QED BY <2>1, <2>2, OthersPublish
<1>2. CASE (Get(p) \/ Extract(p) \/ Reread(p) \/ Commit(p)) /\ ~Refused(p)
  <2>1. /\ pc'[p] \in {"extract", "read_back", "put", "reread", "idle", "done"}
        /\ \A q \in Procs \ {p} : pc'[q] = pc[q] /\ me'[q] = me[q]
    BY <1>2 DEF Get, Extract, Reread, Commit, TypeOK
  <2>2. \A x \in Versions : art'[x] = art[x] \/ vlock[x] = p
    BY <1>2
    DEF Get, Extract, Reread, Commit, TypeOK, Locking, VersionLocked, HoldingVersion
  <2>. QED BY <2>1, <2>2, OthersPublish
<1>3. CASE ReadBack(p) /\ ~Refused(p)
  <2>1. /\ pc'[p] \in {"lock_version", "done"} /\ me[p].id \in store /\ me' = me /\ art' = art
        /\ store' = store /\ \A q \in Procs \ {p} : pc'[q] = pc[q]
    BY <1>3 DEF ReadBack, TypeOK
  <2>. QED BY <2>1, OthersPublish
<1>4. CASE Put(p) /\ ~Refused(p)
  <2>1. PICK i \in Ids : store' = store \cup {i} /\ me' = [me EXCEPT ![p].id = i]
    BY <1>4 DEF Put, FreshIds
  <2>2. me'[p].id = i /\ \A q \in Procs \ {p} : me'[q] = me[q]
    BY <2>1, Identified
  <2>3. /\ pc'[p] = "lock_version" /\ art' = art
        /\ \A q \in Procs \ {p} : pc'[q] = pc[q]
    BY <1>4 DEF Put, TypeOK
  <2>. QED BY <2>1, <2>2, <2>3, OthersPublish
<1>5. CASE LockVersion(p)
  <2>1. /\ pc'[p] = "recheck" /\ me[p].id \in store /\ me' = me /\ art' = art /\ store' = store
        /\ \A q \in Procs \ {p} : pc'[q] = pc[q]
    BY <1>5 DEF LockVersion, Publishing, TypeOK
  <2>. QED BY <2>1, OthersPublish
<1>6. CASE Recheck(p) /\ ~Refused(p)
  <2>1. /\ me[p].v \in Versions /\ me[p].id \in Ids /\ me[p].id \in store /\ Cleared(me[p].v)
        /\ me' = [me EXCEPT ![p].id = PublishedId(p)]
    BY <1>6 DEF Recheck, Known, Busy, Naming, Publishing
  <2>2. /\ PublishedId(p) \in Ids \cup {None} /\ PublishedId(p) \in store
        /\ art[me[p].v] \in {None, PublishedId(p)}
    BY <2>1 DEF PublishedId, ArtifactStored, TypeOK
  <2>3. me'[p].id = PublishedId(p) /\ me'[p].v = me[p].v /\ \A q \in Procs \ {p} : me'[q] = me[q]
    BY <2>1, <2>2, Identified
  <2>4. /\ pc'[p] \in {"lock_job", "commit"} /\ art' = art /\ store' = store
        /\ \A q \in Procs \ {p} : pc'[q] = pc[q]
    BY <1>6 DEF Recheck, TypeOK
  <2>. QED BY <2>1, <2>2, <2>3, <2>4, OthersPublish
<1>. QED BY <1>1, <1>2, <1>3, <1>4, <1>5, <1>6 DEF SaveStep

LEMMA PublishingStep ==
  ASSUME TypeOK, Known, Locking, Publishing, ArtifactStored, [Next]_vars
  PROVE  Publishing'
<1>. USE DEF Goto
<1>0. \A w : w \in Workers \/ w \in Clients => w \in Procs
  BY DEF Procs
<1>1. ASSUME NEW p \in Procs, SaveStep(p) PROVE Publishing'
  BY <1>1, PublishingSave
<1>2. ASSUME NEW w \in Workers,
             \/ StartDrain(w) \/ NoWork(w) \/ StartJob(w) \/ ClaimLost(w)
             \/ FailLockVersion(w) \/ FailLockJob(w) \/ FailCommit(w) \/ Crash(w)
      PROVE  Publishing'
  <2>1. /\ pc'[w] \in {"poll", "idle", "get", "fail_version", "fail_job", "fail_commit"}
        /\ me' = me /\ art' = art /\ \A q \in Procs \ {w} : pc'[q] = pc[q]
    BY <1>0, <1>2
    DEF StartDrain, NoWork, StartJob, ClaimLost, FailLockVersion, FailLockJob, FailCommit, Crash,
        TypeOK
  <2>. QED BY <1>0, <2>1, OthersPublish
<1>3. ASSUME NEW w \in Workers, Claim(w) PROVE Publishing'
  <2>1. \A q \in Procs \ {w} : me'[q] = me[q]
    BY <1>3, Claimed
  <2>2. pc'[w] = "start" /\ art' = art /\ \A q \in Procs \ {w} : pc'[q] = pc[q]
    BY <1>0, <1>3 DEF Claim, TypeOK
  <2>. QED BY <1>0, <2>1, <2>2, OthersPublish
<1>4. ASSUME NEW w \in Workers, LockJob(w) PROVE Publishing'
  <2>1. /\ me[w].v \in Versions /\ me[w].id \in store /\ Cleared(me[w].v)
        /\ art[me[w].v] \in {None, me[w].id}
    BY <1>0, <1>4 DEF LockJob, Known, Busy, Publishing
  <2>2. /\ pc'[w] = "commit" /\ me' = me /\ art' = art /\ store' = store
        /\ \A q \in Procs \ {w} : pc'[q] = pc[q]
    BY <1>0, <1>4 DEF LockJob, TypeOK
  <2>. QED BY <1>0, <2>1, <2>2, OthersPublish
<1>5. ASSUME NEW c \in Clients, NEW kind \in {"enqueue", "save"}, NEW v \in Versions,
             NEW u \in Users, Admit(c, kind, v, u)
      PROVE  Publishing'
  <2>1. /\ \A q \in Procs \ {c} : me'[q] = me[q]
        /\ pc' = [pc EXCEPT ![c] = IF kind = "save" THEN "get" ELSE "queue"]
    BY <1>5, Admitted
  <2>2. /\ pc'[c] \in {"get", "queue"} /\ art' = art
        /\ \A q \in Procs \ {c} : pc'[q] = pc[q]
    BY <1>0, <1>5, <2>1 DEF Admit, TypeOK
  <2>. QED BY <1>0, <2>1, <2>2, OthersPublish
<1>6. ASSUME NEW c \in Clients,
             EnqueueLockVersion(c) \/ EnqueueReadJob(c) \/ EnqueueCommit(c) \/ Abort(c)
      PROVE  Publishing'
  <2>1. /\ pc'[c] \in {"read_job", "commit_job", "done"} /\ me' = me /\ art' = art
        /\ \A q \in Procs \ {c} : pc'[q] = pc[q]
    BY <1>0, <1>6 DEF EnqueueLockVersion, EnqueueReadJob, EnqueueCommit, Abort, TypeOK
  <2>. QED BY <1>0, <2>1, OthersPublish
<1>7. CASE UNCHANGED <<pc, me, art>>
  BY <1>7, NothingLost DEF Publishing, Cleared, Known, Busy
<1>. QED
  BY <1>0, <1>1, <1>2, <1>3, <1>4, <1>5, <1>6, <1>7
  DEF Next, WorkerStep, RequestStep, Judge, Revoke, Grant, Tick, vars

-----------------------------------------------------------------------------
(* What each step does to the jobs and to the artifacts. *)

(* The commit of a saving, by a worker or by a request. *)
LEMMA CommitFacts ==
  ASSUME TypeOK, Known, Locking, Publishing, NEW p \in Procs, Commit(p)
  PROVE  \E v \in Versions, u \in Users, id \in Ids :
           /\ v = me[p].v /\ u = me[p].user /\ id = me[p].id
           /\ id \in store /\ Cleared(v) /\ art[v] \in {None, id} /\ id # None
           /\ art' = [art EXCEPT ![v] = id] /\ store' = store /\ content' = content
           /\ \A x \in Versions \ {v} : job'[x] = job[x]
           /\ p \in Workers => /\ ClaimHeld(p) /\ job[v].status = "running"
                               /\ job'[v].status = "completed" /\ job'[v].result_id = id
                               /\ job'[v].requested_by = job[v].requested_by
           /\ p \notin Workers => job' = job
<1>1. /\ me[p].v \in Versions /\ me[p].user \in Users /\ me[p].id \in Ids /\ me[p].id # None
      /\ me[p].id \in store /\ Cleared(me[p].v) /\ art[me[p].v] \in {None, me[p].id}
  BY ConstantsAssumption DEF Commit, Known, Busy, Naming, Publishing
<1>2. /\ art' = [art EXCEPT ![me[p].v] = me[p].id] /\ store' = store /\ content' = content
      /\ p \notin Workers => job' = job
  BY DEF Commit
<1>3. CASE p \in Workers
  <2>1. ClaimHeld(p) /\ job[me[p].v].status = "running"
    BY <1>3 DEF Commit, Locking, ClaimHeld
  <2>2. job' = [job EXCEPT ![me[p].v] = Settled(me[p].v, "completed", me[p].id)]
    BY <1>3 DEF Commit
  <2>3. /\ job'[me[p].v].status = "completed" /\ job'[me[p].v].result_id = me[p].id
        /\ job'[me[p].v].requested_by = job[me[p].v].requested_by
        /\ \A x \in Versions \ {me[p].v} : job'[x] = job[x]
    BY <1>1, <2>1, <2>2, SettledRow
  <2>. QED BY <1>1, <1>2, <1>3, <2>1, <2>3
<1>. QED BY <1>1, <1>2, <1>3

LEMMA FailFacts ==
  ASSUME TypeOK, Known, Locking, NEW w \in Workers, FailCommit(w)
  PROVE  \E v \in Versions, u \in Users :
           /\ v = me[w].v /\ u = me[w].user /\ ClaimHeld(w) /\ job[v].status = "running"
           /\ job'[v].status = "failed" /\ job'[v].result_id = None
           /\ job'[v].requested_by = job[v].requested_by
           /\ \A x \in Versions \ {v} : job'[x] = job[x]
<1>1. /\ me[w].v \in Versions /\ me[w].user \in Users /\ ClaimHeld(w)
      /\ job[me[w].v].status = "running"
  BY DEF FailCommit, Known, Busy, Locking, ClaimHeld, Procs
<1>2. job' = [job EXCEPT ![me[w].v] = Settled(me[w].v, "failed", None)]
  BY DEF FailCommit
<1>. QED BY <1>1, <1>2, SettledRow

LEMMA EnqueueFacts ==
  ASSUME TypeOK, Known, Locking, NEW c \in Clients, EnqueueCommit(c)
  PROVE  \E v \in Versions, u \in Users :
           /\ v = me[c].v /\ u = me[c].user /\ Queueable(v)
           /\ job'[v].status = "pending" /\ job'[v].result_id = job[v].result_id
           /\ job'[v].requested_by = u
           /\ \A x \in Versions \ {v} : job'[x] = job[x]
<1>1. me[c].v \in Versions /\ me[c].user \in Users /\ Queueable(me[c].v)
  BY DEF EnqueueCommit, Known, Busy, Locking, Procs
<1>2. job' = [job EXCEPT ![me[c].v].status = "pending", ![me[c].v].requested_by = me[c].user]
  BY DEF EnqueueCommit
<1>. QED BY <1>1, <1>2, QueuedRow

LEMMA ArtifactsOnlyByCommit ==
  ASSUME [Next]_vars, \A p \in Procs : ~Commit(p)
  PROVE  art' = art
<1>1. ASSUME NEW p \in Procs, SaveStep(p) PROVE art' = art
  BY <1>1 DEF SaveStep, Refused, Get, ReadBack, Extract, Put, LockVersion, Recheck, Reread
<1>. QED
  BY <1>1
  DEF Next, WorkerStep, RequestStep, Procs, Judge, Revoke, Grant, Tick, StartDrain, Claim, NoWork,
      StartJob, LockJob, ClaimLost, FailLockVersion, FailLockJob, FailCommit, Crash, Admit,
      EnqueueLockVersion, EnqueueReadJob, EnqueueCommit, Abort, vars

(* The steps that change a job, commits of a saving apart. *)
LEMMA JobChanges ==
  ASSUME [Next]_vars, \A p \in Procs : ~Commit(p)
  PROVE  \/ job' = job
         \/ \E v \in Versions : Tick(v)
         \/ \E w \in Workers : Claim(w) \/ FailCommit(w)
         \/ \E c \in Clients : EnqueueCommit(c)
<1>1. ASSUME NEW p \in Procs, SaveStep(p) PROVE job' = job
  BY <1>1 DEF SaveStep, Refused, Get, ReadBack, Extract, Put, LockVersion, Recheck, Reread
<1>. QED
  BY <1>1
  DEF Next, WorkerStep, RequestStep, Procs, Judge, Revoke, Grant, StartDrain, NoWork,
      StartJob, LockJob, ClaimLost, FailLockVersion, FailLockJob, Crash, Admit,
      EnqueueLockVersion, EnqueueReadJob, Abort, vars

(* A job that is completed was completed before, with the same result, or  *)
(* is completed by the commit of a worker.                                 *)
LEMMA CompletedOnlyByCommit ==
  ASSUME TypeOK, Known, Locking, [Next]_vars, \A p \in Procs : ~Commit(p),
         NEW x \in Versions, job[x].status = "completed" \/ job'[x].status = "completed"
  PROVE  job'[x] = job[x]
<1>1. ASSUME NEW v \in Versions, job[v].status # "completed", job'[v].status # "completed",
             \A y \in Versions \ {v} : job'[y] = job[y]
      PROVE  job'[x] = job[x]
  BY <1>1
<1>2. CASE \E w \in Workers : Claim(w)
  <2>1. \E v \in Versions : /\ job[v].status # "completed" /\ job'[v].status # "completed"
                            /\ \A y \in Versions \ {v} : job'[y] = job[y]
    BY <1>2, Claimed
  <2>. QED BY <1>1, <2>1
<1>3. CASE \E w \in Workers : FailCommit(w)
  <2>1. \E v \in Versions : /\ job[v].status # "completed" /\ job'[v].status # "completed"
                            /\ \A y \in Versions \ {v} : job'[y] = job[y]
    BY <1>3, FailFacts
  <2>. QED BY <1>1, <2>1
<1>4. CASE \E c \in Clients : EnqueueCommit(c)
  <2>1. \E v \in Versions : /\ job[v].status # "completed" /\ job'[v].status # "completed"
                            /\ \A y \in Versions \ {v} : job'[y] = job[y]
    BY <1>4, EnqueueFacts DEF Queueable
  <2>. QED BY <1>1, <2>1
<1>5. CASE \E v \in Versions : Tick(v)
  <2>1. \E v \in Versions : /\ job[v].status # "completed" /\ job'[v].status # "completed"
                            /\ \A y \in Versions \ {v} : job'[y] = job[y]
    BY <1>5, Ticked
  <2>. QED BY <1>1, <2>1
<1>. QED BY <1>2, <1>3, <1>4, <1>5, JobChanges

LEMMA ArtifactsStep ==
  ASSUME TypeOK, Known, Locking, Publishing, Artifacts, [Next]_vars
  PROVE  Artifacts'
<1>. USE DEF Artifacts, ArtifactStored, SavedTextWasCleared, CompletedNamesArtifact
<1>1. ASSUME NEW p \in Procs, Commit(p) PROVE Artifacts'
  <2>1. PICK v \in Versions, id \in Ids :
          /\ id \in store /\ content[v] = "clean" /\ art[v] \in {None, id} /\ id # None
          /\ art' = [art EXCEPT ![v] = id] /\ store' = store /\ content' = content
          /\ \A x \in Versions \ {v} : job'[x] = job[x]
          /\ p \in Workers => job'[v].status = "completed" /\ job'[v].result_id = id
          /\ p \notin Workers => job' = job
    BY <1>1, CommitFacts DEF Cleared
  <2>2. art'[v] = id /\ \A x \in Versions \ {v} : art'[x] = art[x]
    BY <2>1 DEF TypeOK
  <2>3. ArtifactStored' /\ SavedTextWasCleared'
    BY <2>1, <2>2
  <2>4. job'[v].status = "completed" => job'[v].result_id = id
    BY <2>1
  <2>5. CompletedNamesArtifact'
    BY <2>1, <2>2, <2>4
  <2>. QED BY <2>3, <2>5
<1>2. CASE \A p \in Procs : ~Commit(p)
  <2>1. art' = art
    BY <1>2, ArtifactsOnlyByCommit
  <2>2. \A x \in Versions : job'[x].status = "completed" => job'[x] = job[x]
    BY <1>2, CompletedOnlyByCommit
  <2>. QED BY <2>1, <2>2, NothingLost DEF Cleared
<1>. QED BY <1>1, <1>2

-----------------------------------------------------------------------------
(* Claims. *)

(* A worker keeps its version, its user and its token until the next claim. *)
LEMMA LocalsKept ==
  ASSUME TypeOK, Known, [Next]_vars, \A w \in Workers : ~Claim(w), NEW w \in Workers, Busy(w)'
  PROVE  /\ Busy(w)
         /\ me'[w].v = me[w].v /\ me'[w].user = me[w].user /\ me'[w].token = me[w].token
<1>. USE DEF Goto
<1>0. w \in Procs /\ w \notin Clients
  BY ConstantsAssumption DEF Procs
<1>1. ASSUME NEW p \in Procs, SaveStep(p)
      PROVE  /\ Busy(w) /\ me'[w].v = me[w].v /\ me'[w].user = me[w].user
             /\ me'[w].token = me[w].token
  <2>1. Busy(w)
    <3>1. Busy(p) /\ \A q \in Procs \ {p} : pc'[q] = pc[q]
      BY <1>1
      DEF SaveStep, Refused, Get, ReadBack, Extract, Put, LockVersion, Recheck, Commit, Reread,
          Busy, TypeOK
    <3>. QED BY <1>0, <3>1 DEF Busy
  <2>2. \/ me' = me
        \/ \E i : me' = [me EXCEPT ![p].id = i]
        \/ \E i, found : me' = [me EXCEPT ![p].id = i, ![p].found = found]
    BY <1>1
    DEF SaveStep, Refused, Get, ReadBack, Extract, Put, LockVersion, Recheck, Commit, Reread
  <2>3. ASSUME NEW i, NEW found,
               \/ me' = [me EXCEPT ![p].id = i]
               \/ me' = [me EXCEPT ![p].id = i, ![p].found = found]
        PROVE  /\ me'[w].v = me[w].v /\ me'[w].user = me[w].user /\ me'[w].token = me[w].token
    <3>1. me \in [Procs -> Memory] /\ me[p] \in Memory
      BY DEF TypeOK
    <3>2. CASE me' = [me EXCEPT ![p].id = i]
      BY <1>0, <3>1, <3>2 DEF Memory
    <3>3. CASE me' = [me EXCEPT ![p].id = i, ![p].found = found]
      BY <1>0, <3>1, <3>3 DEF Memory
    <3>. QED BY <2>3, <3>2, <3>3
  <2>. QED BY <2>1, <2>2, <2>3
<1>2. ASSUME NEW v \in Workers,
             \/ StartDrain(v) \/ NoWork(v) \/ StartJob(v) \/ LockJob(v) \/ ClaimLost(v)
             \/ FailLockVersion(v) \/ FailLockJob(v) \/ FailCommit(v) \/ Crash(v)
      PROVE  Busy(w) /\ me' = me
  <2>1. v \in Procs /\ (Busy(v)' => Busy(v)) /\ \A q \in Procs \ {v} : pc'[q] = pc[q]
    BY <1>2
    DEF StartDrain, NoWork, StartJob, LockJob, ClaimLost, FailLockVersion, FailLockJob,
        FailCommit, Crash, Busy, TypeOK, Procs
  <2>2. me' = me
    BY <1>2
    DEF StartDrain, NoWork, StartJob, LockJob, ClaimLost, FailLockVersion, FailLockJob,
        FailCommit, Crash
  <2>. QED BY <1>0, <2>1, <2>2 DEF Busy
<1>3. ASSUME NEW c \in Clients,
             \/ EnqueueLockVersion(c) \/ EnqueueReadJob(c) \/ EnqueueCommit(c) \/ Abort(c)
             \/ \E kind \in {"enqueue", "save"}, v \in Versions, u \in Users : Admit(c, kind, v, u)
      PROVE  Busy(w) /\ me'[w] = me[w]
  <2>1. \A q \in Procs \ {c} : pc'[q] = pc[q] /\ me'[q] = me[q]
    BY <1>3 DEF EnqueueLockVersion, EnqueueReadJob, EnqueueCommit, Abort, Admit, TypeOK
  <2>. QED BY <1>0, <1>3, <2>1 DEF Busy
<1>4. CASE pc' = pc /\ me' = me
  BY <1>4 DEF Busy
<1>. QED
  BY <1>1, <1>2, <1>3, <1>4
  DEF Next, WorkerStep, RequestStep, Procs, Judge, Revoke, Grant, Tick, vars

LEMMA ClaimsStep ==
  ASSUME TypeOK, Known, Locking, Publishing, Claims, [Next]_vars
  PROVE  Claims'
<1>1. ASSUME NEW w \in Workers, Claim(w) PROVE Claims'
  <2>1. PICK v \in Versions, t \in Tokens :
          /\ \A p \in Procs : me[p].token # t
          /\ job'[v].claim_token = t /\ job'[v].requested_by = job[v].requested_by
          /\ \A x \in Versions \ {v} : job'[x] = job[x]
          /\ me'[w].v = v /\ me'[w].user = job[v].requested_by
          /\ \A p \in Procs \ {w} : me'[p] = me[p]
    BY <1>1, Claimed
  <2>2. ASSUME NEW x \in Workers, Busy(x)', ClaimHeld(x)'
        PROVE  job'[me'[x].v].requested_by = me'[x].user
    <3>1. CASE x = w
      BY <2>1, <3>1
    <3>2. CASE x # w
      <4>1. /\ me'[x] = me[x] /\ Busy(x) /\ me[x].v \in Versions /\ me[x].token # t
        BY <1>1, <2>1, <2>2, <3>2 DEF Claim, Goto, Busy, Known, TypeOK, Procs
      <4>2. me[x].v # v
        BY <2>1, <2>2, <4>1 DEF ClaimHeld
      <4>3. job'[me[x].v] = job[me[x].v] /\ ClaimHeld(x)
        BY <2>1, <2>2, <4>1, <4>2 DEF ClaimHeld
      <4>. QED BY <4>1, <4>3 DEF Claims
    <3>. QED BY <3>1, <3>2
  <2>. QED BY <2>2 DEF Claims
<1>2. ASSUME \A w \in Workers : ~Claim(w),
             NEW v \in Versions, job'[v].status # "running",
             \A x \in Versions \ {v} : job'[x] = job[x]
      PROVE  Claims'
  <2>1. ASSUME NEW w \in Workers, Busy(w)', ClaimHeld(w)'
        PROVE  job'[me'[w].v].requested_by = me'[w].user
    <3>1. /\ Busy(w) /\ me'[w].v = me[w].v /\ me'[w].user = me[w].user
          /\ me'[w].token = me[w].token /\ me[w].v \in Versions
      BY <1>2, <2>1, LocalsKept DEF Known, Procs
    <3>2. me[w].v # v
      BY <1>2, <2>1, <3>1 DEF ClaimHeld
    <3>3. job'[me[w].v] = job[me[w].v] /\ ClaimHeld(w)
      BY <1>2, <2>1, <3>1, <3>2 DEF ClaimHeld
    <3>. QED BY <3>1, <3>3 DEF Claims
  <2>. QED BY <2>1 DEF Claims
<1>3. ASSUME \A w \in Workers : ~Claim(w),
             \A x \in Versions : /\ job'[x].status = job[x].status
                                 /\ job'[x].claim_token = job[x].claim_token
                                 /\ job'[x].requested_by = job[x].requested_by
      PROVE  Claims'
  <2>1. ASSUME NEW w \in Workers, Busy(w)', ClaimHeld(w)'
        PROVE  job'[me'[w].v].requested_by = me'[w].user
    <3>1. /\ Busy(w) /\ me'[w].v = me[w].v /\ me'[w].user = me[w].user
          /\ me'[w].token = me[w].token /\ me[w].v \in Versions
      BY <1>3, <2>1, LocalsKept DEF Known, Procs
    <3>2. ClaimHeld(w)
      BY <1>3, <2>1, <3>1 DEF ClaimHeld
    <3>. QED BY <1>3, <3>1, <3>2 DEF Claims
  <2>. QED BY <2>1 DEF Claims
<1>4. CASE \E p \in Procs : Commit(p) /\ p \in Workers
  <2>1. \E v \in Versions : job'[v].status = "completed" /\ \A x \in Versions \ {v} : job'[x] = job[x]
    BY <1>4, CommitFacts
  <2>. QED BY <1>1, <1>2, <2>1
<1>5. CASE \E p \in Procs : Commit(p) /\ p \notin Workers
  <2>1. job' = job
    BY <1>5 DEF Commit
  <2>. QED BY <1>1, <1>3, <2>1
<1>6. CASE \A p \in Procs : ~Commit(p)
  <2>1. CASE job' = job
    BY <1>1, <1>3, <2>1
  <2>2. CASE \E v \in Versions : Tick(v)
    BY <1>1, <1>3, <2>2, Ticked
  <2>3. CASE \E w \in Workers : FailCommit(w)
    <3>1. \E v \in Versions : job'[v].status = "failed" /\ \A x \in Versions \ {v} : job'[x] = job[x]
      BY <2>3, FailFacts
    <3>. QED BY <1>1, <1>2, <3>1
  <2>4. CASE \E c \in Clients : EnqueueCommit(c)
    <3>1. \E v \in Versions : job'[v].status = "pending" /\ \A x \in Versions \ {v} : job'[x] = job[x]
      BY <2>4, EnqueueFacts
    <3>. QED BY <1>1, <1>2, <3>1
  <2>. QED BY <1>1, <1>6, <2>1, <2>2, <2>3, <2>4, JobChanges
<1>. QED BY <1>4, <1>5, <1>6

-----------------------------------------------------------------------------
(* Authority. *)

LEMMA OthersVouched ==
  ASSUME Vouching, NEW p \in Procs, admins' = admins,
         \A q \in Procs \ {p} : /\ pc'[q] = pc[q] /\ me'[q] = me[q]
                                /\ q \in vouched => q \in vouched',
         pc'[p] = "recheck" /\ me'[p].user \in admins => p \in vouched',
         pc'[p] \in {"lock_job", "commit"} => p \in vouched'
  PROVE  Vouching'
<1>1. ASSUME NEW q \in Procs
      PROVE  /\ pc'[q] = "recheck" /\ me'[q].user \in admins' => q \in vouched'
             /\ pc'[q] \in {"lock_job", "commit"} => q \in vouched'
  <2>1. CASE q = p
    BY <2>1
  <2>2. CASE q # p
    <3>1. /\ pc[q] = "recheck" /\ me[q].user \in admins => q \in vouched
          /\ pc[q] \in {"lock_job", "commit"} => q \in vouched
      BY DEF Vouching, MayWrite
    <3>2. pc'[q] = pc[q] /\ me'[q] = me[q] /\ (q \in vouched => q \in vouched')
      BY <2>2
    <3>. QED BY <3>1, <3>2
  <2>. QED BY <2>1, <2>2
<1>. QED BY <1>1 DEF Vouching, MayWrite

LEMMA VouchingSave ==
  ASSUME TypeOK, Known, Vouching, NEW p \in Procs, SaveStep(p)
  PROVE  Vouching'
<1>. USE DEF Goto
<1>1. CASE Refused(p)
  <2>1. /\ pc' = [pc EXCEPT ![p] = IF p \in Workers THEN "fail_version" ELSE "done"]
        /\ UNCHANGED <<me, admins, vouched>>
    BY <1>1, Refusal
  <2>2. /\ pc'[p] \in {"fail_version", "done"}
        /\ \A q \in Procs \ {p} : pc'[q] = pc[q]
    BY <2>1 DEF TypeOK
  <2>. QED BY <2>1, <2>2, OthersVouched
<1>2. CASE (Get(p) \/ ReadBack(p) \/ Extract(p) \/ Put(p) \/ Commit(p) \/ Reread(p)) /\ ~Refused(p)
  <2>1. /\ pc'[p] \notin {"recheck", "lock_job", "commit"} /\ UNCHANGED <<admins, vouched>>
        /\ \A q \in Procs \ {p} : pc'[q] = pc[q] /\ me'[q] = me[q]
    BY <1>2 DEF Get, ReadBack, Extract, Put, Commit, Reread, TypeOK
  <2>. QED BY <2>1, OthersVouched
<1>3. CASE LockVersion(p)
  <2>1. /\ pc'[p] = "recheck" /\ me' = me /\ admins' = admins
        /\ \A q \in Procs \ {p} : pc'[q] = pc[q]
        /\ vouched' = IF MayWrite(p) THEN vouched \cup {p} ELSE vouched \ {p}
    BY <1>3 DEF LockVersion, TypeOK
  <2>2. /\ me[p].user \in admins => p \in vouched'
        /\ \A q \in Procs \ {p} : q \in vouched => q \in vouched'
    BY <2>1 DEF MayWrite
  <2>. QED BY <2>1, <2>2, OthersVouched
<1>4. CASE Recheck(p) /\ ~Refused(p)
  <2>1. p \in vouched /\ UNCHANGED <<admins, vouched>>
    BY <1>4 DEF Recheck, Vouching
  <2>2. /\ pc'[p] # "recheck"
        /\ \A q \in Procs \ {p} : pc'[q] = pc[q] /\ me'[q] = me[q]
    BY <1>4 DEF Recheck, TypeOK
  <2>. QED BY <2>1, <2>2, OthersVouched
<1>. QED BY <1>1, <1>2, <1>3, <1>4 DEF SaveStep

LEMMA VouchingStep ==
  ASSUME TypeOK, Known, Vouching, [Next]_vars
  PROVE  Vouching'
<1>. USE DEF Goto
<1>0. \A w : w \in Workers \/ w \in Clients => w \in Procs
  BY DEF Procs
<1>1. ASSUME NEW p \in Procs, SaveStep(p) PROVE Vouching'
  BY <1>1, VouchingSave
<1>2. ASSUME NEW w \in Workers,
             \/ StartDrain(w) \/ NoWork(w) \/ StartJob(w) \/ ClaimLost(w)
             \/ FailLockVersion(w) \/ FailLockJob(w) \/ FailCommit(w) \/ Crash(w)
      PROVE  Vouching'
  <2>1. /\ pc'[w] \in {"poll", "idle", "get", "fail_version", "fail_job", "fail_commit"}
        /\ me' = me /\ UNCHANGED <<admins, vouched>>
        /\ \A q \in Procs \ {w} : pc'[q] = pc[q]
    BY <1>0, <1>2
    DEF StartDrain, NoWork, StartJob, ClaimLost, FailLockVersion, FailLockJob, FailCommit, Crash,
        TypeOK
  <2>. QED BY <1>0, <2>1, OthersVouched
<1>3. ASSUME NEW w \in Workers, Claim(w) PROVE Vouching'
  <2>1. \A q \in Procs \ {w} : me'[q] = me[q]
    BY <1>3, Claimed
  <2>2. /\ pc'[w] = "start" /\ UNCHANGED <<admins, vouched>>
        /\ \A q \in Procs \ {w} : pc'[q] = pc[q]
    BY <1>0, <1>3 DEF Claim, TypeOK
  <2>. QED BY <1>0, <2>1, <2>2, OthersVouched
<1>4. ASSUME NEW w \in Workers, LockJob(w) PROVE Vouching'
  <2>1. /\ w \in vouched /\ pc'[w] = "commit" /\ me' = me /\ UNCHANGED <<admins, vouched>>
        /\ \A q \in Procs \ {w} : pc'[q] = pc[q]
    BY <1>0, <1>4 DEF LockJob, Vouching, TypeOK
  <2>. QED BY <1>0, <2>1, OthersVouched
<1>5. ASSUME NEW c \in Clients, NEW kind \in {"enqueue", "save"}, NEW v \in Versions,
             NEW u \in Users, Admit(c, kind, v, u)
      PROVE  Vouching'
  <2>1. /\ \A q \in Procs \ {c} : me'[q] = me[q]
        /\ pc' = [pc EXCEPT ![c] = IF kind = "save" THEN "get" ELSE "queue"]
    BY <1>5, Admitted
  <2>2. /\ pc'[c] \in {"get", "queue"} /\ UNCHANGED <<admins, vouched>>
        /\ \A q \in Procs \ {c} : pc'[q] = pc[q]
    BY <1>0, <1>5, <2>1 DEF Admit, TypeOK
  <2>. QED BY <1>0, <2>1, <2>2, OthersVouched
<1>6. ASSUME NEW c \in Clients,
             EnqueueLockVersion(c) \/ EnqueueReadJob(c) \/ EnqueueCommit(c) \/ Abort(c)
      PROVE  Vouching'
  <2>1. /\ pc'[c] \in {"read_job", "commit_job", "done"} /\ me' = me
        /\ UNCHANGED <<admins, vouched>> /\ \A q \in Procs \ {c} : pc'[q] = pc[q]
    BY <1>0, <1>6 DEF EnqueueLockVersion, EnqueueReadJob, EnqueueCommit, Abort, TypeOK
  <2>. QED BY <1>0, <2>1, OthersVouched
<1>7. ASSUME NEW u \in Users, Grant(u) PROVE Vouching'
  BY <1>7 DEF Grant, Vouching, MayWrite, HoldingVersion
<1>8. CASE UNCHANGED <<pc, me, vouched>> /\ admins' \subseteq admins
  BY <1>8 DEF Vouching, MayWrite
<1>. QED
  BY <1>0, <1>1, <1>2, <1>3, <1>4, <1>5, <1>6, <1>7, <1>8
  DEF Next, WorkerStep, RequestStep, Judge, Revoke, Tick, vars

LEMMA Invariance == Spec => []Inv
<1>1. Inv /\ [Next]_vars => Inv'
  BY TypeStep, KnownStep, LockingStep, PublishingStep, ArtifactsStep, ClaimsStep, VouchingStep
  DEF Inv, Artifacts
<1>. QED BY <1>1, InvInit, PTL DEF Spec

-----------------------------------------------------------------------------
(* Theorems. *)

(* Every variable has its type, and no commit of any worker or request     *)
(* ever trips the constraints valid_claim and valid_result of a job's row. *)
THEOREM TypeCorrect == Spec => []TypeOK
<1>1. Inv => TypeOK
  BY DEF Inv
<1>. QED BY <1>1, Invariance, PTL

(* The object of a saved artifact is in the bucket, however many savings   *)
(* of the version failed, crashed or lost their claim.                     *)
THEOREM SavedIsStored == Spec => []ArtifactStored
<1>1. Inv => ArtifactStored
  BY DEF Inv, Artifacts
<1>. QED BY <1>1, Invariance, PTL

(* Only cleared content has saved text. *)
THEOREM SavedIsCleared == Spec => []SavedTextWasCleared
<1>1. Inv => SavedTextWasCleared
  BY DEF Inv, Artifacts
<1>. QED BY <1>1, Invariance, PTL

(* A completed job and the artifact of its version agree, whoever saved it. *)
THEOREM CompletedIsSaved == Spec => []CompletedNamesArtifact
<1>1. Inv => CompletedNamesArtifact
  BY DEF Inv, Artifacts
<1>. QED BY <1>1, Invariance, PTL

(* No step of any process changes a completed job. *)
THEOREM FinalCompletion == Spec => CompletionFinal
<1>1. ASSUME Inv, [Next]_vars, NEW v \in Versions, job[v].status = "completed"
      PROVE  job'[v] = job[v]
  <2>0. TypeOK /\ Known /\ Locking /\ Publishing
    BY <1>1 DEF Inv
  <2>1. CASE \A p \in Procs : ~Commit(p)
    BY <1>1, <2>0, <2>1, CompletedOnlyByCommit
  <2>2. ASSUME NEW p \in Procs, Commit(p) PROVE job'[v] = job[v]
    <3>1. CASE p \in Workers
      BY <1>1, <2>0, <2>2, <3>1, CommitFacts
    <3>2. CASE p \notin Workers
      BY <2>2, <3>2 DEF Commit
    <3>. QED BY <3>1, <3>2
  <2>. QED BY <2>1, <2>2
<1>2. Inv /\ [Next]_vars =>
        [\A v \in Versions : job[v].status = "completed" => job'[v] = job[v]]_vars
  BY <1>1
<1>. QED BY <1>2, Invariance, PTL DEF Spec, CompletionFinal

(* Text is saved, and a job completed, only for a user who was an          *)
(* administrator at some instant since the version was locked.             *)
THEOREM AuthorizedSaving == Spec => SavedForAdministrators
<1>1. Inv /\ [Next]_vars =>
        [\A p \in Procs :
           pc[p] = "commit" /\ pc'[p] # "commit" /\ <<art, job>>' # <<art, job>> => p \in vouched]_vars
  BY DEF Inv, Vouching
<1>. QED BY <1>1, Invariance, PTL DEF Spec, SavedForAdministrators

-----------------------------------------------------------------------------
(* Refinement. *)

Phase == [v \in Versions |-> job[v].status]
Result == [v \in Versions |-> job[v].result_id]
Requester == [v \in Versions |-> job[v].requested_by]

LEMMA RefinementInit == Init => Lifecycle!Init
BY DEF Init, NoJob, Lifecycle!Init

(* What becomes of the three views of a job when one job changes. *)
LEMMA Views ==
  ASSUME TypeOK, NEW v \in Versions, \A x \in Versions \ {v} : job'[x] = job[x]
  PROVE  /\ Phase' = [Phase EXCEPT ![v] = job'[v].status]
         /\ Result' = [Result EXCEPT ![v] = job'[v].result_id]
         /\ Requester' = [Requester EXCEPT ![v] = job'[v].requested_by]
BY DEF Phase, Result, Requester

LEMMA Unmoved ==
  ASSUME NEW v \in Versions
  PROVE  /\ Phase[v] = job[v].status /\ Result[v] = job[v].result_id
         /\ Requester[v] = job[v].requested_by
         /\ Phase = [Phase EXCEPT ![v] = Phase[v]]
         /\ Result = [Result EXCEPT ![v] = Result[v]]
         /\ Requester = [Requester EXCEPT ![v] = Requester[v]]
BY DEF Phase, Result, Requester

Stutter == UNCHANGED <<art, Phase, Result, Requester, audit>>

LEMMA CommitRefines ==
  ASSUME Inv, NEW p \in Procs, Commit(p)
  PROVE  Lifecycle!Next \/ Stutter
<1>0. TypeOK /\ Known /\ Locking /\ Publishing /\ Claims
  BY DEF Inv
<1>1. PICK v \in Versions, u \in Users, id \in Ids :
        /\ v = me[p].v /\ u = me[p].user /\ id = me[p].id
        /\ art[v] \in {None, id} /\ id # None /\ art' = [art EXCEPT ![v] = id]
        /\ \A x \in Versions \ {v} : job'[x] = job[x]
        /\ p \in Workers => /\ ClaimHeld(p) /\ job[v].status = "running"
                            /\ job'[v].status = "completed" /\ job'[v].result_id = id
                            /\ job'[v].requested_by = job[v].requested_by
        /\ p \notin Workers => job' = job
  BY <1>0, CommitFacts
<1>2. Append(<<Event("saved", u)>>, Event("completed", u))
        = <<Event("saved", u), Event("completed", u)>>
      /\ Append(<<>>, Event("completed", u)) = <<Event("completed", u)>>
  BY EventsTyped
<1>3. art[v] = id => art' = art
  BY <1>0, <1>1 DEF TypeOK
<1>4. CASE p \in Workers
  <2>1. /\ Phase[v] = "running" /\ Requester[v] = u
        /\ Phase' = [Phase EXCEPT ![v] = "completed"] /\ Result' = [Result EXCEPT ![v] = id]
        /\ Requester' = Requester
    <3>1. job[v].requested_by = u
      BY <1>0, <1>1, <1>4 DEF Claims, Busy, Commit
    <3>2. /\ Phase' = [Phase EXCEPT ![v] = "completed"] /\ Result' = [Result EXCEPT ![v] = id]
          /\ Requester' = [Requester EXCEPT ![v] = job[v].requested_by]
      BY <1>0, <1>1, <1>4, Views
    <3>. QED BY <1>1, <1>4, <3>1, <3>2, Unmoved
  <2>2. CASE art[v] = None
    <3>1. audit' = [audit EXCEPT ![v] = audit[v] \o <<Event("saved", u), Event("completed", u)>>]
      BY <1>1, <1>2, <1>4, <2>2 DEF Commit, Explain, SavedEvents
    <3>2. Lifecycle!SaveAndComplete(v, id)
      BY <1>1, <2>1, <2>2, <3>1
      DEF Lifecycle!SaveAndComplete, Lifecycle!Completed, Lifecycle!Explain, Lifecycle!Event, Event,
          Phase, Result, Requester
    <3>. QED BY <3>2 DEF Lifecycle!Next
  <2>3. CASE art[v] # None
    <3>1. audit' = [audit EXCEPT ![v] = audit[v] \o <<Event("completed", u)>>]
      BY <1>1, <1>2, <1>4, <2>3 DEF Commit, Explain, SavedEvents
    <3>2. Lifecycle!Complete(v)
      BY <1>1, <1>3, <2>1, <2>3, <3>1
      DEF Lifecycle!Complete, Lifecycle!Completed, Lifecycle!Explain, Lifecycle!Event, Event,
          Phase, Result, Requester
    <3>. QED BY <3>2 DEF Lifecycle!Next
  <2>. QED BY <2>2, <2>3
<1>5. CASE p \notin Workers
  <2>1. Phase' = Phase /\ Result' = Result /\ Requester' = Requester
    BY <1>1, <1>5 DEF Phase, Result, Requester
  <2>2. CASE art[v] = None
    <3>1. audit' = [audit EXCEPT ![v] = audit[v] \o <<Event("saved", u)>>]
      BY <1>1, <1>5, <2>2 DEF Commit, Explain, SavedEvents
    <3>2. Lifecycle!Save(v, id, u)
      BY <1>1, <2>1, <2>2, <3>1
      DEF Lifecycle!Save, Lifecycle!Explain, Lifecycle!Event, Event, Phase, Result, Requester
    <3>. QED BY <3>2 DEF Lifecycle!Next
  <2>3. CASE art[v] # None
    <3>1. audit' = [audit EXCEPT ![v] = audit[v] \o <<>>]
      BY <1>1, <1>5, <2>3 DEF Commit, Explain, SavedEvents
    <3>2. audit[v] \in Seq(Events) /\ audit \in [Versions -> Seq(Events)]
      BY <1>0 DEF TypeOK
    <3>3. audit[v] \o <<>> = audit[v]
      BY <3>2, ConcatEmptySeq
    <3>4. audit' = audit
      BY <3>1, <3>2, <3>3
    <3>. QED BY <1>1, <1>3, <2>1, <2>3, <3>4 DEF Stutter
  <2>. QED BY <2>2, <2>3
<1>. QED BY <1>4, <1>5

LEMMA RefinementStep ==
  ASSUME Inv, [Next]_vars
  PROVE  Lifecycle!Next \/ Stutter
<1>0. TypeOK /\ Known /\ Locking /\ Publishing /\ Claims
  BY DEF Inv
<1>1. ASSUME NEW p \in Procs, SaveStep(p) PROVE Lifecycle!Next \/ Stutter
  <2>1. CASE Commit(p)
    BY <2>1, CommitRefines
  <2>2. CASE ~Commit(p)
    <3>1. UNCHANGED <<art, job, audit>>
      BY <1>1, <2>2 DEF SaveStep, Refused, Get, ReadBack, Extract, Put, LockVersion, Recheck, Reread
    <3>. QED BY <3>1 DEF Stutter, Phase, Result, Requester
  <2>. QED BY <2>1, <2>2
<1>2. ASSUME NEW v \in Versions, Tick(v) PROVE Stutter
  <2>1. \A x \in Versions : /\ job'[x].status = job[x].status
                           /\ job'[x].requested_by = job[x].requested_by
                           /\ job'[x].result_id = job[x].result_id
    BY <1>0, <1>2, Ticked
  <2>. QED BY <1>2, <2>1 DEF Tick, Stutter, Phase, Result, Requester
<1>3. ASSUME NEW w \in Workers, Claim(w) PROVE Lifecycle!Next \/ Stutter
  <2>1. PICK v \in Versions :
          /\ job[v].status \in {"pending", "running"} /\ job'[v].status = "running"
          /\ job'[v].requested_by = job[v].requested_by /\ job'[v].result_id = job[v].result_id
          /\ \A x \in Versions \ {v} : job'[x] = job[x]
    BY <1>0, <1>3, Claimed
  <2>2. /\ Phase' = [Phase EXCEPT ![v] = "running"] /\ Result' = Result
        /\ Requester' = Requester
    <3>1. /\ Phase' = [Phase EXCEPT ![v] = "running"]
          /\ Result' = [Result EXCEPT ![v] = job[v].result_id]
          /\ Requester' = [Requester EXCEPT ![v] = job[v].requested_by]
      BY <1>0, <2>1, Views
    <3>. QED BY <3>1, Unmoved
  <2>3. art' = art /\ audit' = audit
    BY <1>3 DEF Claim
  <2>4. CASE job[v].status = "pending"
    <3>1. Lifecycle!Begin(v)
      BY <2>2, <2>3, <2>4 DEF Lifecycle!Begin, Phase, Result, Requester
    <3>. QED BY <3>1 DEF Lifecycle!Next
  <2>5. CASE job[v].status = "running"
    <3>1. Phase' = Phase
      BY <2>2, <2>5, Unmoved
    <3>. QED BY <2>2, <2>3, <3>1 DEF Stutter
  <2>. QED BY <2>1, <2>4, <2>5
<1>4. ASSUME NEW w \in Workers, FailCommit(w) PROVE Lifecycle!Next
  <2>1. PICK v \in Versions, u \in Users :
          /\ v = me[w].v /\ u = me[w].user /\ ClaimHeld(w) /\ job[v].status = "running"
          /\ job'[v].status = "failed" /\ job'[v].result_id = None
          /\ job'[v].requested_by = job[v].requested_by
          /\ \A x \in Versions \ {v} : job'[x] = job[x]
    BY <1>0, <1>4, FailFacts
  <2>2. job[v].result_id = None /\ job[v].requested_by = u
    <3>1. job[v].result_id = None
      BY <1>0, <2>1 DEF TypeOK, JobRows
    <3>2. job[v].requested_by = u
      BY <1>0, <1>4, <2>1 DEF Claims, Busy, FailCommit
    <3>. QED BY <3>1, <3>2
  <2>3. /\ Phase' = [Phase EXCEPT ![v] = "failed"] /\ Result' = Result
        /\ Requester' = Requester
    <3>1. /\ Phase' = [Phase EXCEPT ![v] = "failed"]
          /\ Result' = [Result EXCEPT ![v] = job[v].result_id]
          /\ Requester' = [Requester EXCEPT ![v] = job[v].requested_by]
      BY <1>0, <2>1, <2>2, Views
    <3>. QED BY <3>1, Unmoved
  <2>4. \/ audit' = [audit EXCEPT ![v] = audit[v] \o <<Event("failed", u)>>]
        \/ audit' = [audit EXCEPT ![v] = audit[v] \o <<>>]
    BY <1>4, <2>1 DEF FailCommit, Explain
  <2>5. \/ audit' = [audit EXCEPT ![v] = audit[v] \o <<Event("failed", u)>>]
        \/ audit' = audit
    <3>1. audit[v] \in Seq(Events) /\ audit \in [Versions -> Seq(Events)]
      BY <1>0 DEF TypeOK
    <3>2. audit[v] \o <<>> = audit[v]
      BY <3>1, ConcatEmptySeq
    <3>. QED BY <2>4, <3>1, <3>2
  <2>6. art' = art
    BY <1>4 DEF FailCommit
  <2>7. Lifecycle!Fail(v)
    BY <2>1, <2>2, <2>3, <2>5, <2>6
    DEF Lifecycle!Fail, Lifecycle!Explain, Lifecycle!Event, Event, Phase, Result, Requester
  <2>. QED BY <2>7 DEF Lifecycle!Next
<1>5. ASSUME NEW c \in Clients, EnqueueCommit(c) PROVE Lifecycle!Next
  <2>1. PICK v \in Versions, u \in Users :
          /\ v = me[c].v /\ u = me[c].user /\ Queueable(v)
          /\ job'[v].status = "pending" /\ job'[v].result_id = job[v].result_id
          /\ job'[v].requested_by = u
          /\ \A x \in Versions \ {v} : job'[x] = job[x]
    BY <1>0, <1>5, EnqueueFacts
  <2>2. /\ Phase' = [Phase EXCEPT ![v] = "pending"] /\ Result' = Result
        /\ Requester' = [Requester EXCEPT ![v] = u]
    <3>1. /\ Phase' = [Phase EXCEPT ![v] = "pending"]
          /\ Result' = [Result EXCEPT ![v] = job[v].result_id]
          /\ Requester' = [Requester EXCEPT ![v] = u]
      BY <1>0, <2>1, Views
    <3>. QED BY <3>1, Unmoved
  <2>3. /\ audit' = [audit EXCEPT ![v] = audit[v] \o <<Event("queued", u)>>]
        /\ art' = art
    BY <1>5, <2>1 DEF EnqueueCommit, Explain
  <2>4. Lifecycle!Request(v, u)
    BY <2>1, <2>2, <2>3
    DEF Lifecycle!Request, Lifecycle!Explain, Lifecycle!Event, Event, Queueable, Phase, Result,
        Requester
  <2>. QED BY <2>4 DEF Lifecycle!Next
<1>6. CASE UNCHANGED <<art, job, audit>>
  BY <1>6 DEF Stutter, Phase, Result, Requester
<1>. QED
  BY <1>1, <1>2, <1>3, <1>4, <1>5, <1>6
  DEF Next, WorkerStep, RequestStep, Procs, Judge, Revoke, Grant, StartDrain, NoWork, StartJob,
      LockJob, ClaimLost, FailLockVersion, FailLockJob, Crash, Admit, EnqueueLockVersion,
      EnqueueReadJob, Abort, vars

(* The pipeline, with its locks, leases, crashes and objects that nobody   *)
(* names, implements the life cycle in which the artifact, the completion  *)
(* and their events appear in one step.                                    *)
THEOREM Refinement == Spec => ImplementsLifecycle
<1>1. Inv /\ [Next]_vars => [Lifecycle!Next]_Lifecycle!vars
  BY RefinementStep DEF Stutter, Phase, Result, Requester, Lifecycle!vars
<1>. QED
  BY <1>1, RefinementInit, Invariance, PTL DEF Spec, ImplementsLifecycle, Lifecycle!Spec

-----------------------------------------------------------------------------
(* The events add up: an invariant of the abstract steps, carried over by  *)
(* the refinement.                                                         *)

LEMMA Concatenated ==
  ASSUME NEW s \in Seq(Events), NEW e \in Seq(Events), NEW a
  PROVE  /\ Recorded(e, a) = {} => Recorded(s \o e, a) = Recorded(s, a)
         /\ \A k : Recorded(s, a) = {} /\ Recorded(e, a) = {k} =>
                  Recorded(s \o e, a) = {Len(s) + k}
<1>1. /\ Len(s) \in Nat /\ Len(e) \in Nat
      /\ DOMAIN s = 1 .. Len(s) /\ DOMAIN e = 1 .. Len(e)
      /\ DOMAIN (s \o e) = 1 .. Len(s) + Len(e)
  OBVIOUS
<1>2. /\ \A i \in 1 .. Len(s) : i \in 1 .. Len(s) + Len(e) /\ (s \o e)[i] = s[i]
      /\ \A k \in 1 .. Len(e) : /\ Len(s) + k \in 1 .. Len(s) + Len(e)
                                /\ (s \o e)[Len(s) + k] = e[k]
  OBVIOUS
<1>3. \A i \in 1 .. Len(s) + Len(e) : i \in 1 .. Len(s) \/ \E k \in 1 .. Len(e) : i = Len(s) + k
  <2>1. \A i \in 1 .. Len(s) + Len(e) :
          i \in 1 .. Len(s) \/ (i - Len(s) \in 1 .. Len(e) /\ i = Len(s) + (i - Len(s)))
    BY <1>1
  <2>. QED BY <2>1
<1>. DEFINE t == s \o e
<1>4. /\ DOMAIN t = 1 .. Len(s) + Len(e)
      /\ \A i \in 1 .. Len(s) : i \in 1 .. Len(s) + Len(e) /\ t[i] = s[i]
      /\ \A k \in 1 .. Len(e) : Len(s) + k \in 1 .. Len(s) + Len(e) /\ t[Len(s) + k] = e[k]
  BY <1>1, <1>2
<1>. HIDE DEF t
<1>5. ASSUME Recorded(e, a) = {} PROVE Recorded(t, a) = Recorded(s, a)
  <2>1. \A k \in 1 .. Len(e) : e[k].action # a
    BY <1>1, <1>5 DEF Recorded
  <2>2. \A i \in DOMAIN t : t[i].action = a <=> i \in 1 .. Len(s) /\ s[i].action = a
    BY <1>3, <1>4, <1>1, <2>1
  <2>. QED BY <1>1, <1>4, <2>2 DEF Recorded
<1>6. ASSUME NEW k, Recorded(s, a) = {}, Recorded(e, a) = {k} PROVE Recorded(t, a) = {Len(s) + k}
  <2>1. /\ \A i \in 1 .. Len(s) : s[i].action # a
        /\ k \in 1 .. Len(e) /\ \A i \in 1 .. Len(e) : e[i].action = a <=> i = k
    BY <1>1, <1>6 DEF Recorded
  <2>2. ASSUME NEW i \in DOMAIN t PROVE t[i].action = a <=> i = Len(s) + k
    <3>1. CASE i \in 1 .. Len(s)
      <4>1. i # Len(s) + k
        BY <1>1, <2>1, <3>1
      <4>. QED BY <1>4, <2>1, <3>1, <4>1
    <3>2. ASSUME NEW m \in 1 .. Len(e), i = Len(s) + m PROVE t[i].action = a <=> i = Len(s) + k
      <4>1. i = Len(s) + k <=> m = k
        <5>1. Len(s) \in Int /\ k \in Int /\ m \in Int
          BY <1>1, <2>1, <3>2
        <5>. QED BY <5>1, <3>2
      <4>. QED BY <1>4, <2>1, <3>2, <4>1
    <3>. QED BY <1>3, <1>4, <3>1, <3>2
  <2>3. Len(s) + k \in DOMAIN t
    BY <1>4, <2>1
  <2>. QED BY <2>2, <2>3 DEF Recorded
<1>. QED BY <1>5, <1>6 DEF t

LEMMA OneOrTwo ==
  /\ \A x, a : Recorded(<<x>>, a) = IF x.action = a THEN {1} ELSE {}
  /\ \A x, y, a :
       Recorded(<<x, y>>, a) =
         (IF x.action = a THEN {1} ELSE {}) \cup (IF y.action = a THEN {2} ELSE {})
<1>1. ASSUME NEW x, NEW a PROVE Recorded(<<x>>, a) = IF x.action = a THEN {1} ELSE {}
  BY DEF Recorded
<1>2. ASSUME NEW x, NEW y, NEW a
      PROVE  Recorded(<<x, y>>, a) =
               (IF x.action = a THEN {1} ELSE {}) \cup (IF y.action = a THEN {2} ELSE {})
  BY DEF Recorded
<1>. QED BY <1>1, <1>2

Tally(trail, action, occurred) ==
  IF occurred THEN \E i : Recorded(trail, action) = {i} ELSE Recorded(trail, action) = {}

Total(v) ==
  /\ Tally(audit[v], "saved", art[v] # None)
  /\ Tally(audit[v], "completed", Phase[v] = "completed")

Totals == \A v \in Versions : Total(v)

LEMMA TotalsAreSums == EventsAddUp <=> Totals
<1>1. ASSUME NEW trail, NEW action
      PROVE  (\E i : Recorded(trail, action) = {i})
               <=> (\E i \in DOMAIN trail : Recorded(trail, action) = {i})
  BY DEF Recorded
<1>2. \A v \in Versions : Phase[v] = job[v].status
  BY DEF Phase
<1>. QED BY <1>1, <1>2 DEF EventsAddUp, Totals, Total, Tally

LEMMA TallyStep ==
  ASSUME NEW s \in Seq(Events), NEW e \in Seq(Events), NEW a,
         NEW was \in BOOLEAN, NEW is \in BOOLEAN,
         \/ is = was /\ Recorded(e, a) = {}
         \/ ~was /\ is /\ \E k : Recorded(e, a) = {k},
         Tally(s, a, was)
  PROVE  Tally(s \o e, a, is)
<1>1. CASE Recorded(e, a) = {} /\ is = was
  <2>1. Recorded(s \o e, a) = Recorded(s, a)
    BY <1>1, Concatenated
  <2>. QED BY <1>1, <2>1 DEF Tally
<1>2. ASSUME NEW k, Recorded(e, a) = {k}, ~was, is PROVE Tally(s \o e, a, is)
  <2>1. Recorded(s, a) = {}
    BY <1>2 DEF Tally
  <2>2. Recorded(s \o e, a) = {Len(s) + k}
    BY <1>2, <2>1, Concatenated
  <2>. QED BY <1>2, <2>2 DEF Tally
<1>. QED BY <1>1, <1>2

LEMMA TotalStep ==
  ASSUME TypeOK, Totals, NEW v \in Versions, NEW e \in Seq(Events),
         audit' = [audit EXCEPT ![v] = audit[v] \o e],
         \A x \in Versions \ {v} : art'[x] = art[x] /\ Phase'[x] = Phase[x],
         \/ (art'[v] # None <=> art[v] # None) /\ Recorded(e, "saved") = {}
         \/ art[v] = None /\ art'[v] # None /\ \E k : Recorded(e, "saved") = {k},
         \/ (Phase'[v] = "completed" <=> Phase[v] = "completed") /\ Recorded(e, "completed") = {}
         \/ /\ Phase[v] # "completed" /\ Phase'[v] = "completed"
            /\ \E k : Recorded(e, "completed") = {k}
  PROVE  Totals'
<1>1. /\ audit[v] \in Seq(Events) /\ audit'[v] = audit[v] \o e
      /\ \A x \in Versions \ {v} : audit'[x] = audit[x]
  BY DEF TypeOK
<1>2. Tally(audit'[v], "saved", art'[v] # None)
  BY <1>1, TallyStep DEF Totals, Total
<1>3. Tally(audit'[v], "completed", Phase'[v] = "completed")
  BY <1>1, TallyStep DEF Totals, Total
<1>4. ASSUME NEW x \in Versions \ {v} PROVE Total(x)'
  BY <1>1 DEF Totals, Total, Tally
<1>. QED BY <1>2, <1>3, <1>4 DEF Totals, Total, Tally

LEMMA TotalsStep ==
  ASSUME Inv, Totals, [Next]_vars
  PROVE  Totals'
<1>0. TypeOK /\ Claims
  BY DEF Inv
<1>1. CASE Stutter
  BY <1>1 DEF Stutter, Totals, Total
<1>2. ASSUME NEW v \in Versions, NEW u \in Users, Lifecycle!Request(v, u) PROVE Totals'
  <2>. DEFINE e == <<Event("queued", u)>>
  <2>1. e \in Seq(Events) /\ Recorded(e, "saved") = {} /\ Recorded(e, "completed") = {}
    BY EventsTyped, OneOrTwo DEF Event
  <2>2. /\ audit' = [audit EXCEPT ![v] = audit[v] \o e]
        /\ art' = art /\ \A x \in Versions \ {v} : Phase'[x] = Phase[x]
        /\ Phase[v] # "completed" /\ Phase'[v] # "completed"
    BY <1>2 DEF Lifecycle!Request, Lifecycle!Explain, Lifecycle!Event, Event, Phase
  <2>. HIDE DEF e
  <2>. QED BY <1>0, <2>1, <2>2, TotalStep
<1>3. ASSUME NEW v \in Versions, NEW u \in Users, NEW id \in Ids, Lifecycle!Save(v, id, u)
      PROVE  Totals'
  <2>. DEFINE e == <<Event("saved", u)>>
  <2>1. e \in Seq(Events) /\ Recorded(e, "saved") = {1} /\ Recorded(e, "completed") = {}
    BY EventsTyped, OneOrTwo DEF Event
  <2>2. /\ audit' = [audit EXCEPT ![v] = audit[v] \o e]
        /\ art[v] = None /\ art' = [art EXCEPT ![v] = id] /\ Phase' = Phase
    BY <1>3 DEF Lifecycle!Save, Lifecycle!Explain, Lifecycle!Event, Event, Phase
  <2>3. art'[v] # None /\ \A x \in Versions \ {v} : art'[x] = art[x]
    BY <1>0, <2>2, ConstantsAssumption DEF TypeOK
  <2>. HIDE DEF e
  <2>. QED BY <1>0, <2>1, <2>2, <2>3, TotalStep
<1>4. ASSUME NEW v \in Versions, Phase[v] = "running" PROVE Requester[v] \in Users
  <2>1. job[v] \in JobRows /\ job[v].status = "running" /\ Requester[v] = job[v].requested_by
    BY <1>0, <1>4, Unmoved DEF TypeOK
  <2>. QED BY <2>1 DEF JobRows
<1>5. ASSUME NEW v \in Versions, NEW id \in Ids, Lifecycle!SaveAndComplete(v, id) PROVE Totals'
  <2>. DEFINE e == <<Event("saved", Requester[v]), Event("completed", Requester[v])>>
  <2>1. /\ audit' = [audit EXCEPT ![v] = audit[v] \o e]
        /\ art[v] = None /\ art' = [art EXCEPT ![v] = id]
        /\ Phase[v] = "running" /\ Phase' = [Phase EXCEPT ![v] = "completed"]
    BY <1>5 DEF Lifecycle!SaveAndComplete, Lifecycle!Completed, Lifecycle!Explain,
                Lifecycle!Event, Event, Phase, Requester
  <2>2. e \in Seq(Events) /\ Recorded(e, "saved") = {1} /\ Recorded(e, "completed") = {2}
    <3>1. e \in Seq(Events)
      BY <1>4, <2>1, EventsTyped
    <3>. DEFINE x == Event("saved", Requester[v])
                y == Event("completed", Requester[v])
    <3>2. x.action = "saved" /\ y.action = "completed"
      BY DEF Event
    <3>. HIDE DEF x, y
    <3>3. Recorded(<<x, y>>, "saved") = {1} /\ Recorded(<<x, y>>, "completed") = {2}
      BY <3>2, OneOrTwo
    <3>. QED BY <3>1, <3>3 DEF x, y
  <2>3. art'[v] # None /\ \A x \in Versions \ {v} : art'[x] = art[x]
    BY <1>0, <2>1, ConstantsAssumption DEF TypeOK
  <2>4. Phase'[v] = "completed" /\ \A x \in Versions \ {v} : Phase'[x] = Phase[x]
    BY <2>1 DEF Phase
  <2>. HIDE DEF e
  <2>. QED BY <1>0, <2>1, <2>2, <2>3, <2>4, TotalStep
<1>6. ASSUME NEW v \in Versions, Lifecycle!Complete(v) PROVE Totals'
  <2>. DEFINE e == <<Event("completed", Requester[v])>>
  <2>1. /\ audit' = [audit EXCEPT ![v] = audit[v] \o e] /\ art' = art
        /\ Phase[v] = "running" /\ Phase' = [Phase EXCEPT ![v] = "completed"]
    BY <1>6 DEF Lifecycle!Complete, Lifecycle!Completed, Lifecycle!Explain, Lifecycle!Event,
                Event, Phase, Requester
  <2>2. e \in Seq(Events) /\ Recorded(e, "saved") = {} /\ Recorded(e, "completed") = {1}
    BY <1>4, <2>1, EventsTyped, OneOrTwo DEF Event
  <2>3. Phase'[v] = "completed" /\ \A x \in Versions \ {v} : Phase'[x] = Phase[x]
    BY <2>1 DEF Phase
  <2>. HIDE DEF e
  <2>. QED BY <1>0, <2>1, <2>2, <2>3, TotalStep
<1>7. ASSUME NEW v \in Versions, Lifecycle!Fail(v), audit' # audit PROVE Totals'
  <2>. DEFINE e == <<Event("failed", Requester[v])>>
  <2>1. /\ audit' = [audit EXCEPT ![v] = audit[v] \o e] /\ art' = art
        /\ Phase[v] = "running" /\ Phase' = [Phase EXCEPT ![v] = "failed"]
    BY <1>7 DEF Lifecycle!Fail, Lifecycle!Explain, Lifecycle!Event, Event, Phase, Requester
  <2>2. e \in Seq(Events) /\ Recorded(e, "saved") = {} /\ Recorded(e, "completed") = {}
    BY <1>4, <2>1, EventsTyped, OneOrTwo DEF Event
  <2>3. Phase'[v] # "completed" /\ \A x \in Versions \ {v} : Phase'[x] = Phase[x]
    BY <2>1 DEF Phase
  <2>. HIDE DEF e
  <2>. QED BY <1>0, <2>1, <2>2, <2>3, TotalStep
<1>8. ASSUME NEW v \in Versions,
             Lifecycle!Begin(v) \/ (Lifecycle!Fail(v) /\ audit' = audit)
      PROVE  Totals'
  <2>1. /\ audit' = audit /\ art' = art
        /\ \A x \in Versions : Phase'[x] = "completed" <=> Phase[x] = "completed"
    BY <1>8 DEF Lifecycle!Begin, Lifecycle!Fail, Phase
  <2>. QED BY <2>1 DEF Totals, Total
<1>. QED
  BY <1>1, <1>2, <1>3, <1>5, <1>6, <1>7, <1>8, RefinementStep DEF Lifecycle!Next

(* Over any run, the events of a version add up to what is recorded of it: *)
(* one saving for an artifact, one completion for a completed job.         *)
THEOREM AddedEvents == Spec => []EventsAddUp
<1>1. Init => Totals
  <2>1. \A action : Recorded(<<>>, action) = {}
    BY DEF Recorded
  <2>2. ASSUME Init, NEW v \in Versions
        PROVE  audit[v] = <<>> /\ art[v] = None /\ Phase[v] # "completed"
    BY <2>2 DEF Init, NoJob, Phase
  <2>. QED BY <2>1, <2>2 DEF Totals, Total, Tally
<1>2. Inv /\ Totals /\ [Next]_vars => Totals'
  BY TotalsStep
<1>. QED BY <1>1, <1>2, TotalsAreSums, Invariance, PTL DEF Spec

-----------------------------------------------------------------------------
(* Who holds a lock, and who waits for one. *)

JobLabels == {"commit", "fail_commit", "commit_job"}

(* A locked version has a process at work on it, and a locked job is       *)
(* locked by whoever has locked its version and is about to commit.        *)
Held ==
  \A v \in Versions, p \in Procs :
    /\ vlock[v] = p => pc[p] \in VersionLocked /\ me[p].v = v
    /\ jlock[v] = p => vlock[v] = p /\ pc[p] \in JobLabels

Holds(p) == \E v \in Versions : vlock[v] = p \/ jlock[v] = p

Waits(p) ==
  \/ pc[p] \in {"lock_version", "fail_version", "queue"} /\ vlock[me[p].v] # None
  \/ pc[p] \in {"lock_job", "fail_job", "read_job"} /\ jlock[me[p].v] # None

(* Whoever holds a row lock can go on: nobody waits for one row while      *)
(* holding another, nobody holds one while the store is read or written    *)
(* or a document is parsed, and no lock stays with a process gone idle.    *)
HoldersGoOn ==
  \A p \in Procs : Holds(p) =>
    /\ pc[p] \notin {"idle", "poll", "done", "read_back", "extract", "put", "reread"}
    /\ ~Waits(p)

(* What a step of p may do to the locks. *)
LEMMA HeldAfter ==
  ASSUME Held, NEW p \in Procs,
         \A q \in Procs : q # p => pc'[q] = pc[q] /\ me'[q] = me[q],
         \A x \in Versions : vlock'[x] \in {vlock[x], None, p},
         \A x \in Versions : vlock'[x] = p => pc'[p] \in VersionLocked /\ me'[p].v = x,
         \A x \in Versions : jlock'[x] \in {jlock[x], None, p},
         \A x \in Versions : vlock[x] \notin {None, p} => vlock'[x] = vlock[x],
         \A x \in Versions : jlock'[x] = p => vlock'[x] = p /\ pc'[p] \in JobLabels
  PROVE  Held'
<1>0. \A q \in Procs : q # None
  BY ConstantsAssumption
<1>1. ASSUME NEW x \in Versions, NEW q \in Procs, vlock'[x] = q
      PROVE  pc'[q] \in VersionLocked /\ me'[q].v = x
  BY <1>0, <1>1 DEF Held
<1>2. ASSUME NEW x \in Versions, NEW q \in Procs, jlock'[x] = q
      PROVE  vlock'[x] = q /\ pc'[q] \in JobLabels
  BY <1>0, <1>2 DEF Held
<1>. QED BY <1>1, <1>2 DEF Held, VersionLocked, HoldingVersion, JobLabels

LEMMA HeldMove ==
  ASSUME TypeOK, Held, NEW p \in Procs,
         \A q \in Procs : q # p => pc'[q] = pc[q] /\ me'[q] = me[q],
         vlock' = vlock, jlock' = jlock,
         pc[p] \in VersionLocked =>
           pc'[p] \in VersionLocked /\ me'[p].v = me[p].v /\ pc[p] \notin JobLabels
  PROVE  Held'
<1>1. \A x \in Versions : vlock'[x] = p => pc'[p] \in VersionLocked /\ me'[p].v = x
  BY DEF Held
<1>2. \A x \in Versions : jlock'[x] = p => vlock'[x] = p /\ pc'[p] \in JobLabels
  BY DEF Held
<1>. QED BY <1>1, <1>2, HeldAfter

LEMMA HeldRelease ==
  ASSUME TypeOK, Held, NEW p \in Procs, ReleaseLocks(p),
         \A q \in Procs : q # p => pc'[q] = pc[q] /\ me'[q] = me[q]
  PROVE  Held'
<1>0. p # None
  BY ConstantsAssumption
<1>1. ASSUME NEW x \in Versions
      PROVE  /\ vlock'[x] = IF vlock[x] = p THEN None ELSE vlock[x]
             /\ jlock'[x] = IF jlock[x] = p THEN None ELSE jlock[x]
  BY DEF ReleaseLocks, Released
<1>2. \A x \in Versions : /\ vlock'[x] \in {vlock[x], None, p} /\ vlock'[x] # p
                          /\ jlock'[x] \in {jlock[x], None, p} /\ jlock'[x] # p
                          /\ vlock[x] \notin {None, p} => vlock'[x] = vlock[x]
  BY <1>0, <1>1
<1>. QED BY <1>2, HeldAfter

LEMMA HeldLock ==
  ASSUME TypeOK, Held, NEW p \in Procs,
         \A q \in Procs : q # p => pc'[q] = pc[q],
         me[p].v \in Versions, vlock[me[p].v] = None, vlock' = [vlock EXCEPT ![me[p].v] = p],
         jlock' = jlock, pc[p] \notin VersionLocked, pc'[p] \in VersionLocked, me' = me
  PROVE  Held'
<1>1. \A x \in Versions : vlock'[x] = IF x = me[p].v THEN p ELSE vlock[x]
  BY DEF TypeOK
<1>2. \A x \in Versions : /\ vlock'[x] \in {vlock[x], None, p}
                          /\ vlock[x] \notin {None, p} => vlock'[x] = vlock[x]
  BY <1>1
<1>3. \A x \in Versions : vlock'[x] = p => pc'[p] \in VersionLocked /\ me'[p].v = x
  BY <1>1 DEF Held
<1>4. \A x \in Versions : jlock'[x] = p => vlock'[x] = p /\ pc'[p] \in JobLabels
  BY DEF Held
<1>. QED BY <1>2, <1>3, <1>4, HeldAfter

LEMMA HeldLockJob ==
  ASSUME TypeOK, Held, NEW p \in Procs,
         \A q \in Procs : q # p => pc'[q] = pc[q],
         vlock' = vlock, me[p].v \in Versions, vlock[me[p].v] = p,
         NEW holder \in {None, p}, jlock' = [jlock EXCEPT ![me[p].v] = holder],
         pc'[p] \in JobLabels, me' = me
  PROVE  Held'
<1>0. pc'[p] \in VersionLocked
  BY DEF JobLabels, VersionLocked, HoldingVersion
<1>1. \A x \in Versions : jlock'[x] = IF x = me[p].v THEN holder ELSE jlock[x]
  BY DEF TypeOK
<1>2. \A x \in Versions : vlock'[x] = p => pc'[p] \in VersionLocked /\ me'[p].v = x
  BY <1>0 DEF Held
<1>3. \A x \in Versions : jlock'[x] = p => vlock'[x] = p /\ pc'[p] \in JobLabels
  BY <1>1 DEF Held
<1>. QED BY <1>1, <1>2, <1>3, HeldAfter

LEMMA HeldRefused ==
  ASSUME TypeOK, Held, NEW p \in Procs, Refused(p)
  PROVE  Held'
<1>1. ReleaseLocks(p) /\ \A q \in Procs : q # p => pc'[q] = pc[q] /\ me'[q] = me[q]
  BY DEF Refused, Goto, TypeOK
<1>. QED BY <1>1, HeldRelease

LEMMA HeldSave ==
  ASSUME Inv, Held, NEW p \in Procs, SaveStep(p)
  PROVE  Held'
<1>0. TypeOK /\ Known /\ Locking
  BY DEF Inv
<1>1. CASE Refused(p)
  BY <1>0, <1>1, HeldRefused
<1>2. CASE (Get(p) \/ ReadBack(p) \/ Extract(p) \/ Put(p) \/ Reread(p)) /\ ~Refused(p)
  <2>1. PICK label : Goto(p, label)
    BY <1>2 DEF Get, ReadBack, Extract, Put, Reread
  <2>2. \A q \in Procs : q # p => me'[q] = me[q]
    BY <1>0, <1>2 DEF Get, ReadBack, Extract, Put, Reread, TypeOK
  <2>3. vlock' = vlock /\ jlock' = jlock
    BY <1>2 DEF Get, ReadBack, Extract, Put, Reread
  <2>4. pc[p] \notin VersionLocked
    BY <1>2 DEF Get, ReadBack, Extract, Put, Reread, VersionLocked, HoldingVersion
  <2>5. \A q \in Procs : q # p => pc'[q] = pc[q]
    BY <1>0, <2>1 DEF Goto, TypeOK
  <2>. QED BY <1>0, <2>2, <2>3, <2>4, <2>5, HeldMove
<1>3. CASE LockVersion(p)
  <2>1. /\ pc[p] = "lock_version" /\ me[p].v \in Versions /\ vlock[me[p].v] = None
        /\ vlock' = [vlock EXCEPT ![me[p].v] = p] /\ jlock' = jlock /\ me' = me
    BY <1>0, <1>3 DEF LockVersion, Known, Busy
  <2>2. pc'[p] = "recheck" /\ \A q \in Procs : q # p => pc'[q] = pc[q]
    BY <1>0, <1>3 DEF LockVersion, Goto, TypeOK
  <2>3. pc[p] \notin VersionLocked /\ pc'[p] \in VersionLocked
    BY <2>1, <2>2 DEF VersionLocked, HoldingVersion
  <2>. QED BY <1>0, <2>1, <2>2, <2>3, HeldLock
<1>4. CASE Recheck(p) /\ ~Refused(p)
  <2>1. /\ pc[p] = "recheck" /\ vlock' = vlock /\ jlock' = jlock
        /\ me' = [me EXCEPT ![p].id = PublishedId(p)]
    BY <1>4 DEF Recheck
  <2>2. /\ pc'[p] \in {"lock_job", "commit"}
        /\ \A q \in Procs : q # p => pc'[q] = pc[q]
    BY <1>0, <1>4 DEF Recheck, Goto, TypeOK
  <2>3. me'[p].v = me[p].v /\ \A q \in Procs : q # p => me'[q] = me[q]
    <3>1. me[p] \in Memory
      BY <1>0 DEF TypeOK
    <3>. QED BY <1>0, <2>1, <3>1 DEF TypeOK, Memory
  <2>4. pc'[p] \in VersionLocked /\ pc[p] \notin JobLabels
    BY <2>1, <2>2 DEF VersionLocked, HoldingVersion, JobLabels
  <2>. QED BY <1>0, <2>1, <2>2, <2>3, <2>4, HeldMove
<1>5. CASE Commit(p)
  <2>1. ReleaseLocks(p) /\ \A q \in Procs : q # p => pc'[q] = pc[q] /\ me'[q] = me[q]
    BY <1>0, <1>5 DEF Commit, Goto, TypeOK
  <2>. QED BY <1>0, <2>1, HeldRelease
<1>. QED BY <1>1, <1>2, <1>3, <1>4, <1>5 DEF SaveStep

LEMMA HeldStep ==
  ASSUME Inv, Held, [Next]_vars
  PROVE  Held'
<1>0. /\ TypeOK /\ Known /\ Locking
      /\ \A w \in Workers : w \in Procs /\ w \notin Clients
      /\ \A c \in Clients : c \in Procs /\ c \notin Workers
  BY ConstantsAssumption DEF Inv, Procs
<1>1. ASSUME NEW p \in Procs, SaveStep(p) PROVE Held'
  BY <1>1, HeldSave
<1>2. ASSUME NEW w \in Workers, StartDrain(w) \/ NoWork(w) \/ StartJob(w) \/ Claim(w)
      PROVE  Held'
  <2>1. PICK label : Goto(w, label)
    BY <1>2 DEF StartDrain, NoWork, StartJob, Claim
  <2>2. /\ vlock' = vlock /\ jlock' = jlock /\ pc[w] \notin VersionLocked
        /\ \A q \in Procs : q # w => pc'[q] = pc[q]
    BY <1>0, <1>2, <2>1
    DEF StartDrain, NoWork, StartJob, Claim, Goto, TypeOK, VersionLocked, HoldingVersion
  <2>3. \A q \in Procs : q # w => me'[q] = me[q]
    BY <1>0, <1>2 DEF StartDrain, NoWork, StartJob, Claim, TypeOK
  <2>. QED BY <1>0, <2>2, <2>3, HeldMove
<1>3. ASSUME NEW w \in Workers, ClaimLost(w) \/ FailCommit(w) \/ Crash(w) PROVE Held'
  <2>1. ReleaseLocks(w) /\ \A q \in Procs : q # w => pc'[q] = pc[q] /\ me'[q] = me[q]
    BY <1>0, <1>3 DEF ClaimLost, FailCommit, Crash, Goto, TypeOK
  <2>. QED BY <1>0, <2>1, HeldRelease
<1>4. ASSUME NEW w \in Workers, LockJob(w) \/ FailLockJob(w) PROVE Held'
  <2>1. /\ me[w].v \in Versions /\ vlock[me[w].v] = w /\ me' = me /\ vlock' = vlock
        /\ jlock' = [jlock EXCEPT ![me[w].v] = w]
    BY <1>0, <1>4
    DEF LockJob, FailLockJob, Known, Busy, Locking, VersionLocked, HoldingVersion
  <2>2. /\ pc'[w] \in JobLabels
        /\ \A q \in Procs : q # w => pc'[q] = pc[q]
    BY <1>0, <1>4 DEF LockJob, FailLockJob, Goto, TypeOK, JobLabels
  <2>. QED BY <1>0, <2>1, <2>2, HeldLockJob
<1>5. ASSUME NEW w \in Workers, FailLockVersion(w) PROVE Held'
  <2>1. /\ pc[w] = "fail_version" /\ me[w].v \in Versions /\ vlock[me[w].v] = None
        /\ vlock' = [vlock EXCEPT ![me[w].v] = w] /\ jlock' = jlock /\ me' = me
    BY <1>0, <1>5 DEF FailLockVersion, Known, Busy
  <2>2. pc'[w] = "fail_job" /\ \A q \in Procs : q # w => pc'[q] = pc[q]
    BY <1>0, <1>5 DEF FailLockVersion, Goto, TypeOK
  <2>3. pc[w] \notin VersionLocked /\ pc'[w] \in VersionLocked
    BY <2>1, <2>2 DEF VersionLocked, HoldingVersion
  <2>. QED BY <1>0, <2>1, <2>2, <2>3, HeldLock
<1>6. ASSUME NEW c \in Clients, NEW kind \in {"enqueue", "save"}, NEW v \in Versions,
             NEW u \in Users, Admit(c, kind, v, u)
      PROVE  Held'
  <2>1. /\ pc[c] = "idle" /\ vlock' = vlock /\ jlock' = jlock
        /\ \A q \in Procs : q # c => pc'[q] = pc[q] /\ me'[q] = me[q]
    BY <1>0, <1>6 DEF Admit, Goto, TypeOK
  <2>2. pc[c] \notin VersionLocked
    BY <2>1 DEF VersionLocked, HoldingVersion
  <2>. QED BY <1>0, <2>1, <2>2, HeldMove
<1>7. ASSUME NEW c \in Clients, EnqueueLockVersion(c) PROVE Held'
  <2>1. /\ pc[c] = "queue" /\ me[c].v \in Versions /\ vlock[me[c].v] = None
        /\ jlock' = jlock /\ me' = me /\ \A q \in Procs : q # c => pc'[q] = pc[q]
    BY <1>0, <1>7 DEF EnqueueLockVersion, Known, Busy, Goto, TypeOK
  <2>2. pc[c] \notin VersionLocked
    BY <2>1 DEF VersionLocked, HoldingVersion
  <2>3. CASE vlock' = vlock
    BY <1>0, <2>1, <2>2, <2>3, HeldMove
  <2>4. CASE Goto(c, "read_job") /\ vlock' = [vlock EXCEPT ![me[c].v] = c]
    <3>1. pc'[c] \in VersionLocked
      BY <1>0, <2>4 DEF Goto, TypeOK, VersionLocked, HoldingVersion
    <3>. QED BY <1>0, <2>1, <2>2, <2>4, <3>1, HeldLock
  <2>. QED BY <1>7, <2>3, <2>4 DEF EnqueueLockVersion
<1>8. ASSUME NEW c \in Clients, EnqueueReadJob(c) PROVE Held'
  <2>1. me' = me /\ \A q \in Procs : q # c => pc'[q] = pc[q] /\ me'[q] = me[q]
    BY <1>0, <1>8 DEF EnqueueReadJob, Goto, TypeOK
  <2>2. CASE ReleaseLocks(c)
    BY <1>0, <2>1, <2>2, HeldRelease
  <2>3. CASE Queueable(me[c].v)
    <3>. DEFINE holder == IF job[me[c].v].status = "absent" THEN None ELSE c
    <3>1. /\ me[c].v \in Versions /\ vlock[me[c].v] = c /\ vlock' = vlock
          /\ jlock' = [jlock EXCEPT ![me[c].v] = holder]
      BY <1>0, <1>8, <2>3
      DEF EnqueueReadJob, Known, Busy, Locking, VersionLocked, HoldingVersion
    <3>2. pc'[c] \in JobLabels
      BY <1>0, <1>8, <2>3 DEF EnqueueReadJob, Goto, TypeOK, JobLabels
    <3>3. holder \in {None, c}
      OBVIOUS
    <3>. HIDE DEF holder
    <3>. QED BY <1>0, <2>1, <3>1, <3>2, <3>3, HeldLockJob
  <2>. QED BY <1>8, <2>2, <2>3 DEF EnqueueReadJob
<1>9. ASSUME NEW c \in Clients, EnqueueCommit(c) \/ Abort(c) PROVE Held'
  <2>1. ReleaseLocks(c) /\ \A q \in Procs : q # c => pc'[q] = pc[q] /\ me'[q] = me[q]
    BY <1>0, <1>9 DEF EnqueueCommit, Abort, Goto, TypeOK
  <2>. QED BY <1>0, <2>1, HeldRelease
<1>10. ASSUME UNCHANGED <<pc, me, vlock, jlock>> PROVE Held'
  BY <1>10 DEF Held, VersionLocked, HoldingVersion, JobLabels
<1>. QED
  BY <1>0, <1>1, <1>2, <1>3, <1>4, <1>5, <1>6, <1>7, <1>8, <1>9, <1>10
  DEF Next, WorkerStep, RequestStep, Judge, Revoke, Grant, Tick, vars

LEMMA HeldInvariance == Spec => []Held
<1>1. Init => Held
  BY ConstantsAssumption DEF Init, Held
<1>. QED BY <1>1, HeldStep, Invariance, PTL DEF Spec

(* Row locks never close a cycle, and none is held through a transfer or   *)
(* a parsing: whoever has locked a version or a job is never kept waiting  *)
(* by another lock, and no crash, lost claim or failure leaves a lock.     *)
THEOREM NoLockCycle == Spec => []HoldersGoOn
<1>1. ASSUME Inv, Held, NEW p \in Procs, NEW v \in Versions, vlock[v] = p \/ jlock[v] = p
      PROVE  /\ pc[p] \notin {"idle", "poll", "done", "read_back", "extract", "put", "reread"}
             /\ ~Waits(p)
  <2>1. vlock[v] = p /\ pc[p] \in VersionLocked /\ me[p].v = v
    BY <1>1 DEF Held
  <2>2. pc[p] \in {"lock_job", "fail_job", "read_job"} => jlock[v] = None
    <3>1. jlock[v] \in Procs => jlock[v] = p /\ pc[p] \in JobLabels
      BY <1>1, <2>1 DEF Held
    <3>2. jlock[v] \in Procs \cup {None}
      BY <1>1 DEF Inv, TypeOK
    <3>. QED BY <3>1, <3>2 DEF JobLabels
  <2>. QED BY <2>1, <2>2 DEF Waits, VersionLocked, HoldingVersion
<1>2. Inv /\ Held => HoldersGoOn
  BY <1>1 DEF HoldersGoOn, Holds
<1>. QED BY <1>2, Invariance, HeldInvariance, PTL

-----------------------------------------------------------------------------
(* What the reviews take for granted. *)

(* How far a version has come, in the words of module Reviews. *)
Stage ==
  [v \in Versions |-> IF content[v] = "pending_scan" THEN "unscanned"
                      ELSE IF content[v] = "rejected" THEN "rejected"
                      ELSE IF art[v] = None THEN "cleared" ELSE "saved"]

(* Action Advance of module Reviews, and that a saved text is not replaced. *)
Advancing ==
  \/ \E v \in Versions, to \in {"rejected", "cleared", "saved"} :
       /\ <<Stage[v], to>> \in
            {<<"unscanned", "rejected">>, <<"unscanned", "cleared">>, <<"cleared", "saved">>}
       /\ Stage' = [Stage EXCEPT ![v] = to]
       /\ \A x \in Versions : art[x] # None => art'[x] = art[x]
  \/ Stage' = Stage /\ art' = art

LEMMA AdvancingStep ==
  ASSUME Inv, [Next]_vars
  PROVE  Advancing
<1>0. TypeOK /\ Known /\ Locking /\ Publishing /\ SavedTextWasCleared
  BY DEF Inv, Artifacts
<1>1. ASSUME NEW p \in Procs, Commit(p) PROVE Advancing
  <2>1. PICK v \in Versions, id \in Ids :
          /\ Cleared(v) /\ art[v] \in {None, id} /\ id # None
          /\ art' = [art EXCEPT ![v] = id] /\ content' = content
    BY <1>0, <1>1, CommitFacts
  <2>2. CASE art[v] = id
    <3>1. art' = art
      BY <1>0, <2>1, <2>2 DEF TypeOK
    <3>. QED BY <2>1, <3>1 DEF Advancing, Stage
  <2>3. CASE art[v] = None
    <3>1. Stage[v] = "cleared"
      BY <2>1, <2>3 DEF Stage, Cleared
    <3>2. \A x \in Versions : art'[x] = IF x = v THEN id ELSE art[x]
      BY <1>0, <2>1 DEF TypeOK
    <3>3. \A x \in Versions : Stage'[x] = IF x = v THEN "saved" ELSE Stage[x]
      BY <2>1, <3>2 DEF Stage, Cleared
    <3>4. Stage' = [Stage EXCEPT ![v] = "saved"]
      BY <3>3 DEF Stage
    <3>. QED BY <2>3, <3>1, <3>2, <3>4 DEF Advancing
  <2>. QED BY <2>1, <2>2, <2>3
<1>2. ASSUME NEW v \in Versions, NEW verdict \in {"clean", "rejected"}, Judge(v, verdict)
      PROVE  Advancing
  <2>1. content[v] = "pending_scan" /\ content' = [content EXCEPT ![v] = verdict] /\ art' = art
    BY <1>2 DEF Judge
  <2>2. art[v] = None
    BY <1>0, <2>1 DEF SavedTextWasCleared
  <2>. DEFINE to == IF verdict = "clean" THEN "cleared" ELSE "rejected"
  <2>3. \A x \in Versions : content'[x] = IF x = v THEN verdict ELSE content[x]
    BY <1>0, <2>1 DEF TypeOK
  <2>4. \A x \in Versions : Stage'[x] = IF x = v THEN to ELSE Stage[x]
    BY <2>1, <2>2, <2>3 DEF Stage
  <2>5. Stage' = [Stage EXCEPT ![v] = to]
    <3>. HIDE DEF to
    <3>. QED BY <2>4 DEF Stage
  <2>6. Stage[v] = "unscanned"
    BY <2>1 DEF Stage
  <2>. QED BY <2>1, <2>5, <2>6 DEF Advancing
<1>3. CASE art' = art /\ content' = content
  BY <1>3 DEF Advancing, Stage
<1>4. ASSUME NEW p \in Procs, SaveStep(p) PROVE content' = content
  BY <1>4
  DEF SaveStep, Refused, Get, ReadBack, Extract, Put, LockVersion, Recheck, Commit, Reread
<1>5. \/ content' = content
      \/ \E v \in Versions, verdict \in {"clean", "rejected"} : Judge(v, verdict)
  BY <1>4
  DEF Next, WorkerStep, RequestStep, Procs, Revoke, Grant, Tick, StartDrain, Claim, NoWork,
      StartJob, LockJob, ClaimLost, FailLockVersion, FailLockJob, FailCommit, Crash, Admit,
      EnqueueLockVersion, EnqueueReadJob, EnqueueCommit, Abort, vars
<1>. QED BY <1>1, <1>2, <1>3, <1>5, ArtifactsOnlyByCommit

(* A version moves the way the reviews assume (Advance in module Reviews): *)
(* it is judged once, its text is saved only after it was cleared, one     *)
(* version at a time, and a text that was saved is never replaced.         *)
THEOREM StagesAdvance == Spec => [][Advancing]_vars
<1>1. Inv /\ [Next]_vars => [Advancing]_vars
  BY AdvancingStep
<1>. QED BY <1>1, Invariance, PTL DEF Spec
=============================================================================
