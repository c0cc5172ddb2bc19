---------------------------- MODULE UploadsProofs ----------------------------
(* Proofs about uploads, for every value of the constants. *)
EXTENDS Uploads, TLAPS

(* What a request has in its hands at each label. *)
Known ==
  \A r \in Requests :
    /\ pc[r] # "idle" => rq[r].v \in Versions /\ rq[r].user \in Users
    /\ pc[r] \in {"idle", "receive", "lock", "recheck"} => rq[r].key = None
    /\ pc[r] \in {"put", "commit"} => rq[r].key \in Keys
    /\ rq[r].reply # "none" => pc[r] = "done"

(* The lock of the row, and what it keeps true: a request that got past    *)
(* the check of the row still finds no content there.                      *)
Locking ==
  \A r \in Requests :
    /\ pc[r] \in HoldingLock => vlock[rq[r].v] = r
    /\ pc[r] \in {"put", "commit"} => row[rq[r].v].key = None

(* No two requests write under one key, no key is written twice, and what  *)
(* is about to be named, or is named, was written.                         *)
Objects ==
  /\ \A k \in Keys : store[k] \in {0, 1}
  /\ \A r, s \in Requests : rq[r].key # None /\ rq[r].key = rq[s].key => r = s
  /\ \A r \in Requests : pc[r] = "commit" => store[rq[r].key] = 1
  /\ \A v \in Versions : row[v].key # None => store[row[v].key] = 1

(* The membership that a request is about to read, or has read, was there  *)
(* at some instant since it locked the row.                                *)
Vouching ==
  \A r \in Requests :
    /\ pc[r] = "recheck" /\ rq[r].user \in admins => r \in vouched
    /\ pc[r] \in {"put", "commit"} => r \in vouched

Inv == TypeOK /\ Known /\ Locking /\ Objects /\ OrphansWereRefused /\ Vouching

-----------------------------------------------------------------------------
LEMMA InvInit == Init => Inv
<1>. SUFFICES ASSUME Init PROVE Inv
  OBVIOUS
<1>1. TypeOK
  BY ConstantsAssumption DEF Init, TypeOK, Rows, Memory, NoContent, NoRequest
<1>2. Known /\ Locking /\ Vouching
  BY DEF Init, Known, Locking, Vouching, HoldingLock, NoRequest
<1>3. Objects /\ OrphansWereRefused
  BY DEF Init, Objects, OrphansWereRefused, NoContent, NoRequest
<1>. QED BY <1>1, <1>2, <1>3 DEF Inv

-----------------------------------------------------------------------------
(* The fields of the requests. *)

LEMMA Replied ==
  ASSUME TypeOK, NEW r \in Requests, NEW answer \in {"ok", "error"}, Reply(r, answer)
  PROVE  /\ rq' \in [Requests -> Memory]
         /\ \A x \in Requests : /\ rq'[x].v = rq[x].v /\ rq'[x].user = rq[x].user
                                /\ rq'[x].key = rq[x].key
                                /\ x # r => rq'[x].reply = rq[x].reply
         /\ rq'[r].reply = answer
<1>1. rq' = [rq EXCEPT ![r] = [rq[r] EXCEPT !.reply = answer]] /\ rq \in [Requests -> Memory]
  BY DEF Reply, TypeOK
<1>2. /\ rq'[r] \in Memory /\ rq'[r].v = rq[r].v /\ rq'[r].user = rq[r].user
      /\ rq'[r].key = rq[r].key /\ rq'[r].reply = answer
  BY <1>1 DEF Memory
<1>. QED BY <1>1, <1>2

LEMMA Keyed ==
  ASSUME TypeOK, NEW r \in Requests, NEW k \in Keys, rq' = [rq EXCEPT ![r].key = k]
  PROVE  /\ rq' \in [Requests -> Memory]
         /\ \A x \in Requests : /\ rq'[x].v = rq[x].v /\ rq'[x].user = rq[x].user
                                /\ rq'[x].reply = rq[x].reply
                                /\ x # r => rq'[x].key = rq[x].key
         /\ rq'[r].key = k
<1>1. rq' = [rq EXCEPT ![r] = [rq[r] EXCEPT !.key = k]] /\ rq \in [Requests -> Memory]
  BY DEF TypeOK
<1>2. /\ rq'[r] \in Memory /\ rq'[r].v = rq[r].v /\ rq'[r].user = rq[r].user
      /\ rq'[r].key = k /\ rq'[r].reply = rq[r].reply
  BY <1>1 DEF Memory
<1>. QED BY <1>1, <1>2

LEMMA Sent ==
  ASSUME TypeOK, NEW r \in Requests, rq[r].puts < PutAttempts,
         rq' = [rq EXCEPT ![r].puts = @ + 1]
  PROVE  /\ rq' \in [Requests -> Memory]
         /\ \A x \in Requests : /\ rq'[x].v = rq[x].v /\ rq'[x].user = rq[x].user
                                /\ rq'[x].key = rq[x].key /\ rq'[x].reply = rq[x].reply
<1>1. /\ rq' = [rq EXCEPT ![r] = [rq[r] EXCEPT !.puts = @ + 1]]
      /\ rq \in [Requests -> Memory]
  BY DEF TypeOK
<1>2. /\ rq'[r] \in Memory /\ rq'[r].v = rq[r].v /\ rq'[r].user = rq[r].user
      /\ rq'[r].key = rq[r].key /\ rq'[r].reply = rq[r].reply
  BY <1>1, ConstantsAssumption DEF Memory
<1>. QED BY <1>1, <1>2

LEMMA Admitted ==
  ASSUME TypeOK, NEW r \in Requests, NEW v \in Versions, NEW u \in Users, Admit(r, v, u)
  PROVE  /\ rq' \in [Requests -> Memory]
         /\ \A x \in Requests \ {r} : rq'[x] = rq[x]
         /\ rq'[r].v = v /\ rq'[r].user = u /\ rq'[r].key = None /\ rq'[r].reply = "none"
<1>1. /\ rq' = [rq EXCEPT ![r] = [NoRequest EXCEPT !.v = v, !.user = u]]
      /\ rq \in [Requests -> Memory]
  BY DEF TypeOK, Admit
<1>2. /\ rq'[r] \in Memory /\ rq'[r].v = v /\ rq'[r].user = u
      /\ rq'[r].key = None /\ rq'[r].reply = "none"
  <2>1. 0 \in 0 .. PutAttempts
    BY ConstantsAssumption
  <2>. QED BY <1>1, <2>1 DEF Memory, NoRequest
<1>. QED BY <1>1, <1>2

LEMMA RecordedType ==
  ASSUME audit \in [Versions -> Seq(Events)], NEW v \in Versions,
         NEW action \in {"uploaded"} \cup Verdicts, NEW u \in Users
  PROVE  Recorded(v, action, u) \in [Versions -> Seq(Events)]
<1>1. [action |-> action, by |-> u] \in Events
  BY DEF Events
<1>. QED BY <1>1 DEF Recorded

-----------------------------------------------------------------------------
(* Types. *)

LEMMA TypeStep ==
  ASSUME TypeOK, Known, [Next]_vars
  PROVE  TypeOK'
<1>. USE DEF TypeOK, Goto, HoldingLock
<1>1. ASSUME NEW r \in Requests, NEW v \in Versions, NEW u \in Users, Admit(r, v, u)
      PROVE  TypeOK'
  BY <1>1, Admitted DEF Admit
<1>2. ASSUME NEW r \in Requests, Receive(r) PROVE TypeOK'
  BY <1>2 DEF Receive
<1>3. ASSUME NEW r \in Requests, LockVersion(r) PROVE TypeOK'
  BY <1>3 DEF LockVersion
<1>4. ASSUME NEW r \in Requests, Recheck(r) PROVE TypeOK'
  <2>1. CASE \E answer \in {"ok", "error"} :
               Reply(r, answer) /\ Release(r) /\ Goto(r, "done")
    BY <1>4, <2>1, Replied DEF Recheck, Release
  <2>2. ASSUME NEW k \in Keys, rq' = [rq EXCEPT ![r].key = k], vlock' = vlock, Goto(r, "put")
        PROVE  TypeOK'
    BY <1>4, <2>2, Keyed DEF Recheck
  <2>. QED BY <1>4, <2>1, <2>2 DEF Recheck, FreshKeys
<1>5. ASSUME NEW r \in Requests, PutAnswered(r) PROVE TypeOK'
  <2>1. rq[r].key \in Keys /\ rq[r] \in Memory
    BY <1>5 DEF PutAnswered, Known
  <2>2. rq' \in [Requests -> Memory]
    BY <1>5, Sent DEF PutAnswered
  <2>. QED BY <1>5, <2>1, <2>2 DEF PutAnswered, Written
<1>6. ASSUME NEW r \in Requests, PutUnanswered(r) PROVE TypeOK'
  <2>1. rq[r].key \in Keys /\ rq[r] \in Memory
    BY <1>6 DEF PutUnanswered, Known
  <2>2. rq' \in [Requests -> Memory]
    BY <1>6, Sent DEF PutUnanswered
  <2>3. store' \in [Keys -> Nat] /\ late' \in SUBSET Keys
    BY <1>6, <2>1 DEF PutUnanswered, Written
  <2>. QED BY <1>6, <2>2, <2>3 DEF PutUnanswered
<1>7. ASSUME NEW r \in Requests, Commit(r) PROVE TypeOK'
  <2>1. /\ rq[r].key \in Keys /\ rq[r].v \in Versions /\ rq[r].user \in Users
        /\ rq[r] \in Memory
    BY <1>7 DEF Commit, Known
  <2>2. StoredRow(r) \in Rows /\ StoredRow(r).status # "pending_upload" /\ StoredRow(r).key # None
    BY <2>1, ConstantsAssumption DEF StoredRow, Rows
  <2>3. audit' \in [Versions -> Seq(Events)]
    BY <1>7, <2>1, RecordedType DEF Commit
  <2>5. rq' \in [Requests -> Memory]
    BY <1>7, Replied DEF Commit
  <2>. QED BY <1>7, <2>1, <2>2, <2>3, <2>5 DEF Commit, Release, Discarded
<1>8. ASSUME NEW r \in Requests, Fail(r) PROVE TypeOK'
  <2>1. rq' \in [Requests -> Memory]
    BY <1>8, Replied DEF Fail
  <2>. QED BY <1>8, <2>1 DEF Fail, Release, Discarded
<1>9. ASSUME NEW k \in Keys, LateWrite(k) PROVE TypeOK'
  BY <1>9 DEF LateWrite, Written
<1>10. ASSUME NEW u \in Users, Revoke(u) \/ Grant(u) PROVE TypeOK'
  BY <1>10 DEF Revoke, Grant
<1>11. ASSUME NEW v \in Versions, NEW verdict \in Verdicts, NEW u \in Users, Judge(v, verdict, u)
       PROVE  TypeOK'
  <2>1. [row[v] EXCEPT !.status = verdict] \in Rows
    <3>1. row[v] \in Rows
      OBVIOUS
    <3>. QED BY <3>1, Zenon DEF Rows
  <2>2. audit' \in [Versions -> Seq(Events)]
    BY <1>11, RecordedType DEF Judge
  <2>3. \A x \in Versions : row'[x].status = "pending_upload" <=> row'[x].key = None
    BY <1>11 DEF Judge, Rows, Verdicts, Terminal
  <2>. QED BY <1>11, <2>1, <2>2, <2>3 DEF Judge
<1>12. CASE UNCHANGED vars
  BY <1>12 DEF vars
<1>. QED
  BY <1>1, <1>2, <1>3, <1>4, <1>5, <1>6, <1>7, <1>8, <1>9, <1>10, <1>11, <1>12 DEF Next, Step

-----------------------------------------------------------------------------
(* Steps, seen from the requests: which of them move, and what they keep.  *)

(* A request that is answered, with what became of its fields. *)
LEMMA AnswerStep ==
  ASSUME TypeOK, NEW r \in Requests, Recheck(r) \/ Commit(r) \/ Fail(r), pc'[r] = "done"
  PROVE  /\ pc' = [pc EXCEPT ![r] = "done"]
         /\ \A x \in Requests : /\ rq'[x].v = rq[x].v /\ rq'[x].user = rq[x].user
                                /\ rq'[x].key = rq[x].key
                                /\ x # r => rq'[x].reply = rq[x].reply
         /\ \A v \in Versions : vlock[v] # r => vlock'[v] = vlock[v]
         /\ store' = store /\ admins' = admins /\ vouched' = vouched
<1>1. Goto(r, "done") /\ Release(r) /\ \E answer \in {"ok", "error"} : Reply(r, answer)
  BY DEF TypeOK, Recheck, Commit, Fail, Goto, HoldingLock
<1>2. store' = store /\ admins' = admins /\ vouched' = vouched
  BY DEF Recheck, Commit, Fail, Discarded
<1>. QED BY <1>1, <1>2, Replied DEF Goto, Release

LEMMA KnownStep ==
  ASSUME TypeOK, Known, [Next]_vars
  PROVE  Known'
<1>. USE DEF Known, Goto
<1>0. DOMAIN pc = Requests
  BY DEF TypeOK
<1>1. ASSUME NEW r \in Requests, NEW v \in Versions, NEW u \in Users, Admit(r, v, u)
      PROVE  Known'
  <2>1. \A x \in Requests : pc'[x] = IF x = r THEN "receive" ELSE pc[x]
    BY <1>0, <1>1 DEF Admit
  <2>2. /\ \A x \in Requests \ {r} : rq'[x] = rq[x]
        /\ rq'[r].v = v /\ rq'[r].user = u /\ rq'[r].key = None /\ rq'[r].reply = "none"
    BY <1>1, Admitted
  <2>. QED BY <2>1, <2>2
<1>2. ASSUME NEW r \in Requests, Receive(r) \/ LockVersion(r) PROVE Known'
  BY <1>0, <1>2 DEF Receive, LockVersion
<1>3. ASSUME NEW r \in Requests, Recheck(r) \/ Commit(r) \/ Fail(r), pc'[r] = "done"
      PROVE  Known'
  <2>1. pc[r] # "idle"
    BY <1>3 DEF Recheck, Commit, Fail
  <2>. QED BY <1>0, <1>3, <2>1, AnswerStep
<1>4. ASSUME NEW r \in Requests, Recheck(r), pc'[r] # "done" PROVE Known'
  <2>1. PICK k \in Keys : rq' = [rq EXCEPT ![r].key = k] /\ Goto(r, "put")
    BY <1>0, <1>4 DEF Recheck, FreshKeys
  <2>2. /\ pc[r] = "recheck" /\ pc'[r] = "put"
        /\ \A x \in Requests \ {r} : pc'[x] = pc[x]
    BY <1>0, <1>4, <2>1 DEF Recheck
  <2>3. /\ \A x \in Requests : /\ rq'[x].v = rq[x].v /\ rq'[x].user = rq[x].user
                                /\ rq'[x].reply = rq[x].reply
        /\ \A x \in Requests \ {r} : rq'[x].key = rq[x].key
        /\ rq'[r].key = k
    BY <2>1, Keyed
  <2>4. rq[r].v \in Versions /\ rq[r].user \in Users /\ rq[r].reply = "none"
    BY <2>2
  <2>5. \A x \in Requests \ {r} :
          /\ pc'[x] = pc[x] /\ rq'[x].v = rq[x].v /\ rq'[x].user = rq[x].user
          /\ rq'[x].reply = rq[x].reply /\ rq'[x].key = rq[x].key
    BY <2>2, <2>3
  <2>6. /\ pc'[r] = "put" /\ rq'[r].v \in Versions /\ rq'[r].user \in Users
        /\ rq'[r].reply = "none" /\ rq'[r].key \in Keys
    BY <2>2, <2>3, <2>4
  <2>. QED BY <2>5, <2>6
<1>5. ASSUME NEW r \in Requests, PutAnswered(r) \/ PutUnanswered(r) PROVE Known'
  <2>1. \A x \in Requests : /\ rq'[x].v = rq[x].v /\ rq'[x].user = rq[x].user
                            /\ rq'[x].key = rq[x].key /\ rq'[x].reply = rq[x].reply
    BY <1>5, Sent DEF PutAnswered, PutUnanswered
  <2>. QED BY <1>0, <1>5, <2>1 DEF PutAnswered, PutUnanswered
<1>6. ASSUME pc' = pc, rq' = rq PROVE Known'
  BY <1>6
<1>7. ASSUME NEW r \in Requests, Recheck(r) \/ Commit(r) \/ Fail(r) PROVE Known'
  BY <1>0, <1>3, <1>4, <1>7 DEF Commit, Fail
<1>. QED
  BY <1>1, <1>2, <1>5, <1>6, <1>7 DEF Next, Step, LateWrite, Revoke, Grant, Judge, vars

-----------------------------------------------------------------------------
(* Locks, and the row under them. *)

(* Who holds the lock of a row is the only one to touch its key. *)
LEMMA LockingStep ==
  ASSUME TypeOK, TypeOK', Known, Known', Locking, [Next]_vars
  PROVE  Locking'
<1>. USE DEF Locking, Goto, HoldingLock
<1>0. /\ pc \in [Requests -> {"idle", "receive", "lock", "done"} \cup HoldingLock]
      /\ row \in [Versions -> Rows] /\ vlock \in [Versions -> Requests \cup {None}]
  BY DEF TypeOK
<1>1. ASSUME NEW r \in Requests, NEW v \in Versions, NEW u \in Users, Admit(r, v, u)
      PROVE  Locking'
  BY <1>0, <1>1, Admitted DEF Admit
<1>2. ASSUME NEW r \in Requests, Receive(r) PROVE Locking'
  BY <1>0, <1>2 DEF Receive
<1>3. ASSUME NEW r \in Requests, LockVersion(r) PROVE Locking'
  <2>1. \A x \in Requests \ {r} : pc[x] \in HoldingLock => vlock[rq[x].v] # None
    BY ConstantsAssumption
  <2>. QED BY <1>0, <1>3, <2>1 DEF LockVersion, Known
<1>4. ASSUME NEW r \in Requests, Recheck(r), pc'[r] # "done" PROVE Locking'
  <2>1. PICK k \in Keys : rq' = [rq EXCEPT ![r].key = k] /\ Goto(r, "put")
    BY <1>0, <1>4 DEF Recheck, FreshKeys
  <2>2. \A x \in Requests : rq'[x].v = rq[x].v
    BY <2>1, Keyed
  <2>3. rq[r].v \in Versions /\ row[rq[r].v].key = None
    BY <1>4, <2>1 DEF Recheck, AlreadyStored, Known, TypeOK
  <2>4. row' = row /\ vlock' = vlock /\ pc[r] = "recheck"
    BY <1>0, <1>4 DEF Recheck
  <2>. QED BY <1>0, <2>1, <2>2, <2>3, <2>4
<1>5. ASSUME NEW r \in Requests, PutAnswered(r) \/ PutUnanswered(r) PROVE Locking'
  <2>1. \A x \in Requests : rq'[x].v = rq[x].v
    BY <1>5, Sent DEF PutAnswered, PutUnanswered
  <2>. QED BY <1>0, <1>5, <2>1 DEF PutAnswered, PutUnanswered
<1>6. ASSUME NEW r \in Requests, Recheck(r) \/ Commit(r) \/ Fail(r), pc'[r] = "done"
      PROVE  Locking'
  <2>1. /\ pc' = [pc EXCEPT ![r] = "done"]
        /\ \A x \in Requests : rq'[x].v = rq[x].v
        /\ \A v \in Versions : vlock[v] # r => vlock'[v] = vlock[v]
    BY <1>6, AnswerStep
  <2>2. row' = row \/ (vlock[rq[r].v] = r /\ \A v \in Versions \ {rq[r].v} : row'[v] = row[v])
    BY <1>0, <1>6 DEF Recheck, Commit, Fail
  <2>3. \A x \in Requests \ {r} : pc[x] \in HoldingLock =>
          rq[x].v \in Versions /\ vlock[rq[x].v] = x
    BY <1>0 DEF Known
  <2>4. \A x \in Requests \ {r} : pc[x] \in {"put", "commit"} => row'[rq[x].v] = row[rq[x].v]
    BY <2>2, <2>3
  <2>. QED BY <1>0, <2>1, <2>3, <2>4
<1>7. ASSUME NEW r \in Requests, Recheck(r) \/ Commit(r) \/ Fail(r) PROVE Locking'
  BY <1>0, <1>4, <1>6, <1>7 DEF Commit, Fail
<1>8. ASSUME NEW v \in Versions, NEW verdict \in Verdicts, NEW u \in Users, Judge(v, verdict, u)
      PROVE  Locking'
  <2>1. \A x \in Versions : row'[x].key = row[x].key
    BY <1>0, <1>8 DEF Judge, Rows
  <2>. QED BY <1>0, <1>8, <2>1 DEF Judge, Known
<1>9. ASSUME row' = row, vlock' = vlock, pc' = pc, rq' = rq PROVE Locking'
  BY <1>9
<1>. QED
  BY <1>1, <1>2, <1>3, <1>5, <1>7, <1>8, <1>9
  DEF Next, Step, LateWrite, Revoke, Grant, vars

(* A key that a row names stays, and from then on only scans change the    *)
(* status.                                                                 *)
LEMMA RowStep ==
  ASSUME TypeOK, Known, Locking, [Next]_vars, NEW v \in Versions, row[v].key # None
  PROVE  /\ row'[v].key = row[v].key
         /\ row'[v].status # row[v].status => row'[v].status \in Verdicts
<1>0. row \in [Versions -> Rows]
  BY DEF TypeOK
<1>1. ASSUME NEW r \in Requests, Commit(r) PROVE row'[v] = row[v]
  <2>1. rq[r].v \in Versions /\ rq[r].v # v
    BY <1>1 DEF Commit, Known, Locking
  <2>. QED BY <1>0, <1>1, <2>1 DEF Commit
<1>2. ASSUME NEW x \in Versions, NEW verdict \in Verdicts, NEW u \in Users, Judge(x, verdict, u)
      PROVE  /\ row'[v].key = row[v].key
             /\ row'[v].status # row[v].status => row'[v].status \in Verdicts
  BY <1>0, <1>2 DEF Judge, Rows
<1>. QED
  BY <1>1, <1>2
  DEF Next, Step, Admit, Receive, LockVersion, Recheck, PutAnswered, PutUnanswered, Fail,
      LateWrite, Revoke, Grant, vars

-----------------------------------------------------------------------------
(* Objects. *)

(* The bucket after a step: an object that was there is there, and none is *)
(* there twice.                                                            *)
LEMMA StoreStep ==
  ASSUME TypeOK, Known, Objects, [Next]_vars
  PROVE  /\ \A k \in Keys : store'[k] \in {0, 1}
         /\ \A k \in Keys : store[k] = 1 => store'[k] = 1
<1>. USE DEF Objects, Written
<1>0. store \in [Keys -> Nat]
  BY DEF TypeOK
<1>1. ASSUME NEW r \in Requests, PutAnswered(r) \/ PutUnanswered(r)
      PROVE  store' = store \/ \E k \in Keys : store' = Written(k)
  BY <1>1 DEF PutAnswered, PutUnanswered, Known
<1>2. ASSUME NEW k \in Keys, store' = Written(k)
      PROVE  \A x \in Keys : store'[x] \in {0, 1} /\ (store[x] = 1 => store'[x] = 1)
  BY <1>0, <1>2
<1>3. CASE store' = store
  BY <1>3
<1>. QED
  BY <1>1, <1>2, <1>3
  DEF Next, Step, Admit, Receive, LockVersion, Recheck, Commit, Fail, Discarded, LateWrite,
      Revoke, Grant, Judge, vars

LEMMA ObjectsStep ==
  ASSUME TypeOK, TypeOK', Known, Known', Locking, Objects, [Next]_vars
  PROVE  Objects'
<1>. USE DEF Objects, Goto
<1>0. /\ pc \in [Requests -> {"idle", "receive", "lock", "done"} \cup HoldingLock]
      /\ row \in [Versions -> Rows] /\ store \in [Keys -> Nat]
      /\ \A v \in Versions : row[v].key \in Keys \cup {None}
  BY DEF TypeOK, Rows
<1>1. ASSUME row' = row, \A x \in Requests : rq'[x].key = rq[x].key,
             \A x \in Requests : pc'[x] = "commit" => pc[x] = "commit"
      PROVE  Objects'
  BY <1>0, <1>1, StoreStep DEF Known
<1>2. ASSUME NEW r \in Requests, NEW v \in Versions, NEW u \in Users, Admit(r, v, u)
      PROVE  Objects'
  <2>1. pc[r] = "idle" /\ row' = row /\ \A x \in Requests : pc'[x] = "commit" => pc[x] = "commit"
    BY <1>0, <1>2 DEF Admit
  <2>2. \A x \in Requests : rq'[x].key = rq[x].key
    BY <1>2, <2>1, Admitted DEF Known
  <2>. QED BY <1>1, <2>1, <2>2
<1>3. ASSUME NEW r \in Requests, Receive(r) \/ LockVersion(r) PROVE Objects'
  BY <1>0, <1>1, <1>3 DEF Receive, LockVersion
<1>4. ASSUME NEW r \in Requests, Recheck(r), pc'[r] # "done" PROVE Objects'
  <2>1. PICK k \in FreshKeys : rq' = [rq EXCEPT ![r].key = k] /\ Goto(r, "put")
    BY <1>0, <1>4 DEF Recheck
  <2>2. k \in Keys /\ \A x \in Requests : rq[x].key # k
    BY <2>1 DEF FreshKeys
  <2>3. /\ \A x \in Requests \ {r} : rq'[x].key = rq[x].key
        /\ rq'[r].key = k
    BY <2>1, <2>2, Keyed
  <2>4. row' = row /\ \A x \in Requests : pc'[x] = "commit" => x # r /\ pc[x] = "commit"
    BY <1>0, <1>4, <2>1 DEF Recheck
  <2>. QED BY <1>0, <2>2, <2>3, <2>4, StoreStep DEF Known
<1>5. ASSUME NEW r \in Requests, PutAnswered(r) PROVE Objects'
  <2>1. /\ rq[r].key \in Keys /\ store' = Written(rq[r].key) /\ store[rq[r].key] = 0
        /\ row' = row /\ \A x \in Requests : pc'[x] = "commit" => x = r \/ pc[x] = "commit"
    BY <1>0, <1>5 DEF PutAnswered, Known
  <2>2. store'[rq[r].key] = 1
    BY <1>0, <2>1 DEF Written
  <2>3. \A x \in Requests : rq'[x].key = rq[x].key
    BY <1>5, Sent DEF PutAnswered
  <2>. QED BY <1>0, <2>1, <2>2, <2>3, StoreStep DEF Known
<1>6. ASSUME NEW r \in Requests, PutUnanswered(r) PROVE Objects'
  <2>1. \A x \in Requests : rq'[x].key = rq[x].key
    BY <1>6, Sent DEF PutUnanswered
  <2>. QED BY <1>1, <1>6, <2>1 DEF PutUnanswered
<1>7. ASSUME NEW r \in Requests, Commit(r) PROVE Objects'
  <2>1. /\ pc[r] = "commit" /\ rq[r].v \in Versions
        /\ row' = [row EXCEPT ![rq[r].v] = StoredRow(r)]
        /\ \A x \in Requests : pc'[x] = "commit" => pc[x] = "commit"
    BY <1>0, <1>7 DEF Commit, Known
  <2>2. \A v \in Versions : row'[v].key \in {row[v].key, rq[r].key}
    BY <1>0, <2>1 DEF StoredRow
  <2>3. store[rq[r].key] = 1 /\ rq[r].key \in Keys
    BY <2>1 DEF Known
  <2>4. \A x \in Requests : rq'[x].key = rq[x].key
    BY <1>7, Replied DEF Commit
  <2>5. store' = store
    BY <1>7 DEF Commit, Discarded
  <2>. QED BY <1>0, <2>1, <2>2, <2>3, <2>4, <2>5
<1>8. ASSUME NEW r \in Requests, Recheck(r) \/ Fail(r), pc'[r] = "done" PROVE Objects'
  <2>1. /\ pc' = [pc EXCEPT ![r] = "done"]
        /\ \A x \in Requests : rq'[x].key = rq[x].key
    BY <1>8, AnswerStep
  <2>. QED BY <1>0, <1>1, <1>8, <2>1 DEF Recheck, Fail
<1>9. ASSUME NEW v \in Versions, NEW verdict \in Verdicts, NEW u \in Users, Judge(v, verdict, u)
      PROVE  Objects'
  <2>1. \A x \in Versions : row'[x].key = row[x].key
    BY <1>0, <1>9 DEF Judge, Rows
  <2>. QED BY <1>0, <1>9, <2>1 DEF Judge
<1>10. ASSUME row' = row, pc' = pc, rq' = rq PROVE Objects'
  BY <1>1, <1>10
<1>11. ASSUME NEW r \in Requests, Recheck(r) \/ Fail(r) PROVE Objects'
  BY <1>0, <1>4, <1>8, <1>11 DEF Fail
<1>. QED
  BY <1>2, <1>3, <1>5, <1>6, <1>7, <1>9, <1>10, <1>11
  DEF Next, Step, LateWrite, Revoke, Grant, vars

-----------------------------------------------------------------------------
(* Answers. *)

LEMMA OrphansStep ==
  ASSUME TypeOK, TypeOK', Known, Locking, OrphansWereRefused, [Next]_vars
  PROVE  OrphansWereRefused'
<1>0. pc \in [Requests -> {"idle", "receive", "lock", "done"} \cup HoldingLock]
  BY DEF TypeOK
<1>1. ASSUME NEW r \in Requests, rq[r].reply = "ok", rq'[r].v = rq[r].v, rq'[r].key = rq[r].key
      PROVE  /\ row'[rq'[r].v].key # None
             /\ rq'[r].key # None => rq'[r].key = row'[rq'[r].v].key
  <2>1. rq[r].v \in Versions
    BY <1>1 DEF Known
  <2>. QED BY <1>1, <2>1, RowStep DEF OrphansWereRefused
<1>2. ASSUME \A x \in Requests : rq'[x].v = rq[x].v /\ rq'[x].key = rq[x].key,
             \A x \in Requests : rq'[x].reply = "ok" => rq[x].reply = "ok"
      PROVE  OrphansWereRefused'
  BY <1>1, <1>2 DEF OrphansWereRefused
<1>3. ASSUME NEW r \in Requests, NEW v \in Versions, NEW u \in Users, Admit(r, v, u)
      PROVE  OrphansWereRefused'
  <2>1. /\ \A x \in Requests \ {r} : rq'[x] = rq[x]
        /\ rq'[r].reply = "none"
    BY <1>3, Admitted
  <2>2. ASSUME NEW x \in Requests, rq'[x].reply = "ok"
        PROVE  rq[x].reply = "ok" /\ rq'[x].v = rq[x].v /\ rq'[x].key = rq[x].key
    BY <2>1, <2>2
  <2>. QED BY <1>1, <2>2 DEF OrphansWereRefused
<1>4. ASSUME NEW r \in Requests, Recheck(r), pc'[r] # "done" PROVE OrphansWereRefused'
  <2>1. PICK k \in Keys : rq' = [rq EXCEPT ![r].key = k]
    BY <1>0, <1>4 DEF Recheck, FreshKeys, Goto
  <2>2. /\ \A x \in Requests : rq'[x].v = rq[x].v /\ rq'[x].reply = rq[x].reply
        /\ \A x \in Requests \ {r} : rq'[x].key = rq[x].key
    BY <2>1, Keyed
  <2>3. rq[r].reply # "ok"
    BY <1>4 DEF Recheck, Known
  <2>. QED BY <1>1, <2>2, <2>3 DEF OrphansWereRefused
<1>5. ASSUME NEW r \in Requests, PutAnswered(r) \/ PutUnanswered(r) PROVE OrphansWereRefused'
  BY <1>2, <1>5, Sent DEF PutAnswered, PutUnanswered
<1>6. ASSUME NEW r \in Requests, Recheck(r) \/ Commit(r) \/ Fail(r), pc'[r] = "done"
      PROVE  OrphansWereRefused'
  <2>1. \A x \in Requests : /\ rq'[x].v = rq[x].v /\ rq'[x].key = rq[x].key
                            /\ x # r => rq'[x].reply = rq[x].reply
    BY <1>6, AnswerStep
  <2>2. CASE Fail(r)
    <3>1. rq'[r].reply = "error"
      BY <2>2, Replied DEF Fail
    <3>2. \A x \in Requests : rq'[x].reply = "ok" => rq[x].reply = "ok"
      BY <2>1, <3>1
    <3>. QED BY <1>2, <2>1, <3>2
  <2>3. CASE Commit(r)
    <3>1. rq[r].v \in Versions /\ rq[r].key \in Keys
      BY <2>3 DEF Commit, Known
    <3>2. row'[rq[r].v].key = rq[r].key /\ rq[r].key # None
      BY <2>3, <3>1, ConstantsAssumption DEF Commit, StoredRow, TypeOK
    <3>3. ASSUME NEW x \in Requests, x # r, rq'[x].reply = "ok" PROVE rq[x].reply = "ok"
      BY <2>1, <3>3
    <3>. QED BY <1>1, <2>1, <3>2, <3>3 DEF OrphansWereRefused
  <2>4. CASE Recheck(r)
    <3>1. /\ rq[r].v \in Versions /\ rq[r].key = None
      BY <2>4 DEF Recheck, Known
    <3>2. rq'[r].reply = "ok" => row[rq[r].v].key # None
      <4>1. CASE Reply(r, "error")
        BY <4>1, Replied
      <4>2. CASE AlreadyStored(r)
        BY <4>2, <3>1 DEF AlreadyStored, TypeOK
      <4>. QED BY <1>0, <1>6, <2>4, <4>1, <4>2 DEF Recheck, Goto
    <3>3. row' = row
      BY <2>4 DEF Recheck
    <3>4. ASSUME NEW x \in Requests, x # r, rq'[x].reply = "ok" PROVE rq[x].reply = "ok"
      BY <2>1, <3>4
    <3>. QED BY <1>1, <2>1, <3>1, <3>2, <3>3, <3>4 DEF OrphansWereRefused
  <2>. QED BY <1>6, <2>2, <2>3, <2>4
<1>7. ASSUME NEW r \in Requests, Recheck(r) \/ Commit(r) \/ Fail(r) PROVE OrphansWereRefused'
  BY <1>0, <1>4, <1>6, <1>7 DEF Commit, Fail, Goto
<1>8. ASSUME rq' = rq PROVE OrphansWereRefused'
  BY <1>2, <1>8
<1>. QED
  BY <1>3, <1>5, <1>7, <1>8
  DEF Next, Step, Receive, LockVersion, LateWrite, Revoke, Grant, Judge, vars

-----------------------------------------------------------------------------
(* Authority. *)

LEMMA VouchingStep ==
  ASSUME TypeOK, Known, Vouching, [Next]_vars
  PROVE  Vouching'
<1>. USE DEF Vouching, Goto
<1>0. pc \in [Requests -> {"idle", "receive", "lock", "done"} \cup HoldingLock]
  BY DEF TypeOK
<1>1. ASSUME NEW r \in Requests, NEW v \in Versions, NEW u \in Users, Admit(r, v, u)
      PROVE  Vouching'
  BY <1>0, <1>1, Admitted DEF Admit
<1>2. ASSUME NEW r \in Requests, Receive(r) \/ LockVersion(r) PROVE Vouching'
  BY <1>0, <1>2 DEF Receive, LockVersion
<1>3. ASSUME NEW r \in Requests, Recheck(r), pc'[r] # "done" PROVE Vouching'
  <2>1. PICK k \in Keys : rq' = [rq EXCEPT ![r].key = k]
    BY <1>0, <1>3 DEF Recheck, FreshKeys
  <2>2. \A x \in Requests : rq'[x].user = rq[x].user
    BY <2>1, Keyed
  <2>3. /\ r \in vouched /\ vouched' = vouched /\ admins' = admins
        /\ pc' = [pc EXCEPT ![r] = "put"]
    BY <1>0, <1>3 DEF Recheck, MayStillWrite
  <2>. QED BY <1>0, <2>2, <2>3
<1>4. ASSUME NEW r \in Requests, PutAnswered(r) \/ PutUnanswered(r) PROVE Vouching'
  <2>1. \A x \in Requests : rq'[x].user = rq[x].user
    BY <1>4, Sent DEF PutAnswered, PutUnanswered
  <2>. QED BY <1>0, <1>4, <2>1 DEF PutAnswered, PutUnanswered
<1>5. ASSUME NEW r \in Requests, Recheck(r) \/ Commit(r) \/ Fail(r), pc'[r] = "done"
      PROVE  Vouching'
  BY <1>0, <1>5, AnswerStep
<1>6. ASSUME NEW r \in Requests, Recheck(r) \/ Commit(r) \/ Fail(r) PROVE Vouching'
  BY <1>0, <1>3, <1>5, <1>6 DEF Commit, Fail
<1>7. ASSUME NEW u \in Users, Revoke(u) PROVE Vouching'
  BY <1>7 DEF Revoke
<1>8. ASSUME NEW u \in Users, Grant(u) PROVE Vouching'
  BY <1>8 DEF Grant, HoldingLock
<1>9. ASSUME UNCHANGED <<pc, rq, admins, vouched>> PROVE Vouching'
  BY <1>9
<1>. QED
  BY <1>1, <1>2, <1>4, <1>6, <1>7, <1>8, <1>9 DEF Next, Step, LateWrite, Judge, vars

LEMMA Invariance == Spec => []Inv
<1>1. Inv /\ [Next]_vars => Inv'
  BY TypeStep, KnownStep, LockingStep, ObjectsStep, OrphansStep, VouchingStep DEF Inv
<1>. QED BY <1>1, InvInit, PTL DEF Spec

-----------------------------------------------------------------------------
(* Theorems. *)

(* Every variable has its type, and every row satisfies the constraint     *)
(* complete_storage_reference.                                             *)
THEOREM TypeCorrect == Spec => []TypeOK
<1>1. Inv => TypeOK
  BY DEF Inv
<1>. QED BY <1>1, Invariance, PTL

(* A row names an object that is there, for any number of requests and     *)
(* attempts, and however late a PUT takes effect or a commit's answer is.  *)
THEOREM NamedIsStored == Spec => []NamesStoredObject
<1>1. Inv => NamesStoredObject
  BY DEF Inv, Objects, NamesStoredObject
<1>. QED BY <1>1, Invariance, PTL

(* The object that a row names was written once and for all. *)
THEOREM NamedIsIntact == Spec => []WrittenOnce
<1>1. Inv => WrittenOnce
  BY DEF Inv, Objects, WrittenOnce
<1>. QED BY <1>1, Invariance, PTL

(* Success is answered only over content, and the request's own object, if *)
(* it wrote one, is then the one the row names.                            *)
THEOREM SuccessIsStored == Spec => []OrphansWereRefused
<1>1. Inv => OrphansWereRefused
  BY DEF Inv
<1>. QED BY <1>1, Invariance, PTL

(* The first upload of a version fixes its content. *)
THEOREM FixedContent == Spec => ContentFixed
<1>1. Inv /\ [Next]_vars =>
        [\A v \in Versions :
           row[v].key # None =>
             /\ row'[v].key = row[v].key
             /\ row'[v].status # row[v].status => row'[v].status \in Verdicts]_vars
  BY RowStep DEF Inv
<1>. QED BY <1>1, Invariance, PTL DEF Spec, ContentFixed

(* Content is stored only for a user who was an administrator at some      *)
(* instant since the row was locked.                                       *)
THEOREM AuthorizedContent == Spec => StoredForAdministrators
<1>1. Inv /\ [Next]_vars =>
        [\A r \in Requests :
           pc[r] = "commit" /\ pc'[r] = "done" /\ row' # row => r \in vouched]_vars
  BY DEF Inv, Vouching
<1>. QED BY <1>1, Invariance, PTL DEF Spec, StoredForAdministrators

-----------------------------------------------------------------------------
(* Refinement. *)

Status == [v \in Versions |-> row[v].status]

LEMMA RefinementInit == Init => Lifecycle!Init
BY DEF Init, NoContent, Lifecycle!Init

(* A commit is Store, a published verdict is Judge, and nothing else       *)
(* touches a status or the trail.                                          *)
LEMMA RefinementStep ==
  ASSUME Inv, [Next]_vars
  PROVE  Lifecycle!Next \/ (Status' = Status /\ audit' = audit)
<1>0. row \in [Versions -> Rows]
  BY DEF Inv, TypeOK
<1>1. ASSUME NEW r \in Requests, Commit(r) PROVE Lifecycle!Next
  <2>1. PICK v \in Versions, u \in Users : v = rq[r].v /\ u = rq[r].user
    BY <1>1 DEF Commit, Inv, Known
  <2>2. Status[v] = "pending_upload"
    BY <1>1, <2>1 DEF Commit, Status, Inv, Locking, TypeOK
  <2>3. Status' = [Status EXCEPT ![v] = "pending_scan"]
    BY <1>0, <1>1, <2>1 DEF Commit, Status, StoredRow
  <2>4. audit' = [audit EXCEPT ![v] = Append(@, [action |-> "uploaded", by |-> u])]
    BY <1>1, <2>1 DEF Commit, Recorded
  <2>5. Lifecycle!Store(v, u)
    BY <2>2, <2>3, <2>4 DEF Lifecycle!Store, Lifecycle!Explain, Status
  <2>. QED BY <2>5 DEF Lifecycle!Next
<1>2. ASSUME NEW v \in Versions, NEW verdict \in Verdicts, NEW u \in Users, Judge(v, verdict, u)
      PROVE  Lifecycle!Next
  <2>1. Status[v] \in {"pending_scan", "scan_failed"}
    BY <1>2 DEF Judge, Status
  <2>2. Status' = [Status EXCEPT ![v] = verdict]
    BY <1>0, <1>2 DEF Judge, Status, Rows
  <2>3. audit' = [audit EXCEPT ![v] = Append(@, [action |-> verdict, by |-> u])]
    BY <1>2 DEF Judge, Recorded
  <2>4. Lifecycle!Judge(v, verdict, u)
    BY <2>1, <2>2, <2>3
    DEF Lifecycle!Judge, Lifecycle!Undecided, Lifecycle!Explain, Status
  <2>. QED
    BY <2>4 DEF Lifecycle!Next, Lifecycle!Verdicts, Lifecycle!Terminal, Verdicts, Terminal
<1>3. CASE UNCHANGED <<row, audit>>
  BY <1>3 DEF Status
<1>. QED
  BY <1>1, <1>2, <1>3
  DEF Next, Step, Admit, Receive, LockVersion, Recheck, PutAnswered, PutUnanswered, Fail,
      LateWrite, Revoke, Grant, vars

(* The upload, with its locks, retries and lost answers, implements the    *)
(* one step in which the content of a version arrives.                     *)
THEOREM AtomicUpload == Spec => UploadIsAtomic
<1>1. Inv /\ [Next]_vars => [Lifecycle!Next]_Lifecycle!vars
  BY RefinementStep DEF Status, Lifecycle!vars
<1>. QED
  BY <1>1, RefinementInit, Invariance, PTL DEF Spec, UploadIsAtomic, Lifecycle!Spec

-----------------------------------------------------------------------------
(* The lock of a row that is held across a PUT. *)

(* A locked row has a request at work on it, and one request at most.      *)
LocksReturned ==
  \A v \in Versions, r \in Requests :
    vlock[v] = r <=> pc[r] \in HoldingLock /\ rq[r].v = v

Held == \A v \in Versions, r \in Requests : vlock[v] = r => pc[r] \in HoldingLock /\ rq[r].v = v

LEMMA HeldStep ==
  ASSUME Inv, Held, [Next]_vars
  PROVE  Held'
<1>0. TypeOK /\ Known /\ \A r \in Requests : r # None
  BY ConstantsAssumption DEF Inv
<1>1. ASSUME NEW r \in Requests, Release(r),
             \A s \in Requests : s # r => pc'[s] = pc[s] /\ rq'[s] = rq[s]
      PROVE  Held'
  <2>1. \A v \in Versions : vlock'[v] = IF vlock[v] = r THEN None ELSE vlock[v]
    BY <1>1 DEF Release
  <2>. QED BY <1>0, <1>1, <2>1 DEF Held
<1>2. ASSUME NEW r \in Requests, vlock' = vlock,
             \A s \in Requests : s # r => pc'[s] = pc[s] /\ rq'[s] = rq[s],
             pc[r] \in HoldingLock => pc'[r] \in HoldingLock /\ rq'[r].v = rq[r].v
      PROVE  Held'
  BY <1>2 DEF Held, HoldingLock
<1>3. ASSUME NEW r \in Requests, LockVersion(r) PROVE Held'
  <2>1. \A v \in Versions : vlock'[v] = IF v = rq[r].v THEN r ELSE vlock[v]
    BY <1>0, <1>3 DEF LockVersion, TypeOK
  <2>2. /\ pc'[r] = "recheck" /\ rq' = rq
        /\ \A s \in Requests : s # r => pc'[s] = pc[s]
    BY <1>0, <1>3 DEF LockVersion, Goto, TypeOK
  <2>. QED BY <1>0, <2>1, <2>2 DEF Held, HoldingLock
<1>4. ASSUME NEW r \in Requests, Step(r) \/ Fail(r)
      PROVE  \A s \in Requests : s # r => pc'[s] = pc[s] /\ rq'[s] = rq[s]
  BY <1>0, <1>4
  DEF Step, Receive, LockVersion, Recheck, PutAnswered, PutUnanswered, Commit, Fail, Goto,
      Reply, TypeOK
<1>5. ASSUME NEW r \in Requests, Commit(r) \/ Fail(r) PROVE Held'
  BY <1>1, <1>4, <1>5 DEF Commit, Fail, Step
<1>6. ASSUME NEW r \in Requests, Recheck(r) PROVE Held'
  <2>1. CASE Release(r)
    BY <1>1, <1>4, <1>6, <2>1 DEF Step
  <2>2. CASE Goto(r, "put") /\ vlock' = vlock /\ \E k \in FreshKeys : rq' = [rq EXCEPT ![r].key = k]
    <3>1. pc'[r] \in HoldingLock
      BY <1>0, <2>2 DEF Goto, TypeOK, HoldingLock
    <3>2. rq'[r].v = rq[r].v
      <4>1. PICK k \in Keys : rq' = [rq EXCEPT ![r].key = k]
        BY <2>2 DEF FreshKeys
      <4>. QED BY <1>0, <4>1, Keyed
    <3>. QED BY <1>2, <1>4, <1>6, <2>2, <3>1, <3>2 DEF Step
  <2>. QED BY <1>6, <2>1, <2>2 DEF Recheck
<1>7. ASSUME NEW r \in Requests, PutAnswered(r) \/ PutUnanswered(r) PROVE Held'
  <2>1. vlock' = vlock /\ pc'[r] \in HoldingLock
    BY <1>0, <1>7 DEF PutAnswered, PutUnanswered, Goto, TypeOK, HoldingLock
  <2>2. rq' = [rq EXCEPT ![r].puts = rq[r].puts + 1]
    BY <1>7 DEF PutAnswered, PutUnanswered
  <2>3. rq'[r].v = rq[r].v
    BY <1>0, <2>2 DEF TypeOK, Memory
  <2>. QED BY <1>2, <1>4, <1>7, <2>1, <2>3 DEF Step
<1>8. ASSUME NEW r \in Requests, Receive(r) PROVE Held'
  BY <1>2, <1>4, <1>8 DEF Receive, Step, HoldingLock
<1>9. ASSUME NEW r \in Requests, NEW v \in Versions, NEW u \in Users, Admit(r, v, u) PROVE Held'
  <2>1. /\ vlock' = vlock /\ pc[r] \notin HoldingLock
        /\ \A s \in Requests : s # r => pc'[s] = pc[s] /\ rq'[s] = rq[s]
    BY <1>0, <1>9 DEF Admit, Goto, TypeOK, HoldingLock
  <2>. QED BY <1>2, <2>1
<1>10. CASE UNCHANGED <<vlock, pc, rq>>
  BY <1>10 DEF Held
<1>. QED
  BY <1>3, <1>5, <1>6, <1>7, <1>8, <1>9, <1>10
  DEF Next, Step, LateWrite, Revoke, Grant, Judge, vars

(* The row of a version is locked exactly while an upload checks it, puts  *)
(* its object and commits: no refusal, failure, lost answer or PUT that is *)
(* given up leaves it locked.                                              *)
THEOREM RowsUnlocked == Spec => []LocksReturned
<1>1. Init => Held
  BY ConstantsAssumption DEF Init, Held
<1>2. Inv /\ Held /\ [Next]_vars => Held'
  BY HeldStep
<1>3. Inv /\ Held => LocksReturned
  BY DEF Inv, Locking, Held, LocksReturned
<1>. QED BY <1>1, <1>2, <1>3, Invariance, PTL DEF Spec
=============================================================================
