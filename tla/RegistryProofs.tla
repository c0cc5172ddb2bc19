--------------------------- MODULE RegistryProofs ---------------------------
(* Proofs about the numbering of versions and the tenant's renames, for    *)
(* every value of the constants. *)
EXTENDS Registry, FiniteSetTheorems, TLAPS

Labels == {"idle", "lock_document", "number", "register", "lock_tenant", "rename", "done"}

Held == [document : Documents \cup {None}, name : Names \cup {None}, old : Names \cup {None},
         number : Nat]

Changes == [before : Names, after : Names]

TypeInv ==
  /\ versions = [d \in Registered |-> versions[d]]
  /\ Registered \subseteq Documents
  /\ name \in Names
  /\ dlock \in [Documents -> Requests \cup {None}]
  /\ tlock \in Requests \cup {None}
  /\ trail \in [Documents -> Seq(Nat)]
  /\ renames \in Seq(Changes)
  /\ pc \in [Requests -> Labels]
  /\ rq \in [Requests -> Held]

(* What a request has in its hands, and the lock it holds. *)
Memory ==
  \A r \in Requests :
    /\ pc[r] \in {"number", "register"} => dlock[rq[r].document] = r /\ rq[r].document \in Registered
    /\ pc[r] = "lock_document" => rq[r].document \in Documents
    /\ pc[r] = "lock_tenant" => rq[r].name \in Names
    /\ pc[r] = "rename" => tlock = r /\ rq[r].old = name /\ rq[r].name \in Names

(* A document with versions 1 .. n: its registration, then theirs. *)
Registrations(n) == [i \in 1 .. n + 1 |-> i - 1]

Numbered(d, n) == versions[d] = 1 .. n /\ trail[d] = Registrations(n)

(* The number that a request has read is the next number still. *)
Numbering ==
  /\ \A d \in Registered : \E n \in Nat : Numbered(d, n)
  /\ \A d \in Documents \ Registered : trail[d] = <<>>
  /\ \A r \in Requests :
       pc[r] = "register" => rq[r].number > 0 /\ versions[rq[r].document] = 1 .. rq[r].number - 1

Inv == TypeInv /\ Memory /\ Numbering /\ RenamesChain

-----------------------------------------------------------------------------
(* The highest of the numbers 1 .. n is n. *)
LEMMA NextOfInterval ==
  ASSUME NEW d, NEW n \in Nat, versions[d] = 1 .. n
  PROVE  NextNumber(d) = n + 1
<1>1. n \in {0} \cup 1 .. n /\ \A y \in {0} \cup 1 .. n : n >= y
  OBVIOUS
<1>2. \A x \in {0} \cup 1 .. n : (\A y \in {0} \cup 1 .. n : x >= y) => x = n
  BY <1>1
<1>3. Max({0} \cup 1 .. n) = n
  BY <1>1, <1>2 DEF Max
<1>. QED BY <1>3 DEF NextNumber

LEMMA InvInit == Init => Inv
<1>. SUFFICES ASSUME Init PROVE Inv
  OBVIOUS
<1>1. Registered = {} /\ versions = [d \in Registered |-> versions[d]]
  BY DEF Init, Registered
<1>2. TypeInv
  BY <1>1 DEF Init, TypeInv, Labels, Held, NoRequest
<1>3. Memory /\ Numbering /\ RenamesChain
  BY <1>1 DEF Init, Memory, Numbering, RenamesChain
<1>. QED BY <1>2, <1>3 DEF Inv

LEMMA FinishType ==
  ASSUME TypeInv, NEW r \in Requests, Finish(r)
  PROVE  /\ pc' \in [Requests -> Labels]
         /\ dlock' \in [Documents -> Requests \cup {None}]
         /\ tlock' \in Requests \cup {None}
BY DEF TypeInv, Finish, Goto, Labels

LEMMA TypeStep ==
  ASSUME TypeInv, Memory, Numbering, [Next]_vars
  PROVE  TypeInv'
<1>. USE DEF TypeInv, Goto, Registered
<1>1. CASE Suspend
  BY <1>1 DEF Suspend
<1>2. ASSUME NEW r \in Requests, NEW d \in Documents, Create(r, d) PROVE TypeInv'
  BY <1>2 DEF Create, Labels
<1>3. ASSUME NEW r \in Requests, NEW d \in Documents, AdmitVersion(r, d) PROVE TypeInv'
  <2>1. [rq[r] EXCEPT !.document = d] \in Held
    BY DEF Held
  <2>. QED BY <1>3, <2>1 DEF AdmitVersion, Labels
<1>4. ASSUME NEW r \in Requests, LockDocument(r) PROVE TypeInv'
  <2>1. CASE Finish(r)
    BY <1>4, <2>1, FinishType DEF LockDocument
  <2>2. CASE dlock' = [dlock EXCEPT ![rq[r].document] = r] /\ Goto(r, "number") /\ UNCHANGED tlock
    BY <1>4, <2>2 DEF LockDocument, Labels
  <2>. QED BY <1>4, <2>1, <2>2 DEF LockDocument
<1>5. ASSUME NEW r \in Requests, ReadNumber(r) PROVE TypeInv'
  <2>1. PICK n \in Nat : versions[rq[r].document] = 1 .. n
    BY <1>5 DEF ReadNumber, Memory, Numbering, Numbered
  <2>2. NextNumber(rq[r].document) \in Nat
    BY <2>1, NextOfInterval
  <2>3. [rq[r] EXCEPT !.number = NextNumber(rq[r].document)] \in Held
    BY <2>2 DEF Held
  <2>. QED BY <1>5, <2>3 DEF ReadNumber, Labels
<1>6. ASSUME NEW r \in Requests, Register(r) PROVE TypeInv'
  <2>1. rq[r].number \in Nat /\ rq[r].document \in Registered
    BY <1>6 DEF Register, Memory, Held
  <2>2. trail' \in [Documents -> Seq(Nat)]
    <3>1. CASE trail' = [trail EXCEPT ![rq[r].document] = Append(@, rq[r].number)]
      BY <2>1, <3>1
    <3>2. CASE trail' = trail
      BY <3>2
    <3>. QED BY <1>6, <3>1, <3>2 DEF Register
  <2>3. versions' = [e \in DOMAIN versions' |-> versions'[e]] /\ DOMAIN versions' = DOMAIN versions
    BY <1>6 DEF Register
  <2>. QED BY <1>6, <2>2, <2>3, FinishType DEF Register
<1>7. ASSUME NEW r \in Requests, NEW n \in Names, AdmitRename(r, n) PROVE TypeInv'
  <2>1. [rq[r] EXCEPT !.name = n] \in Held
    BY DEF Held
  <2>. QED BY <1>7, <2>1 DEF AdmitRename, Labels
<1>8. ASSUME NEW r \in Requests, LockTenant(r) PROVE TypeInv'
  <2>1. [rq[r] EXCEPT !.old = name] \in Held
    BY DEF Held
  <2>2. CASE Finish(r) /\ rq' = rq
    BY <1>8, <2>2, FinishType DEF LockTenant
  <2>. QED BY <1>8, <2>1, <2>2 DEF LockTenant, Labels
<1>9. ASSUME NEW r \in Requests, Rename(r) PROVE TypeInv'
  <2>1. name' \in Names /\ rq[r].old \in Names /\ rq[r].name \in Names
    BY <1>9 DEF Rename, Memory
  <2>2. [before |-> rq[r].old, after |-> rq[r].name] \in Changes
    BY <2>1 DEF Changes
  <2>3. renames' \in Seq(Changes)
    BY <1>9, <2>2 DEF Rename
  <2>. QED BY <1>9, <2>1, <2>3, FinishType DEF Rename
<1>10. ASSUME NEW r \in Requests, Abort(r) PROVE TypeInv'
  BY <1>10, FinishType DEF Abort
<1>11. CASE UNCHANGED vars
  BY <1>11 DEF vars
<1>. QED
  BY <1>1, <1>2, <1>3, <1>4, <1>5, <1>6, <1>7, <1>8, <1>9, <1>10, <1>11 DEF Next, Step

-----------------------------------------------------------------------------
(* Locks. *)

(* A request that is done holds nothing and changes no other's locks. *)
LEMMA Finished ==
  ASSUME TypeInv, NEW r \in Requests, Finish(r)
  PROVE  /\ pc'[r] = "done" /\ \A x \in Requests \ {r} : pc'[x] = pc[x]
         /\ \A d \in Documents : dlock[d] # r => dlock'[d] = dlock[d]
         /\ tlock # r => tlock' = tlock
BY DEF TypeInv, Finish, Goto

LEMMA MemoryStep ==
  ASSUME TypeInv, Memory, [Next]_vars
  PROVE  Memory'
<1>. USE DEF TypeInv, Memory, Goto, Registered
<1>1. CASE Suspend
  BY <1>1 DEF Suspend
<1>2. ASSUME NEW r \in Requests, NEW d \in Documents, Create(r, d) PROVE Memory'
  BY <1>2 DEF Create
<1>3. ASSUME NEW r \in Requests, NEW d \in Documents, AdmitVersion(r, d) PROVE Memory'
  <2>1. /\ rq'[r].document = d
        /\ \A x \in Requests \ {r} : rq'[x] = rq[x]
    BY <1>3 DEF AdmitVersion, Held
  <2>. QED BY <1>3, <2>1 DEF AdmitVersion
<1>4. ASSUME NEW r \in Requests, LockDocument(r) PROVE Memory'
  <2>1. CASE Finish(r)
    BY <1>4, <2>1, Finished DEF LockDocument
  <2>2. CASE ~Finish(r)
    <3>1. \A x \in Requests : pc[x] \in {"number", "register"} =>
            dlock[rq[x].document] # None
      BY ConstantsAssumption
    <3>. QED BY <1>4, <2>2, <3>1 DEF LockDocument
  <2>. QED BY <2>1, <2>2
<1>5. ASSUME NEW r \in Requests, ReadNumber(r) PROVE Memory'
  <2>1. \A x \in Requests : /\ rq'[x].document = rq[x].document
                            /\ rq'[x].name = rq[x].name /\ rq'[x].old = rq[x].old
    BY <1>5 DEF ReadNumber, Held
  <2>. QED BY <1>5, <2>1 DEF ReadNumber
<1>6. ASSUME NEW r \in Requests, Register(r) PROVE Memory'
  <2>1. DOMAIN versions' = DOMAIN versions /\ rq' = rq /\ name' = name
    BY <1>6 DEF Register
  <2>. QED BY <1>6, <2>1, Finished DEF Register
<1>7. ASSUME NEW r \in Requests, NEW n \in Names, AdmitRename(r, n) PROVE Memory'
  <2>1. /\ rq'[r].name = n
        /\ \A x \in Requests \ {r} : rq'[x] = rq[x]
    BY <1>7 DEF AdmitRename, Held
  <2>. QED BY <1>7, <2>1 DEF AdmitRename
<1>8. ASSUME NEW r \in Requests, LockTenant(r) PROVE Memory'
  <2>1. CASE Finish(r) /\ rq' = rq
    BY <1>8, <2>1, Finished DEF LockTenant
  <2>2. CASE rq' = [rq EXCEPT ![r].old = name] /\ tlock' = r /\ dlock' = dlock
             /\ pc' = [pc EXCEPT ![r] = "rename"]
    <3>1. /\ rq'[r].old = name /\ rq'[r].name = rq[r].name
          /\ \A x \in Requests \ {r} : rq'[x] = rq[x]
      BY <2>2 DEF Held
    <3>2. \A x \in Requests : pc[x] # "rename"
      BY <1>8, ConstantsAssumption DEF LockTenant
    <3>. QED BY <1>8, <2>2, <3>1, <3>2 DEF LockTenant
  <2>. QED BY <1>8, <2>1, <2>2 DEF LockTenant
<1>9. ASSUME NEW r \in Requests, Rename(r) PROVE Memory'
  <2>1. \A x \in Requests \ {r} : pc[x] # "rename"
    BY <1>9 DEF Rename
  <2>. QED BY <1>9, <2>1, Finished DEF Rename
<1>10. ASSUME NEW r \in Requests, Abort(r) PROVE Memory'
  BY <1>10, Finished DEF Abort
<1>11. CASE UNCHANGED vars
  BY <1>11 DEF vars
<1>. QED
  BY <1>1, <1>2, <1>3, <1>4, <1>5, <1>6, <1>7, <1>8, <1>9, <1>10, <1>11 DEF Next, Step

-----------------------------------------------------------------------------
(* Numbers. *)

LEMMA RegistrationsGrow ==
  /\ Append(<<>>, 0) = Registrations(0)
  /\ \A n \in Nat : Append(Registrations(n), n + 1) = Registrations(n + 1)
BY DEF Registrations

(* What a step leaves alone keeps its numbers. *)
LEMMA NumbersKept ==
  ASSUME NEW d, versions'[d] = versions[d], trail'[d] = trail[d],
         \E n \in Nat : Numbered(d, n)
  PROVE  \E n \in Nat : Numbered(d, n)'
BY DEF Numbered

LEMMA IntervalsDiffer ==
  ASSUME NEW m \in Nat, NEW n \in Nat, 1 .. m = 1 .. n
  PROVE  m = n
<1>1. Cardinality(1 .. m) = m /\ Cardinality(1 .. n) = n
  BY FS_Interval
<1>. QED BY <1>1

LEMMA NumberingStep ==
  ASSUME TypeInv, Memory, Numbering, [Next]_vars
  PROVE  Numbering'
<1>. USE DEF Goto
<1>1. ASSUME versions' = versions, trail' = trail,
             \A x \in Requests : pc'[x] = "register" =>
               pc[x] = "register" /\ rq'[x].number = rq[x].number
                                  /\ rq'[x].document = rq[x].document
      PROVE  Numbering'
  BY <1>1 DEF Numbering, Numbered, Registered
<1>2. ASSUME NEW r \in Requests, NEW d \in Documents, Create(r, d) PROVE Numbering'
  <2>1. /\ d \notin Registered /\ Registered' = Registered \cup {d} /\ versions'[d] = {}
        /\ \A e \in Registered : versions'[e] = versions[e]
        /\ trail' = [trail EXCEPT ![d] = Append(trail[d], 0)]
    BY <1>2 DEF Create, Registered
  <2>2. trail'[d] = Registrations(0) /\ \A e \in Documents \ {d} : trail'[e] = trail[e]
    <3>1. trail[d] = <<>>
      BY <2>1 DEF Numbering
    <3>. QED BY <2>1, <3>1, RegistrationsGrow DEF TypeInv
  <2>3. versions'[d] = 1 .. 0
    BY <2>1
  <2>4. Numbered(d, 0)'
    BY <2>2, <2>3 DEF Numbered
  <2>5. \A e \in Registered : \E n \in Nat : Numbered(e, n)'
    BY <2>1, <2>2, NumbersKept DEF Numbering, TypeInv
  <2>6. \A x \in Requests : pc'[x] = "register" =>
          pc[x] = "register" /\ rq[x].document \in Registered
    BY <1>2 DEF Create, Memory, TypeInv
  <2>7. ASSUME NEW x \in Requests, pc'[x] = "register"
        PROVE  rq'[x].number > 0 /\ versions'[rq'[x].document] = 1 .. rq'[x].number - 1
    <3>1. rq' = rq /\ rq[x].number > 0 /\ versions[rq[x].document] = 1 .. rq[x].number - 1
      BY <1>2, <2>6, <2>7 DEF Create, Numbering
    <3>2. versions'[rq[x].document] = versions[rq[x].document]
      BY <2>1, <2>6, <2>7
    <3>. QED BY <3>1, <3>2
  <2>8. \A e \in Registered' : \E n \in Nat : Numbered(e, n)'
    BY <2>1, <2>4, <2>5
  <2>9. \A e \in Documents \ Registered' : trail'[e] = <<>>
    BY <2>1, <2>2 DEF Numbering
  <2>. QED BY <2>7, <2>8, <2>9 DEF Numbering
<1>3. ASSUME NEW r \in Requests, NEW d \in Documents, AdmitVersion(r, d) PROVE Numbering'
  <2>1. \A x \in Requests : pc'[x] = "register" => pc[x] = "register" /\ rq'[x] = rq[x]
    BY <1>3 DEF AdmitVersion, TypeInv
  <2>. QED BY <1>1, <1>3, <2>1 DEF AdmitVersion
<1>4. ASSUME NEW r \in Requests, ReadNumber(r) PROVE Numbering'
  <2>1. /\ versions' = versions /\ trail' = trail
        /\ rq'[r].document = rq[r].document /\ rq'[r].number = NextNumber(rq[r].document)
        /\ \A x \in Requests \ {r} : rq'[x] = rq[x] /\ pc'[x] = pc[x]
    BY <1>4 DEF ReadNumber, TypeInv, Held
  <2>2. rq[r].document \in Registered
    BY <1>4 DEF ReadNumber, Memory
  <2>3. PICK n \in Nat : versions[rq[r].document] = 1 .. n
    BY <2>2 DEF Numbering, Numbered
  <2>4. rq'[r].number = n + 1
    BY <2>1, <2>3, NextOfInterval
  <2>5. rq'[r].number > 0 /\ versions'[rq'[r].document] = 1 .. rq'[r].number - 1
    BY <2>1, <2>3, <2>4
  <2>. QED BY <2>1, <2>5 DEF Numbering, Numbered, Registered
<1>5. ASSUME NEW r \in Requests, Register(r) PROVE Numbering'
  <2>1. PICK d \in Registered : d = rq[r].document /\ dlock[d] = r
    BY <1>5 DEF Register, Memory
  <2>2. PICK n \in Nat : Numbered(d, n)
    BY <2>1 DEF Numbering
  <2>3. rq[r].number = n + 1
    <3>1. rq[r].number > 0 /\ rq[r].number \in Nat /\ 1 .. n = 1 .. rq[r].number - 1
      BY <1>5, <2>1, <2>2 DEF Register, Numbering, Numbered, TypeInv, Held
    <3>. QED BY <3>1, IntervalsDiffer
  <2>4. /\ versions' = [versions EXCEPT ![d] = versions[d] \cup {n + 1}]
        /\ trail' = [trail EXCEPT ![d] = Append(trail[d], n + 1)]
    <3>1. Free(d, n + 1)
      BY <2>2 DEF Free, Numbered
    <3>. QED BY <1>5, <2>1, <2>3, <3>1 DEF Register
  <2>5. Registered' = Registered /\ versions'[d] = 1 .. n + 1
    BY <2>1, <2>2, <2>4 DEF Registered, Numbered
  <2>6. trail'[d] = Registrations(n + 1)
    BY <2>1, <2>2, <2>4, RegistrationsGrow DEF TypeInv, Numbered
  <2>7. Numbered(d, n + 1)'
    BY <2>5, <2>6 DEF Numbered
  <2>8. \A e \in Documents \ {d} : versions'[e] = versions[e] /\ trail'[e] = trail[e]
    BY <2>4 DEF TypeInv
  <2>9. ASSUME NEW x \in Requests, pc'[x] = "register"
        PROVE  rq'[x].number > 0 /\ versions'[rq'[x].document] = 1 .. rq'[x].number - 1
    <3>1. x # r /\ pc[x] = "register" /\ rq' = rq
      BY <1>5, <2>9, Finished DEF Register
    <3>2. rq[x].document \in Documents /\ rq[x].document # d
      BY <2>1, <3>1 DEF Memory, TypeInv
    <3>. QED BY <2>8, <3>1, <3>2 DEF Numbering
  <2>10. \A e \in Registered \ {d} : \E m \in Nat : Numbered(e, m)'
    BY <2>8, NumbersKept DEF Numbering, TypeInv
  <2>11. \A e \in Registered' : \E m \in Nat : Numbered(e, m)'
    BY <2>2, <2>5, <2>7, <2>10
  <2>12. \A e \in Documents \ Registered' : trail'[e] = <<>>
    BY <2>1, <2>5, <2>8 DEF Numbering
  <2>. QED BY <2>9, <2>11, <2>12 DEF Numbering
<1>6. ASSUME NEW r \in Requests, NEW n \in Names, AdmitRename(r, n) PROVE Numbering'
  <2>1. \A x \in Requests : pc'[x] = "register" => pc[x] = "register" /\ rq'[x] = rq[x]
    BY <1>6 DEF AdmitRename, TypeInv
  <2>. QED BY <1>1, <1>6, <2>1 DEF AdmitRename
<1>7. ASSUME NEW r \in Requests, LockDocument(r) \/ Rename(r) \/ Abort(r) PROVE Numbering'
  <2>1. \A x \in Requests : pc'[x] = "register" => pc[x] = "register" /\ rq'[x] = rq[x]
    BY <1>7 DEF LockDocument, Rename, Abort, Finish, TypeInv
  <2>. QED BY <1>1, <1>7, <2>1 DEF LockDocument, Rename, Abort
<1>8. ASSUME NEW r \in Requests, LockTenant(r) PROVE Numbering'
  <2>1. \A x \in Requests : pc'[x] = "register" =>
          x # r /\ pc[x] = "register" /\ rq'[x] = rq[x]
    BY <1>8 DEF LockTenant, Finish, TypeInv
  <2>. QED BY <1>1, <1>8, <2>1 DEF LockTenant
<1>9. CASE Suspend \/ UNCHANGED vars
  BY <1>1, <1>9 DEF Suspend, vars
<1>. QED
  BY <1>2, <1>3, <1>4, <1>5, <1>6, <1>7, <1>8, <1>9 DEF Next, Step

-----------------------------------------------------------------------------
(* Renames. *)

LEMMA RenamesStep ==
  ASSUME TypeInv, Memory, RenamesChain, [Next]_vars
  PROVE  RenamesChain'
<1>1. ASSUME NEW r \in Requests, Rename(r) PROVE RenamesChain'
  <2>. DEFINE event == [before |-> name, after |-> rq[r].name]
  <2>1. rq[r].old = name /\ rq[r].name \in Names /\ name' = rq[r].name
    BY <1>1 DEF Rename, Memory
  <2>2. CASE name = rq[r].name
    BY <1>1, <2>1, <2>2 DEF Rename, RenamesChain
  <2>3. CASE name # rq[r].name
    <3>1. event \in Changes
      BY <2>1 DEF TypeInv, Changes
    <3>2. renames' = Append(renames, event) /\ renames \in Seq(Changes)
      BY <1>1, <2>1, <2>3 DEF Rename, TypeInv
    <3>3. /\ Len(renames') = Len(renames) + 1 /\ Len(renames) \in Nat
          /\ DOMAIN renames' = 1 .. Len(renames) + 1 /\ DOMAIN renames = 1 .. Len(renames)
          /\ \A i \in 1 .. Len(renames) : renames'[i] = renames[i]
          /\ renames'[Len(renames) + 1] = event
      BY <3>1, <3>2
    <3>4. Len(renames) > 0 => renames[Len(renames)].after = name
      BY <3>2 DEF RenamesChain
    <3>5. ASSUME NEW i \in DOMAIN renames'
          PROVE  /\ renames'[i].before # renames'[i].after
                 /\ i > 1 => renames'[i].before = renames'[i - 1].after
      <4>1. CASE i \in DOMAIN renames
        BY <3>3, <4>1 DEF RenamesChain
      <4>2. CASE i = Len(renames) + 1
        BY <2>3, <3>3, <3>4, <4>2
      <4>. QED BY <3>3, <4>1, <4>2
    <3>. QED BY <2>1, <3>3, <3>5 DEF RenamesChain
  <2>. QED BY <2>2, <2>3
<1>2. CASE UNCHANGED <<name, renames>>
  BY <1>2 DEF RenamesChain
<1>. QED
  BY <1>1, <1>2
  DEF Next, Step, Suspend, Create, AdmitVersion, LockDocument, ReadNumber, Register, AdmitRename,
      LockTenant, Abort, vars

LEMMA Invariance == Spec => []Inv
<1>1. Inv /\ [Next]_vars => Inv'
  BY TypeStep, MemoryStep, NumberingStep, RenamesStep DEF Inv
<1>. QED BY <1>1, InvInit, PTL DEF Spec

(* Versions are numbered without a gap or a repetition, in the order of    *)
(* their registration, however many requests number at once, and none of   *)
(* them trips uq_document_versions_number.                                 *)
THEOREM OrderedNumbers == Spec => []NumbersInOrder
<1>1. ASSUME Inv PROVE NumbersInOrder
  <2>1. ASSUME NEW d \in Registered
        PROVE  /\ versions[d] = 1 .. Cardinality(versions[d])
               /\ trail[d] = [i \in 1 .. Cardinality(versions[d]) + 1 |-> i - 1]
    <3>1. PICK n \in Nat : Numbered(d, n)
      BY <1>1 DEF Inv, Numbering
    <3>2. Cardinality(1 .. n) = n
      BY FS_Interval
    <3>. QED BY <3>1, <3>2 DEF Numbered, Registrations
  <2>2. ASSUME NEW r \in Requests, pc[r] = "register"
        PROVE  Free(rq[r].document, rq[r].number)
    <3>1. rq[r].number \in Nat /\ versions[rq[r].document] = 1 .. rq[r].number - 1
      BY <1>1, <2>2 DEF Inv, TypeInv, Held, Numbering
    <3>. QED BY <3>1 DEF Free
  <2>. QED BY <1>1, <2>1, <2>2 DEF Inv, Numbering, NumbersInOrder
<1>. QED BY <1>1, Invariance, PTL

(* No rename is lost, however many requests rename the tenant at once. *)
THEOREM ChainedRenames == Spec => []RenamesChain
<1>1. Inv => RenamesChain
  BY DEF Inv
<1>. QED BY <1>1, Invariance, PTL
=============================================================================
