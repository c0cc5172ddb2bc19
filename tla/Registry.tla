------------------------------ MODULE Registry ------------------------------
(***************************************************************************)
(* The records that content and jobs hang on: documents, the numbering of  *)
(* their versions (DocumentService), the tenant's name (TenantService),    *)
(* and the audit events that go with each change. Requests compete for the *)
(* row locks on the document and on the tenant.                            *)
(***************************************************************************)
EXTENDS Integers, Sequences, FiniteSets, FiniteSetsExt

CONSTANTS
  Documents,   \* document ids (uuid4)
  Names,       \* names a tenant may be given
  Requests,    \* HTTP requests, each served once
  None

ASSUME ConstantsAssumption ==
  /\ None \notin Documents \cup Names \cup Requests
  /\ Names # {}

VARIABLES
  versions,   \* document_versions of each registered document: its numbers
  name,       \* tenants.name
  active,     \* tenants.status = active
  dlock,      \* holder of FOR UPDATE on the document row
  tlock,      \* holder of FOR UPDATE on the tenant row
  trail,      \* audit_logs of each document: what was registered, in order
  renames,    \* audit_logs of the tenant, in order
  pc, rq      \* where each request stands, and its parameters and locals

vars == <<versions, name, active, dlock, tlock, trail, renames, pc, rq>>

NoRequest == [document |-> None, name |-> None, old |-> None, number |-> 0]

Init ==
  /\ versions = [d \in {} |-> {}]
  /\ name \in Names
  /\ active = TRUE
  /\ dlock = [d \in Documents |-> None]
  /\ tlock = None
  /\ trail = [d \in Documents |-> <<>>]
  /\ renames = <<>>
  /\ pc = [r \in Requests |-> "idle"]
  /\ rq = [r \in Requests |-> NoRequest]

Registered == DOMAIN versions

Goto(r, label) == pc' = [pc EXCEPT ![r] = label]

(* A commit, a rollback, or the closing of the request's session.          *)
Finish(r) ==
  /\ dlock' = [d \in Documents |-> IF dlock[d] = r THEN None ELSE dlock[d]]
  /\ tlock' = IF tlock = r THEN None ELSE tlock
  /\ Goto(r, "done")

(* The tenant is suspended: nobody is admitted any more.                   *)
Suspend ==
  /\ active
  /\ tlock = None
  /\ active' = FALSE
  /\ UNCHANGED <<versions, name, dlock, tlock, trail, renames, pc, rq>>

-----------------------------------------------------------------------------
(* DocumentService.create: one transaction without locks. *)
Create(r, d) ==
  /\ active
  /\ pc[r] = "idle"
  /\ d \notin Registered
  /\ versions' = [e \in Registered \cup {d} |-> IF e = d THEN {} ELSE versions[e]]
  /\ trail' = [trail EXCEPT ![d] = Append(@, 0)]
  /\ Goto(r, "done")
  /\ UNCHANGED <<name, active, dlock, tlock, renames, rq>>

(* DocumentService.add_version. *)
AdmitVersion(r, d) ==
  /\ active
  /\ pc[r] = "idle"
  /\ rq' = [rq EXCEPT ![r].document = d]
  /\ Goto(r, "lock_document")
  /\ UNCHANGED <<versions, name, active, dlock, tlock, trail, renames>>

(* Faulty: the document is read without FOR UPDATE. *)
ReadDocumentOnly(r) ==
  LET d == rq[r].document
  IN  /\ pc[r] = "lock_document"
      /\ d \in Registered
      /\ Goto(r, "number")
      /\ UNCHANGED <<versions, name, active, dlock, tlock, trail, renames, rq>>

LockDocument(r) ==
  LET d == rq[r].document
  IN  /\ pc[r] = "lock_document"
      /\ dlock[d] = None
      /\ IF d \in Registered
         THEN dlock' = [dlock EXCEPT ![d] = r] /\ Goto(r, "number") /\ UNCHANGED tlock
         ELSE Finish(r)                                    \* ResourceNotFound
      /\ UNCHANGED <<versions, name, active, trail, renames, rq>>

NextNumber(d) == Max({0} \cup versions[d]) + 1

ReadNumber(r) ==
  /\ pc[r] = "number"
  /\ rq' = [rq EXCEPT ![r].number = NextNumber(rq[r].document)]
  /\ Goto(r, "register")
  /\ UNCHANGED <<versions, name, active, dlock, tlock, trail, renames>>

(* A number that is taken would violate uq_document_versions_number: the   *)
(* insert fails and all is rolled back.                                    *)
Free(d, n) == n \notin versions[d]

Register(r) ==
  LET d == rq[r].document
  IN  /\ pc[r] = "register"
      /\ IF Free(d, rq[r].number)
         THEN /\ versions' = [versions EXCEPT ![d] = @ \cup {rq[r].number}]
              /\ trail' = [trail EXCEPT ![d] = Append(@, rq[r].number)]
         ELSE UNCHANGED <<versions, trail>>                \* IntegrityError
      /\ Finish(r)
      /\ UNCHANGED <<name, active, renames, rq>>

-----------------------------------------------------------------------------
(* TenantService.update_name. *)
AdmitRename(r, n) ==
  /\ active
  /\ pc[r] = "idle"
  /\ rq' = [rq EXCEPT ![r].name = n]
  /\ Goto(r, "lock_tenant")
  /\ UNCHANGED <<versions, name, active, dlock, tlock, trail, renames>>

(* Faulty: the tenant is read without FOR UPDATE. *)
ReadTenantOnly(r) ==
  /\ pc[r] = "lock_tenant"
  /\ active
  /\ rq' = [rq EXCEPT ![r].old = name]
  /\ Goto(r, "rename")
  /\ UNCHANGED <<versions, name, active, dlock, tlock, trail, renames>>

LockTenant(r) ==
  /\ pc[r] = "lock_tenant"
  /\ tlock = None
  /\ IF active
     THEN /\ tlock' = r
          /\ rq' = [rq EXCEPT ![r].old = name]
          /\ Goto(r, "rename")
          /\ UNCHANGED dlock
     ELSE Finish(r) /\ UNCHANGED rq                        \* ResourceNotFound
  /\ UNCHANGED <<versions, name, active, trail, renames>>

(* A name that does not change is answered without an event.               *)
Rename(r) ==
  /\ pc[r] = "rename"
  /\ name' = rq[r].name
  /\ renames' = IF rq[r].old = rq[r].name THEN renames
                ELSE Append(renames, [before |-> rq[r].old, after |-> rq[r].name])
  /\ Finish(r)
  /\ UNCHANGED <<versions, active, trail, rq>>

(* An exception, or a client that goes away. *)
Abort(r) ==
  /\ pc[r] \notin {"idle", "done"}
  /\ Finish(r)
  /\ UNCHANGED <<versions, name, active, trail, renames, rq>>

Step(r) == LockDocument(r) \/ ReadNumber(r) \/ Register(r) \/ LockTenant(r) \/ Rename(r)

Next ==
  \/ Suspend
  \/ \E r \in Requests, d \in Documents : Create(r, d) \/ AdmitVersion(r, d)
  \/ \E r \in Requests, n \in Names : AdmitRename(r, n)
  \/ \E r \in Requests : Step(r) \/ Abort(r)

Spec == Init /\ [][Next]_vars

-----------------------------------------------------------------------------
(* The versions of a document are numbered 1, 2, 3 ... without a gap or a  *)
(* number given twice, in the order of their registration, although every  *)
(* number is read in one statement and written in another; and no request  *)
(* ever fails because the number it has read was given away meanwhile.     *)
NumbersInOrder ==
  /\ \A d \in Documents :
       IF d \in Registered
       THEN /\ versions[d] = 1 .. Cardinality(versions[d])
            /\ trail[d] = [i \in 1 .. Cardinality(versions[d]) + 1 |-> i - 1]
       ELSE trail[d] = <<>>
  /\ \A r \in Requests : pc[r] = "register" => Free(rq[r].document, rq[r].number)

(* The renames in the audit log form a chain that leads to the present     *)
(* name: no rename is lost, and each starts where the one before it ended. *)
RenamesChain ==
  /\ \A i \in DOMAIN renames :
       /\ renames[i].before # renames[i].after
       /\ i > 1 => renames[i].before = renames[i - 1].after
  /\ renames # <<>> => name = renames[Len(renames)].after
=============================================================================
