------------------------------ MODULE Library ------------------------------
(***************************************************************************)
(* The document library in the browser: one user who browses documents,    *)
(* revisions, jobs and saved text, registers documents and queues jobs,    *)
(* against a server that answers late, fails, or carries out a request     *)
(* whose answer is lost. A read is sent when its component is mounted and  *)
(* never again: what is on the screen follows the user only because React  *)
(* mounts a component anew when its key, or that of a component around it, *)
(* changes. Answers to a component that is gone change nothing.            *)
(***************************************************************************)
EXTENDS Integers, TLC

CONSTANTS
  Documents,
  Numbers,           \* revision numbers a document may have, from 1
  Clean, Scannable,  \* those whose content is clean; pending_scan, scan_failed
  PageSize,          \* rows of a full page (20)
  Pages,             \* bound: offsets, counted in pages
  None

ASSUME ConstantsAssumption ==
  /\ Numbers \subseteq Nat \ {0}
  /\ Clean \cup Scannable \subseteq Numbers
  /\ PageSize \in Nat \ {0}
  /\ 0 \in Pages /\ Pages \subseteq Nat
  /\ None # "active"

VARIABLES
  view,    \* state of App, Workspace, Revisions, RevisionPage, RevisionDetails
  reads,   \* what each mounted useRead asked for and the rows or job it got
  form,    \* RegisterDocument and the POST it sent
  queue    \* QueueAction of each kind, its POST, and `submitted`

vars == <<view, reads, form, queue>>

Kinds == {"scan", "extraction"}
Reads == {"documents", "revisions", "text"} \cup Kinds

(* Faulty: Revisions is mounted without a key. *)
OwnKeyWithoutDocument == [
  workspace |-> {"generation"}, documents |-> {"offset", "refresh"},
  revisionList |-> {}, revisions |-> {"page"}, details |-> {"revision"},
  scan |-> {"jobs"}, extraction |-> {"jobs"}, text |-> {"jobs"}]

(* The keys that components are mounted with. Counters only ever go up, so *)
(* a counter in a key stands for the event that it was counted up.         *)
OwnKey == [
  workspace |-> {"generation"}, documents |-> {"offset", "refresh"},
  revisionList |-> {"doc"}, revisions |-> {"page"}, details |-> {"revision"},
  scan |-> {"jobs"}, extraction |-> {"jobs"}, text |-> {"jobs"}]

(* A component and those around it. *)
Line(c) ==
  {"workspace", c} \cup
  CASE c \in {"workspace", "documents", "revisionList"} -> {}
    [] c \in {"revisions", "details"} -> {"revisionList", "revisions"}
    [] OTHER -> {"revisionList", "revisions", "details"}

Key(c) == UNION {OwnKey[a] : a \in Line(c)}

NewForm == [status |-> "closed", pending |-> FALSE, made |-> 0]
NewQueue == [status |-> "ready", pending |-> FALSE, made |-> 0, submitted |-> None]
NewView(live) == [live |-> live, offset |-> 0, doc |-> None, page |-> 0,
                  selected |-> None, showText |-> FALSE]

(* selected ?? rows[0]: the API lists versions in the order of their       *)
(* numbers, which start at 1. (The rows of sample.ts are not modelled.)    *)
Current(v, list) ==
  IF v.selected # None THEN v.selected
  ELSE IF list # None /\ list.got \notin {None, 0} THEN v.page * PageSize + 1
  ELSE None

Shown(c, v, revision) ==
  CASE c = "documents" -> TRUE
    [] c = "revisions" -> v.doc # None
    [] c \in Kinds -> revision # None
    [] c = "text" -> revision \in Clean /\ v.showText

(* The request of a component, from its props. *)
Asks(c, v, revision) ==
  [live |-> v.live] @@
  CASE c = "documents" -> [offset |-> v.offset]
    [] c = "revisions" -> [doc |-> v.doc, page |-> v.page]
    [] OTHER -> [doc |-> v.doc, revision |-> revision]

Init ==
  /\ view = NewView(FALSE)
  /\ reads = [c \in Reads |-> IF c = "documents"
                              THEN [asked |-> Asks(c, view, None), got |-> None] ELSE None]
  /\ form = NewForm
  /\ queue = [k \in Kinds |-> NewQueue]

-----------------------------------------------------------------------------
(* Rendering: a handler has set the state to v, an answer has changed the  *)
(* reads to rs, counters were counted up. Components whose key has changed *)
(* lose their state and send their read; all others keep both.             *)
Render(v, rs, f, q, counters) ==
  LET early == counters \cup {x \in DOMAIN v : v[x] # view[x]}
      Resets(c) == Key(c) \cap early # {}
      v1 == IF Resets("workspace") THEN NewView(v.live) ELSE v
      v2 == IF Resets("revisionList") THEN [v1 EXCEPT !.page = 0] ELSE v1
      v3 == IF Resets("revisions") THEN [v2 EXCEPT !.selected = None] ELSE v2
      list == IF Resets("revisions") THEN None ELSE rs["revisions"]
      revision == Current(v3, list)
      changed == early \cup IF revision # Current(view, reads["revisions"])
                            THEN {"revision"} ELSE {}
      Remounts(c) == Key(c) \cap changed # {}
      v4 == IF Remounts("details") THEN [v3 EXCEPT !.showText = FALSE] ELSE v3
  IN  /\ view' = v4
      /\ reads' = [c \in Reads |->
           IF ~Shown(c, v4, revision) THEN None
           ELSE IF Remounts(c) \/ rs[c] = None
           THEN [asked |-> Asks(c, v4, revision), got |-> None]
           ELSE rs[c]]
      /\ form' = IF Remounts("workspace") THEN NewForm ELSE f
      /\ queue' = [k \in Kinds |->
           IF Remounts(k) \/ revision = None THEN NewQueue ELSE q[k]]

Set(v, counters) == Render(v, reads, form, queue, counters)

Got(c, answer) ==
  Render(view, [reads EXCEPT ![c].got = answer], form, queue, {})

Answered(c) == reads[c] # None /\ reads[c].got # None
Awaited(c) == reads[c] # None /\ reads[c].got = None

-----------------------------------------------------------------------------
(* Reads. One that fails leaves a message where one that is not answered   *)
(* leaves "Loading": neither shows rows or offers actions.                 *)

DocumentsArrive(n) == Awaited("documents") /\ Got("documents", n)

RevisionsArrive(n) ==
  /\ Awaited("revisions")
  /\ n > 0 => view.page * PageSize + n \in Numbers
  /\ Got("revisions", n)

JobArrives(k, job) == Awaited(k) /\ Got(k, job)

TextArrives == Awaited("text") /\ Got("text", "text")

-----------------------------------------------------------------------------
(* The user.                                                               *)

Connect == ~view.live /\ Set([view EXCEPT !.live = TRUE], {"generation"})

Disconnect == view.live /\ Set([view EXCEPT !.live = FALSE], {"generation"})

RefreshLibrary == Set(view, {"generation"})

(* Previous is disabled on the first page, Next on one that is not full. *)
Turned(old, new, count) == \/ old > 0 /\ new = old - 1
                           \/ count >= PageSize /\ new = old + 1

TurnDocuments(offset) ==
  /\ Answered("documents")
  /\ Turned(view.offset, offset, reads["documents"].got)
  /\ Set([view EXCEPT !.offset = offset, !.doc = None], {})

(* Which documents are on a page is the choice of the server. *)
SelectDocument(d) ==
  /\ Answered("documents") /\ reads["documents"].got > 0
  /\ Set([view EXCEPT !.doc = d], {})

TurnRevisions(page) ==
  /\ Answered("revisions")
  /\ Turned(view.page, page, reads["revisions"].got)
  /\ Set([view EXCEPT !.page = page], {})

SelectRevision(n) ==
  /\ Answered("revisions")
  /\ n - view.page * PageSize \in 1 .. reads["revisions"].got
  /\ Set([view EXCEPT !.selected = n], {})

Revision == Current(view, reads["revisions"])

RefreshJobs == Revision # None /\ Set(view, {"jobs"})

ToggleText ==
  /\ Revision \in Clean
  /\ Set([view EXCEPT !.showText = ~@], {})

-----------------------------------------------------------------------------
(* Registering a document.                                                 *)

WithForm(f) == Render(view, reads, f, queue, {})

OpenForm ==
  /\ view.live /\ form.status = "closed"
  /\ WithForm([NewForm EXCEPT !.status = "editing"])

CloseForm ==
  /\ form.status \in {"editing", "failed"}
  /\ WithForm(NewForm)

(* Faulty: after an error the form can be submitted again. *)
MaySubmitAgain(f) == f.status \in {"editing", "failed"}

MaySubmit(f) == f.status = "editing"

Submit ==
  /\ MaySubmit(form)
  /\ WithForm([form EXCEPT !.status = "busy", !.pending = TRUE])

(* The server commits, whether or not anyone still waits for the answer. *)
ServerRegisters ==
  /\ form.pending
  /\ WithForm([form EXCEPT !.pending = FALSE, !.made = @ + 1])

(* onCreated: the new document is selected on a fresh first page. *)
Registered(d) ==
  /\ form.status = "busy" /\ ~form.pending
  /\ Render([view EXCEPT !.doc = d, !.offset = 0], reads, NewForm, queue, {"refresh"})

(* Refused, or no answer: then the server may have done it, or still may.  *)
RegisteringFails ==
  /\ form.status = "busy"
  /\ \E pending \in {form.pending, FALSE} :
       WithForm([form EXCEPT !.status = "failed", !.pending = pending])

-----------------------------------------------------------------------------
(* Queueing a job.                                                         *)

WithQueue(k, q) == Render(view, reads, form, [queue EXCEPT ![k] = q], {})

(* Faulty: state.data ?? submitted. *)
JobAsRead(k) == IF reads[k].got = "absent" /\ queue[k].submitted # None
                THEN queue[k].submitted ELSE reads[k].got

(* submitted ?? state.data *)
Job(k) == IF queue[k].submitted # None THEN queue[k].submitted ELSE reads[k].got

Eligible(k) == Revision \in IF k = "extraction" THEN Clean ELSE Scannable

(* The button is there for a job that does not exist or has failed, and    *)
(* enabled until a request is sent or has failed.                          *)
Queue(k) ==
  /\ view.live /\ Answered(k)
  /\ Eligible(k) /\ Job(k) \in {"absent", "failed"}
  /\ queue[k].status = "ready"
  /\ WithQueue(k, [queue[k] EXCEPT !.status = "busy", !.pending = TRUE])

ServerQueues(k) ==
  /\ queue[k].pending
  /\ WithQueue(k, [queue[k] EXCEPT !.pending = FALSE, !.made = @ + 1])

(* onQueued: what enqueue answers is pending, running or completed. *)
Queued(k) ==
  /\ queue[k].status = "busy" /\ ~queue[k].pending
  /\ WithQueue(k, [queue[k] EXCEPT !.status = "ready", !.submitted = "active"])

QueueingFails(k) ==
  /\ queue[k].status = "busy"
  /\ \E pending \in {queue[k].pending, FALSE} :
       WithQueue(k, [queue[k] EXCEPT !.status = "failed", !.pending = pending])

-----------------------------------------------------------------------------
Next ==
  \/ \E n \in 0 .. PageSize : DocumentsArrive(n) \/ RevisionsArrive(n)
  \/ \E k \in Kinds, job \in {"absent", "failed", "active"} : JobArrives(k, job)
  \/ TextArrives
  \/ Connect \/ Disconnect \/ RefreshLibrary \/ RefreshJobs \/ ToggleText
  \/ \E p \in Pages : TurnDocuments(p) \/ TurnRevisions(p)
  \/ \E d \in Documents : SelectDocument(d) \/ Registered(d)
  \/ \E n \in Numbers : SelectRevision(n)
  \/ OpenForm \/ CloseForm \/ Submit \/ ServerRegisters \/ RegisteringFails
  \/ \E k \in Kinds : Queue(k) \/ ServerQueues(k) \/ Queued(k) \/ QueueingFails(k)

Spec == Init /\ [][Next]_vars

-----------------------------------------------------------------------------
(* Whatever is on the screen, or will be when a late answer arrives, is    *)
(* the answer to what the user has now selected: this server or the        *)
(* sample, this page, this document, this revision. Nothing is shown of a  *)
(* revision that is not on the page of the selected document.              *)
ShowsSelection ==
  \A c \in Reads : reads[c] # None =>
    /\ Shown(c, view, Revision)
    /\ reads[c].asked = Asks(c, view, Revision)

(* A request that changes the server is never sent twice from one form or  *)
(* button: not after an answer that left its outcome open, and not because *)
(* an older answer is on the screen. Only a user who closes the form or    *)
(* refreshes, and so looks again, can send another.                        *)
NoResubmission ==
  /\ form.made + (IF form.pending THEN 1 ELSE 0) <= 1
  /\ \A k \in Kinds : queue[k].made + (IF queue[k].pending THEN 1 ELSE 0) <= 1
=============================================================================
