--------------------------- MODULE LibraryProofs ---------------------------
(* Proofs about what the document library shows and sends, for any number  *)
(* of documents, revisions and pages. *)
EXTENDS Library, TLAPS

Views == [live : BOOLEAN, offset : Pages, doc : Documents \cup {None}, page : Pages,
          selected : Numbers \cup {None}, showText : BOOLEAN]

Forms == [status : {"closed", "editing", "busy", "failed"}, pending : BOOLEAN, made : Nat]

Queues == [status : {"ready", "busy", "failed"}, pending : BOOLEAN, made : Nat,
           submitted : {None, "active"}]

IsRead(r) == r = None \/ r = [asked |-> r.asked, got |-> r.got]

TypeInv ==
  /\ view \in Views
  /\ reads = [c \in Reads |-> reads[c]] /\ \A c \in Reads : IsRead(reads[c])
  /\ form \in Forms
  /\ queue \in [Kinds -> Queues]

(* What a rendering is called with. *)
Arguments(v, rs, f, q) ==
  /\ v \in Views
  /\ rs = [c \in Reads |-> rs[c]] /\ \A c \in Reads : IsRead(rs[c])
  /\ f \in Forms
  /\ q \in [Kinds -> Queues]

(* The reads of a rendering are those that were mounted before it, with    *)
(* what they asked for.                                                    *)
Mounted(rs) ==
  \A c \in Reads : rs[c] # None => reads[c] # None /\ rs[c].asked = reads[c].asked

(* Requests that were sent and can still change the server, or have.       *)
Sent(r) == r.made + (IF r.pending THEN 1 ELSE 0)

(* A form that is not submitted, or a button that can be pressed, has sent *)
(* nothing yet.                                                            *)
SoundForm(f) ==
  /\ Sent(f) <= 1
  /\ f.status \in {"closed", "editing"} => Sent(f) = 0

SoundQueue(q) ==
  /\ Sent(q) <= 1
  /\ q.status = "ready" /\ q.submitted = None => Sent(q) = 0

Inv ==
  /\ TypeInv
  /\ ShowsSelection
  /\ SoundForm(form) /\ \A k \in Kinds : SoundQueue(queue[k])

-----------------------------------------------------------------------------
(* Keys. *)

LEMMA KeysCover ==
  /\ \A c \in Reads \cup {"workspace", "revisionList", "details"} : "generation" \in Key(c)
  /\ "offset" \in Key("documents")
  /\ "doc" \in Key("revisionList")
  /\ \A c \in Reads \ {"documents"} : "doc" \in Key(c)
  /\ "page" \in Key("revisions") /\ "revision" \notin Key("revisions")
  /\ \A c \in Kinds \cup {"text"} : "revision" \in Key(c)
  /\ \A c \in Reads : Key("workspace") \subseteq Key(c)
  /\ \A c \in Reads \ {"documents"} : Key("revisionList") \subseteq Key(c)
BY DEF Key, Line, OwnKey, Reads, Kinds

LEMMA ShownRevisions ==
  ASSUME NEW v, NEW revision
  PROVE  Shown("revisions", v, revision) = (v.doc # None)
BY DEF Shown, Kinds

(* The parts of a key that a rendering sees change: counters and state.    *)
Early(v, counters) == counters \cup {x \in DOMAIN v : v[x] # view[x]}

(* What a rendering makes of the state and the reads. v3 is the state that *)
(* is left when components with a new key have lost theirs, but for        *)
(* showText; list is the list of revisions that is on the screen then.     *)
Renders(v, rs, f, q, counters, v3, list, changed) ==
  LET early == Early(v, counters)
      revision == Current(v3, list)
      Resets(c) == Key(c) \cap early # {}
  IN  /\ v3.live = v.live
      /\ ~Resets("workspace") => v3.offset = v.offset /\ v3.doc = v.doc
      /\ Resets("workspace") => v3.doc = None
      /\ ~Resets("workspace") /\ ~Resets("revisionList") => v3.page = v.page
      /\ list = IF Resets("revisions") THEN None ELSE rs["revisions"]
      /\ early \subseteq changed /\ changed \subseteq early \cup {"revision"}
      /\ revision # Revision => "revision" \in changed
      /\ view' \in {v3, [v3 EXCEPT !.showText = FALSE]}
      /\ reads' = [c \in Reads |->
           IF ~Shown(c, view', revision) THEN None
           ELSE IF Key(c) \cap changed # {} \/ rs[c] = None
           THEN [asked |-> Asks(c, view', revision), got |-> None]
           ELSE rs[c]]
      /\ form' \in {NewForm, f}
      /\ queue' = [k \in Kinds |->
           IF Key(k) \cap changed # {} \/ revision = None THEN NewQueue ELSE q[k]]

LEMMA Rendered ==
  ASSUME TypeInv, NEW v \in Views, NEW rs, NEW f, NEW q, NEW counters,
         Render(v, rs, f, q, counters)
  PROVE  \E v3, list, changed :
           v3 \in Views /\ Renders(v, rs, f, q, counters, v3, list, changed)
<1>. DEFINE early == Early(v, counters)
            Resets(c) == Key(c) \cap early # {}
            v1 == IF Resets("workspace") THEN NewView(v.live) ELSE v
            v2 == IF Resets("revisionList") THEN [v1 EXCEPT !.page = 0] ELSE v1
            v3 == IF Resets("revisions") THEN [v2 EXCEPT !.selected = None] ELSE v2
            list == IF Resets("revisions") THEN None ELSE rs["revisions"]
            revision == Current(v3, list)
            changed == early \cup IF revision # Revision THEN {"revision"} ELSE {}
            Remounts(c) == Key(c) \cap changed # {}
            v4 == IF Remounts("details") THEN [v3 EXCEPT !.showText = FALSE] ELSE v3
<1>1. /\ view' = v4
      /\ reads' = [c \in Reads |->
           IF ~Shown(c, v4, revision) THEN None
           ELSE IF Remounts(c) \/ rs[c] = None
           THEN [asked |-> Asks(c, v4, revision), got |-> None]
           ELSE rs[c]]
      /\ form' = IF Remounts("workspace") THEN NewForm ELSE f
      /\ queue' = [k \in Kinds |->
           IF Remounts(k) \/ revision = None THEN NewQueue ELSE q[k]]
  BY Zenon DEF Render, Early, Revision
<1>2. v1 \in Views
  <2>1. v.live \in BOOLEAN /\ 0 \in Pages
    BY ConstantsAssumption DEF Views
  <2>2. NewView(v.live) \in Views
    BY <2>1 DEF NewView, Views
  <2>. QED BY <2>2
<1>3. v1.live = v.live /\ (Resets("workspace") => v1.doc = None)
  BY DEF NewView
<1>4. ~Resets("workspace") => v1 = v
  OBVIOUS
<1>. HIDE DEF v1
<1>5. v2 \in Views /\ v2.live = v1.live /\ v2.offset = v1.offset /\ v2.doc = v1.doc
  <2>1. [v1 EXCEPT !.page = 0] \in Views
    BY <1>2, ConstantsAssumption, Zenon DEF Views
  <2>. QED BY <1>2, <2>1 DEF Views
<1>6. ~Resets("revisionList") => v2 = v1
  OBVIOUS
<1>. HIDE DEF v2
<1>7. /\ v3 \in Views /\ v3.live = v2.live /\ v3.offset = v2.offset
      /\ v3.doc = v2.doc /\ v3.page = v2.page
  <2>1. [v2 EXCEPT !.selected = None] \in Views
    BY <1>5, Zenon DEF Views
  <2>. QED BY <1>5, <2>1 DEF Views
<1>. HIDE DEF v3
<1>8. view' \in {v3, [v3 EXCEPT !.showText = FALSE]}
  BY <1>1
<1>9. form' \in {NewForm, f}
  BY <1>1
<1>10. /\ early \subseteq changed /\ changed \subseteq early \cup {"revision"}
       /\ revision # Revision => "revision" \in changed
  OBVIOUS
<1>11. /\ v3.live = v.live
       /\ ~Resets("workspace") => v3.offset = v.offset /\ v3.doc = v.doc
       /\ Resets("workspace") => v3.doc = None
       /\ ~Resets("workspace") /\ ~Resets("revisionList") => v3.page = v.page
  BY <1>3, <1>4, <1>5, <1>6, <1>7
<1>12. /\ reads' = [c \in Reads |->
            IF ~Shown(c, view', revision) THEN None
            ELSE IF Remounts(c) \/ rs[c] = None
            THEN [asked |-> Asks(c, view', revision), got |-> None]
            ELSE rs[c]]
       /\ queue' = [k \in Kinds |->
            IF Remounts(k) \/ revision = None THEN NewQueue ELSE q[k]]
  BY <1>1
<1>13. list = IF Resets("revisions") THEN None ELSE rs["revisions"]
  OBVIOUS
<1>. HIDE DEF list, changed, v4
<1>. QED
  <2>. v3 \in Views
    BY <1>7
  <2>. WITNESS v3, list, changed
  <2>. QED BY <1>8, <1>9, <1>10, <1>11, <1>12, <1>13, Zenon DEF Renders

(* Whatever changed, a component that keeps what it read still asks for    *)
(* the same.                                                               *)
LEMMA RenderShows ==
  ASSUME TypeInv, ShowsSelection,
         NEW v \in Views, NEW rs, NEW f, NEW q, NEW counters,
         Arguments(v, rs, f, q), Mounted(rs),
         v.live # view.live => "generation" \in counters,
         Render(v, rs, f, q, counters)
  PROVE  ShowsSelection'
<1>1. PICK v3, list, changed :
        v3 \in Views /\ Renders(v, rs, f, q, counters, v3, list, changed)
  BY Rendered
<1>. DEFINE revision == Current(v3, list)
            early == Early(v, counters)
<1>2. /\ view' \in Views /\ view'.live = v3.live /\ view'.offset = v3.offset
      /\ view'.doc = v3.doc /\ view'.page = v3.page /\ view'.selected = v3.selected
  <2>1. view' \in {v3, [v3 EXCEPT !.showText = FALSE]}
    BY <1>1 DEF Renders
  <2>. QED BY <1>1, <2>1 DEF Views
<1>3. ASSUME NEW x \in {"live", "offset", "doc", "page", "selected", "showText"}, x \notin early
      PROVE  v[x] = view[x]
  BY <1>3 DEF Early, TypeInv, Views
<1>4. \A c \in Reads : reads'[c] =
        IF ~Shown(c, view', revision) THEN None
        ELSE IF Key(c) \cap changed # {} \/ rs[c] = None
        THEN [asked |-> Asks(c, view', revision), got |-> None]
        ELSE rs[c]
  BY <1>1 DEF Renders
<1>5. list = IF Key("revisions") \cap early # {} THEN None ELSE rs["revisions"]
  BY <1>1 DEF Renders
(* The list of revisions loses its rows exactly when it loses its state.   *)
<1>6. Key("revisions") \cap changed = Key("revisions") \cap early
  <2>1. early \subseteq changed /\ changed \subseteq early \cup {"revision"}
    BY <1>1 DEF Renders
  <2>. QED BY <2>1, KeysCover
<1>7. "revisions" \in Reads
  BY DEF Reads
<1>. HIDE DEF revision, early
<1>8. Revision' = Current(view', reads'["revisions"])
  BY DEF Revision
<1>9. Revision' = revision
  <2>1. CASE view'.doc # None /\ Key("revisions") \cap changed # {}
    <3>1. list = None /\ reads'["revisions"].got = None
      <4>1. Shown("revisions", view', revision)
        BY <2>1, ShownRevisions
      <4>2. reads'["revisions"] = [asked |-> Asks("revisions", view', revision), got |-> None]
        BY <1>4, <1>7, <2>1, <4>1, Zenon
      <4>. QED BY <1>5, <1>6, <2>1, <4>2
    <3>. QED BY <1>2, <1>8, <3>1 DEF Current, revision
  <2>2. CASE view'.doc # None /\ Key("revisions") \cap changed = {}
    <3>1. list = rs["revisions"]
      BY <1>5, <1>6, <2>2
    <3>2. reads'["revisions"] = list \/ (list = None /\ reads'["revisions"].got = None)
      <4>1. Shown("revisions", view', revision)
        BY <2>2, ShownRevisions
      <4>2. CASE rs["revisions"] = None
        <5>1. reads'["revisions"] = [asked |-> Asks("revisions", view', revision), got |-> None]
          BY <1>4, <1>7, <4>1, <4>2, Zenon
        <5>. QED BY <3>1, <4>2, <5>1
      <4>3. CASE rs["revisions"] # None
        BY <1>4, <1>7, <2>2, <3>1, <4>1, <4>3
      <4>. QED BY <4>2, <4>3
    <3>. QED BY <1>2, <1>8, <3>2 DEF Current, revision
  <2>3. CASE view'.doc = None
    <3>1. reads'["revisions"] = None
      BY <1>4, <1>7, <2>3, ShownRevisions
    <3>2. list = None
      <4>1. CASE Key("revisions") \cap early # {}
        BY <1>5, <4>1
      <4>2. CASE Key("revisions") \cap early = {}
        <5>1. "doc" \notin early /\ Key("workspace") \cap early = {}
          BY <1>7, <4>2, KeysCover
        <5>2. v3.doc = v.doc
          BY <1>1, <5>1 DEF Renders, early
        <5>3. view.doc = None
          BY <1>2, <1>3, <2>3, <5>1, <5>2
        <5>4. reads["revisions"] = None
          BY <1>7, <5>3, ShownRevisions DEF ShowsSelection
        <5>. QED BY <1>5, <1>7, <4>2, <5>4 DEF Mounted
      <4>. QED BY <4>1, <4>2
    <3>. QED BY <1>2, <1>8, <3>1, <3>2 DEF Current, revision
  <2>. QED BY <2>1, <2>2, <2>3
<1>10. ASSUME NEW c \in Reads, reads'[c] # None
       PROVE  Shown(c, view', revision) /\ reads'[c].asked = Asks(c, view', revision)
  <2>1. Shown(c, view', revision)
    BY <1>4, <1>10
  <2>2. CASE Key(c) \cap changed # {} \/ rs[c] = None
    <3>1. reads'[c] = [asked |-> Asks(c, view', revision), got |-> None]
      BY <1>4, <2>1, <2>2
    <3>. QED BY <2>1, <3>1
  <2>3. CASE Key(c) \cap changed = {} /\ rs[c] # None
    <3>1. reads'[c].asked = Asks(c, view, Revision)
      <4>1. reads'[c] = rs[c] /\ rs[c].asked = reads[c].asked /\ reads[c] # None
        BY <1>4, <2>1, <2>3 DEF Mounted
      <4>. QED BY <4>1 DEF ShowsSelection
    <3>2. early \subseteq changed /\ Key("workspace") \cap early = {}
      BY <1>1, <2>3, KeysCover DEF Renders, early
    <3>3. view'.live = view.live
      <4>1. "generation" \notin early
        BY <2>3, <3>2, KeysCover
      <4>2. v.live = view.live /\ v3.live = v.live
        BY <1>1, <4>1 DEF Renders, Early, early
      <4>. QED BY <1>2, <4>2
    <3>4. CASE c = "documents"
      <4>1. "offset" \notin early
        BY <2>3, <3>2, <3>4, KeysCover
      <4>2. view'.offset = view.offset
        BY <1>1, <1>2, <1>3, <3>2, <4>1 DEF Renders, early
      <4>. QED BY <2>1, <3>1, <3>3, <3>4, <4>2 DEF Asks
    <3>5. CASE c # "documents"
      <4>1. "doc" \notin early /\ Key("revisionList") \cap early = {}
        BY <2>3, <3>2, <3>5, KeysCover
      <4>2. view'.doc = view.doc
        BY <1>1, <1>2, <1>3, <3>2, <4>1 DEF Renders, early
      <4>3. CASE c = "revisions"
        <5>1. "page" \notin early
          BY <2>3, <3>2, <4>3, KeysCover
        <5>2. view'.page = view.page
          BY <1>1, <1>2, <1>3, <3>2, <4>1, <5>1 DEF Renders, early
        <5>. QED BY <2>1, <3>1, <3>3, <4>2, <4>3, <5>2 DEF Asks
      <4>4. CASE c # "revisions"
        <5>1. "revision" \notin changed
          BY <2>3, <3>5, <4>4, KeysCover DEF Reads
        <5>2. revision = Revision
          BY <1>1, <5>1 DEF Renders, revision
        <5>. QED BY <2>1, <3>1, <3>3, <3>5, <4>2, <4>4, <5>2 DEF Asks
      <4>. QED BY <4>3, <4>4
    <3>. QED BY <3>4, <3>5
  <2>. QED BY <2>2, <2>3
<1>. QED BY <1>9, <1>10 DEF ShowsSelection

(* A rendering leaves what it is called with, or new components. *)
LEMMA RenderKeeps ==
  ASSUME TypeInv, NEW v \in Views, NEW rs, NEW f, NEW q, NEW counters,
         Arguments(v, rs, f, q), SoundForm(f), \A k \in Kinds : SoundQueue(q[k]),
         Render(v, rs, f, q, counters)
  PROVE  /\ TypeInv'
         /\ SoundForm(form') /\ \A k \in Kinds : SoundQueue(queue'[k])
<1>1. PICK v3, list, changed :
        v3 \in Views /\ Renders(v, rs, f, q, counters, v3, list, changed)
  BY Rendered
<1>. DEFINE revision == Current(v3, list)
<1>2. view' \in Views
  <2>1. [v3 EXCEPT !.showText = FALSE] \in Views
    BY <1>1, Zenon DEF Views
  <2>. QED BY <1>1, <2>1 DEF Renders
<1>3. reads' = [c \in Reads |-> reads'[c]] /\ \A c \in Reads : IsRead(reads'[c])
  <2>1. reads' = [c \in Reads |->
          IF ~Shown(c, view', revision) THEN None
          ELSE IF Key(c) \cap changed # {} \/ rs[c] = None
          THEN [asked |-> Asks(c, view', revision), got |-> None]
          ELSE rs[c]]
    BY <1>1 DEF Renders
  <2>. HIDE DEF revision
  <2>2. reads' = [c \in Reads |-> reads'[c]]
    BY <2>1
  <2>3. ASSUME NEW c \in Reads PROVE IsRead(reads'[c])
    <3>1. \/ reads'[c] = None
          \/ reads'[c] = [asked |-> Asks(c, view', revision), got |-> None]
          \/ reads'[c] = rs[c]
      BY <2>1, Zenon
    <3>. QED BY <3>1 DEF Arguments, IsRead
  <2>. QED BY <2>2, <2>3
<1>4. NewForm \in Forms /\ SoundForm(NewForm) /\ NewQueue \in Queues /\ SoundQueue(NewQueue)
  BY DEF NewForm, Forms, SoundForm, Sent, NewQueue, Queues, SoundQueue
<1>5. form' \in Forms /\ SoundForm(form')
  BY <1>1, <1>4 DEF Renders, Arguments
<1>6. queue' \in [Kinds -> Queues] /\ \A k \in Kinds : SoundQueue(queue'[k])
  <2>1. queue' = [k \in Kinds |->
          IF Key(k) \cap changed # {} \/ revision = None THEN NewQueue ELSE q[k]]
    BY <1>1 DEF Renders
  <2>. HIDE DEF revision
  <2>. QED BY <1>4, <2>1 DEF Arguments
<1>. QED BY <1>2, <1>3, <1>5, <1>6 DEF TypeInv

(* A rendering that keeps the invariant. *)
Fitting(v, rs, f, q, counters) ==
  /\ Arguments(v, rs, f, q) /\ Mounted(rs)
  /\ v.live # view.live => "generation" \in counters
  /\ SoundForm(f) /\ \A k \in Kinds : SoundQueue(q[k])
  /\ Render(v, rs, f, q, counters)

LEMMA FittingKeeps ==
  ASSUME Inv, NEW v, NEW rs, NEW f, NEW q, NEW counters, Fitting(v, rs, f, q, counters)
  PROVE  Inv'
<1>1. v \in Views
  BY DEF Fitting, Arguments
<1>2. ShowsSelection'
  BY <1>1, RenderShows DEF Inv, Fitting
<1>3. /\ TypeInv'
      /\ SoundForm(form') /\ \A k \in Kinds : SoundQueue(queue'[k])
  BY <1>1, RenderKeeps DEF Inv, Fitting
<1>. QED BY <1>2, <1>3 DEF Inv, SoundForm, SoundQueue, Sent

-----------------------------------------------------------------------------
(* The steps. *)

LEMMA InvInit == Init => Inv
<1>. SUFFICES ASSUME Init PROVE Inv
  OBVIOUS
<1>1. view \in Views
  BY ConstantsAssumption DEF Init, NewView, Views
<1>2. /\ reads = [c \in Reads |-> reads[c]]
      /\ reads["documents"] = [asked |-> Asks("documents", view, None), got |-> None]
      /\ \A c \in Reads \ {"documents"} : reads[c] = None
  BY DEF Init, Reads
<1>3. Revision = None
  <2>1. view.selected = None
    BY DEF Init, NewView
  <2>2. reads["revisions"] = None
    BY <1>2 DEF Reads
  <2>. QED BY <2>1, <2>2 DEF Revision, Current
<1>4. \A c \in Reads : IsRead(reads[c])
  BY <1>2 DEF IsRead
<1>5. ShowsSelection
  <2>1. Shown("documents", view, Revision) = TRUE
    BY DEF Shown, Kinds
  <2>. QED BY <1>2, <1>3, <2>1 DEF ShowsSelection
<1>6. form = NewForm /\ queue = [k \in Kinds |-> NewQueue]
  BY DEF Init
<1>7. NewForm \in Forms /\ SoundForm(NewForm) /\ NewQueue \in Queues /\ SoundQueue(NewQueue)
  BY DEF NewForm, Forms, SoundForm, Sent, NewQueue, Queues, SoundQueue
<1>. QED BY <1>1, <1>2, <1>4, <1>5, <1>6, <1>7 DEF Inv, TypeInv

(* Setting state without a new server keeps reads, form and buttons. *)
LEMMA SetKeeps ==
  ASSUME Inv, NEW v \in Views, NEW counters, v.live # view.live => "generation" \in counters,
         Set(v, counters)
  PROVE  Inv'
<1>1. Fitting(v, reads, form, queue, counters)
  BY DEF Set, Fitting, Arguments, Mounted, Inv, TypeInv
<1>. QED BY <1>1, FittingKeeps

LEMMA GotKeeps ==
  ASSUME Inv, NEW c \in Reads, NEW answer, Awaited(c), Got(c, answer)
  PROVE  Inv'
<1>. DEFINE rs == [reads EXCEPT ![c].got = answer]
<1>1. reads = [x \in Reads |-> reads[x]] /\ \A x \in Reads : IsRead(reads[x])
  BY DEF Inv, TypeInv
<1>2. reads[c] # None /\ reads[c] = [asked |-> reads[c].asked, got |-> reads[c].got]
  BY <1>1 DEF Awaited, IsRead
<1>3. /\ rs = [x \in Reads |-> rs[x]]
      /\ rs[c] = [asked |-> reads[c].asked, got |-> answer]
      /\ \A x \in Reads : x # c => rs[x] = reads[x]
  <2>1. rs = [x \in Reads |-> IF x = c THEN [reads[c] EXCEPT !.got = answer] ELSE reads[x]]
    BY <1>1
  <2>2. [reads[c] EXCEPT !.got = answer] = [asked |-> reads[c].asked, got |-> answer]
    BY <1>2
  <2>. QED BY <2>1, <2>2
<1>. HIDE DEF rs
<1>4. Mounted(rs) /\ \A x \in Reads : IsRead(rs[x])
  BY <1>1, <1>2, <1>3 DEF Mounted, IsRead
<1>5. Fitting(view, rs, form, queue, {})
  <2>1. Render(view, rs, form, queue, {})
    BY DEF Got, rs
  <2>. QED BY <1>3, <1>4, <2>1 DEF Fitting, Arguments, Inv, TypeInv
<1>. QED BY <1>5, FittingKeeps

LEMMA WithFormKeeps ==
  ASSUME Inv, NEW f \in Forms, SoundForm(f), WithForm(f)
  PROVE  Inv'
<1>1. Fitting(view, reads, f, queue, {})
  BY DEF WithForm, Fitting, Arguments, Mounted, Inv, TypeInv
<1>. QED BY <1>1, FittingKeeps

LEMMA WithQueueKeeps ==
  ASSUME Inv, NEW k \in Kinds, NEW q \in Queues, SoundQueue(q), WithQueue(k, q)
  PROVE  Inv'
<1>. DEFINE qs == [queue EXCEPT ![k] = q]
<1>1. qs \in [Kinds -> Queues] /\ \A x \in Kinds : SoundQueue(qs[x])
  BY DEF Inv, TypeInv
<1>2. Fitting(view, reads, form, qs, {})
  <2>1. Render(view, reads, form, qs, {})
    BY DEF WithQueue
  <2>. HIDE DEF qs
  <2>. QED BY <1>1, <2>1 DEF Fitting, Arguments, Mounted, Inv, TypeInv
<1>. QED BY <1>2, FittingKeeps

LEMMA UserSteps ==
  ASSUME Inv,
         \/ Connect \/ Disconnect \/ RefreshLibrary \/ RefreshJobs \/ ToggleText
         \/ \E p \in Pages : TurnDocuments(p) \/ TurnRevisions(p)
         \/ \E d \in Documents : SelectDocument(d)
         \/ \E n \in Numbers : SelectRevision(n)
  PROVE  Inv'
<1>1. view \in Views
  BY DEF Inv, TypeInv
<1>2. CASE Connect
  <2>1. [view EXCEPT !.live = TRUE] \in Views
    BY <1>1, Zenon DEF Views
  <2>. QED BY <1>2, <2>1, SetKeeps DEF Connect
<1>3. CASE Disconnect
  <2>1. [view EXCEPT !.live = FALSE] \in Views
    BY <1>1, Zenon DEF Views
  <2>. QED BY <1>3, <2>1, SetKeeps DEF Disconnect
<1>4. CASE RefreshLibrary \/ RefreshJobs
  BY <1>1, <1>4, SetKeeps DEF RefreshLibrary, RefreshJobs
<1>5. CASE ToggleText
  <2>1. /\ [view EXCEPT !.showText = ~@] \in Views
        /\ [view EXCEPT !.showText = ~@].live = view.live
    BY <1>1, Zenon DEF Views
  <2>. QED BY <1>5, <2>1, SetKeeps DEF ToggleText
<1>6. ASSUME NEW p \in Pages, TurnDocuments(p) PROVE Inv'
  <2>1. /\ [view EXCEPT !.offset = p, !.doc = None] \in Views
        /\ [view EXCEPT !.offset = p, !.doc = None].live = view.live
    BY <1>1, Zenon DEF Views
  <2>. QED BY <1>6, <2>1, SetKeeps DEF TurnDocuments
<1>7. ASSUME NEW p \in Pages, TurnRevisions(p) PROVE Inv'
  <2>1. [view EXCEPT !.page = p] \in Views /\ [view EXCEPT !.page = p].live = view.live
    BY <1>1, Zenon DEF Views
  <2>. QED BY <1>7, <2>1, SetKeeps DEF TurnRevisions
<1>8. ASSUME NEW d \in Documents, SelectDocument(d) PROVE Inv'
  <2>1. [view EXCEPT !.doc = d] \in Views /\ [view EXCEPT !.doc = d].live = view.live
    BY <1>1, Zenon DEF Views
  <2>. QED BY <1>8, <2>1, SetKeeps DEF SelectDocument
<1>9. ASSUME NEW n \in Numbers, SelectRevision(n) PROVE Inv'
  <2>1. [view EXCEPT !.selected = n] \in Views /\ [view EXCEPT !.selected = n].live = view.live
    BY <1>1, Zenon DEF Views
  <2>. QED BY <1>9, <2>1, SetKeeps DEF SelectRevision
<1>. QED BY <1>2, <1>3, <1>4, <1>5, <1>6, <1>7, <1>8, <1>9

LEMMA ReadSteps ==
  ASSUME Inv,
         \/ \E n \in 0 .. PageSize : DocumentsArrive(n) \/ RevisionsArrive(n)
         \/ \E k \in Kinds, job \in {"absent", "failed", "active"} : JobArrives(k, job)
         \/ TextArrives
  PROVE  Inv'
<1>1. {"documents", "revisions", "text"} \cup Kinds \subseteq Reads
  BY DEF Reads
<1>. QED BY <1>1, GotKeeps DEF DocumentsArrive, RevisionsArrive, JobArrives, TextArrives

LEMMA FormSteps ==
  ASSUME Inv,
         \/ OpenForm \/ CloseForm \/ Submit \/ ServerRegisters \/ RegisteringFails
         \/ \E d \in Documents : Registered(d)
  PROVE  Inv'
<1>1. form \in Forms /\ SoundForm(form) /\ view \in Views
  BY DEF Inv, TypeInv
<1>2. NewForm \in Forms /\ SoundForm(NewForm)
  BY DEF NewForm, Forms, SoundForm, Sent
<1>3. CASE OpenForm
  <2>. DEFINE f == [NewForm EXCEPT !.status = "editing"]
  <2>1. f \in Forms
    BY <1>2, Zenon DEF Forms
  <2>2. f \in Forms /\ SoundForm(f)
    <3>1. f.pending = FALSE /\ f.made = 0
      BY DEF NewForm
    <3>. HIDE DEF f
    <3>. QED BY <2>1, <3>1 DEF SoundForm, Sent
  <2>. HIDE DEF f
  <2>. QED BY <1>3, <2>2, WithFormKeeps DEF OpenForm, f
<1>4. CASE CloseForm
  BY <1>2, <1>4, WithFormKeeps DEF CloseForm
<1>5. CASE Submit
  <2>. DEFINE f == [form EXCEPT !.status = "busy", !.pending = TRUE]
  <2>1. f \in Forms /\ SoundForm(f)
    <3>1. form.status = "editing" /\ form.made = 0
      BY <1>1, <1>5 DEF Submit, MaySubmit, SoundForm, Sent, Forms
    <3>2. f \in Forms
      BY <1>1, Zenon DEF Forms
    <3>3. f.status = "busy" /\ f.pending = TRUE /\ f.made = 0
      BY <1>1, <3>1 DEF Forms
    <3>. HIDE DEF f
    <3>. QED BY <3>2, <3>3 DEF SoundForm, Sent
  <2>. QED BY <1>5, <2>1, WithFormKeeps DEF Submit
<1>6. CASE ServerRegisters
  <2>. DEFINE f == [form EXCEPT !.pending = FALSE, !.made = @ + 1]
  <2>1. f \in Forms /\ SoundForm(f)
    <3>1. form.made + 1 \in Nat
      BY <1>1 DEF Forms
    <3>2. f \in Forms
      BY <1>1, <3>1, Zenon DEF Forms
    <3>3. f.status = form.status /\ f.pending = FALSE /\ f.made = form.made + 1
      BY <1>1 DEF Forms
    <3>4. Sent(f) = Sent(form)
      <4>. HIDE DEF f
      <4>. QED BY <1>6, <3>1, <3>3 DEF ServerRegisters, Sent
    <3>. HIDE DEF f
    <3>. QED BY <1>1, <3>2, <3>3, <3>4 DEF SoundForm
  <2>. QED BY <1>6, <2>1, WithFormKeeps DEF ServerRegisters
<1>7. CASE RegisteringFails
  <2>1. PICK pending \in {form.pending, FALSE} :
          WithForm([form EXCEPT !.status = "failed", !.pending = pending])
    BY <1>7 DEF RegisteringFails
  <2>. DEFINE f == [form EXCEPT !.status = "failed", !.pending = pending]
  <2>2. f \in Forms /\ SoundForm(f)
    <3>1. pending \in BOOLEAN /\ (pending => form.pending)
      BY <1>1 DEF Forms
    <3>2. f \in Forms
      BY <1>1, <3>1, Zenon DEF Forms
    <3>3. f.status = "failed" /\ f.pending = pending /\ f.made = form.made /\ form.made \in Nat
      BY <1>1 DEF Forms
    <3>4. Sent(f) <= Sent(form) /\ Sent(f) \in Nat /\ Sent(form) \in Nat
      <4>. HIDE DEF f
      <4>. QED BY <3>1, <3>3 DEF Sent
    <3>. HIDE DEF f
    <3>. QED BY <1>1, <3>2, <3>3, <3>4 DEF SoundForm
  <2>. QED BY <2>1, <2>2, WithFormKeeps
<1>8. ASSUME NEW d \in Documents, Registered(d) PROVE Inv'
  <2>. DEFINE v == [view EXCEPT !.doc = d, !.offset = 0]
  <2>1. v \in Views /\ v.live = view.live
    <3>1. 0 \in Pages
      BY ConstantsAssumption
    <3>. QED BY <1>1, <3>1, Zenon DEF Views
  <2>2. Render(v, reads, NewForm, queue, {"refresh"})
    BY <1>8 DEF Registered
  <2>. HIDE DEF v
  <2>3. Fitting(v, reads, NewForm, queue, {"refresh"})
    BY <1>2, <2>1, <2>2 DEF Fitting, Arguments, Mounted, Inv, TypeInv
  <2>. QED BY <2>3, FittingKeeps
<1>. QED BY <1>3, <1>4, <1>5, <1>6, <1>7, <1>8

LEMMA QueueSteps ==
  ASSUME Inv, NEW k \in Kinds, Queue(k) \/ ServerQueues(k) \/ Queued(k) \/ QueueingFails(k)
  PROVE  Inv'
<1>1. queue[k] \in Queues /\ SoundQueue(queue[k])
  BY DEF Inv, TypeInv
<1>2. CASE Queue(k)
  <2>. DEFINE q == [queue[k] EXCEPT !.status = "busy", !.pending = TRUE]
  <2>1. queue[k].submitted = None
    BY <1>1, <1>2 DEF Queue, Job, Queues
  <2>2. q \in Queues /\ SoundQueue(q)
    <3>1. queue[k].made = 0
      BY <1>1, <1>2, <2>1 DEF Queue, SoundQueue, Sent, Queues
    <3>2. q \in Queues
      BY <1>1, Zenon DEF Queues
    <3>3. q.status = "busy" /\ q.pending = TRUE /\ q.made = 0
      BY <1>1, <3>1 DEF Queues
    <3>. HIDE DEF q
    <3>. QED BY <3>2, <3>3 DEF SoundQueue, Sent
  <2>. QED BY <1>2, <2>2, WithQueueKeeps DEF Queue
<1>3. CASE ServerQueues(k)
  <2>. DEFINE q == [queue[k] EXCEPT !.pending = FALSE, !.made = @ + 1]
  <2>1. q \in Queues /\ SoundQueue(q)
    <3>1. queue[k].made + 1 \in Nat
      BY <1>1 DEF Queues
    <3>2. q \in Queues
      BY <1>1, <3>1, Zenon DEF Queues
    <3>3. /\ q.status = queue[k].status /\ q.submitted = queue[k].submitted
          /\ q.pending = FALSE /\ q.made = queue[k].made + 1
      BY <1>1 DEF Queues
    <3>4. Sent(q) = Sent(queue[k])
      <4>. HIDE DEF q
      <4>. QED BY <1>3, <3>1, <3>3 DEF ServerQueues, Sent
    <3>. HIDE DEF q
    <3>. QED BY <1>1, <3>2, <3>3, <3>4 DEF SoundQueue
  <2>. QED BY <1>3, <2>1, WithQueueKeeps DEF ServerQueues
<1>4. CASE Queued(k)
  <2>. DEFINE q == [queue[k] EXCEPT !.status = "ready", !.submitted = "active"]
  <2>1. q \in Queues /\ SoundQueue(q)
    BY <1>1, <1>4, ConstantsAssumption DEF Queued, Queues, SoundQueue, Sent
  <2>. QED BY <1>4, <2>1, WithQueueKeeps DEF Queued
<1>5. CASE QueueingFails(k)
  <2>1. PICK pending \in {queue[k].pending, FALSE} :
          WithQueue(k, [queue[k] EXCEPT !.status = "failed", !.pending = pending])
    BY <1>5 DEF QueueingFails
  <2>. DEFINE q == [queue[k] EXCEPT !.status = "failed", !.pending = pending]
  <2>2. q \in Queues /\ SoundQueue(q)
    <3>1. pending \in BOOLEAN /\ (pending => queue[k].pending)
      BY <1>1 DEF Queues
    <3>2. q \in Queues
      BY <1>1, <3>1, Zenon DEF Queues
    <3>3. /\ q.status = "failed" /\ q.pending = pending
          /\ q.made = queue[k].made /\ queue[k].made \in Nat
      BY <1>1 DEF Queues
    <3>4. Sent(q) <= Sent(queue[k]) /\ Sent(q) \in Nat /\ Sent(queue[k]) \in Nat
      <4>. HIDE DEF q
      <4>. QED BY <3>1, <3>3 DEF Sent
    <3>. HIDE DEF q
    <3>. QED BY <1>1, <3>2, <3>3, <3>4 DEF SoundQueue
  <2>. QED BY <2>1, <2>2, WithQueueKeeps
<1>. QED BY <1>2, <1>3, <1>4, <1>5

LEMMA InvStep == Inv /\ [Next]_vars => Inv'
<1>. SUFFICES ASSUME Inv, [Next]_vars PROVE Inv'
  OBVIOUS
<1>1. CASE Next
  BY <1>1, UserSteps, ReadSteps, FormSteps, QueueSteps DEF Next
<1>2. CASE UNCHANGED vars
  BY <1>2
  DEF vars, Inv, TypeInv, ShowsSelection, SoundForm, SoundQueue, Sent, Revision, Awaited
<1>. QED BY <1>1, <1>2

LEMMA Invariance == Spec => []Inv
<1>. QED BY InvInit, InvStep, PTL DEF Spec

(* With any number of documents, revisions and pages, and however late     *)
(* answers come: what is on the screen, or will be, answers what is        *)
(* selected now.                                                           *)
THEOREM SelectionShown == Spec => []ShowsSelection
<1>1. Inv => ShowsSelection
  BY DEF Inv
<1>. QED BY <1>1, Invariance, PTL

(* One form and one button send at most one request that changes the       *)
(* server, also when its outcome stays open.                               *)
THEOREM SentOnce == Spec => []NoResubmission
<1>1. Inv => NoResubmission
  BY DEF Inv, SoundForm, SoundQueue, Sent, NoResubmission
<1>. QED BY <1>1, Invariance, PTL
=============================================================================
