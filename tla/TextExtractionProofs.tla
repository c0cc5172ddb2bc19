------------------------ MODULE TextExtractionProofs ------------------------
(* Proofs about the slots for PDF children and about what is served, for   *)
(* every value of the constants. *)
EXTENDS TextExtraction, FiniteSetTheorems, TLAPS

Labels == {"done", "get", "receive", "stream", "parse", "acquire", "spawn", "child",
           "release", "close"}

Locals == [job : Jobs \cup {"none"}, got : Nat, intact : BOOLEAN, sent : Nat,
           parts : Seq(PageSizes), characters : Nat, solid : BOOLEAN,
           text : Int]

TypeInv ==
  /\ slots \in Nat
  /\ children \in Int
  /\ open \subseteq Tasks
  /\ pc \in [Tasks -> Labels]
  /\ tk \in [Tasks -> Locals]

(* A task under way knows what it is for. *)
Named == \A t \in Tasks : pc[t] # "done" => tk[t].job \in Jobs

InChild == {t \in Tasks : pc[t] = "child"}

(* Every slot is free or held, every child has a thread that waits for it. *)
Accounted ==
  /\ slots + Cardinality(Holding) = Slots
  /\ children = Cardinality(InChild)

(* The count of a child is the length of the text it would join now, and   *)
(* within the limit.                                                       *)
PagesCounted ==
  \A t \in Tasks :
    tk[t].characters = JoinedLength(tk[t].parts) /\ tk[t].characters <= MaxText

(* What is parsed in the thread is no PDF. *)
ParsedPlain == \A t \in Tasks : pc[t] = "parse" => tk[t].job = "plain"

(* The file of a task is open from its first request to its last step.     *)
FilesOpen == \A t \in Tasks : pc[t] # "done" => t \in open

Inv == TypeInv /\ Named /\ Accounted /\ FilesOpen /\ ServedIntact
         /\ PagesCounted /\ ParsedPlain /\ TextFits

-----------------------------------------------------------------------------
(* A set of numbers that has 0 and with every number of its own below n    *)
(* the next one has all numbers up to n: otherwise counting up would map a *)
(* finite set into a part of itself.                                       *)
LEMMA Induction ==
  ASSUME NEW n \in Nat, NEW S, 0 \in S, \A i \in 0 .. n - 1 : i \in S => i + 1 \in S
  PROVE  \A i \in 0 .. n : i \in S
<1>. SUFFICES ASSUME NEW m \in 0 .. n, m \notin S PROVE FALSE
  OBVIOUS
<1>. DEFINE below == {i \in 0 .. m : i \in S}
            next == [i \in below |-> i + 1]
<1>1. IsFiniteSet(below) /\ 0 \in below
  <2>1. IsFiniteSet(0 .. m) /\ below \in SUBSET (0 .. m)
    BY FS_Interval
  <2>. QED BY <2>1, FS_Subset
<1>2. ASSUME NEW i \in below PROVE i + 1 \in below /\ i + 1 # 0
  <2>1. i \in 0 .. n - 1 /\ i + 1 \in 0 .. m
    <3>1. i # m
      OBVIOUS
    <3>. QED BY <3>1
  <2>. QED BY <2>1
<1>3. next \in [below -> below \ {0}]
  BY <1>2
<1>4. IsFiniteSet(below \ {0}) /\ Cardinality(below \ {0}) < Cardinality(below)
  <2>1. IsFiniteSet(below \ {0}) /\ Cardinality(below \ {0}) = Cardinality(below) - 1
    BY <1>1, FS_RemoveElement
  <2>2. Cardinality(below) \in Nat
    BY <1>1, FS_CardinalityType
  <2>. QED BY <2>1, <2>2
<1>. HIDE DEF below
<1>5. \E x, y \in below : x # y /\ next[x] = next[y]
  <2>. HIDE DEF next
  <2>. QED BY <1>1, <1>3, <1>4, FS_PigeonHole
<1>6. \A x \in below : x \in Int
  BY DEF below
<1>. QED BY <1>5, <1>6

(* Partial sums exist. *)
LEMMA Sums ==
  ASSUME NEW n \in Nat, NEW step \in [1 .. n -> Nat]
  PROVE  \E g \in [0 .. n -> Nat] :
           g = [i \in 0 .. n |-> IF i = 0 THEN 0 ELSE g[i - 1] + step[i]]
<1>. DEFINE Sum(g, k) == g[0] = 0 /\ \A i \in 1 .. k : g[i] = g[i - 1] + step[i]
            S == {k \in 0 .. n : \E g \in [0 .. k -> Nat] : Sum(g, k)}
<1>1. 0 \in S
  <2>. DEFINE g == [i \in 0 .. 0 |-> 0]
  <2>1. g \in [0 .. 0 -> Nat] /\ Sum(g, 0)
    OBVIOUS
  <2>2. 0 \in 0 .. n
    OBVIOUS
  <2>. HIDE DEF Sum, g
  <2>. QED BY <2>1, <2>2
<1>2. ASSUME NEW k \in 0 .. n - 1, k \in S PROVE k + 1 \in S
  <2>1. PICK g \in [0 .. k -> Nat] : Sum(g, k)
    BY <1>2
  <2>. DEFINE h == [i \in 0 .. k + 1 |-> IF i = k + 1 THEN g[k] + step[k + 1] ELSE g[i]]
  <2>2. step[k + 1] \in Nat /\ g[k] \in Nat
    OBVIOUS
  <2>3. h \in [0 .. k + 1 -> Nat]
    BY <2>2
  <2>4. Sum(h, k + 1)
    <3>1. h[0] = 0
      BY <2>1
    <3>2. ASSUME NEW i \in 1 .. k + 1 PROVE h[i] = h[i - 1] + step[i]
      <4>1. CASE i = k + 1
        BY <4>1
      <4>2. CASE i # k + 1
        <5>1. i \in 1 .. k /\ i \in 0 .. k + 1 /\ i - 1 \in 0 .. k + 1 /\ i - 1 # k + 1
          BY <4>2
        <5>. QED BY <5>1, <2>1
      <4>. QED BY <4>1, <4>2
    <3>. QED BY <3>1, <3>2
  <2>5. k + 1 \in 0 .. n
    OBVIOUS
  <2>. HIDE DEF Sum, h
  <2>. QED BY <2>3, <2>4, <2>5
<1>3. n \in S
  <2>1. \A i \in 0 .. n - 1 : i \in S => i + 1 \in S
    BY <1>2
  <2>. HIDE DEF S
  <2>2. \A i \in 0 .. n : i \in S
    BY <1>1, <2>1, Induction
  <2>. QED BY <2>2
<1>4. PICK g \in [0 .. n -> Nat] : Sum(g, n)
  BY <1>3
<1>5. g = [i \in 0 .. n |-> IF i = 0 THEN 0 ELSE g[i - 1] + step[i]]
  BY <1>4
<1>. QED BY <1>5

(* How many characters the page at i adds. *)
Adds(parts) == [i \in 1 .. Len(parts) |-> (IF i = 1 THEN 0 ELSE 1) + parts[i]]

LEMMA EndsDefined ==
  ASSUME NEW parts \in Seq(Nat)
  PROVE  Ends(parts) = [i \in 0 .. Len(parts) |->
           IF i = 0 THEN 0 ELSE Ends(parts)[i - 1] + (IF i = 1 THEN 0 ELSE 1) + parts[i]]
<1>. DEFINE F(end) == [i \in 0 .. Len(parts) |->
           IF i = 0 THEN 0 ELSE end[i - 1] + (IF i = 1 THEN 0 ELSE 1) + parts[i]]
<1>1. Adds(parts) \in [1 .. Len(parts) -> Nat]
  BY DEF Adds
<1>2. PICK g \in [0 .. Len(parts) -> Nat] :
        g = [i \in 0 .. Len(parts) |-> IF i = 0 THEN 0 ELSE g[i - 1] + Adds(parts)[i]]
  <2>1. Len(parts) \in Nat
    OBVIOUS
  <2>. QED BY <1>1, <2>1, Sums
<1>3. g = F(g)
  <2>1. ASSUME NEW i \in 1 .. Len(parts)
        PROVE  g[i - 1] + Adds(parts)[i] = g[i - 1] + (IF i = 1 THEN 0 ELSE 1) + parts[i]
    <3>1. g[i - 1] \in Nat /\ parts[i] \in Nat
      OBVIOUS
    <3>. QED BY <3>1 DEF Adds
  <2>2. \A i \in 0 .. Len(parts) :
          (IF i = 0 THEN 0 ELSE g[i - 1] + Adds(parts)[i])
            = IF i = 0 THEN 0 ELSE g[i - 1] + (IF i = 1 THEN 0 ELSE 1) + parts[i]
    BY <2>1
  <2>. QED BY <1>2, <2>2, Zenon
<1>4. \E end : end = F(end)
  BY <1>3
<1>5. Ends(parts) = CHOOSE end : end = F(end)
  BY DEF Ends
<1>. HIDE DEF F
<1>6. Ends(parts) = F(Ends(parts))
  BY <1>4, <1>5
<1>. QED BY <1>6 DEF F

LEMMA EndsTyped ==
  ASSUME NEW parts \in Seq(Nat)
  PROVE  Ends(parts) \in [0 .. Len(parts) -> Nat]
<1>. DEFINE end == Ends(parts)
            S == {i \in 0 .. Len(parts) : end[i] \in Nat}
<1>1. Len(parts) \in Nat /\ \A i \in 1 .. Len(parts) : parts[i] \in Nat
  OBVIOUS
<1>2. end = [i \in 0 .. Len(parts) |->
        IF i = 0 THEN 0 ELSE end[i - 1] + (IF i = 1 THEN 0 ELSE 1) + parts[i]]
  BY EndsDefined
<1>. HIDE DEF end
<1>3. 0 \in S
  BY <1>1, <1>2
<1>4. \A i \in 0 .. Len(parts) - 1 : i \in S => i + 1 \in S
  <2>. SUFFICES ASSUME NEW i \in 0 .. Len(parts) - 1, end[i] \in Nat PROVE i + 1 \in S
    OBVIOUS
  <2>1. i + 1 \in 1 .. Len(parts) /\ i + 1 \in 0 .. Len(parts) /\ i + 1 # 0 /\ (i + 1) - 1 = i
    BY <1>1
  <2>2. end[i + 1] = end[i] + (IF i + 1 = 1 THEN 0 ELSE 1) + parts[i + 1]
    BY <1>2, <2>1
  <2>3. end[i + 1] \in Nat
    BY <1>1, <2>1, <2>2
  <2>. QED BY <2>1, <2>3
<1>5. \A i \in 0 .. Len(parts) : i \in S
  <2>. HIDE DEF S
  <2>. QED BY <1>1, <1>3, <1>4, Induction
<1>. QED BY <1>2, <1>5 DEF end

(* A page more leaves the ends of the earlier pages where they were. *)
LEMMA EndsKept ==
  ASSUME NEW parts \in Seq(Nat), NEW n \in Nat
  PROVE  \A i \in 0 .. Len(parts) : Ends(Append(parts, n))[i] = Ends(parts)[i]
<1>. DEFINE more == Append(parts, n)
            end == Ends(parts)
            later == Ends(more)
            S == {i \in 0 .. Len(parts) : later[i] = end[i]}
<1>1. /\ Len(parts) \in Nat /\ more \in Seq(Nat) /\ Len(more) = Len(parts) + 1
      /\ \A i \in 1 .. Len(parts) : more[i] = parts[i]
  OBVIOUS
<1>2. end = [i \in 0 .. Len(parts) |->
        IF i = 0 THEN 0 ELSE end[i - 1] + (IF i = 1 THEN 0 ELSE 1) + parts[i]]
  BY EndsDefined
<1>. HIDE DEF more
<1>3. later = [i \in 0 .. Len(more) |->
        IF i = 0 THEN 0 ELSE later[i - 1] + (IF i = 1 THEN 0 ELSE 1) + more[i]]
  BY <1>1, EndsDefined
<1>. HIDE DEF end, later
<1>4. 0 \in S
  BY <1>1, <1>2, <1>3
<1>5. \A i \in 0 .. Len(parts) - 1 : i \in S => i + 1 \in S
  <2>. SUFFICES ASSUME NEW i \in 0 .. Len(parts) - 1, later[i] = end[i] PROVE i + 1 \in S
    OBVIOUS
  <2>1. /\ i + 1 \in 1 .. Len(parts) /\ i + 1 \in 0 .. Len(parts) /\ i + 1 \in 0 .. Len(more)
        /\ i + 1 # 0 /\ (i + 1) - 1 = i
    BY <1>1
  <2>2. end[i + 1] = end[i] + (IF i + 1 = 1 THEN 0 ELSE 1) + parts[i + 1]
    BY <1>2, <2>1
  <2>3. later[i + 1] = later[i] + (IF i + 1 = 1 THEN 0 ELSE 1) + more[i + 1]
    BY <1>3, <2>1
  <2>4. later[i + 1] = end[i + 1]
    BY <1>1, <2>1, <2>2, <2>3, Zenon
  <2>. QED BY <2>1, <2>4
<1>6. \A i \in 0 .. Len(parts) : i \in S
  <2>. HIDE DEF S
  <2>. QED BY <1>1, <1>4, <1>5, Induction
<1>. QED BY <1>6 DEF end, later, more

(* What the child counts page by page is the length of the text it joins   *)
(* in the end.                                                             *)
LEMMA JoinedPage ==
  ASSUME NEW parts \in Seq(Nat), NEW n \in Nat
  PROVE  /\ JoinedLength(parts) \in Nat
         /\ JoinedLength(Append(parts, n))
              = JoinedLength(parts) + n + (IF parts = <<>> THEN 0 ELSE 1)
<1>. DEFINE more == Append(parts, n)
<1>1. /\ Len(parts) \in Nat /\ more \in Seq(Nat) /\ Len(more) = Len(parts) + 1
      /\ more[Len(parts) + 1] = n /\ (parts = <<>> <=> Len(parts) = 0)
  OBVIOUS
<1>2. Ends(parts)[Len(parts)] \in Nat
  BY <1>1, EndsTyped
<1>3. Ends(more)[Len(parts)] = Ends(parts)[Len(parts)]
  BY <1>1, EndsKept
<1>. HIDE DEF more
<1>4. Ends(more)[Len(parts) + 1]
        = Ends(more)[Len(parts)] + (IF Len(parts) = 0 THEN 0 ELSE 1) + n
  <2>. DEFINE later == Ends(more)
  <2>1. later = [i \in 0 .. Len(more) |->
          IF i = 0 THEN 0 ELSE later[i - 1] + (IF i = 1 THEN 0 ELSE 1) + more[i]]
    BY <1>1, EndsDefined
  <2>2. /\ Len(parts) + 1 \in 0 .. Len(more) /\ Len(parts) + 1 # 0
        /\ (Len(parts) + 1) - 1 = Len(parts) /\ (Len(parts) + 1 = 1 <=> Len(parts) = 0)
    BY <1>1
  <2>. HIDE DEF later
  <2>3. later[Len(parts) + 1]
          = later[Len(parts)] + (IF Len(parts) + 1 = 1 THEN 0 ELSE 1) + more[Len(parts) + 1]
    BY <2>1, <2>2
  <2>. QED BY <1>1, <2>2, <2>3 DEF later
<1>. QED BY <1>1, <1>2, <1>3, <1>4 DEF JoinedLength, more

LEMMA JoinedNothing == JoinedLength(<<>>) = 0
<1>1. <<>> \in Seq(Nat) /\ Len(<<>>) = 0
  OBVIOUS
<1>2. Ends(<<>>)[0] = 0
  <2>. DEFINE end == Ends(<<>>)
  <2>1. end = [i \in 0 .. Len(<<>>) |->
          IF i = 0 THEN 0 ELSE end[i - 1] + (IF i = 1 THEN 0 ELSE 1) + <<>>[i]]
    BY <1>1, EndsDefined
  <2>2. 0 \in 0 .. Len(<<>>)
    BY <1>1
  <2>. HIDE DEF end
  <2>3. end[0] = 0
    BY <2>1, <2>2
  <2>. QED BY <2>3 DEF end
<1>. QED BY <1>1, <1>2 DEF JoinedLength

-----------------------------------------------------------------------------
(* The steps. *)

LEMMA InvInit == Init => Inv
<1>. SUFFICES ASSUME Init PROVE Inv
  OBVIOUS
<1>1. NoTask \in Locals
  BY DEF NoTask, Locals
<1>2. TypeInv
  BY <1>1, ConstantsAssumption DEF Init, TypeInv, Labels
<1>3. Holding = {} /\ InChild = {}
  BY DEF Init, Holding, InChild
<1>4. Accounted
  BY <1>3, FS_EmptySet, ConstantsAssumption DEF Init, Accounted
<1>5. Named /\ FilesOpen /\ ServedIntact
  BY DEF Init, Named, FilesOpen, ServedIntact
<1>6. PagesCounted /\ ParsedPlain /\ TextFits
  BY JoinedNothing, ConstantsAssumption DEF Init, NoTask, PagesCounted, ParsedPlain, TextFits
<1>. QED BY <1>2, <1>4, <1>5, <1>6 DEF Inv

(* What a refused task keeps is a task. *)
LEMMA NothingTyped ==
  ASSUME TypeInv, NEW t \in Tasks
  PROVE  /\ Nothing(t) \in Locals
         /\ Nothing(t).job = tk[t].job
<1>1. tk[t].job \in Jobs \cup {"none"} /\ -1 \in Int /\ <<>> \in Seq(PageSizes)
  BY DEF TypeInv, Locals
<1>. QED BY <1>1 DEF Nothing, NoTask, Locals

(* The locals of a child that has read a page. *)
Read(t, n, solid) ==
  [tk[t] EXCEPT !.characters = Counted(t, n), !.parts = Append(@, n), !.solid = @ \/ solid]

LEMMA ReadTyped ==
  ASSUME TypeInv, NEW t \in Tasks, NEW n \in PageSizes, NEW solid \in BOOLEAN
  PROVE  /\ Counted(t, n) \in Nat
         /\ Read(t, n, solid) \in Locals
         /\ Read(t, n, solid).job = tk[t].job
         /\ Read(t, n, solid).got = tk[t].got
         /\ Read(t, n, solid).intact = tk[t].intact
         /\ Read(t, n, solid).parts = Append(tk[t].parts, n)
         /\ Read(t, n, solid).characters = Counted(t, n)
         /\ Read(t, n, solid).solid = (tk[t].solid \/ solid)
         /\ Read(t, n, solid).text = tk[t].text
<1>1. tk[t] \in Locals /\ Append(tk[t].parts, n) \in Seq(PageSizes)
  BY DEF TypeInv, Locals
<1>2. Counted(t, n) \in Nat
  <2>1. tk[t].characters \in Nat /\ n \in Nat
    BY <1>1, ConstantsAssumption DEF Locals
  <2>. QED BY <2>1 DEF Counted
<1>3. Read(t, n, solid) \in Locals
  BY <1>1, <1>2, Zenon DEF Locals, Read
<1>4. /\ Read(t, n, solid).job = tk[t].job
      /\ Read(t, n, solid).got = tk[t].got
      /\ Read(t, n, solid).intact = tk[t].intact
  BY <1>1, Zenon DEF Locals, Read
<1>5. /\ Read(t, n, solid).parts = Append(tk[t].parts, n)
      /\ Read(t, n, solid).characters = Counted(t, n)
  BY <1>1, Zenon DEF Locals, Read
<1>6. /\ Read(t, n, solid).solid = (tk[t].solid \/ solid)
      /\ Read(t, n, solid).text = tk[t].text
  BY <1>1, Zenon DEF Locals, Read
<1>. QED BY <1>2, <1>3, <1>4, <1>5, <1>6

(* A page that is read is the child's own; otherwise the child has ended. *)
LEMMA ReadPageCases ==
  ASSUME NEW t \in Tasks, NEW n \in PageSizes, NEW solid \in BOOLEAN, ReadPage(t, n, solid)
  PROVE  \/ /\ tk' = [tk EXCEPT ![t] = Read(t, n, solid)]
            /\ ~(Counted(t, n) > MaxText)
            /\ UNCHANGED <<pc, children>>
         \/ Refuse(t, "release")
<1>1. CASE Counted(t, n) > MaxText
  BY <1>1 DEF ReadPage
<1>2. CASE ~(Counted(t, n) > MaxText)
  <2>1. tk' = [tk EXCEPT ![t] = Read(t, n, solid)] /\ UNCHANGED <<pc, children>>
    BY <1>2, Zenon DEF ReadPage, Read
  <2>. QED BY <1>2, <2>1
<1>. QED BY <1>1, <1>2

(* The pages a child has read so far are numbers, and so is the length of  *)
(* the text that it would join.                                            *)
LEMMA JoinedTyped ==
  ASSUME TypeInv, NEW t \in Tasks
  PROVE  /\ tk[t].parts \in Seq(Nat)
         /\ JoinedLength(tk[t].parts) \in Nat
<1>1. tk[t].parts \in Seq(PageSizes) /\ PageSizes \subseteq Nat
  BY ConstantsAssumption DEF TypeInv, Locals
<1>2. tk[t].parts \in Seq(Nat)
  <2>1. /\ Len(tk[t].parts) \in Nat
        /\ tk[t].parts \in [1 .. Len(tk[t].parts) -> PageSizes]
    BY <1>1
  <2>2. tk[t].parts \in [1 .. Len(tk[t].parts) -> Nat]
    BY <1>1, <2>1
  <2>. QED BY <2>1, <2>2
<1>3. 0 \in Nat
  OBVIOUS
<1>. QED BY <1>2, <1>3, JoinedPage

LEMMA TypeStep ==
  ASSUME TypeInv, Named, [Next]_vars
  PROVE  TypeInv'
<1>. USE DEF TypeInv, Goto, Refuse, Labels
<1>1. ASSUME NEW t \in Tasks, NEW job \in Jobs, Begin(t, job) PROVE TypeInv'
  <2>1. [NoTask EXCEPT !.job = job] \in Locals
    <3>1. 0 \in Nat /\ <<>> \in Seq(PageSizes) /\ -1 \in Int
      OBVIOUS
    <3>. QED BY <3>1 DEF NoTask, Locals
  <2>. QED BY <1>1, <2>1 DEF Begin
<1>2. ASSUME NEW t \in Tasks, GetObject(t) \/ LoseBody(t) PROVE TypeInv'
  BY <1>2, NothingTyped DEF GetObject, LoseBody
<1>3. ASSUME NEW t \in Tasks, Receive(t) PROVE TypeInv'
  <2>1. ASSUME NEW good \in BOOLEAN
        PROVE  [tk[t] EXCEPT !.got = @ + 1, !.intact = @ /\ good] \in Locals
    <3>1. tk[t] \in Locals /\ tk[t].got + 1 \in Nat
      BY DEF Locals
    <3>. QED BY <3>1, Zenon DEF Locals
  <2>2. CASE \E good \in BOOLEAN :
               tk' = [tk EXCEPT ![t] = [tk[t] EXCEPT !.got = @ + 1, !.intact = @ /\ good]]
    BY <1>3, <2>1, <2>2 DEF Receive
  <2>3. CASE Refuse(t, "close")
    BY <1>3, <2>3, NothingTyped DEF Receive
  <2>. QED BY <1>3, <2>2, <2>3 DEF Receive
<1>4. ASSUME NEW t \in Tasks, EndOfBody(t) PROVE TypeInv'
  BY <1>4, NothingTyped DEF EndOfBody, Named, Use, Jobs
<1>5. ASSUME NEW t \in Tasks, Send(t) PROVE TypeInv'
  <2>1. [tk[t] EXCEPT !.sent = @ + 1] \in Locals
    <3>1. tk[t] \in Locals /\ tk[t].sent + 1 \in Nat
      BY DEF Locals
    <3>. QED BY <3>1, Zenon DEF Locals
  <2>. QED BY <1>5, <2>1 DEF Send
<1>6. ASSUME NEW t \in Tasks, Disconnect(t) PROVE TypeInv'
  BY <1>6 DEF Disconnect
<1>7. ASSUME NEW t \in Tasks, NEW n \in 0 .. MaxText + 1, Parse(t, n) PROVE TypeInv'
  <2>1. [Nothing(t) EXCEPT !.text = n] \in Locals
    <3>1. n \in Int
      BY ConstantsAssumption
    <3>. QED BY <3>1, NothingTyped, Zenon DEF Locals
  <2>. QED BY <1>7, <2>1, NothingTyped DEF Parse
<1>8. ASSUME NEW t \in Tasks, Acquire(t) PROVE TypeInv'
  BY <1>8, NothingTyped DEF Acquire
<1>9. ASSUME NEW t \in Tasks, Spawn(t) PROVE TypeInv'
  BY <1>9, NothingTyped DEF Spawn
<1>10. ASSUME NEW t \in Tasks, NEW n \in PageSizes, NEW solid \in BOOLEAN, ReadPage(t, n, solid)
       PROVE  TypeInv'
  <2>1. CASE tk' = [tk EXCEPT ![t] = Read(t, n, solid)] /\ UNCHANGED <<pc, children>>
    BY <1>10, <2>1, ReadTyped DEF ReadPage
  <2>2. CASE Refuse(t, "release")
    BY <1>10, <2>2, NothingTyped DEF ReadPage, Reaped
  <2>. QED BY <1>10, <2>1, <2>2, ReadPageCases
<1>11. ASSUME NEW t \in Tasks, Finish(t) PROVE TypeInv'
  <2>1. [Nothing(t) EXCEPT !.text = JoinedLength(tk[t].parts), !.solid = TRUE] \in Locals
    <3>1. JoinedLength(tk[t].parts) \in Int
      BY JoinedTyped
    <3>. QED BY <3>1, NothingTyped, Zenon DEF Locals
  <2>. QED BY <1>11, <2>1, NothingTyped DEF Finish, Reaped
<1>12. ASSUME NEW t \in Tasks, Break(t) \/ TimeOut(t) PROVE TypeInv'
  BY <1>12, NothingTyped DEF Break, TimeOut, Reaped
<1>13. ASSUME NEW t \in Tasks, Release(t) PROVE TypeInv'
  BY <1>13 DEF Release, Released
<1>14. ASSUME NEW t \in Tasks, Close(t) PROVE TypeInv'
  <2>1. [Nothing(t) EXCEPT !.text = tk[t].text, !.solid = tk[t].solid] \in Locals
    BY NothingTyped DEF Locals
  <2>. QED BY <1>14, <2>1 DEF Close
<1>15. CASE UNCHANGED vars
  BY <1>15 DEF vars
<1>. QED
  BY <1>1, <1>2, <1>3, <1>4, <1>5, <1>6, <1>7, <1>8, <1>9, <1>10, <1>11, <1>12, <1>13, <1>14,
     <1>15
  DEF Next, Thread, Stream, Child, Copy
-----------------------------------------------------------------------------
(* A task keeps its purpose from Begin on. *)
LEMMA NamedStep ==
  ASSUME TypeInv, Named, [Next]_vars
  PROVE  Named'
<1>. USE DEF TypeInv, Named, Goto, Refuse
<1>1. ASSUME NEW t \in Tasks, NEW job \in Jobs, Begin(t, job) PROVE Named'
  BY <1>1 DEF Begin, NoTask
<1>2. ASSUME NEW t \in Tasks, Thread(t) \/ Stream(t) \/ Child(t)
      PROVE  /\ pc[t] # "done" /\ \A x \in Tasks : x # t => pc'[x] = pc[x]
             /\ \A x \in Tasks : tk'[x].job = tk[x].job
  <2>1. CASE \/ GetObject(t) \/ EndOfBody(t) \/ LoseBody(t) \/ Disconnect(t) \/ Acquire(t)
             \/ Spawn(t) \/ Break(t) \/ TimeOut(t) \/ Release(t)
    BY <2>1, NothingTyped
    DEF GetObject, EndOfBody, LoseBody, Disconnect, Acquire, Spawn, Break, TimeOut, Release
  <2>2. CASE Receive(t) \/ Send(t)
    <3>1. CASE Receive(t) /\ tk[t].got # Size
      <4>1. PICK good \in BOOLEAN :
              tk' = [tk EXCEPT ![t] = [tk[t] EXCEPT !.got = @ + 1, !.intact = @ /\ good]]
        BY <3>1 DEF Receive
      <4>2. tk[t] \in Locals
        OBVIOUS
      <4>3. [tk[t] EXCEPT !.got = @ + 1, !.intact = @ /\ good].job = tk[t].job
        BY <4>2, Zenon DEF Locals
      <4>. QED BY <3>1, <4>1, <4>3 DEF Receive
    <3>2. CASE Receive(t) /\ tk[t].got = Size
      BY <3>2, NothingTyped DEF Receive
    <3>3. CASE Send(t)
      <4>1. tk[t] \in Locals
        OBVIOUS
      <4>2. [tk[t] EXCEPT !.sent = @ + 1].job = tk[t].job
        BY <4>1, Zenon DEF Locals
      <4>. QED BY <3>3, <4>2 DEF Send
    <3>. QED BY <2>2, <3>1, <3>2, <3>3
  <2>3. CASE \E n \in 0 .. MaxText + 1 : Parse(t, n)
    <3>1. PICK n \in 0 .. MaxText + 1 : Parse(t, n)
      BY <2>3
    <3>2. [Nothing(t) EXCEPT !.text = n].job = tk[t].job
      BY NothingTyped, Zenon DEF Locals
    <3>. QED BY <3>1, <3>2, NothingTyped DEF Parse
  <2>4. CASE \E n \in PageSizes, solid \in BOOLEAN : ReadPage(t, n, solid)
    <3>1. PICK n \in PageSizes, solid \in BOOLEAN : ReadPage(t, n, solid)
      BY <2>4
    <3>2. CASE tk' = [tk EXCEPT ![t] = Read(t, n, solid)] /\ UNCHANGED <<pc, children>>
      BY <3>1, <3>2, ReadTyped DEF ReadPage
    <3>3. CASE Refuse(t, "release")
      BY <3>1, <3>3, NothingTyped DEF ReadPage
    <3>. QED BY <3>1, <3>2, <3>3, ReadPageCases
  <2>5. CASE Finish(t) \/ Close(t)
    <3>1. /\ [Nothing(t) EXCEPT !.text = JoinedLength(tk[t].parts), !.solid = TRUE].job = tk[t].job
          /\ [Nothing(t) EXCEPT !.text = tk[t].text, !.solid = tk[t].solid].job = tk[t].job
      BY NothingTyped, Zenon DEF Locals
    <3>. QED BY <2>5, <3>1, NothingTyped DEF Finish, Close
  <2>. QED BY <1>2, <2>1, <2>2, <2>3, <2>4, <2>5 DEF Thread, Stream, Child, Copy
<1>3. CASE UNCHANGED vars
  BY <1>3 DEF vars
<1>. QED BY <1>1, <1>2, <1>3 DEF Next

-----------------------------------------------------------------------------
(* What is served. *)

LEMMA FilesStep ==
  ASSUME TypeInv, FilesOpen, [Next]_vars
  PROVE  FilesOpen'
<1>. pc \in [Tasks -> Labels]
  BY DEF TypeInv
<1>. USE DEF FilesOpen, Goto, Refuse
<1>1. ASSUME NEW t \in Tasks, NEW job \in Jobs, Begin(t, job) PROVE FilesOpen'
  BY <1>1 DEF Begin
<1>2. ASSUME NEW t \in Tasks, Copy(t) PROVE FilesOpen'
  <2>1. CASE GetObject(t) \/ LoseBody(t)
    BY <2>1 DEF GetObject, LoseBody
  <2>2. CASE Receive(t)
    BY <2>2 DEF Receive
  <2>3. CASE EndOfBody(t)
    BY <2>3 DEF EndOfBody
  <2>. QED BY <1>2, <2>1, <2>2, <2>3 DEF Copy
<1>3. ASSUME NEW t \in Tasks, Stream(t) PROVE FilesOpen'
  BY <1>3 DEF Stream, Send, Disconnect
<1>4. ASSUME NEW t \in Tasks, NEW n \in 0 .. MaxText + 1, Parse(t, n) PROVE FilesOpen'
  BY <1>4 DEF Parse
<1>5. ASSUME NEW t \in Tasks, Acquire(t) \/ Spawn(t) PROVE FilesOpen'
  BY <1>5 DEF Acquire, Spawn
<1>6. ASSUME NEW t \in Tasks, NEW n \in PageSizes, NEW solid \in BOOLEAN, ReadPage(t, n, solid)
      PROVE  FilesOpen'
  BY <1>6 DEF ReadPage
<1>7. ASSUME NEW t \in Tasks, Finish(t) \/ Break(t) \/ TimeOut(t) PROVE FilesOpen'
  BY <1>7 DEF Finish, Break, TimeOut
<1>8. ASSUME NEW t \in Tasks, Release(t) \/ Close(t) PROVE FilesOpen'
  BY <1>8 DEF Release, Close
<1>9. CASE UNCHANGED vars
  BY <1>9 DEF vars
<1>. QED
  BY <1>1, <1>2, <1>3, <1>4, <1>5, <1>6, <1>7, <1>8, <1>9 DEF Next, Thread, Child

(* A task whose object is used. *)
Using == {"stream", "parse", "acquire", "spawn", "child"}

LEMMA ServedStep ==
  ASSUME TypeInv, Named, FilesOpen, FilesOpen', ServedIntact, [Next]_vars
  PROVE  ServedIntact'
<1>. USE DEF TypeInv, FilesOpen, ServedIntact, Goto, Refuse
<1>1. ASSUME NEW t \in Tasks, NEW job \in Jobs, Begin(t, job) PROVE ServedIntact'
  BY <1>1 DEF Begin
<1>2. ASSUME NEW t \in Tasks, EndOfBody(t) PROVE ServedIntact'
  BY <1>2 DEF EndOfBody, Verified
<1>3. ASSUME NEW t \in Tasks, NEW n \in PageSizes, NEW solid \in BOOLEAN, ReadPage(t, n, solid)
      PROVE  ServedIntact'
  <2>1. \A x \in Tasks : pc'[x] = "child" =>
          tk'[x].got = tk[x].got /\ tk'[x].intact = tk[x].intact
    <3>1. CASE tk' = [tk EXCEPT ![t] = Read(t, n, solid)]
      BY <3>1, ReadTyped
    <3>2. CASE Refuse(t, "release")
      BY <3>2
    <3>. QED BY <1>3, <3>1, <3>2, ReadPageCases
  <2>. QED BY <1>3, <2>1 DEF ReadPage
<1>4. ASSUME NEW t \in Tasks, Send(t) PROVE ServedIntact'
  <2>1. \A x \in Tasks : tk'[x].got = tk[x].got /\ tk'[x].intact = tk[x].intact
    <3>1. tk' = tk \/ tk' = [tk EXCEPT ![t] = [tk[t] EXCEPT !.sent = @ + 1]]
      BY <1>4 DEF Send
    <3>2. /\ [tk[t] EXCEPT !.sent = @ + 1].got = tk[t].got
          /\ [tk[t] EXCEPT !.sent = @ + 1].intact = tk[t].intact
      BY DEF Locals
    <3>. QED BY <3>1, <3>2
  <2>. QED BY <1>4, <2>1 DEF Send
<1>5. ASSUME NEW t \in Tasks, Acquire(t) \/ Spawn(t) PROVE ServedIntact'
  BY <1>5 DEF Acquire, Spawn
<1>6. ASSUME NEW t \in Tasks,
             \/ GetObject(t) \/ Receive(t) \/ LoseBody(t) \/ Disconnect(t)
             \/ \E n \in 0 .. MaxText + 1 : Parse(t, n)
             \/ Finish(t) \/ Break(t) \/ TimeOut(t) \/ Release(t) \/ Close(t)
      PROVE  ServedIntact'
  <2>1. /\ pc'[t] \notin Using /\ pc' = [pc EXCEPT ![t] = pc'[t]]
        /\ \A x \in Tasks : x # t => tk'[x] = tk[x]
    BY <1>6
    DEF Using, GetObject, Receive, LoseBody, Disconnect, Parse, Finish, Break, TimeOut, Release,
        Close
  <2>. QED BY <2>1 DEF Using
<1>7. CASE UNCHANGED vars
  BY <1>7 DEF vars
<1>. QED
  BY <1>1, <1>2, <1>3, <1>4, <1>5, <1>6, <1>7 DEF Next, Thread, Stream, Child, Copy
-----------------------------------------------------------------------------
(* Slots and children. *)

LEMMA AccountedStep ==
  ASSUME TypeInv, TypeInv', Named, Accounted, [Next]_vars
  PROVE  Accounted'
<1>. USE DEF TypeInv
<1>1. IsFiniteSet(Holding) /\ IsFiniteSet(InChild)
  BY ConstantsAssumption, FS_Subset DEF Holding, InChild
<1>2. Cardinality(Holding) \in Nat /\ Cardinality(InChild) \in Nat
  BY <1>1, FS_CardinalityType
<1>3. ASSUME NEW t \in Tasks, Acquire(t), pc'[t] = "spawn" PROVE Accounted'
  <2>1. Holding' = Holding \cup {t} /\ t \notin Holding /\ InChild' = InChild
    BY <1>3 DEF Acquire, Refuse, Goto, Holding, InChild
  <2>2. slots' = slots - 1 /\ children' = children
    BY <1>3 DEF Acquire, Refuse, Goto
  <2>3. Cardinality(Holding') = Cardinality(Holding) + 1
    BY <1>1, <2>1, FS_AddElement
  <2>. QED BY <1>2, <2>1, <2>2, <2>3, ConstantsAssumption DEF Accounted
<1>4. ASSUME NEW t \in Tasks, Spawn(t), pc'[t] = "child" PROVE Accounted'
  <2>1. Holding' = Holding /\ InChild' = InChild \cup {t} /\ t \notin InChild
    BY <1>4 DEF Spawn, Refuse, Goto, Holding, InChild
  <2>2. slots' = slots /\ children' = children + 1
    BY <1>4 DEF Spawn, Refuse, Goto
  <2>3. Cardinality(InChild') = Cardinality(InChild) + 1
    BY <1>1, <2>1, FS_AddElement
  <2>. QED BY <1>2, <2>1, <2>2, <2>3 DEF Accounted
<1>5. ASSUME NEW t \in Tasks, pc[t] = "child", pc' = [pc EXCEPT ![t] = "release"],
             children' = children - 1, slots' = slots
      PROVE  Accounted'
  <2>1. Holding' = Holding /\ InChild' = InChild \ {t} /\ t \in InChild
    BY <1>5 DEF Holding, InChild
  <2>2. Cardinality(InChild') = Cardinality(InChild) - 1
    BY <1>1, <2>1, FS_RemoveElement
  <2>. QED BY <1>2, <1>5, <2>1, <2>2 DEF Accounted
<1>6. ASSUME NEW t \in Tasks, Release(t) PROVE Accounted'
  <2>1. Holding' = Holding \ {t} /\ t \in Holding /\ InChild' = InChild
    BY <1>6 DEF Release, Goto, Holding, InChild
  <2>2. slots' = slots + 1 /\ children' = children
    BY <1>6 DEF Release, Released
  <2>3. Cardinality(Holding') = Cardinality(Holding) - 1
    BY <1>1, <2>1, FS_RemoveElement
  <2>. QED BY <1>2, <2>1, <2>2, <2>3, ConstantsAssumption DEF Accounted
<1>7. ASSUME Holding' = Holding, InChild' = InChild, slots' = slots, children' = children
      PROVE  Accounted'
  BY <1>7 DEF Accounted
<1>8. ASSUME NEW t \in Tasks,
             \/ \E job \in Jobs : Begin(t, job)
             \/ Copy(t) \/ Stream(t) \/ Close(t) \/ \E n \in 0 .. MaxText + 1 : Parse(t, n)
      PROVE  Accounted'
  <2>1. /\ slots' = slots /\ children' = children
        /\ pc' = [pc EXCEPT ![t] = pc'[t]]
        /\ pc[t] \notin {"spawn", "child", "release"} /\ pc'[t] \notin {"spawn", "child", "release"}
    BY <1>8
    DEF Begin, Copy, Stream, Close, Parse, GetObject, Receive, EndOfBody, LoseBody, Send,
        Disconnect, Refuse, Goto, Use, Named, Jobs
  <2>. QED BY <1>7, <2>1 DEF Holding, InChild
<1>9. ASSUME NEW t \in Tasks, Acquire(t), pc'[t] # "spawn" PROVE Accounted'
  BY <1>7, <1>9 DEF Acquire, Refuse, Goto, Holding, InChild
<1>10. ASSUME NEW t \in Tasks, Spawn(t), pc'[t] # "child" PROVE Accounted'
  BY <1>7, <1>10 DEF Spawn, Refuse, Goto, Holding, InChild
<1>11. ASSUME NEW t \in Tasks, Child(t) \/ TimeOut(t) PROVE Accounted'
  BY <1>5, <1>7, <1>11
  DEF Child, TimeOut, ReadPage, Finish, Break, Refuse, Goto, Reaped, Holding, InChild
<1>12. CASE UNCHANGED vars
  BY <1>7, <1>12 DEF vars, Holding, InChild
<1>. QED
  BY <1>3, <1>4, <1>6, <1>8, <1>9, <1>10, <1>11, <1>12 DEF Next, Thread, Copy, Stream

-----------------------------------------------------------------------------
(* Texts. *)

LEMMA PagesStep ==
  ASSUME TypeInv, PagesCounted, [Next]_vars
  PROVE  PagesCounted'
<1>. USE DEF TypeInv, Goto, Refuse
<1>1. ASSUME NEW t \in Tasks, NEW n \in PageSizes, NEW solid \in BOOLEAN, ReadPage(t, n, solid),
             ~(Counted(t, n) > MaxText), tk' = [tk EXCEPT ![t] = Read(t, n, solid)]
      PROVE  PagesCounted'
  <2>1. JoinedLength(tk'[t].parts) = tk'[t].characters
    <3>1. tk[t].parts \in Seq(Nat) /\ n \in Nat
      BY JoinedTyped, ConstantsAssumption
    <3>2. JoinedLength(Append(tk[t].parts, n)) = Counted(t, n)
      BY <3>1, JoinedPage DEF Counted, PagesCounted
    <3>. QED BY <1>1, <3>2, ReadTyped
  <2>2. tk'[t].characters <= MaxText
    <3>1. Counted(t, n) \in Nat /\ MaxText \in Nat
      BY ReadTyped, ConstantsAssumption
    <3>. QED BY <1>1, <3>1, ReadTyped
  <2>. QED BY <1>1, <2>1, <2>2 DEF PagesCounted
<1>2. ASSUME NEW t \in Tasks, \A x \in Tasks : x # t => tk'[x] = tk[x],
             \/ tk'[t].parts = tk[t].parts /\ tk'[t].characters = tk[t].characters
             \/ tk'[t].parts = <<>> /\ tk'[t].characters = 0
      PROVE  PagesCounted'
  BY <1>2, JoinedNothing, ConstantsAssumption DEF PagesCounted
<1>3. ASSUME NEW t \in Tasks, Refuse(t, "close") \/ Refuse(t, "release")
      PROVE  PagesCounted'
  BY <1>2, <1>3 DEF Nothing, NoTask
<1>4. ASSUME NEW t \in Tasks, NEW job \in Jobs, Begin(t, job) PROVE PagesCounted'
  BY <1>2, <1>4 DEF Begin, NoTask
<1>5. ASSUME NEW t \in Tasks, Copy(t) \/ Stream(t) PROVE PagesCounted'
  <2>1. CASE GetObject(t) \/ EndOfBody(t) \/ LoseBody(t) \/ Disconnect(t)
    BY <1>2, <1>3, <2>1 DEF GetObject, EndOfBody, LoseBody, Disconnect
  <2>2. CASE Receive(t)
    <3>1. CASE Refuse(t, "close")
      BY <1>3, <3>1
    <3>2. CASE \E good \in BOOLEAN :
                 tk' = [tk EXCEPT ![t] = [tk[t] EXCEPT !.got = @ + 1, !.intact = @ /\ good]]
      <4>1. PICK good \in BOOLEAN :
              tk' = [tk EXCEPT ![t] = [tk[t] EXCEPT !.got = @ + 1, !.intact = @ /\ good]]
        BY <3>2
      <4>2. tk[t] \in Locals
        OBVIOUS
      <4>3. /\ [tk[t] EXCEPT !.got = @ + 1, !.intact = @ /\ good].parts = tk[t].parts
            /\ [tk[t] EXCEPT !.got = @ + 1, !.intact = @ /\ good].characters = tk[t].characters
        BY <4>2, Zenon DEF Locals
      <4>. QED BY <1>2, <4>1, <4>3
    <3>. QED BY <2>2, <3>1, <3>2 DEF Receive
  <2>3. CASE Send(t)
    <3>1. tk[t] \in Locals
      OBVIOUS
    <3>2. /\ [tk[t] EXCEPT !.sent = @ + 1].parts = tk[t].parts
          /\ [tk[t] EXCEPT !.sent = @ + 1].characters = tk[t].characters
      BY <3>1, Zenon DEF Locals
    <3>. QED BY <1>2, <2>3, <3>2 DEF Send
  <2>. QED BY <1>5, <2>1, <2>2, <2>3 DEF Copy, Stream
<1>6. ASSUME NEW t \in Tasks, NEW text, NEW solid, tk' = [tk EXCEPT ![t] =
               [Nothing(t) EXCEPT !.text = text, !.solid = solid]]
      PROVE  PagesCounted'
  BY <1>2, <1>6 DEF Nothing, NoTask
<1>7. ASSUME NEW t \in Tasks, NEW n \in 0 .. MaxText + 1, Parse(t, n) PROVE PagesCounted'
  <2>1. CASE tk' = [tk EXCEPT ![t] = [Nothing(t) EXCEPT !.text = n]]
    BY <1>2, <2>1 DEF Nothing, NoTask
  <2>. QED BY <1>3, <1>7, <2>1 DEF Parse
<1>8. ASSUME NEW t \in Tasks, Finish(t) \/ Close(t) PROVE PagesCounted'
  BY <1>3, <1>6, <1>8 DEF Finish, Close
<1>9. ASSUME NEW t \in Tasks,
             Acquire(t) \/ Spawn(t) \/ Break(t) \/ TimeOut(t) \/ Release(t)
      PROVE  PagesCounted'
  BY <1>2, <1>3, <1>9 DEF Acquire, Spawn, Break, TimeOut, Release
<1>10. ASSUME NEW t \in Tasks, NEW n \in PageSizes, NEW solid \in BOOLEAN, ReadPage(t, n, solid)
       PROVE  PagesCounted'
  BY <1>1, <1>3, <1>10, ReadPageCases
<1>11. CASE UNCHANGED vars
  BY <1>11 DEF vars, PagesCounted
<1>. QED
  BY <1>4, <1>5, <1>7, <1>8, <1>9, <1>10, <1>11 DEF Next, Thread, Child

LEMMA ParsedStep ==
  ASSUME TypeInv, Named, ParsedPlain, [Next]_vars
  PROVE  ParsedPlain'
<1>. USE DEF TypeInv, ParsedPlain, Goto, Refuse
<1>1. ASSUME NEW t \in Tasks, pc'[t] # "parse", \A x \in Tasks : x # t => tk'[x] = tk[x],
             \A x \in Tasks : x # t => pc'[x] = pc[x]
      PROVE  ParsedPlain'
  BY <1>1
<1>2. ASSUME NEW t \in Tasks, EndOfBody(t) PROVE ParsedPlain'
  BY <1>2 DEF EndOfBody, Use, Named, Jobs
<1>3. ASSUME NEW t \in Tasks, \/ \E job \in Jobs : Begin(t, job)
                              \/ GetObject(t) \/ LoseBody(t) \/ Receive(t)
      PROVE  ParsedPlain'
  BY <1>1, <1>3 DEF Begin, GetObject, LoseBody, Receive
<1>4. ASSUME NEW t \in Tasks, \/ Stream(t) \/ \E n \in 0 .. MaxText + 1 : Parse(t, n)
                              \/ Acquire(t) \/ Spawn(t) \/ TimeOut(t) \/ Release(t) \/ Close(t)
      PROVE  ParsedPlain'
  BY <1>1, <1>4 DEF Stream, Send, Disconnect, Parse, Acquire, Spawn, TimeOut, Release, Close
<1>5. ASSUME NEW t \in Tasks, Child(t) PROVE ParsedPlain'
  <2>1. ASSUME NEW n \in PageSizes, NEW solid \in BOOLEAN, ReadPage(t, n, solid)
        PROVE  ParsedPlain'
    BY <1>1, <2>1, ReadPageCases DEF ReadPage
  <2>. QED BY <1>1, <1>5, <2>1 DEF Child, Finish, Break
<1>6. CASE UNCHANGED vars
  BY <1>6 DEF vars
<1>. QED BY <1>2, <1>3, <1>4, <1>5, <1>6 DEF Next, Thread, Copy

LEMMA TextStep ==
  ASSUME TypeInv, ParsedPlain, PagesCounted, TextFits, [Next]_vars
  PROVE  TextFits'
<1>. USE DEF TypeInv, Goto, Refuse
<1>1. ASSUME NEW t \in Tasks, \A x \in Tasks : x # t => tk'[x] = tk[x],
             tk'[t].text >= 0 => tk'[t].text <= MaxText /\ (tk'[t].job = "pdf" => tk'[t].solid)
      PROVE  TextFits'
  BY <1>1 DEF TextFits
<1>2. ASSUME NEW t \in Tasks, \A x \in Tasks : x # t => tk'[x] = tk[x],
             tk'[t].text = tk[t].text, tk'[t].job = tk[t].job, tk[t].solid => tk'[t].solid
      PROVE  TextFits'
  BY <1>2 DEF TextFits
<1>3. ASSUME NEW t \in Tasks, Refuse(t, "close") \/ Refuse(t, "release")
      PROVE  TextFits'
  BY <1>1, <1>3 DEF Nothing, NoTask
<1>4. ASSUME NEW t \in Tasks, NEW job \in Jobs, Begin(t, job) PROVE TextFits'
  BY <1>1, <1>4 DEF Begin, NoTask
<1>5. ASSUME NEW t \in Tasks, Copy(t) \/ Stream(t) PROVE TextFits'
  <2>1. CASE GetObject(t) \/ EndOfBody(t) \/ LoseBody(t) \/ Disconnect(t)
    BY <1>2, <1>3, <2>1 DEF GetObject, EndOfBody, LoseBody, Disconnect
  <2>2. CASE Receive(t)
    <3>1. CASE Refuse(t, "close")
      BY <1>3, <3>1
    <3>2. CASE \E good \in BOOLEAN :
                 tk' = [tk EXCEPT ![t] = [tk[t] EXCEPT !.got = @ + 1, !.intact = @ /\ good]]
      <4>1. PICK good \in BOOLEAN :
              tk' = [tk EXCEPT ![t] = [tk[t] EXCEPT !.got = @ + 1, !.intact = @ /\ good]]
        BY <3>2
      <4>2. tk[t] \in Locals
        OBVIOUS
      <4>3. /\ [tk[t] EXCEPT !.got = @ + 1, !.intact = @ /\ good].text = tk[t].text
            /\ [tk[t] EXCEPT !.got = @ + 1, !.intact = @ /\ good].job = tk[t].job
            /\ [tk[t] EXCEPT !.got = @ + 1, !.intact = @ /\ good].solid = tk[t].solid
        BY <4>2, Zenon DEF Locals
      <4>. QED BY <1>2, <4>1, <4>3
    <3>. QED BY <2>2, <3>1, <3>2 DEF Receive
  <2>3. CASE Send(t)
    <3>1. tk[t] \in Locals
      OBVIOUS
    <3>2. /\ [tk[t] EXCEPT !.sent = @ + 1].text = tk[t].text
          /\ [tk[t] EXCEPT !.sent = @ + 1].job = tk[t].job
          /\ [tk[t] EXCEPT !.sent = @ + 1].solid = tk[t].solid
      BY <3>1, Zenon DEF Locals
    <3>. QED BY <1>2, <2>3, <3>2 DEF Send
  <2>. QED BY <1>5, <2>1, <2>2, <2>3 DEF Copy, Stream
<1>6. ASSUME NEW t \in Tasks, NEW n \in 0 .. MaxText + 1, Parse(t, n) PROVE TextFits'
  <2>1. CASE /\ n <= MaxText
             /\ tk' = [tk EXCEPT ![t] = [Nothing(t) EXCEPT !.text = n]]
    <3>1. tk[t].job = "plain"
      BY <1>6 DEF Parse, ParsedPlain
    <3>2. tk'[t].text = n /\ tk'[t].job = "plain"
      BY <2>1, <3>1 DEF Nothing, NoTask
    <3>. QED BY <1>1, <2>1, <3>2
  <2>. QED BY <1>3, <1>6, <2>1 DEF Parse
<1>7. ASSUME NEW t \in Tasks, Finish(t) PROVE TextFits'
  <2>1. CASE tk' = [tk EXCEPT ![t] = [Nothing(t) EXCEPT !.text = JoinedLength(tk[t].parts),
                                                        !.solid = TRUE]]
    <3>1. tk'[t].text = JoinedLength(tk[t].parts) /\ tk'[t].solid = TRUE
      BY <2>1 DEF Nothing, NoTask
    <3>2. JoinedLength(tk[t].parts) <= MaxText
      BY DEF PagesCounted
    <3>. QED BY <1>1, <2>1, <3>1, <3>2
  <2>. QED BY <1>3, <1>7, <2>1 DEF Finish
<1>8. ASSUME NEW t \in Tasks, Close(t) PROVE TextFits'
  <2>1. tk'[t].text = tk[t].text /\ tk'[t].solid = tk[t].solid /\ tk'[t].job = tk[t].job
    BY <1>8 DEF Close, Nothing, NoTask
  <2>. QED BY <1>2, <1>8, <2>1 DEF Close
<1>9. ASSUME NEW t \in Tasks,
             Acquire(t) \/ Spawn(t) \/ Break(t) \/ TimeOut(t) \/ Release(t)
      PROVE  TextFits'
  BY <1>2, <1>3, <1>9 DEF Acquire, Spawn, Break, TimeOut, Release
<1>10. ASSUME NEW t \in Tasks, NEW n \in PageSizes, NEW solid \in BOOLEAN, ReadPage(t, n, solid)
       PROVE  TextFits'
  <2>1. CASE tk' = [tk EXCEPT ![t] = Read(t, n, solid)]
    BY <1>2, <2>1, ReadTyped
  <2>. QED BY <1>3, <1>10, <2>1, ReadPageCases
<1>11. CASE UNCHANGED vars
  BY <1>11 DEF vars, TextFits
<1>. QED
  BY <1>4, <1>5, <1>6, <1>7, <1>8, <1>9, <1>10, <1>11 DEF Next, Thread, Child

-----------------------------------------------------------------------------
LEMMA Invariance == Spec => []Inv
<1>1. Inv /\ [Next]_vars => Inv'
  BY TypeStep, NamedStep, AccountedStep, FilesStep, ServedStep, PagesStep, ParsedStep, TextStep
  DEF Inv
<1>. QED BY <1>1, InvInit, PTL DEF Spec

(* For any number of threads and slots: every child occupies a slot, and   *)
(* no extraction that ended, however it ended, keeps one.                  *)
THEOREM BoundedChildren == Spec => []ChildrenBounded
<1>1. ASSUME Inv PROVE ChildrenBounded
  <2>1. IsFiniteSet(Holding) /\ InChild \subseteq Holding
    BY ConstantsAssumption, FS_Subset DEF Holding, InChild
  <2>2. /\ Cardinality(InChild) <= Cardinality(Holding)
        /\ Cardinality(InChild) \in Nat /\ Cardinality(Holding) \in Nat
    BY <2>1, FS_Subset, FS_CardinalityType
  <2>. QED BY <1>1, <2>2, ConstantsAssumption DEF Inv, TypeInv, Accounted, ChildrenBounded, InChild
<1>. QED BY <1>1, Invariance, PTL

(* For objects of any size: what a client or a parser reads is the whole   *)
(* registered object, from a file that is open.                            *)
THEOREM IntactService == Spec => []ServedIntact
<1>1. Inv => ServedIntact
  BY DEF Inv
<1>. QED BY <1>1, Invariance, PTL

(* For pages of any number and size: what a child joins is as long as it   *)
(* has counted, so every text that is answered fits into its row, and that *)
(* of a PDF has substance.                                                 *)
THEOREM FittingTexts == Spec => []TextFits
<1>1. Inv => TextFits
  BY DEF Inv
<1>. QED BY <1>1, Invariance, PTL

(* A file is open while its task is under way and no longer: neither a     *)
(* refusal, a client that leaves, nor a child that hangs leaves one behind. *)
FilesClosed == open = {t \in Tasks : pc[t] # "done"}

LEMMA FilesClosedStep ==
  ASSUME TypeInv, Named, FilesClosed, [Next]_vars
  PROVE  FilesClosed'
<1>. USE DEF TypeInv, FilesClosed
<1>1. ASSUME NEW t \in Tasks, NEW job \in Jobs, Begin(t, job) PROVE FilesClosed'
  BY <1>1 DEF Begin, Goto
<1>2. ASSUME NEW t \in Tasks, Close(t) PROVE FilesClosed'
  BY <1>2 DEF Close, Goto
<1>3. ASSUME NEW t \in Tasks, open' = open, pc[t] # "done", pc'[t] # "done",
             \A s \in Tasks \ {t} : pc'[s] = pc[s]
      PROVE  FilesClosed'
  BY <1>3
<1>4. ASSUME NEW t \in Tasks, Copy(t) PROVE FilesClosed'
  <2>1. Use(tk[t].job) # "done" \/ pc[t] = "done"
    BY DEF Named, Jobs, Use
  <2>2. open' = open /\ pc[t] # "done"
    BY <1>4 DEF Copy, GetObject, Receive, EndOfBody, LoseBody
  <2>3. pc'[t] # "done" /\ \A s \in Tasks \ {t} : pc'[s] = pc[s]
    BY <1>4, <2>1 DEF Copy, GetObject, Receive, EndOfBody, LoseBody, Refuse, Goto
  <2>. QED BY <1>3, <2>2, <2>3
<1>5. ASSUME NEW t \in Tasks, NEW n \in 0 .. MaxText + 1,
             Parse(t, n) \/ Acquire(t) \/ Spawn(t) \/ TimeOut(t) \/ Release(t) \/ Stream(t)
      PROVE  FilesClosed'
  BY <1>3, <1>5
  DEF Parse, Acquire, Spawn, TimeOut, Release, Stream, Send, Disconnect, Refuse, Goto
<1>6. ASSUME NEW t \in Tasks, Child(t) PROVE FilesClosed'
  BY <1>3, <1>6 DEF Child, ReadPage, Finish, Break, Refuse, Goto
<1>7. CASE UNCHANGED vars
  BY <1>7 DEF vars
<1>8. 0 \in 0 .. MaxText + 1
  BY ConstantsAssumption
<1>. QED BY <1>1, <1>2, <1>4, <1>5, <1>6, <1>7, <1>8 DEF Next, Thread

(* The temporary files of a process are those of the extractions and       *)
(* downloads under way, for any number of either.                          *)
THEOREM NoFileLeft == Spec => []FilesClosed
<1>1. Init => FilesClosed
  BY DEF Init, FilesClosed
<1>2. Inv /\ FilesClosed /\ [Next]_vars => FilesClosed'
  BY FilesClosedStep DEF Inv
<1>. QED BY <1>1, <1>2, Invariance, PTL DEF Spec
=============================================================================
