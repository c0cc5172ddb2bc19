--------------------------- MODULE TextExtraction ---------------------------
(***************************************************************************)
(* What happens in one Python process when content is served: a download   *)
(* is copied from the bucket into a temporary file, verified, and then     *)
(* streamed to the client or parsed. PDF text is read by a child process,  *)
(* and all threads of the process share the slots for such children.       *)
(* Extractions takes Extract and ReadBack of this as single steps.         *)
(***************************************************************************)
EXTENDS Integers, Sequences, FiniteSets

CONSTANTS
  Tasks,      \* threads of request handlers, each serving one after another
  Slots,      \* children that may parse at the same time (2)
  Size,       \* registered size of the objects, in chunks
  MaxText,    \* most characters of a text (1_000_000)
  MaxPages,   \* most pages of a PDF (100)
  PageSizes   \* characters a page may have

ASSUME ConstantsAssumption ==
  /\ IsFiniteSet(Tasks)
  /\ {Size, Slots} \subseteq Nat \ {0}
  /\ {MaxText, MaxPages} \subseteq Nat
  /\ PageSizes \subseteq Nat

VARIABLES
  slots,     \* value of the semaphore _slots
  children,  \* PDF children of this process that the system still runs
  open,      \* tasks whose temporary file is open
  pc, tk     \* where each task stands, and its locals

vars == <<slots, children, open, pc, tk>>

Jobs == {"download", "plain", "pdf"}

(* parts, characters and solid are locals of the child: the lengths of the *)
(* pages read so far, its count of characters, and whether one of the      *)
(* pages has more than whitespace. text is the length of the text that is  *)
(* returned, -1 while there is none.                                       *)
NoTask == [job |-> "none", got |-> 0, intact |-> TRUE, sent |-> 0,
           parts |-> <<>>, characters |-> 0, solid |-> FALSE, text |-> -1]

Init ==
  /\ slots = Slots
  /\ children = 0
  /\ open = {}
  /\ pc = [t \in Tasks |-> "done"]
  /\ tk = [t \in Tasks |-> NoTask]

Goto(t, label) == pc' = [pc EXCEPT ![t] = label]

(* What a task that is not answered with text keeps until it is done. *)
Nothing(t) == [NoTask EXCEPT !.job = tk[t].job]

Refuse(t, label) == tk' = [tk EXCEPT ![t] = Nothing(t)] /\ Goto(t, label)

-----------------------------------------------------------------------------
(* The object is copied into the temporary file.                           *)

(* The row was read: the version is clean, its format is supported and its *)
(* size within the limit. The transaction ends and the file is opened.     *)
Begin(t, job) ==
  /\ pc[t] = "done"
  /\ open' = open \cup {t}
  /\ tk' = [tk EXCEPT ![t] = [NoTask EXCEPT !.job = job]]
  /\ Goto(t, "get")
  /\ UNCHANGED <<slots, children>>

(* GetObject of the version the row names; a ContentLength other than the  *)
(* registered size is refused.                                             *)
GetObject(t) ==
  /\ pc[t] = "get"
  /\ \/ Goto(t, "receive") /\ UNCHANGED tk
     \/ Refuse(t, "close")
  /\ UNCHANGED <<slots, children, open>>

(* A chunk arrives, the registered one or another. *)
Receive(t) ==
  /\ pc[t] = "receive"
  /\ IF tk[t].got = Size
     THEN Refuse(t, "close")
     ELSE /\ \E good \in BOOLEAN :
               tk' = [tk EXCEPT ![t].got = @ + 1, ![t].intact = @ /\ good]
          /\ UNCHANGED pc
  /\ UNCHANGED <<slots, children, open>>

(* Faulty: the number of bytes is compared and the digest is not. *)
VerifiedBySize(t) == tk[t].got = Size

Verified(t) == tk[t].got = Size /\ tk[t].intact

Use(job) ==
  CASE job = "download" -> "stream"
    [] job = "plain" -> "parse"
    [] job = "pdf" -> "acquire"

(* The body ends: size and digest decide. *)
EndOfBody(t) ==
  /\ pc[t] = "receive"
  /\ IF Verified(t) THEN Goto(t, Use(tk[t].job)) /\ UNCHANGED tk ELSE Refuse(t, "close")
  /\ UNCHANGED <<slots, children, open>>

(* The store refuses or breaks off, or the 120 s are over. *)
LoseBody(t) ==
  /\ pc[t] \in {"get", "receive"}
  /\ Refuse(t, "close")
  /\ UNCHANGED <<slots, children, open>>

-----------------------------------------------------------------------------
(* A download is streamed from the file, at the pace of the client.        *)

Send(t) ==
  /\ pc[t] = "stream"
  /\ IF tk[t].sent < Size
     THEN tk' = [tk EXCEPT ![t].sent = @ + 1] /\ UNCHANGED pc
     ELSE Goto(t, "close") /\ UNCHANGED tk
  /\ UNCHANGED <<slots, children, open>>

Disconnect(t) ==
  /\ pc[t] = "stream"
  /\ Goto(t, "close")
  /\ UNCHANGED <<slots, children, open, tk>>

-----------------------------------------------------------------------------
(* Plain text and DOCX are parsed in the thread.                           *)

(* n characters, or a refusal of what cannot be decoded. Here an empty     *)
(* text is an answer too.                                                  *)
Parse(t, n) ==
  /\ pc[t] = "parse"
  /\ \/ /\ n <= MaxText
        /\ tk' = [tk EXCEPT ![t] = [Nothing(t) EXCEPT !.text = n]]
        /\ Goto(t, "close")
     \/ Refuse(t, "close")
  /\ UNCHANGED <<slots, children, open>>

-----------------------------------------------------------------------------
(* A PDF is parsed by a child.                                             *)

(* A slot is taken without waiting. *)
Acquire(t) ==
  /\ pc[t] = "acquire"
  /\ IF slots > 0
     THEN slots' = slots - 1 /\ Goto(t, "spawn") /\ UNCHANGED tk
     ELSE Refuse(t, "close") /\ UNCHANGED slots
  /\ UNCHANGED <<children, open>>

(* The child starts, or cannot be started (OSError). *)
Spawn(t) ==
  /\ pc[t] = "spawn"
  /\ \/ children' = children + 1 /\ Goto(t, "child") /\ UNCHANGED tk
     \/ Refuse(t, "release") /\ UNCHANGED children
  /\ UNCHANGED <<slots, open>>

(* Faulty: the newlines between the pages are not counted. *)
CountedWithoutNewline(t, n) == tk[t].characters + n

(* characters += len(text) + (1 if parts else 0): what a page of n         *)
(* characters adds, with the newline before it.                            *)
Counted(t, n) == tk[t].characters + n + (IF tk[t].parts = <<>> THEN 0 ELSE 1)

(* The child has ended and its parent has collected it. *)
Reaped(t) == children' = children - 1

(* The child reads a page; past the limit it exits with 3.                 *)
ReadPage(t, n, solid) ==
  /\ pc[t] = "child"
  /\ Len(tk[t].parts) < MaxPages
  /\ IF Counted(t, n) > MaxText
     THEN Refuse(t, "release") /\ Reaped(t)
     ELSE /\ tk' = [tk EXCEPT ![t].characters = Counted(t, n),
                              ![t].parts = Append(@, n), ![t].solid = @ \/ solid]
          /\ UNCHANGED <<pc, children>>
  /\ UNCHANGED <<slots, open>>

(* "\n".join(parts): where each page ends in the text, and the length of   *)
(* the whole.                                                              *)
Ends(parts) ==
  LET end[i \in 0 .. Len(parts)] ==
        IF i = 0 THEN 0 ELSE end[i - 1] + (IF i = 1 THEN 0 ELSE 1) + parts[i]
  IN  end

JoinedLength(parts) == Ends(parts)[Len(parts)]

(* All pages are read: text with substance is the answer, otherwise the    *)
(* child exits with 4.                                                     *)
Finish(t) ==
  /\ pc[t] = "child"
  /\ IF tk[t].solid
     THEN /\ tk' = [tk EXCEPT ![t] = [Nothing(t) EXCEPT !.text = JoinedLength(tk[t].parts),
                                                        !.solid = TRUE]]
          /\ Goto(t, "release")
     ELSE Refuse(t, "release")
  /\ Reaped(t)
  /\ UNCHANGED <<slots, open>>

(* Any other exit: encrypted, too many pages or streams, out of memory or  *)
(* of processor time, killed by a signal.                                  *)
Break(t) ==
  /\ pc[t] = "child"
  /\ Refuse(t, "release")
  /\ Reaped(t)
  /\ UNCHANGED <<slots, open>>

(* Faulty: the parent gives up and the child goes on. *)
TimeOutLeaving(t) ==
  /\ pc[t] = "child"
  /\ Refuse(t, "release")
  /\ UNCHANGED <<slots, children, open>>

(* 15 s are over: subprocess.run kills the child and waits for its end. *)
TimeOut(t) ==
  /\ pc[t] = "child"
  /\ Refuse(t, "release")
  /\ Reaped(t)
  /\ UNCHANGED <<slots, open>>

(* Faulty: only a child that answered gives its slot back. *)
ReleasedIfAnswered(t) == IF tk[t].text >= 0 THEN slots + 1 ELSE slots

Released(t) == slots + 1

Release(t) ==
  /\ pc[t] = "release"
  /\ slots' = Released(t)
  /\ Goto(t, "close")
  /\ UNCHANGED <<children, open, tk>>

(* Every path ends by closing the file. *)
Close(t) ==
  /\ pc[t] = "close"
  /\ open' = open \ {t}
  /\ tk' = [tk EXCEPT ![t] = [Nothing(t) EXCEPT !.text = tk[t].text, !.solid = tk[t].solid]]
  /\ Goto(t, "done")
  /\ UNCHANGED <<slots, children>>

-----------------------------------------------------------------------------
Copy(t) == GetObject(t) \/ Receive(t) \/ EndOfBody(t) \/ LoseBody(t)

Stream(t) == Send(t) \/ Disconnect(t)

Child(t) == (\E n \in PageSizes, solid \in BOOLEAN : (solid => n > 0) /\ ReadPage(t, n, solid))
              \/ Finish(t) \/ Break(t)

Thread(t) ==
  \/ Copy(t) \/ \E n \in 0 .. MaxText + 1 : Parse(t, n)
  \/ Acquire(t) \/ Spawn(t) \/ TimeOut(t) \/ Release(t) \/ Close(t)

Next ==
  \E t \in Tasks :
    (\E job \in Jobs : Begin(t, job)) \/ Thread(t) \/ Stream(t) \/ Child(t)

Spec == Init /\ [][Next]_vars

(* Scheduling: threads go on, with the deadline of the copy and the        *)
(* timeout of the child behind them; nothing is assumed of the child or of *)
(* the client.                                                             *)
FairSpec == Spec /\ \A t \in Tasks : WF_vars(Thread(t))

-----------------------------------------------------------------------------
Holding == {t \in Tasks : pc[t] \in {"spawn", "child", "release"}}

(* No more children run than there are slots, whatever became of the       *)
(* extractions that started them, and the semaphore counts what is free.   *)
ChildrenBounded ==
  /\ children <= Slots
  /\ children = Cardinality({t \in Tasks : pc[t] = "child"})
  /\ slots + Cardinality(Holding) = Slots

(* No byte reaches a client or a parser unless the whole object has been   *)
(* received, is the registered one, and its file is still open.            *)
ServedIntact ==
  \A t \in Tasks :
    pc[t] \in {"stream", "parse", "acquire", "spawn", "child"} =>
      tk[t].got = Size /\ tk[t].intact /\ t \in open

(* A text that is returned fits into the row that may name it: within      *)
(* valid_text_length of db/models.py, the newlines the child puts between  *)
(* the pages included; that of a PDF has more than whitespace.             *)
TextFits ==
  \A t \in Tasks : tk[t].text >= 0 =>
    /\ tk[t].text <= MaxText
    /\ tk[t].job = "pdf" => tk[t].solid

(* A process that serves extractions without end keeps the means to: again *)
(* and again a slot is free, and the file of every extraction is closed.   *)
ResourcesReturn ==
  /\ []<>(slots > 0)
  /\ \A t \in Tasks : (t \in open /\ tk[t].job # "download") ~> (t \notin open)
=============================================================================
