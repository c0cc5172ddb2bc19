---------------------------- MODULE ReviewsProofs ----------------------------
(* Proofs about the contract review, for every value of the constants. *)
EXTENDS Reviews, SequenceTheorems, TLAPS

(* What a review has in its hands. *)
Held == [v : Versions \cup {None}, user : Users \cup {None}, source : Texts \cup {None},
         calls : Nat, findings : (SUBSET Findings) \cup {None}]

TypeInv ==
  /\ pc \in [Reviews -> Running \cup {"idle", "failed", "delivered"}]
  /\ rq \in [Reviews -> Held]
  /\ \A r \in Reviews : pc[r] # "idle" => rq[r].v \in Versions
  /\ stage \in [Versions -> {"unscanned", "rejected", "cleared", "saved"}]
  /\ text \in [Versions -> Texts]

(* A review that is about to read the membership finds it only if it was   *)
(* there since the review last received something.                         *)
Access ==
  \A r \in Reviews :
    /\ pc[r] = "reauthorize" /\ rq[r].user \in readers => r \in vouched
    /\ pc[r] \in {"recheck", "call"} => r \in vouched

(* A review that is past its source holds the text of a cleared contract,  *)
(* and a draft that it has kept quotes that text.                          *)
Sourced(r) ==
  /\ rq[r].v \in Versions \cap contracts
  /\ stage[rq[r].v] = "saved"
  /\ rq[r].source = text[rq[r].v]

Quoting ==
  \A r \in Reviews :
    /\ pc[r] \in {"reauthorize", "recheck", "call", "wait", "delivered"} => Sourced(r)
    /\ rq[r].findings # None =>
         \A f \in rq[r].findings : f \in Findings /\ Exact(rq[r].source, f)
    /\ pc[r] \in {"load", "read"} => rq[r].findings = None
    /\ pc[r] = "delivered" => rq[r].findings # None

Inv == TypeInv /\ Access /\ Quoting

-----------------------------------------------------------------------------
LEMMA InvInit == Init => Inv
<1>. SUFFICES ASSUME Init PROVE Inv
  OBVIOUS
<1>1. NoReview \in Held
  BY DEF NoReview, Held
<1>2. TypeInv
  BY <1>1 DEF Init, TypeInv
<1>3. Access /\ Quoting
  BY DEF Init, Access, Quoting, NoReview
<1>. QED BY <1>2, <1>3 DEF Inv

LEMMA TypeStep ==
  ASSUME TypeInv, [Next]_vars
  PROVE  TypeInv'
<1>. USE DEF TypeInv
<1>1. ASSUME NEW r \in Reviews, NEW v \in Versions, NEW u \in Users, Start(r, v, u)
      PROVE  TypeInv'
  <2>1. /\ [NoReview EXCEPT !.v = v, !.user = u] \in Held
        /\ [NoReview EXCEPT !.v = v, !.user = u].v = v
    BY DEF NoReview, Held
  <2>. QED BY <1>1, <2>1 DEF Start, Goto, Running
<1>2. ASSUME NEW r \in Reviews, Load(r) PROVE TypeInv'
  BY <1>2 DEF Load, Goto, Running
<1>3. ASSUME NEW r \in Reviews, ReadSource(r) PROVE TypeInv'
  <2>1. rq[r].v \in Versions
    BY <1>3 DEF ReadSource
  <2>2. /\ [rq[r] EXCEPT !.source = text[rq[r].v]] \in Held
        /\ [rq[r] EXCEPT !.source = text[rq[r].v]].v = rq[r].v
    BY <2>1 DEF Held
  <2>. QED BY <1>3, <2>1, <2>2 DEF ReadSource, Goto, Running
<1>4. ASSUME NEW r \in Reviews, Reauthorize(r) PROVE TypeInv'
  BY <1>4 DEF Reauthorize, Goto, Running
<1>5. ASSUME NEW r \in Reviews, Recheck(r) PROVE TypeInv'
  BY <1>5 DEF Recheck, Goto, Running
<1>6. ASSUME NEW r \in Reviews, Call(r) PROVE TypeInv'
  <2>1. /\ [rq[r] EXCEPT !.calls = @ + 1] \in Held
        /\ [rq[r] EXCEPT !.calls = @ + 1].v = rq[r].v
    BY DEF Held
  <2>. QED BY <1>6, <2>1 DEF Call, Goto, Running
<1>7. ASSUME NEW r \in Reviews, Answer(r) PROVE TypeInv'
  <2>1. ASSUME NEW draft \in SUBSET Findings
        PROVE  /\ [rq[r] EXCEPT !.findings = draft] \in Held
               /\ [rq[r] EXCEPT !.findings = draft].v = rq[r].v
    BY DEF Held
  <2>2. CASE \E draft \in SUBSET Findings : rq' = [rq EXCEPT ![r].findings = draft]
    BY <1>7, <2>1, <2>2 DEF Answer, Goto, Running
  <2>3. CASE rq' = rq
    BY <1>7, <2>3 DEF Answer, Goto, Running
  <2>. QED BY <1>7, <2>2, <2>3 DEF Answer
<1>8. ASSUME NEW r \in Reviews, Unanswered(r) PROVE TypeInv'
  BY <1>8 DEF Unanswered, AfterNoAnswer, Goto, Running
<1>9. ASSUME NEW r \in Reviews, Fail(r) PROVE TypeInv'
  BY <1>9 DEF Fail, Goto, Running
<1>10. ASSUME NEW u \in Users, Revoke(u) \/ Grant(u) PROVE TypeInv'
  BY <1>10 DEF Revoke, Grant
<1>11. ASSUME NEW v \in Versions, NEW to \in {"rejected", "cleared", "saved"}, Advance(v, to)
       PROVE  TypeInv'
  BY <1>11 DEF Advance
<1>12. CASE UNCHANGED vars
  BY <1>12 DEF vars
<1>. QED
  BY <1>1, <1>2, <1>3, <1>4, <1>5, <1>6, <1>7, <1>8, <1>9, <1>10, <1>11, <1>12 DEF Next, Step

-----------------------------------------------------------------------------
(* Access. *)

LEMMA AccessStep ==
  ASSUME TypeInv, Access, [Next]_vars
  PROVE  Access'
<1>. USE DEF TypeInv, Access
<1>1. ASSUME NEW r \in Reviews, NEW v \in Versions, NEW u \in Users, Start(r, v, u)
      PROVE  Access'
  BY <1>1 DEF Start, Goto
<1>2. ASSUME NEW r \in Reviews, Load(r) PROVE Access'
  BY <1>2 DEF Load, Goto
<1>3. ASSUME NEW r \in Reviews, ReadSource(r) PROVE Access'
  <2>1. \A x \in Reviews : rq'[x].user = rq[x].user
    BY <1>3 DEF ReadSource, Held
  <2>. QED BY <1>3, <2>1 DEF ReadSource, ReceivesSomething, Goto
<1>4. ASSUME NEW r \in Reviews, Reauthorize(r) PROVE Access'
  BY <1>4 DEF Reauthorize, MayRead, Goto
<1>5. ASSUME NEW r \in Reviews, Recheck(r) PROVE Access'
  BY <1>5 DEF Recheck, Goto
<1>6. ASSUME NEW r \in Reviews, Call(r) PROVE Access'
  <2>1. \A x \in Reviews : rq'[x].user = rq[x].user
    BY <1>6 DEF Call, Held
  <2>. QED BY <1>6, <2>1 DEF Call, Goto
<1>7. ASSUME NEW r \in Reviews, Answer(r) PROVE Access'
  <2>1. \A x \in Reviews : rq'[x].user = rq[x].user
    BY <1>7 DEF Answer, Held
  <2>. QED BY <1>7, <2>1 DEF Answer, ReceivesSomething, Goto
<1>8. ASSUME NEW r \in Reviews, Unanswered(r) PROVE Access'
  BY <1>8 DEF Unanswered, AfterNoAnswer, ReceivesSomething, Goto
<1>9. ASSUME NEW r \in Reviews, Fail(r) PROVE Access'
  BY <1>9 DEF Fail, Goto
<1>10. ASSUME NEW u \in Users, Revoke(u) PROVE Access'
  BY <1>10 DEF Revoke
<1>11. ASSUME NEW u \in Users, Grant(u) PROVE Access'
  BY <1>11 DEF Grant
<1>12. ASSUME NEW v \in Versions, NEW to \in {"rejected", "cleared", "saved"}, Advance(v, to)
       PROVE  Access'
  BY <1>12 DEF Advance
<1>13. CASE UNCHANGED vars
  BY <1>13 DEF vars
<1>. QED
  BY <1>1, <1>2, <1>3, <1>4, <1>5, <1>6, <1>7, <1>8, <1>9, <1>10, <1>11, <1>12, <1>13
  DEF Next, Step
-----------------------------------------------------------------------------
(* Quoting. *)

(* Nothing that a review holds is taken back by the rest of the system.    *)
LEMMA QuotingStep ==
  ASSUME TypeInv, Quoting, [Next]_vars
  PROVE  Quoting'
<1>. USE DEF TypeInv, Quoting, Sourced
<1>1. ASSUME NEW r \in Reviews, NEW v \in Versions, NEW u \in Users, Start(r, v, u)
      PROVE  Quoting'
  BY <1>1 DEF Start, Goto, NoReview
<1>2. ASSUME NEW r \in Reviews, Load(r) PROVE Quoting'
  BY <1>2 DEF Load, Goto
<1>3. ASSUME NEW r \in Reviews, ReadSource(r) PROVE Quoting'
  BY <1>3 DEF ReadSource, Goto, Held
<1>4. ASSUME NEW r \in Reviews, Reauthorize(r) PROVE Quoting'
  BY <1>4 DEF Reauthorize, Goto
<1>5. ASSUME NEW r \in Reviews, Recheck(r) PROVE Quoting'
  BY <1>5 DEF Recheck, Goto
<1>6. ASSUME NEW r \in Reviews, Call(r) PROVE Quoting'
  BY <1>6 DEF Call, Goto, Held
<1>7. ASSUME NEW r \in Reviews, Answer(r) PROVE Quoting'
  BY <1>7 DEF Answer, Goto, Held
<1>8. ASSUME NEW r \in Reviews, Unanswered(r) PROVE Quoting'
  BY <1>8 DEF Unanswered, AfterNoAnswer, Goto
<1>9. ASSUME NEW r \in Reviews, Fail(r) PROVE Quoting'
  BY <1>9 DEF Fail, Goto, Running
<1>10. ASSUME NEW u \in Users, Revoke(u) \/ Grant(u) PROVE Quoting'
  BY <1>10 DEF Revoke, Grant
<1>11. ASSUME NEW v \in Versions, NEW to \in {"rejected", "cleared", "saved"}, Advance(v, to)
       PROVE  Quoting'
  BY <1>11 DEF Advance
<1>12. CASE UNCHANGED vars
  BY <1>12 DEF vars
<1>. QED
  BY <1>1, <1>2, <1>3, <1>4, <1>5, <1>6, <1>7, <1>8, <1>9, <1>10, <1>11, <1>12 DEF Next, Step

LEMMA Invariance == Spec => []Inv
<1>1. Inv /\ [Next]_vars => Inv'
  BY TypeStep, AccessStep, QuotingStep DEF Inv
<1>. QED BY <1>1, InvInit, PTL DEF Spec

-----------------------------------------------------------------------------
(* The offsets of an exact finding cut the text into three parts.          *)
LEMMA ExactCuts ==
  ASSUME NEW t \in Texts, NEW f \in Findings, Exact(t, f)
  PROVE  /\ Len(f.evidence) = f.end - f.start
         /\ t = SubSeq(t, 1, f.start) \o f.evidence \o SubSeq(t, f.end + 1, Len(t))
<1>1. t \in Seq(Chars) /\ Len(t) \in Nat
  BY DEF Texts
<1>2. f.start \in Nat /\ f.end \in Nat /\ f.start < f.end /\ f.end <= Len(t)
  BY ConstantsAssumption DEF Findings, Exact
<1>3. f.evidence = SubSeq(t, f.start + 1, f.end)
  BY <1>1, <1>2 DEF Exact, Slice
<1>4. Len(f.evidence) = f.end - f.start
  <2>1. \A i \in f.start + 1 .. f.end : t[i] \in Chars
    BY <1>1, <1>2, ElementOfSeq
  <2>. QED BY <1>2, <1>3, <2>1, SubSeqProperties
<1>5. SubSeq(t, 1, f.start) \o f.evidence = SubSeq(t, 1, f.end)
  <2>1. 1 \in 1 .. Len(t) + 1 /\ f.start \in 1 - 1 .. Len(t) /\ f.end \in f.start .. Len(t)
    BY <1>1, <1>2
  <2>. QED BY <1>1, <1>3, <2>1, ConcatAdjacentSubSeq, Zenon
<1>6. SubSeq(t, 1, f.end) \o SubSeq(t, f.end + 1, Len(t)) = SubSeq(t, 1, Len(t))
  <2>1. 1 \in 1 .. Len(t) + 1 /\ f.end \in 1 - 1 .. Len(t) /\ Len(t) \in f.end .. Len(t)
    BY <1>1, <1>2
  <2>. QED BY <1>1, <2>1, ConcatAdjacentSubSeq, Zenon
<1>7. SubSeq(t, 1, Len(t)) = t
  BY <1>1, SubSeqFull
<1>. QED BY <1>4, <1>5, <1>6, <1>7

(* What is delivered quotes the saved text of a cleared contract at the    *)
(* offsets it states, for texts, limits and drafts of any size.            *)
THEOREM EvidenceHolds == Spec => []EvidenceQuoted
<1>1. ASSUME Inv PROVE EvidenceQuoted
  <2>. SUFFICES ASSUME NEW r \in Reviews, pc[r] = "delivered"
                PROVE  LET t == text[rq[r].v]
                       IN  /\ rq[r].v \in contracts /\ stage[rq[r].v] = "saved"
                           /\ \A f \in rq[r].findings :
                                /\ Len(f.evidence) = f.end - f.start
                                /\ t = SubSeq(t, 1, f.start) \o f.evidence
                                          \o SubSeq(t, f.end + 1, Len(t))
                                /\ \E i \in DOMAIN f.evidence : f.evidence[i] # Blank
    BY DEF EvidenceQuoted
  <2>1. Sourced(r) /\ text[rq[r].v] \in Texts
    BY <1>1 DEF Inv, TypeInv, Quoting, Sourced
  <2>2. \A f \in rq[r].findings : f \in Findings /\ Exact(text[rq[r].v], f)
    BY <1>1, <2>1 DEF Inv, Quoting, Sourced
  <2>. QED BY <2>1, <2>2, ExactCuts DEF Sourced, Exact
<1>. QED BY <1>1, Invariance, PTL

(* The text is sent to the model, the first time and again, and the result *)
(* is handed out, only on access at some instant since something was last  *)
(* received, for any number of reviews, users and attempts.                *)
THEOREM FreshAccess == Spec => AccessRechecked
<1>1. Inv /\ [Next]_vars =>
        [\A r \in Reviews :
           /\ pc[r] = "call" /\ pc'[r] = "wait" => r \in vouched
           /\ pc[r] # "delivered" /\ pc'[r] = "delivered" => r \in vouched]_vars
  <2>1. ASSUME Inv, Next, NEW r \in Reviews, pc[r] # "delivered", pc'[r] = "delivered"
        PROVE  r \in vouched
    <3>1. pc[r] = "recheck"
      BY <2>1
      DEF Inv, TypeInv, Next, Step, Start, Load, ReadSource, Reauthorize, Recheck, Call, Answer,
          Unanswered, AfterNoAnswer, Fail, Revoke, Grant, Advance, Goto
    <3>. QED BY <2>1, <3>1 DEF Inv, Access
  <2>. QED BY <2>1 DEF Inv, Access
<1>. QED BY <1>1, Invariance, PTL DEF Spec, AccessRechecked

-----------------------------------------------------------------------------
(* How often the text leaves the process.                                  *)

(* A review calls the model Attempts times at most, and not again once it  *)
(* holds a draft.                                                          *)
CallsBounded ==
  \A r \in Reviews :
    /\ rq[r].calls <= Attempts
    /\ pc[r] \in {"call", "wait"} => rq[r].findings = None

(* While a review may still call, a call is left. *)
Budget ==
  \A r \in Reviews :
    /\ rq[r].calls <= Attempts
    /\ pc[r] \in {"load", "read", "reauthorize", "recheck", "call"} /\ rq[r].findings = None
         => rq[r].calls < Attempts

LEMMA BudgetStep ==
  ASSUME None \notin SUBSET Findings, TypeInv, Budget, CallsBounded, [Next]_vars
  PROVE  Budget' /\ CallsBounded'
<1>. USE ConstantsAssumption DEF TypeInv, Budget, CallsBounded
<1>1. ASSUME NEW r \in Reviews, NEW v \in Versions, NEW u \in Users, Start(r, v, u)
      PROVE  Budget' /\ CallsBounded'
  <2>1. rq'[r].calls = 0 /\ pc'[r] = "load" /\ \A s \in Reviews \ {r} : rq'[s] = rq[s] /\ pc'[s] = pc[s]
    BY <1>1 DEF Start, Goto, NoReview
  <2>. QED BY <2>1
<1>2. ASSUME NEW r \in Reviews, Load(r) PROVE Budget' /\ CallsBounded'
  BY <1>2 DEF Load, Goto
<1>3. ASSUME NEW r \in Reviews, ReadSource(r) PROVE Budget' /\ CallsBounded'
  <2>1. /\ pc[r] = "read" /\ pc'[r] \in {"reauthorize", "failed"}
        /\ \A s \in Reviews \ {r} : rq'[s] = rq[s] /\ pc'[s] = pc[s]
    BY <1>3 DEF ReadSource, Goto
  <2>2. rq'[r].calls = rq[r].calls /\ rq'[r].findings = rq[r].findings
    BY <1>3 DEF ReadSource, Held
  <2>. QED BY <2>1, <2>2
<1>4. ASSUME NEW r \in Reviews, Reauthorize(r) PROVE Budget' /\ CallsBounded'
  BY <1>4 DEF Reauthorize, Goto
<1>5. ASSUME NEW r \in Reviews, Recheck(r) PROVE Budget' /\ CallsBounded'
  BY <1>5 DEF Recheck, Goto
<1>6. ASSUME NEW r \in Reviews, Call(r) PROVE Budget' /\ CallsBounded'
  <2>1. /\ pc[r] = "call" /\ pc'[r] = "wait"
        /\ \A s \in Reviews \ {r} : rq'[s] = rq[s] /\ pc'[s] = pc[s]
    BY <1>6 DEF Call, Goto
  <2>2. rq'[r].calls = rq[r].calls + 1 /\ rq'[r].findings = rq[r].findings
    BY <1>6 DEF Call, Held
  <2>3. rq[r].calls \in Nat
    BY DEF Held
  <2>. QED BY <2>1, <2>2, <2>3
<1>7. ASSUME NEW r \in Reviews, Answer(r) PROVE Budget' /\ CallsBounded'
  <2>1. CASE Goto(r, "failed") /\ UNCHANGED rq
    BY <2>1 DEF Goto
  <2>2. CASE \E draft \in SUBSET {f \in Findings : Exact(rq[r].source, f)} :
                rq' = [rq EXCEPT ![r].findings = draft] /\ Goto(r, "reauthorize")
    <3>1. PICK draft \in SUBSET Findings :
             rq' = [rq EXCEPT ![r].findings = draft] /\ Goto(r, "reauthorize")
      BY <2>2
    <3>2. /\ pc'[r] = "reauthorize"
          /\ \A s \in Reviews \ {r} : rq'[s] = rq[s] /\ pc'[s] = pc[s]
      BY <3>1 DEF Goto
    <3>3. rq'[r].calls = rq[r].calls /\ rq'[r].findings = draft
      BY <3>1 DEF Held
    <3>. QED BY <3>2, <3>3
  <2>. QED BY <1>7, <2>1, <2>2 DEF Answer
<1>8. ASSUME NEW r \in Reviews, Unanswered(r) PROVE Budget' /\ CallsBounded'
  <2>1. rq[r].calls \in Nat
    BY DEF Held
  <2>. QED BY <1>8, <2>1 DEF Unanswered, AfterNoAnswer, Goto
<1>9. ASSUME NEW r \in Reviews, Fail(r) PROVE Budget' /\ CallsBounded'
  BY <1>9 DEF Fail, Goto
<1>10. CASE UNCHANGED <<pc, rq>>
  BY <1>10
<1>. QED
  BY <1>1, <1>2, <1>3, <1>4, <1>5, <1>6, <1>7, <1>8, <1>9, <1>10
  DEF Next, Step, Revoke, Grant, Advance, vars

(* Whatever the model answers, however often it fails or hangs, the text   *)
(* is sent no more than Attempts times, and not again after an answer that *)
(* was kept. (None stands for "no draft": it is no draft itself.)          *)
THEOREM BoundedCalls ==
  ASSUME None \notin SUBSET Findings
  PROVE  Spec => []CallsBounded
<1>1. Init => Budget /\ CallsBounded
  BY ConstantsAssumption DEF Init, Budget, CallsBounded, NoReview
<1>2. Inv /\ Budget /\ CallsBounded /\ [Next]_vars => Budget' /\ CallsBounded'
  BY BudgetStep DEF Inv
<1>. QED BY <1>1, <1>2, Invariance, PTL DEF Spec
=============================================================================
