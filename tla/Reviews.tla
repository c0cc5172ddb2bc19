------------------------------ MODULE Reviews ------------------------------
(***************************************************************************)
(* The contract review: ReviewService.review runs the graph load, analyze, *)
(* validate, authorize_result over the saved text of one version, with an  *)
(* injected model outside the process. Nothing is persisted. Access is     *)
(* read again before every call of the model and before the result is      *)
(* handed out, each time in a transaction of its own, while administrators *)
(* change memberships and the scan and extraction pipelines move on.       *)
(***************************************************************************)
EXTENDS Integers, Sequences, FiniteSets

CONSTANTS
  Reviews,       \* calls of ReviewService.review, each run once
  Users,
  Versions,
  Chars, Blank,  \* characters of a text, and the one that strip() removes
  TextBound,     \* longest saved text
  MaxText,       \* longest text that is reviewed (20_000)
  MaxFindings,   \* most findings of a draft (20)
  Attempts,      \* calls of the model per review (2)
  None

ASSUME ConstantsAssumption ==
  /\ Blank \in Chars
  /\ {TextBound, MaxText, MaxFindings} \subseteq Nat
  /\ Attempts \in Nat \ {0}

Texts == UNION {[1 .. n -> Chars] : n \in 0 .. TextBound}

VARIABLES
  readers,    \* users whose membership is active with tenant_admin or member
  stage,      \* how far the content of each version has come
  contracts,  \* versions of documents of type contract
  text,       \* what the artifact of each version holds, once it is saved
  pc, rq,     \* where each review stands, and what it holds
  vouched     \* history: reviews whose user was a reader at some instant
              \* since the review last received something

vars == <<readers, stage, contracts, text, pc, rq, vouched>>

NoReview == [v |-> None, user |-> None, source |-> None, calls |-> 0, findings |-> None]

Init ==
  /\ readers \in SUBSET Users
  /\ stage = [v \in Versions |-> "unscanned"]
  /\ contracts \in SUBSET Versions
  /\ text \in [Versions -> Texts]
  /\ pc = [r \in Reviews |-> "idle"]
  /\ rq = [r \in Reviews |-> NoReview]
  /\ vouched = {}

Goto(r, label) == pc' = [pc EXCEPT ![r] = label]

Running == {"load", "read", "reauthorize", "recheck", "call", "wait"}

-----------------------------------------------------------------------------
(* The environment: memberships, scans and extractions.                    *)

Revoke(u) ==
  /\ u \in readers
  /\ readers' = readers \ {u}
  /\ UNCHANGED <<stage, contracts, text, pc, rq, vouched>>

Grant(u) ==
  /\ u \in Users \ readers
  /\ readers' = readers \cup {u}
  /\ vouched' = vouched \cup {r \in Reviews : rq[r].user = u}
  /\ UNCHANGED <<stage, contracts, text, pc, rq>>

(* A verdict of clean or rejected is final, and so is a saved text. *)
Advance(v, to) ==
  /\ <<stage[v], to>> \in
       {<<"unscanned", "rejected">>, <<"unscanned", "cleared">>, <<"cleared", "saved">>}
  /\ stage' = [stage EXCEPT ![v] = to]
  /\ UNCHANGED <<readers, contracts, text, pc, rq, vouched>>

-----------------------------------------------------------------------------
(* One review.                                                             *)

(* What counts from here on is access at or after this instant. *)
ReceivesSomething(r) ==
  vouched' = IF rq[r].user \in readers THEN vouched \cup {r} ELSE vouched \ {r}

(* The principal was read by whoever calls, at some earlier time. *)
Start(r, v, u) ==
  /\ pc[r] = "idle"
  /\ rq' = [rq EXCEPT ![r] = [NoReview EXCEPT !.v = v, !.user = u]]
  /\ vouched' = IF u \in readers THEN vouched \cup {r} ELSE vouched
  /\ Goto(r, "load")
  /\ UNCHANGED <<readers, stage, contracts, text>>

(* authorize(): the membership as it is now, then rollback. *)
MayRead(r) == rq[r].user \in readers

Load(r) ==
  /\ pc[r] = "load"
  /\ Goto(r, IF MayRead(r) THEN "read" ELSE "failed")
  /\ UNCHANGED <<readers, stage, contracts, text, rq, vouched>>

Reviewable(t) == Len(t) <= MaxText /\ \E i \in DOMAIN t : t[i] # Blank

Cleared(v) == stage[v] \in {"cleared", "saved"}

(* Contract, clean, and with a saved text: the artifact is read after the  *)
(* transaction, verified, and is never replaced. A text without substance, *)
(* or too long, goes no further.                                           *)
ReadSource(r) ==
  LET v == rq[r].v
  IN  /\ pc[r] = "read"
      /\ IF v \in contracts /\ stage[v] = "saved" /\ Reviewable(text[v])
         THEN /\ rq' = [rq EXCEPT ![r].source = text[v]]
              /\ ReceivesSomething(r)
              /\ Goto(r, "reauthorize")
         ELSE Goto(r, "failed") /\ UNCHANGED <<rq, vouched>>
      /\ UNCHANGED <<readers, stage, contracts, text>>

(* reauthorize() comes before each call and before the result: membership, *)
(* then, in another transaction, the status of the version (which the code *)
(* reads again although a version that was clean stays clean).             *)
Reauthorize(r) ==
  /\ pc[r] = "reauthorize"
  /\ Goto(r, IF MayRead(r) THEN "recheck" ELSE "failed")
  /\ UNCHANGED <<readers, stage, contracts, text, rq, vouched>>

Recheck(r) ==
  /\ pc[r] = "recheck"
  /\ Goto(r, IF ~Cleared(rq[r].v) THEN "failed"
             ELSE IF rq[r].findings = None THEN "call" ELSE "delivered")
  /\ UNCHANGED <<readers, stage, contracts, text, rq, vouched>>

(* Faulty: the attempts are not counted. *)
CallUncounted(r) ==
  /\ pc[r] = "call"
  /\ Goto(r, "wait")
  /\ UNCHANGED <<readers, stage, contracts, text, rq, vouched>>

(* The text leaves the process. *)
Call(r) ==
  /\ pc[r] = "call"
  /\ rq' = [rq EXCEPT ![r].calls = @ + 1]
  /\ Goto(r, "wait")
  /\ UNCHANGED <<readers, stage, contracts, text, vouched>>

(* text[start:end]: Python cuts a slice off at the end of the text. *)
Slice(t, start, end) == SubSeq(t, start + 1, IF end > Len(t) THEN Len(t) ELSE end)

Findings == [start : 0 .. TextBound, end : 1 .. TextBound + 1, evidence : Texts \ {<<>>}]

(* Faulty: the slice alone is compared. *)
ExactBySlice(t, f) ==
  /\ f.start < f.end
  /\ Slice(t, f.start, f.end) = f.evidence
  /\ \E i \in DOMAIN f.evidence : f.evidence[i] # Blank

Exact(t, f) ==
  /\ f.end <= Len(t)
  /\ f.start < f.end
  /\ Slice(t, f.start, f.end) = f.evidence
  /\ \E i \in DOMAIN f.evidence : f.evidence[i] # Blank

(* A draft whose findings all quote the text is kept. Any other answer,    *)
(* and one that is too long or does not parse, ends the review: there is   *)
(* no second call after an answer.                                         *)
Answer(r) ==
  LET quoting == {f \in Findings : Exact(rq[r].source, f)}
  IN  /\ pc[r] = "wait"
      /\ \/ /\ \E draft \in SUBSET quoting :
                 /\ Cardinality(draft) <= MaxFindings
                 /\ rq' = [rq EXCEPT ![r].findings = draft]
            /\ ReceivesSomething(r)
            /\ Goto(r, "reauthorize")
         \/ Goto(r, "failed") /\ UNCHANGED <<rq, vouched>>
      /\ UNCHANGED <<readers, stage, contracts, text>>

(* Faulty: the second call follows at once. *)
AfterNoAnswerAtOnce(r) == IF rq[r].calls < Attempts THEN "call" ELSE "failed"

AfterNoAnswer(r) == IF rq[r].calls < Attempts THEN "reauthorize" ELSE "failed"

(* A transient failure of the provider, or no answer within the timeout.   *)
Unanswered(r) ==
  /\ pc[r] = "wait"
  /\ Goto(r, AfterNoAnswer(r))
  /\ ReceivesSomething(r)
  /\ UNCHANGED <<readers, stage, contracts, text, rq>>

(* Storage or database do not answer, the caller goes away: every way out  *)
(* but "delivered" is an exception.                                        *)
Fail(r) ==
  /\ pc[r] \in Running
  /\ Goto(r, "failed")
  /\ UNCHANGED <<readers, stage, contracts, text, rq, vouched>>

Step(r) ==
  \/ Load(r) \/ ReadSource(r) \/ Reauthorize(r) \/ Recheck(r)
  \/ Call(r) \/ Answer(r) \/ Unanswered(r)

Next ==
  \/ \E r \in Reviews, v \in Versions, u \in Users : Start(r, v, u)
  \/ \E r \in Reviews : Step(r) \/ Fail(r)
  \/ \E u \in Users : Revoke(u) \/ Grant(u)
  \/ \E v \in Versions, to \in {"rejected", "cleared", "saved"} : Advance(v, to)

Spec == Init /\ [][Next]_vars

(* Scheduling: the event loop resumes a review, and the timeout of 30 s    *)
(* stands for an answer that never comes.                                  *)
FairSpec == Spec /\ \A r \in Reviews : WF_vars(Step(r))

-----------------------------------------------------------------------------
(* The text leaves for the model, a second time too, and the result leaves *)
(* for the caller, only if the user had access at some instant since the   *)
(* review last received what is passed on or learned that the call before  *)
(* came to nothing: access taken away while the model was busy counts.     *)
AccessRechecked ==
  [][\A r \in Reviews :
       /\ pc[r] = "call" /\ pc'[r] = "wait" => r \in vouched
       /\ pc[r] # "delivered" /\ pc'[r] = "delivered" => r \in vouched]_vars

(* What is delivered quotes the saved text of a cleared contract: the two  *)
(* offsets of a finding are as far apart as its evidence is long, the text *)
(* before them, the evidence, and the text after them are the text again,  *)
(* and the evidence is not blank.                                          *)
EvidenceQuoted ==
  \A r \in Reviews : pc[r] = "delivered" =>
    LET t == text[rq[r].v]
    IN  /\ rq[r].v \in contracts /\ stage[rq[r].v] = "saved"
        /\ \A f \in rq[r].findings :
             /\ Len(f.evidence) = f.end - f.start
             /\ t = SubSeq(t, 1, f.start) \o f.evidence \o SubSeq(t, f.end + 1, Len(t))
             /\ \E i \in DOMAIN f.evidence : f.evidence[i] # Blank

(* Every review ends, whatever the model does: a provider that fails or    *)
(* hangs again and again is called no more than twice.                     *)
ReviewsFinish ==
  \A r \in Reviews : (pc[r] = "load") ~> (pc[r] \in {"failed", "delivered"})
=============================================================================
