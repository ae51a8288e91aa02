--------------------------- MODULE AnswerContract ---------------------------
(***************************************************************************)
(* What an answer of the question-answering service promises, whatever     *)
(* strategy produced it: the request ends once, in a failure or in an      *)
(* answer; a refusal cites nothing; the citations of an answer are exactly *)
(* the evidence its text refers to; and where inline citations are         *)
(* required there is no answer without one, nor one that refers to         *)
(* evidence that does not exist.                                           *)
(***************************************************************************)
EXTENDS Naturals, Sequences

VARIABLES require,   \* generation.require_inline_citations
          outcome    \* Pending, Failed, or the answer returned

Pending == [kind |-> "pending"]
Failed == [kind |-> "failed"]

(* The citation records of an answer name the chunk at their index.        *)
CitesItsEvidence(a) ==
    \A c \in a.citations :
        c.index \in DOMAIN a.evidence /\ c.chunk = a.evidence[c.index]

(* The text cites something, and nothing but the evidence.                 *)
WellCited(a) == a.cites # {} /\ a.cites \subseteq DOMAIN a.evidence

Acceptable(a) ==
    /\ a.refused => a.citations = {}
    /\ ~a.refused =>
        /\ a.evidence # <<>>
        /\ CitesItsEvidence(a)
        /\ a.validated = WellCited(a)
        /\ require => a.validated
        /\ a.validated => {c.index : c \in a.citations} = a.cites

Init == require \in BOOLEAN /\ outcome = Pending

Fail == outcome = Pending /\ outcome' = Failed

Deliver ==
    /\ outcome = Pending
    /\ outcome'.kind = "answer"
    /\ Acceptable(outcome')

Next == (Fail \/ Deliver) /\ UNCHANGED require

Spec == Init /\ [][Next]_<<require, outcome>>
=============================================================================
