------------------------- MODULE EvaluationContract -------------------------
(***************************************************************************)
(* What becomes of an evaluator's answer: the deterministic repair of      *)
(* oratry/evaluation/provider.py and the validation of                     *)
(* schemas/evaluation.py.                                                  *)
(*                                                                         *)
(* A transcript and a quote are sequences of characters, and offsets count *)
(* from 0 as in the code.  The answer's checks of keys, versions, types,   *)
(* lengths and ranges that no other check depends on are one flag, shape.  *)
(***************************************************************************)
EXTENDS Integers, Sequences, FiniteSetsExt, SequencesExt

DimensionNames == <<"structure", "clarity", "fluency", "language", "delivery">>
ContractWeights == <<25, 20, 20, 20, 15>>

(***************************************************************************)
(* The repair.                                                             *)
(***************************************************************************)
\* str.find: the first position from which quote occurs, or -1.
Occurrences(text, quote) ==
    {i \in 0..(Len(text) - Len(quote)) : SubSeq(text, i + 1, i + Len(quote)) = quote}

Find(text, quote, from) ==
    LET later == {i \in Occurrences(text, quote) : i >= from}
    IN  IF later = {} THEN -1 ELSE Min(later)

\* Slip: the second occurrence is looked for after the end of the first.
RepairedDisjoint(item, text) ==
    LET first == Find(text, item.quote, 0)
    IN  IF /\ item.source = "transcript"
           /\ first >= 0
           /\ Find(text, item.quote, first + Len(item.quote)) < 0
        THEN [item EXCEPT !.start = first, !.end = first + Len(item.quote)]
        ELSE item

\* A verbatim quote that occurs once has one coordinate.
Repaired(item, text) ==
    LET first == Find(text, item.quote, 0)
    IN  IF /\ item.source = "transcript"
           /\ first >= 0
           /\ Find(text, item.quote, first + 1) < 0
        THEN [item EXCEPT !.start = first, !.end = first + Len(item.quote)]
        ELSE item

\* The published weighted score, rounded half up.
CalculatedOverall(scores) ==
    (2 * SumFunction([i \in DOMAIN scores |-> ContractWeights[i] * scores[i]]) + 100) \div 200

Canonical(answer, text) ==
    [answer EXCEPT !.evidence = [i \in DOMAIN @ |-> Repaired(@[i], text)],
                   !.overall = CalculatedOverall(answer.scores)]

(***************************************************************************)
(* The validation.                                                         *)
(***************************************************************************)
Quotes(item, text) ==
    /\ item.source = "transcript"
    /\ 0 <= item.start /\ item.start < item.end /\ item.end <= Len(text)
    /\ SubSeq(text, item.start + 1, item.end) = item.quote

Cites(item, metrics) ==
    /\ item.source = "speech_metrics"
    /\ item.metric \in DOMAIN metrics
    /\ metrics[item.metric] = item.value

ValidEvidence(items, text, metrics) ==
    /\ Len(items) \in 1..3
    /\ \A i \in DOMAIN items : Quotes(items[i], text) \/ Cites(items[i], metrics)

Valid(answer, text, metrics) ==
    /\ answer.shape
    /\ \A i \in DOMAIN answer.scores : answer.scores[i] \in 0..100
    /\ ValidEvidence(answer.evidence, text, metrics)
    /\ answer.overall = CalculatedOverall(answer.scores)
    /\ answer.weakness \in ToSet(DimensionNames)

\* Slip: what the provider's schema lets through is accepted.
EvaluationTrustingSchema(answer, text, metrics) ==
    IF answer.shape THEN <<"accepted", Canonical(answer, text)>>
    ELSE <<"refused">>

\* evaluate: the evaluation, or a permanent failure of the analysis, "evaluator_invalid"
\* or, where the shape raises another exception, "analysis_invalid".
Evaluation(answer, text, metrics) ==
    IF Valid(Canonical(answer, text), text, metrics)
    THEN <<"accepted", Canonical(answer, text)>>
    ELSE <<"refused">>
=============================================================================
