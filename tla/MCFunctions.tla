----------------------------- MODULE MCFunctions -----------------------------
(***************************************************************************)
(* The pure functions of the analysis and of the curriculum over bounded   *)
(* inputs: a state holds the input of one call and then its result.        *)
(***************************************************************************)
EXTENDS SpeechMeasures, EvaluationContract, ChallengeChoice

VARIABLES input, result

None == <<>>

(***************************************************************************)
(* Recordings: up to two words, said in time, late, untimed or with        *)
(* timestamps that are no interval, within no, one or two utterances; and  *)
(* a longer text without words.                                            *)
(***************************************************************************)
MCFillers == {"um"}
MCCues == {"sorry"}
MCNormalized == [um |-> "um", go |-> "go", sorry |-> "sorry", dash |-> ""]

Sayings ==
         [word : DOMAIN Normalized, from : {0}, to : {5}]
  \union [word : DOMAIN Normalized, from : {10}, to : {15}]
  \union [word : DOMAIN Normalized, from : {Unavailable}, to : {Unavailable}]
  \union [word : DOMAIN Normalized, from : {5}, to : {0}]

SpokenAt(i, said) ==
    IF Timed(said) THEN [said EXCEPT !.from = 20 * i + @, !.to = 20 * i + @] ELSE said

Utterance(from, to) == [from |-> from, to |-> to]

Utterances == {<<>>, <<Utterance(0, 90)>>, <<Utterance(20, 38), Utterance(40, 90)>>,
               <<Utterance(Unavailable, Unavailable)>>}

WordsUpTo(k) ==
    UNION {{[i \in 1..n |-> SpokenAt(i, said[i])] : said \in [1..n -> Sayings]} : n \in 0..k}

TextOf(words) ==
    LET tokens == [i \in DOMAIN words |-> Normalized[words[i].word]]
    IN  Selected(tokens, {i \in DOMAIN words : tokens[i] # ""})

Targets == {<<"go">>, <<"go", "um">>}

MeasureInput(call) ==
    \E target \in {0, 150, 600}, targets \in SUBSET Targets, duration \in {0, 45, 90} :
        \/ \E words \in WordsUpTo(2), utterances \in Utterances :
               call = [kind |-> "measure", target |-> target, targets |-> targets,
                        declared |-> 60,
                        payload |-> [words |-> words, utterances |-> utterances,
                                     text |-> TextOf(words), duration |-> duration]]
        \/ \E n \in {9, 10, 20, 30}, t \in {"um", "go"} :
               call = [kind |-> "measure", target |-> target, targets |-> targets,
                        declared |-> 300,
                        payload |-> [words |-> <<>>, utterances |-> <<>>,
                                     text |-> [i \in 1..n |-> IF i % 3 = 0 THEN t ELSE "go"],
                                     duration |-> duration]]

Measure ==
    /\ input.kind = "measure" /\ result = None
    /\ LET analysis == Analysis(input.payload, input.declared, input.targets)
       IN  result' = <<Scorecard(Measured(analysis), input.target, input.targets),
                       Scorecard(Resumed(analysis), input.target, input.targets)>>
    /\ UNCHANGED input

(***************************************************************************)
(* Answers of an evaluator to texts of two letters.                        *)
(***************************************************************************)
Letters(n) == UNION {[1..k -> {"a", "b"}] : k \in 0..n}

TextMetrics == [word_count |-> 3]

EvidenceItems ==
    [source : {"transcript"}, quote : Letters(2), start : -1..3, end : 0..4]
      \union [source : {"speech_metrics"}, quote : {<<>>},
               metric : {"word_count", "pitch"}, value : {3, 4}]

Evidence == {<<item>> : item \in EvidenceItems} \union {<<>>}

EvaluateInput(call) ==
    \E text \in Letters(3), evidence \in Evidence, overall \in {71, 72},
       low \in {-1, 60}, shape \in BOOLEAN, weakness \in {"clarity", "charm"} :
        call = [kind |-> "evaluate", text |-> text,
                 answer |-> [shape |-> shape, scores |-> <<70, 72, low, 80, 75>>,
                             overall |-> overall, evidence |-> evidence, weakness |-> weakness]]

Evaluate ==
    /\ input.kind = "evaluate" /\ result = None
    /\ result' = Evaluation(input.answer, input.text, TextMetrics)
    /\ UNCHANGED input

(***************************************************************************)
(* Skill levels, and what was practised within or before the last 14 days. *)
(***************************************************************************)
Histories ==
    UNION {[1..k -> {[challenge |-> c, recent |-> r] :
                        c \in BASELINE_CATALOG \cup PRACTICE_CATALOG, r \in BOOLEAN}] : k \in 0..2}

\* The keys of _project_skills' mapping; a skill may have no evidence yet.
ProjectedSkills == {"language", "fluency", "delivery"}

RecommendInput(call) ==
    \E levels \in UNION {[skills -> {20, 50, 80}] : skills \in SUBSET ProjectedSkills},
       history \in Histories,
       candidates \in {PRACTICE_CATALOG, BASELINE_CATALOG \cup PRACTICE_CATALOG,
                       PRACTICE_CATALOG \cup FUTURE_CURRICULUM, FUTURE_CURRICULUM} :
        call = [kind |-> "recommend", candidates |-> candidates,
                 context |-> [AssignmentContext(levels) EXCEPT !.history = history]]

Recommend ==
    /\ input.kind = "recommend" /\ result = None
    /\ result' = <<Recommended(input.candidates, input.context)>>
    /\ UNCHANGED input

CallInput(call) == MeasureInput(call) \/ EvaluateInput(call) \/ RecommendInput(call)

CallInit == result = None /\ CallInput(input)
CallNext == Measure \/ Evaluate \/ Recommend
CallSpec == CallInit /\ [][CallNext]_<<input, result>>

Answered(kind) == input.kind = kind /\ result # None

(***************************************************************************)
(* Properties                                                              *)
(***************************************************************************)
\* Unmeasured dimensions pull the overall score neither up nor down: it lies
\* between the lowest and the highest measured one, unless the response is
\* too short, which caps it; and no words at all score nothing.
ScoreRestsOnEvidence ==
    Answered("measure") =>
        LET card == result[1]
            scores == {card.dimensions[d] : d \in DOMAIN card.dimensions} \ {Unavailable}
        IN  /\ scores \subseteq 0..100
            /\ scores # {}
            /\ card.overall <= Max(scores)
            /\ card.overall >= Min(scores) \/ card.overall = card.coverage
            /\ card.coverage # Unavailable => card.overall <= card.coverage
            /\ input.target > 0 /\ input.payload.text = <<>> => card.overall = 0

\* A delivery that resumes after the transcription, from the stored items of
\* an earlier one, arrives at the same scorecard as that one would have.
ResumedScoreIsSame == Answered("measure") => result[1] = result[2]

\* An accepted evaluation quotes the learner verbatim at the offsets it gives
\* and cites only metrics that were measured, and its overall score is the
\* published mean of its dimensions, to half a point.
AcceptedIsGrounded ==
    Answered("evaluate") /\ result[1] = "accepted" =>
        LET answer == result[2]
            weighted == 25 * answer.scores[1] + 20 * answer.scores[2] + 20 * answer.scores[3]
                            + 20 * answer.scores[4] + 15 * answer.scores[5]
        IN  /\ 100 * answer.overall - weighted \in -49..50
            /\ answer.evidence # <<>>
            /\ \A i \in DOMAIN answer.evidence :
                 LET item == answer.evidence[i]
                 IN  IF item.source = "transcript"
                     THEN /\ item.quote # <<>>
                          /\ \A k \in DOMAIN item.quote : input.text[item.start + k] = item.quote[k]
                          /\ item.end = item.start + Len(item.quote)
                     ELSE TextMetrics[item.metric] = item.value

\* The repair of coordinates never touches an answer that was right, nor
\* makes it invalid: also when its quote overlaps another occurrence.
RepairKeepsValid ==
    input.kind = "evaluate" /\ Valid(input.answer, input.text, TextMetrics) =>
        Canonical(input.answer, input.text) = input.answer

\* The mean need of a challenge's skills exceeds that of another's.
Needier(c, d, x) == Need(c, x) * Cardinality(d.skills) > Need(d, x) * Cardinality(c.skills)

\* Only an active challenge is recommended, whatever else is offered, and one
\* of the last 14 days only if the learner needs it more than each of the
\* others.
RecommendationIsSound ==
    Answered("recommend") =>
        LET active == {c \in input.candidates : c.active}
            x == input.context
        IN  IF active = {} THEN result[1] = NoChallenge
            ELSE \E c \in active :
                   /\ c.id = result[1]
                   /\ IsRepeated(c, x) =>
                        \A d \in active \ {c} : IsRepeated(d, x) \/ Needier(c, d, x)
=============================================================================
