--------------------------- MODULE SpeechMeasures ---------------------------
(***************************************************************************)
(* From the provider's words to the learner's scorecard: the Deepgram      *)
(* mapping (oratry/speech/deepgram.py), the transcript measurements        *)
(* (oratry/speech/transcript.py), their storage and resumption             *)
(* (app/analysis_worker.py) and the deterministic scorecard                *)
(* (app/scoring.py).                                                       *)
(*                                                                         *)
(* Python's None is Unavailable.  Times are tenths of a second, the pace   *)
(* is in tenths of a word per minute; what the code computes in floating   *)
(* point is computed exactly, as a numerator over a denominator.           *)
(***************************************************************************)
EXTENDS Integers, Sequences, FiniteSets, SequencesExt, FiniteSetsExt, Functions

CONSTANTS
    Fillers,        \* _FILLERS, of the tokens of an instance
    Cues,           \* _CORRECTION_CUES
    Normalized      \* normalized_word of each word, "" when nothing is left

Unavailable == -1

\* The items of a sequence at some of its positions, in their order.
Selected(s, positions) ==
    [k \in 1..Cardinality(positions) |->
        s[CHOOSE i \in positions : Cardinality({j \in positions : j <= i}) = k]]

(***************************************************************************)
(* The provider's answer: words [word, from, to], utterances [from, to],   *)
(* the tokens of its text, and the duration of the audio.                  *)
(***************************************************************************)
Timed(x) == x.from # Unavailable /\ x.to # Unavailable

\* A pair of timestamps is kept only when it is an interval.
Timestamps(x) ==
    IF x.from < 0 \/ x.to < x.from
    THEN [x EXCEPT !.from = Unavailable, !.to = Unavailable]
    ELSE x

MappedWords(payload) == [i \in DOMAIN payload.words |-> Timestamps(payload.words[i])]

SegmentWords(words, utterance) ==
    Selected(words, {i \in DOMAIN words :
        /\ Timed(utterance) /\ Timed(words[i])
        /\ words[i].from >= utterance.from /\ words[i].to <= utterance.to})

Segments(payload) ==
    IF payload.utterances = <<>>
    THEN <<MappedWords(payload)>>
    ELSE [i \in DOMAIN payload.utterances |->
             SegmentWords(MappedWords(payload), Timestamps(payload.utterances[i]))]

\* Transcript.words
TranscriptWords(payload) == FlattenSeq(Segments(payload))

(***************************************************************************)
(* Measurements.                                                           *)
(***************************************************************************)
Tokens(payload) ==
    LET words == TranscriptWords(payload)
        tokens == [i \in DOMAIN words |-> Normalized[words[i].word]]
        heard == Selected(tokens, {i \in DOMAIN tokens : tokens[i] # ""})
    IN  IF heard # <<>> THEN heard ELSE payload.text

MinPause == 7
LongPause == 15

TimedWords(words) == Selected(words, {i \in DOMAIN words : Timed(words[i])})

\* The gaps between timed words that count as pauses of at least some length.
Pauses(timed, length) ==
    LET gaps == [i \in 1..(Len(timed) - 1) |-> timed[i + 1].from - timed[i].to]
    IN  Restrict(gaps, {i \in DOMAIN gaps : gaps[i] >= length})

CountIn(tokens, S) == Cardinality({i \in DOMAIN tokens : tokens[i] \in S})

\* Distinct tokens that are said twice in a row.
Repeated(tokens) ==
    {tokens[i] : i \in {j \in 2..Len(tokens) : tokens[j] = tokens[j - 1]}} \ Fillers

CuePositions(tokens) == {i \in DOMAIN tokens : tokens[i] \in Cues}

Said(phrase, tokens) ==
    \E i \in DOMAIN tokens :
        /\ i + Len(phrase) - 1 <= Len(tokens)
        /\ SubSeq(tokens, i, i + Len(phrase) - 1) = phrase

\* n / d rounded half up, and to the nearest even integer on a tie.
HalfUp(n, d) == (2 * n + d) \div (2 * d)
HalfEven(n, d) ==
    LET q == n \div d
    IN  IF 2 * (n % d) > d \/ (2 * (n % d) = d /\ q % 2 = 1) THEN q + 1 ELSE q

\* The provider's duration, or what the browser declared.
SpokenFor(payload, declared) ==
    IF payload.duration > 0 THEN payload.duration ELSE declared

FindingNames == {"immediate_repetitions", "possible_self_correction_positions",
                 "target_vocabulary_used"}

\* Every metric and finding by name.  filler_rate is filler_count over
\* word_count, and unavailable when there is no word.
Analysis(payload, declared, targets) ==
    LET tokens == Tokens(payload)
        timed == TimedWords(TranscriptWords(payload))
        Counted(length) ==
            IF Len(timed) < 2 THEN Unavailable ELSE Cardinality(DOMAIN Pauses(timed, length))
        Total(length) ==
            IF Len(timed) < 2 THEN Unavailable ELSE SumFunction(Pauses(timed, length))
        duration == SpokenFor(payload, declared)
    IN  [word_count |-> Len(tokens),
         filler_count |-> CountIn(tokens, Fillers),
         pause_count |-> Counted(MinPause),
         pause_seconds |-> Total(MinPause),
         long_pause_count |-> Counted(LongPause),
         long_pause_seconds |-> Total(LongPause),
         duration_seconds |-> IF duration > 0 THEN duration ELSE Unavailable,
         words_per_minute |-> IF duration > 0 THEN HalfEven(6000 * Len(tokens), duration)
                                              ELSE Unavailable,
         immediate_repetitions |-> Repeated(tokens),
         possible_self_correction_positions |-> CuePositions(tokens),
         target_vocabulary_used |-> {t \in targets : Said(t, tokens)}]

\* What the first delivery of a job goes on with ...
Measured(analysis) ==
    [metrics |-> Restrict(analysis, DOMAIN analysis \ FindingNames),
     findings |-> Restrict(analysis, FindingNames)]

ResumedFindings == {"immediate_repetitions", "target_vocabulary_used"}

\* Slip: a retry restores the target words only.
ResumedTargetsOnly(items) ==
    LET names == ResumedFindings \ {"immediate_repetitions"}
    IN  [metrics |-> Restrict(items, DOMAIN items \ names),
         findings |-> Restrict(items, names)]

\* ... and a delivery that finds the stored items of an earlier one.
Resumed(items) ==
    [metrics |-> Restrict(items, DOMAIN items \ ResumedFindings),
     findings |-> Restrict(items, ResumedFindings)]

(***************************************************************************)
(* The scorecard.  A comparison of ratios is one of their cross products.  *)
(***************************************************************************)
\* 100 up to good, 20 from poor on, and linear between the two.
Descending(value, good, poor) ==
    IF value <= good THEN 100
    ELSE IF value >= poor THEN 20
    ELSE HalfUp(100 * (poor - good) - 80 * (value - good), poor - good)

PaceScore(wpm) ==
    IF wpm < 1100 THEN Descending(1100 - wpm, 0, 500) ELSE Descending(wpm - 1600, 0, 600)

PauseScore(long, duration) == Descending(20 * long, duration, 7 * duration)

TimingScore(duration, target) ==
    IF 4 * duration < 3 * target THEN Descending(3 * target - 4 * duration, 0, 2 * target)
                                 ELSE Descending(4 * duration - 5 * target, 0, 3 * target)

Get(f, name, default) == IF name \in DOMAIN f THEN f[name] ELSE default

\* The dimensions; target is the challenge's duration in tenths of a second.
Dimensions(evidence, target, targets) ==
    LET m == evidence.metrics
        used == Get(evidence.findings, "target_vocabulary_used", {})
        repetitions == Get(evidence.findings, "immediate_repetitions", {})
        Scored(known, score) == IF known THEN score ELSE Unavailable
    IN  [pace |-> Scored(m.words_per_minute >= 0, PaceScore(m.words_per_minute)),
         filler_use |-> Scored(m.word_count > 0,
             Descending(100 * m.filler_count, m.word_count, 12 * m.word_count)),
         immediate_repetition |-> Descending(Cardinality(repetitions), 0, 5),
         pausing |-> Scored(m.long_pause_seconds >= 0 /\ m.duration_seconds > 0,
             PauseScore(m.long_pause_seconds, m.duration_seconds)),
         timing |-> Scored(m.duration_seconds >= 0 /\ target > 0,
             TimingScore(m.duration_seconds, target)),
         target_vocabulary |-> Scored(targets # {},
             HalfUp(100 * Cardinality(targets \cap used), Cardinality(targets)))]

Weight == [pace |-> 25, filler_use |-> 20, immediate_repetition |-> 12,
           pausing |-> 18, timing |-> 15, target_vocabulary |-> 10]

MinimumWords(target) == LET w == HalfEven(target, 20) IN IF w < 10 THEN 10 ELSE w

\* How much of the answer that the challenge asks for was given, in percent.
Coverage(words, target) ==
    IF target <= 0 THEN Unavailable
    ELSE IF words >= MinimumWords(target) THEN 100
    ELSE HalfUp(100 * words, MinimumWords(target))

\* Slip: a dimension that could not be measured scores 0.
OverallOfAll(dimensions, coverage) ==
    LET total == SumFunction([d \in DOMAIN Weight |->
                     IF dimensions[d] = Unavailable THEN 0 ELSE Weight[d] * dimensions[d]])
        mean == HalfUp(total, 100)
    IN  IF coverage # Unavailable /\ coverage < mean THEN coverage ELSE mean

\* The weighted mean of what was measured, capped by the coverage.
Overall(dimensions, coverage) ==
    LET available == {d \in DOMAIN Weight : dimensions[d] # Unavailable}
        total == SumFunction([d \in available |-> Weight[d] * dimensions[d]])
        mean == HalfUp(total, SumFunctionOnSet(Weight, available))
    IN  IF available = {} THEN Unavailable
        ELSE IF coverage # Unavailable /\ coverage < mean THEN coverage ELSE mean

Scorecard(evidence, target, targets) ==
    LET dimensions == Dimensions(evidence, target, targets)
        coverage == Coverage(evidence.metrics.word_count, target)
    IN  [dimensions |-> dimensions,
         coverage |-> coverage,
         overall |-> Overall(dimensions, coverage)]
=============================================================================
