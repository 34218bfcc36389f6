--------------------------- MODULE ChallengeChoice ---------------------------
(***************************************************************************)
(* The rules by which the next practice is chosen: ChallengeEngine and the *)
(* curated catalogue it ranks (app/personalization).                       *)
(*                                                                         *)
(* id is the position of the challenge's identifier in their alphabetical  *)
(* order, which breaks ties.  A score is 600 times that of the code, so   *)
(* that it is an integer; prompts and guidance are non-blank texts.        *)
(***************************************************************************)
EXTENDS Integers, FiniteSets, Functions

CoreSkills == {"thinking", "structure", "language", "fluency", "delivery"}

\* Difficulty lists topic familiarity, complexity, preparation, speaking
\* time, vocabulary, opposition and pressure.
Candidate(id, skills, difficulty, task, topic, seconds, words, active) ==
    [id |-> id, skills |-> skills, difficulty |-> difficulty, task |-> task, topic |-> topic,
     seconds |-> seconds, words |-> words, active |-> active]

BASELINE_CATALOG == {
    Candidate(1, {"thinking", "language"}, <<1, 1, 2, 2, 1, 1, 1>>, "explain",
              "everyday decisions", 60, {"decision", "because", "therefore"}, TRUE),
    Candidate(3, {"thinking", "structure", "language"}, <<2, 2, 2, 3, 2, 1, 2>>, "argue",
              "practical improvement", 90, {"claim", "reason", "conclusion"}, TRUE),
    Candidate(2, {"fluency", "delivery"}, <<2, 2, 2, 3, 1, 1, 2>>, "story",
              "problem solving", 90, {"problem", "resolve", "outcome"}, TRUE)}

PRACTICE_CATALOG == {
    Candidate(11, {"thinking", "structure"}, <<3, 3, 3, 3, 2, 2, 2>>, "argue",
              "practical improvement", 120, {"trade-off", "evidence", "outcome"}, TRUE),
    Candidate(10, {"fluency", "language"}, <<3, 3, 2, 3, 2, 1, 3>>, "compare",
              "leisure choices", 120, {"compare", "criterion", "recommend"}, TRUE),
    Candidate(9, {"delivery", "language"}, <<3, 2, 2, 3, 2, 1, 2>>, "explain",
              "work", 120, {"purpose", "sequence", "practical"}, TRUE)}

\* Entries that are not assignable yet.
FUTURE_CURRICULUM == {
    Candidate(12, {"thinking", "structure", "language"}, <<3, 4, 4, 4, 3, 3, 2>>, "argue",
              "generative AI in education", 180, {"nuance", "mitigate", "conventional"}, FALSE),
    Candidate(6, {"thinking", "fluency", "language"}, <<3, 3, 5, 3, 2, 1, 4>>, "impromptu",
              "scientific uncertainty", 90, {"evidence", "probability"}, FALSE),
    Candidate(7, {"structure", "language", "delivery"}, <<3, 3, 3, 4, 3, 2, 4>>, "story",
              "professional problem solving", 150, {"initiative", "constraint", "outcome"}, FALSE),
    Candidate(5, {"thinking", "structure", "language"}, <<3, 3, 3, 3, 3, 1, 2>>, "explain",
              "immunology", 120, {"immune", "response", "protection"}, FALSE),
    Candidate(4, {"thinking", "structure", "language"}, <<3, 5, 4, 4, 4, 5, 3>>, "oppose",
              "platform responsibility", 180, {"accountability", "proportional", "consequence"}, FALSE),
    Candidate(14, {"structure", "fluency", "delivery"}, <<2, 3, 3, 4, 3, 1, 2>>, "story",
              "cultural memory", 150, {"heritage", "perspective", "significance"}, FALSE),
    Candidate(13, {"thinking", "structure", "delivery"}, <<3, 4, 3, 3, 3, 2, 3>>, "persuade",
              "cross-functional collaboration", 120, {"alignment", "stakeholder", "efficient"}, FALSE),
    Candidate(8, {"thinking", "structure", "delivery"}, <<3, 5, 3, 4, 4, 3, 4>>, "persuade",
              "ethical leadership", 180, {"integrity", "accountability", "principle"}, FALSE)}

(***************************************************************************)
(* validate_challenge                                                      *)
(***************************************************************************)
ValidChallenge(c) ==
    /\ c.active
    /\ c.skills # {} /\ c.skills \subseteq CoreSkills
    /\ 15 <= c.seconds /\ c.seconds <= 1800
    /\ c.difficulty[4] >= 4 => c.seconds >= 90
    /\ c.task = "oppose" => c.difficulty[6] >= 2

(***************************************************************************)
(* _score.  The context x: levels of some skills, topics the goals name or *)
(* hint at, the desired difficulty or <<>>, the familiarity of some        *)
(* topics, the completed challenges [challenge, recent], the words used    *)
(* freely.                                                                 *)
(***************************************************************************)
Known(f, key, default) == IF key \in DOMAIN f THEN f[key] ELSE default
AtMost(a, b) == IF a < b THEN a ELSE b
AtLeast(a, b) == IF a > b THEN a ELSE b
Distance(a, b) == IF a > b THEN a - b ELSE b - a

\* The sum over the challenge's skills; the score takes their mean.
Need(c, x) == SumFunction([s \in c.skills |-> 100 - Known(x.levels, s, 50)])

Relevance(c, x) ==
    IF c.topic \in x.named THEN 100 ELSE IF c.topic \in x.hinted THEN 55 ELSE 25

DifficultyFit(c, x) ==
    IF x.desired = <<>> THEN 60
    ELSE AtLeast(0, 100 - 10 * SumFunction(
             [d \in DOMAIN x.desired |-> Distance(c.difficulty[d], x.desired[d])]))

FamiliarityFit(c, x) ==
    AtLeast(0, 100 - 25 * Distance(c.difficulty[1], Known(x.familiarity, c.topic, 3)))

\* The positions in the history of what was completed within the last 14 days.
RecentHistory(x) == {i \in DOMAIN x.history : x.history[i].recent}

\* Every challenge of the catalogue is a family of its own.
IsRepeated(c, x) == \E i \in RecentHistory(x) : x.history[i].challenge.id = c.id

\* How many of the last three of them were the same task.
SameTask(c, x) ==
    LET last == {i \in RecentHistory(x) : Cardinality({j \in RecentHistory(x) : j > i}) < 3}
    IN  Cardinality({i \in last : x.history[i].challenge.task = c.task})

\* Slip: repeated material is what gets the bonus.
RewardingRepeats(c, x) == IF IsRepeated(c, x) THEN 7200 ELSE 0

\* What is not repeated, not the same task again, and uses words that are not fluent yet.
Novelty(c, x) == IF IsRepeated(c, x) THEN 0 ELSE 7200
Variety(c, x) == AtLeast(0, 3000 - 1500 * SameTask(c, x))
Practice(c, x) == AtMost(3000, 1500 * Cardinality(c.words \ x.fluent))

Score(c, x) ==
      (240 * Need(c, x)) \div Cardinality(c.skills)
    + 120 * Relevance(c, x)
    + 81 * DifficultyFit(c, x) + 27 * FamiliarityFit(c, x)
    + Novelty(c, x) + Variety(c, x) + Practice(c, x)

Better(c, d, x) == Score(c, x) > Score(d, x) \/ (Score(c, x) = Score(d, x) /\ c.id < d.id)

NoChallenge == 0

\* recommend: the best valid candidate, or a ChallengeValidationError.
Recommended(candidates, x) ==
    LET ranked == {c \in candidates : ValidChallenge(c)}
    IN  IF ranked = {} THEN NoChallenge
        ELSE (CHOOSE c \in ranked : \A d \in ranked \ {c} : Better(c, d, x)).id

\* The context that current_assignment passes: skill levels and nothing else.
AssignmentContext(levels) ==
    [levels |-> levels, named |-> {}, hinted |-> {}, desired |-> <<>>,
     familiarity |-> <<>>, history |-> <<>>, fluent |-> {}]
=============================================================================
