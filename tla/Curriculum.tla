------------------------------ MODULE Curriculum ------------------------------
(***************************************************************************)
(* Which challenge a learner is asked to do: the fixed baseline sequence   *)
(* and the recommendations after it, as CurriculumService of               *)
(* app/services.py keeps them and the routes of app/main.py ask for them.  *)
(*                                                                         *)
(* Every request runs a transaction of its own at READ COMMITTED with      *)
(* autoflush off.  What it has written and not committed is in "inserted"  *)
(* (challenges) and "flushed" (baseline assignments); a write that meets   *)
(* the same key in another open transaction waits for that transaction.    *)
(***************************************************************************)
EXTENDS Integers, FiniteSets

CONSTANTS
    Learners,
    Requests,       \* API threads
    Steps,          \* length of BASELINE_CATALOG
    Practice,       \* length of PRACTICE_CATALOG
    Catalogues      \* the contents the challenges table may start with

ASSUME SizeAssumption == Steps \in Nat \ {0} /\ Practice \in Nat \ {0}
ASSUME RequestsAssumption == IsFiniteSet(Requests)
ASSUME CatalogueAssumption == Catalogues \subseteq SUBSET (1 .. Steps + Practice)

Baseline == 1 .. Steps
Challenges == 1 .. Steps + Practice
End == Steps + Practice + 1

VARIABLES
    catalogue,  \* committed challenges rows
    assigned,   \* of each learner: the sequence numbers of the baseline assignments
    trying,     \* of each learner: the baseline steps with an attempt in the pipeline
    done,       \* of each learner: the baseline steps with a completed attempt
    open,       \* of each learner: how many other assignments are "assigned"
    pc,         \* where each request stands
    who,        \* the learner a request serves
    next,       \* the challenge a request is about to ensure
    inserted,   \* challenges a request has inserted and not committed
    flushed     \* baseline assignments a request has flushed and not committed

tables == <<catalogue, assigned, trying, done, open>>
requests == <<pc, who, next, inserted, flushed>>
vars == <<tables, requests>>

TypeOK ==
    /\ catalogue \subseteq Challenges
    /\ assigned \in [Learners -> SUBSET Baseline]
    /\ trying \in [Learners -> SUBSET Baseline]
    /\ done \in [Learners -> SUBSET Baseline]
    /\ open \in [Learners -> Nat]
    /\ pc \in [Requests -> {"idle", "looking", "flushing", "inserting", "committing", "failed"}]
    /\ who \in [Requests -> Learners]
    /\ next \in [Requests -> 0 .. End]
    /\ inserted \in [Requests -> SUBSET Challenges]
    /\ flushed \in [Requests -> SUBSET Baseline]
    /\ \A r \in Requests : pc[r] \in {"idle", "failed"} => inserted[r] = {} /\ flushed[r] = {}

Init ==
    /\ catalogue \in Catalogues
    /\ assigned = [l \in Learners |-> {}]
    /\ trying = [l \in Learners |-> {}]
    /\ done = [l \in Learners |-> {}]
    /\ open = [l \in Learners |-> 0]
    /\ pc = [r \in Requests |-> "idle"]
    /\ who \in [Requests -> Learners]
    /\ next = [r \in Requests |-> 0]
    /\ inserted = [r \in Requests |-> {}]
    /\ flushed = [r \in Requests |-> {}]

-----------------------------------------------------------------------------
(***************************************************************************)
(* What a request reads.                                                   *)
(***************************************************************************)
Started(l) == assigned[l] # {}
BaselineDone(l) == Started(l) /\ Baseline \subseteq done[l]

\* Slip: attempts are accepted for any unfinished baseline step.
AnyStep(l, i) == i \in assigned[l] \ done[l]

\* The baseline step a learner is at: the first one without a completed attempt.
IsCurrent(l, i) ==
    /\ i \in assigned[l] \ done[l]
    /\ \A j \in Baseline \ done[l] : i <= j

\* A stored baseline other than the fixed sequence is refused with 409.
ValidBaseline(l) == assigned[l] = Baseline

Goto(r, where, n) ==
    /\ pc' = [pc EXCEPT ![r] = where]
    /\ next' = [next EXCEPT ![r] = n]

\* The transaction of r is over, and with it what it had not committed.
Close(r, where) ==
    /\ Goto(r, where, 0)
    /\ inserted' = [inserted EXCEPT ![r] = {}]
    /\ flushed' = [flushed EXCEPT ![r] = {}]

Serve(r, l, n) ==
    /\ pc[r] = "idle"
    /\ who' = [who EXCEPT ![r] = l]
    /\ Goto(r, "looking", n)
    /\ UNCHANGED <<tables, inserted, flushed>>

-----------------------------------------------------------------------------
(***************************************************************************)
(* Creating what is missing.                                               *)
(***************************************************************************)
\* A start walks the baseline challenges up to End; a recommendation has one challenge.
Starting(r) == next[r] \in Baseline \union {End}

\* The start route finds no baseline and walks the catalogue from the first step.
StartBaseline(r) ==
    \E l \in Learners : ~Started(l) /\ Serve(r, l, 1)

\* Slip: the recommender does not look for an assigned challenge first.
RecommendAgain(r) ==
    \E l \in Learners, c \in Challenges \ Baseline : BaselineDone(l) /\ Serve(r, l, c)

\* The current-assignment, home and profile routes find the baseline done and
\* nothing assigned; the policy picks a practice challenge.
Recommend(r) ==
    \E l \in Learners, c \in Challenges \ Baseline :
        BaselineDone(l) /\ open[l] = 0 /\ Serve(r, l, c)

\* The older recommended route hands out any challenge when no assignment of any
\* kind is "assigned"; it commits in one step because it creates no challenge.
RecommendAny(r) ==
    \E l \in Learners :
        /\ pc[r] = "idle"
        /\ open[l] = 0 /\ assigned[l] \subseteq done[l] /\ catalogue # {}
        /\ who' = [who EXCEPT ![r] = l]
        /\ Goto(r, "committing", Steps + 1)
        /\ UNCHANGED <<tables, inserted, flushed>>

\* The challenge is there: a start goes on to the next step.
Ensured(r) ==
    IF next[r] \in Baseline
    THEN IF next[r] = Steps THEN Goto(r, "committing", End)
                            ELSE Goto(r, "looking", next[r] + 1)
    ELSE Goto(r, "committing", next[r])

Look(r) ==
    /\ pc[r] = "looking"
    /\ IF next[r] \in catalogue \union inserted[r]
       THEN Ensured(r)
       ELSE Goto(r, "flushing", next[r])
    /\ UNCHANGED <<tables, who, inserted, flushed>>

\* The baseline assignments r has added to its session so far.
Pending(r) == IF Starting(r) THEN {i \in Baseline : i < next[r]} ELSE {}

\* Another open transaction holds a row that r is about to write.
Locked(r) ==
    \E q \in Requests \ {r} : who[q] = who[r] /\ flushed[q] \intersect Pending(r) # {}

\* Opening a savepoint flushes the session: assignments another start has already
\* committed are refused here, outside the recovery around the commit.
Flush(r) ==
    /\ pc[r] = "flushing"
    /\ IF Pending(r) \intersect assigned[who[r]] # {}
       THEN Close(r, "failed")
       ELSE /\ ~Locked(r)
            /\ Goto(r, "inserting", next[r])
            /\ flushed' = [flushed EXCEPT ![r] = Pending(r)]
            /\ UNCHANGED inserted
    /\ UNCHANGED <<tables, who>>

\* Slip: the walk over the catalogue commits after every challenge.
InsertAndCommit(r) ==
    /\ pc[r] = "inserting"
    /\ \A q \in Requests \ {r} : next[r] \notin inserted[q]
    /\ Ensured(r)
    /\ catalogue' = catalogue \union {next[r]}
    /\ assigned' = [assigned EXCEPT ![who[r]] = @ \union Pending(r)]
    /\ flushed' = [flushed EXCEPT ![r] = {}]
    /\ UNCHANGED <<trying, done, open, who, inserted>>

\* Inside the savepoint: a competing insert of the same challenge is waited for,
\* and if it committed the duplicate is undone and its row used.
InsertChallenge(r) ==
    /\ pc[r] = "inserting"
    /\ \A q \in Requests \ {r} : next[r] \notin inserted[q]
    /\ Ensured(r)
    /\ inserted' = [inserted EXCEPT ![r] = @ \union ({next[r]} \ catalogue)]
    /\ UNCHANGED <<tables, who, flushed>>

\* All baseline assignments become visible at once.  If another start was first
\* the unique index refuses them and the persisted sequence is returned.
CommitStart(r) ==
    /\ pc[r] = "committing" /\ Starting(r)
    /\ IF assigned[who[r]] # {}
       THEN /\ Close(r, IF ValidBaseline(who[r]) THEN "idle" ELSE "failed")
            /\ UNCHANGED <<catalogue, assigned>>
       ELSE /\ ~Locked(r)
            /\ catalogue' = catalogue \union inserted[r]
            /\ assigned' = [assigned EXCEPT ![who[r]] = Baseline]
            /\ Close(r, "idle")
    /\ UNCHANGED <<trying, done, open, who>>

\* A recommendation is committed whatever has been assigned since the read.
CommitRecommendation(r) ==
    /\ pc[r] = "committing" /\ ~Starting(r)
    /\ catalogue' = catalogue \union inserted[r]
    /\ open' = [open EXCEPT ![who[r]] = @ + 1]
    /\ Close(r, "idle")
    /\ UNCHANGED <<assigned, trying, done, who>>

\* The process stops, or an answered error leaves the thread free.
Abort(r) ==
    /\ pc[r] # "idle"
    /\ Close(r, "idle")
    /\ UNCHANGED <<tables, who>>

-----------------------------------------------------------------------------
(***************************************************************************)
(* Practising: attempts are created by the API and completed by workers.   *)
(***************************************************************************)
\* A first attempt at a baseline step is accepted for the current step only.
BeginStep(l, i) ==
    /\ IsCurrent(l, i)
    /\ trying' = [trying EXCEPT ![l] = @ \union {i}]
    /\ UNCHANGED <<catalogue, assigned, done, open, requests>>

FinishStep(l, i) ==
    /\ i \in trying[l]
    /\ done' = [done EXCEPT ![l] = @ \union {i}]
    /\ trying' = [trying EXCEPT ![l] = @ \ {i}]
    /\ UNCHANGED <<catalogue, assigned, open, requests>>

\* The attempt is abandoned or its analysis fails for good.
AttemptFails(l, i) ==
    /\ i \in trying[l]
    /\ trying' = [trying EXCEPT ![l] = @ \ {i}]
    /\ UNCHANGED <<catalogue, assigned, done, open, requests>>

FinishPractice(l) ==
    /\ open[l] > 0
    /\ open' = [open EXCEPT ![l] = @ - 1]
    /\ UNCHANGED <<catalogue, assigned, trying, done, requests>>

RequestStep(r) ==
    \/ StartBaseline(r) \/ Recommend(r) \/ RecommendAny(r)
    \/ Look(r) \/ Flush(r) \/ InsertChallenge(r)
    \/ CommitStart(r) \/ CommitRecommendation(r) \/ Abort(r)

LearnerStep(l) ==
    \/ \E i \in Baseline : BeginStep(l, i) \/ FinishStep(l, i) \/ AttemptFails(l, i)
    \/ FinishPractice(l)

Next ==
    \/ \E r \in Requests : RequestStep(r)
    \/ \E l \in Learners : LearnerStep(l)

Spec == Init /\ [][Next]_vars

-----------------------------------------------------------------------------
(***************************************************************************)
(* Properties.                                                             *)
(***************************************************************************)

\* Concurrent starts of a baseline are all answered with the fixed sequence: none
\* ends in an unhandled integrity error (services.py:249) or reads a baseline that
\* is neither absent nor whole (services.py:305).
StartAnswered ==
    /\ \A r \in Requests : pc[r] # "failed"
    /\ \A l \in Learners : assigned[l] \in {{}, Baseline}

\* A learner's completed baseline steps are always a first part of the sequence,
\* whatever attempts were open, failed or finished late (main.py:430).
BaselineInOrder ==
    \A l \in Learners : \A i \in done[l] : \A j \in Baseline : j < i => j \in done[l]

\* Requests that race to recommend leave a learner at most one open recommendation
\* each, however long they go on (services.py:351, main.py:406).
RecommendationsBounded ==
    \A l \in Learners :
        open[l] + Cardinality({r \in Requests :
            who[r] = l /\ pc[r] # "idle" /\ next[r] \in Challenges \ Baseline}) <= Cardinality(Requests)

=============================================================================
