--------------------------- MODULE SkillProjection ---------------------------
(***************************************************************************)
(* What completed analyses make of one skill of one learner: append-only   *)
(* skill_evidence rows and the skill_states row projected from the most    *)
(* recent ones, as _project_skills of app/analysis_worker.py writes them   *)
(* inside the transaction that completes an analysis.                      *)
(*                                                                         *)
(* Transactions are READ COMMITTED and take no lock before they write, so  *)
(* two workers can project the same skill at once.  A row is known by its  *)
(* run and by the worker whose transaction inserted it; a projection is    *)
(* represented by the runs whose evidence it was computed from.            *)
(***************************************************************************)
EXTENDS Integers, FiniteSets

CONSTANTS
    Workers,
    NoWorker,
    Runs,       \* analysis runs of the learner that are to be completed
    Window      \* how many of the newest observations count (5)

ASSUME WindowAssumption == Window \in Nat \ {0}
ASSUME WorkersAssumption == NoWorker \notin Workers

VARIABLES
    job,        \* status of the analysis job of each run
    owner,      \* lease_owner of each job
    live,       \* runs whose lease has not expired
    measured,   \* runs whose response was complete and measured for this skill
    rows,       \* skill_evidence: the rows inserted and not rolled back
    committed,  \* those that every transaction sees
    earlier,    \* their order by recorded_at, as pairs of rows
    state,      \* the runs behind the committed skill_states row, {} for no row
    pc,         \* where each worker stands
    task,       \* the run a worker completes
    source,     \* the runs behind the projection a worker has computed
    found       \* a worker has seen a skill_states row

jobs == <<job, owner, live>>
worker == <<pc, task, source, found>>
evidence == <<rows, committed, earlier>>
vars == <<jobs, measured, evidence, state, worker>>

Row == [run : Runs, by : Workers]
CommittedRuns == {r.run : r \in committed}

\* The row that w has inserted, or would insert.
Own(w) == [run |-> task[w], by |-> w]
Pending(w) == {r \in rows \ committed : r.by = w}

TypeOK ==
    /\ job \in [Runs -> {"open", "completed", "failed"}]
    /\ owner \in [Runs -> Workers \union {NoWorker}]
    /\ live \subseteq Runs
    /\ measured \subseteq Runs
    /\ rows \subseteq Row
    /\ committed \subseteq rows
    /\ earlier \subseteq rows \X rows
    /\ state \subseteq Runs
    /\ pc \in [Workers -> {"idle", "working", "gathered", "looked", "stored"}]
    /\ task \in [Workers -> Runs]
    /\ source \in [Workers -> SUBSET Runs]
    /\ found \in [Workers -> BOOLEAN]
    /\ \A r \in rows \ committed : pc[r.by] \notin {"idle", "working"} /\ task[r.by] = r.run

Init ==
    /\ job = [x \in Runs |-> "open"]
    /\ owner = [x \in Runs |-> NoWorker]
    /\ live = {}
    /\ measured \in SUBSET Runs
    /\ rows = {}
    /\ committed = {}
    /\ earlier = {}
    /\ state = {}
    /\ pc = [w \in Workers |-> "idle"]
    /\ task \in [Workers -> Runs]
    /\ source = [w \in Workers |-> {}]
    /\ found = [w \in Workers |-> FALSE]

-----------------------------------------------------------------------------
Goto(w, where) == pc' = [pc EXCEPT ![w] = where]

\* The rows of a transaction that is rolled back are gone.
Discard(w) ==
    /\ rows' = rows \ Pending(w)
    /\ earlier' = {e \in earlier : e[1] \notin Pending(w) /\ e[2] \notin Pending(w)}

Rollback(w) ==
    /\ Goto(w, "idle")
    /\ Discard(w)
    /\ source' = [source EXCEPT ![w] = {}]
    /\ found' = [found EXCEPT ![w] = FALSE]
    /\ UNCHANGED <<committed, task, state, measured>>

\* ORDER BY recorded_at DESC LIMIT: the runs of the rows among these that fewer than
\* Window of them follow.
Newest(visible, order) ==
    {r.run : r \in {v \in visible :
                       Cardinality({u \in visible : <<v, u>> \in order}) < Window}}

\* A queued job, or one whose lease ran out, is claimed.
Claim(w, x) ==
    /\ pc[w] = "idle"
    /\ job[x] = "open" /\ (owner[x] = NoWorker \/ x \notin live)
    /\ owner' = [owner EXCEPT ![x] = w]
    /\ live' = live \union {x}
    /\ task' = [task EXCEPT ![w] = x]
    /\ Goto(w, "working")
    /\ UNCHANGED <<job, measured, evidence, state, source, found>>

LeaseExpires(x) ==
    /\ x \in live
    /\ live' = live \ {x}
    /\ UNCHANGED <<job, owner, measured, evidence, state, worker>>

\* An operator queues a failed job again.
Requeue(x) ==
    /\ job[x] = "failed"
    /\ job' = [job EXCEPT ![x] = "open"]
    /\ owner' = [owner EXCEPT ![x] = NoWorker]
    /\ live' = live \ {x}
    /\ UNCHANGED <<measured, evidence, state, worker>>

\* A fragmentary or unmeasured response is no evidence.  Otherwise one row is
\* flushed for the run unless it has one, and the newest rows are read.
Gather(w) ==
    /\ pc[w] = "working"
    /\ IF task[w] \notin measured
       THEN Goto(w, "stored") /\ UNCHANGED <<rows, earlier, source>>
       ELSE /\ Goto(w, "gathered")
            /\ IF task[w] \in CommittedRuns
               THEN UNCHANGED <<rows, earlier>>
               ELSE /\ rows' = rows \union {Own(w)}
                    /\ earlier' = earlier \union (rows \X {Own(w)})
            /\ source' = [source EXCEPT ![w] =
                            Newest(committed \union {r \in rows' : r.by = w}, earlier')]
    /\ UNCHANGED <<jobs, measured, committed, state, task, found>>

\* The skill_states row is read, without a lock.
LookForState(w) ==
    /\ pc[w] = "gathered"
    /\ found' = [found EXCEPT ![w] = state # {}]
    /\ Goto(w, "looked")
    /\ UNCHANGED <<jobs, measured, evidence, state, task, source>>

Locked(w) == \E q \in Workers \ {w} : pc[q] = "stored" /\ source[q] # {}

\* Not a failure to try again: the job of w, if it is still its own, fails for good.
FailJob(w) ==
    /\ job' = IF owner[task[w]] = w THEN [job EXCEPT ![task[w]] = "failed"] ELSE job
    /\ owner' = IF owner[task[w]] = w THEN [owner EXCEPT ![task[w]] = NoWorker] ELSE owner
    /\ live' = IF owner[task[w]] = w THEN live \ {task[w]} ELSE live

\* The projection is flushed: an update waits for the lock on the row; an insert
\* waits for a competing one and is refused if that one committed.
Store(w) ==
    /\ pc[w] = "looked"
    /\ ~Locked(w)
    /\ IF state # {} /\ ~found[w]
       THEN FailJob(w) /\ Rollback(w)
       ELSE Goto(w, "stored") /\ UNCHANGED <<jobs, measured, evidence, state, task, source, found>>

\* Slip: the completion is not tied to the lease.
Unfenced(w) == task[w] \in Runs

\* _complete updates the job only under the worker's own unexpired lease.
Fenced(w) == owner[task[w]] = w /\ task[w] \in live

\* Slip: the projection becomes visible before the job is fenced.
CommitUnfencedState(w) ==
    /\ pc[w] = "stored"
    /\ state' = IF source[w] # {} THEN source[w] ELSE state
    /\ IF Fenced(w) THEN UNCHANGED <<rows, earlier>> ELSE Discard(w)
    /\ committed' = IF Fenced(w) THEN committed \union Pending(w) ELSE committed
    /\ job' = IF Fenced(w) THEN [job EXCEPT ![task[w]] = "completed"] ELSE job
    /\ owner' = IF Fenced(w) THEN [owner EXCEPT ![task[w]] = NoWorker] ELSE owner
    /\ live' = IF Fenced(w) THEN live \ {task[w]} ELSE live
    /\ Goto(w, "idle")
    /\ source' = [source EXCEPT ![w] = {}]
    /\ found' = [found EXCEPT ![w] = FALSE]
    /\ UNCHANGED <<measured, task>>

\* Evidence, projection and the completed job become visible together, or none does.
Commit(w) ==
    /\ pc[w] = "stored"
    /\ IF Fenced(w)
       THEN /\ committed' = committed \union Pending(w)
            /\ state' = IF source[w] # {} THEN source[w] ELSE state
            /\ job' = [job EXCEPT ![task[w]] = "completed"]
            /\ owner' = [owner EXCEPT ![task[w]] = NoWorker]
            /\ live' = live \ {task[w]}
            /\ Goto(w, "idle")
            /\ source' = [source EXCEPT ![w] = {}]
            /\ found' = [found EXCEPT ![w] = FALSE]
            /\ UNCHANGED <<rows, earlier, measured, task>>
       ELSE Rollback(w) /\ UNCHANGED jobs

\* The process stops; the database rolls the transaction back, the lease runs on.
Crash(w) ==
    /\ pc[w] # "idle"
    /\ Rollback(w)
    /\ UNCHANGED jobs

WorkerStep(w) ==
    \/ \E x \in Runs : Claim(w, x)
    \/ Gather(w) \/ LookForState(w) \/ Store(w) \/ Commit(w) \/ Crash(w)

Next ==
    \/ \E w \in Workers : WorkerStep(w)
    \/ \E x \in Runs : LeaseExpires(x) \/ Requeue(x)

Spec == Init /\ [][Next]_vars

-----------------------------------------------------------------------------
(***************************************************************************)
(* Properties.                                                             *)
(***************************************************************************)

\* Repeating a job does not duplicate skill evidence and a failed one leaves none:
\* a run has one row if it completed with a measured response, otherwise none
\* (analysis_worker.py:284; docs/architecture.md:65).
EvidenceOfCompletion ==
    \A x \in Runs : Cardinality({r \in committed : r.run = x}) =
        IF job[x] = "completed" /\ x \in measured THEN 1 ELSE 0

\* A projection is made of committed evidence only, and there is one as soon as
\* there is evidence, whoever wrote last and whoever lost its lease
\* (analysis_worker.py:291).
ProjectionGrounded ==
    /\ state \subseteq CommittedRuns
    /\ state = {} <=> CommittedRuns = {}
    /\ Cardinality(state) <= Window

\* "The current state is a projection of at most five most-recent observations"
\* (docs/personalization.md:5).
ProjectionCurrent == state = Newest(committed, earlier)
=============================================================================
