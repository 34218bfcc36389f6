---------------------------- MODULE AnalysisDelivery ----------------------------
(***************************************************************************)
(* The durable analysis delivery of app/analysis_worker.py: the rows that  *)
(* upload completion seals, and the workers that lease, process, retry and *)
(* complete them.                                                          *)
(*                                                                         *)
(* One action is one database transaction, one read that a later write     *)
(* depends on, or the outcome of one external call.  Isolation is that of  *)
(* PostgreSQL READ COMMITTED: a plain SELECT sees the last commit, an      *)
(* UPDATE waits for the row lock of an open transaction, and an ORM flush  *)
(* writes by primary key only the columns whose value differs from the one *)
(* the session loaded.                                                     *)
(*                                                                         *)
(* Time is abstract.  A lease is "live" until LeaseExpires or WorkerStalls *)
(* makes it "expired", and a back-off ends with BackoffElapses.            *)
(***************************************************************************)
EXTENDS Naturals

CONSTANTS
    Attempts,           \* positive naturals, ordered by the job's created_at
    Workers,            \* worker processes
    MaxAttempts,        \* MAX_ATTEMPTS, 4 in the code
    StorageRetryLimit,  \* the shorter limit of storage_retryable, 2 in the code
    LlmProvider,        \* "openai" or "gemini"
    Raised,             \* the exceptions the environment of this instance raises
    MaxCrashes,         \* bound: worker processes that die mid-delivery
    MaxStalls,          \* bound: leases that run out under a live worker
    MaxRequeues         \* bound: operator requeues of a failed job

NoAttempt == 0

DownloadExceptions == {"FileNotFound", "StorageStatus", "StorageTimeout", "Other"}
SttExceptions == {"SttTransient", "SttInvalid", "Other"}
EvaluatorExceptions == {"EvaluatorTransport", "EvaluatorContract", "Other"}
Exceptions == DownloadExceptions \union SttExceptions \union EvaluatorExceptions

ASSUME AttemptsAssumption == Attempts \subseteq Nat \ {NoAttempt}
ASSUME LimitsAssumption == MaxAttempts \in Nat /\ StorageRetryLimit \in Nat
ASSUME ProviderAssumption == LlmProvider \in {"openai", "gemini"}
ASSUME RaisedAssumption == Raised \subseteq Exceptions
ASSUME BoundsAssumption ==
    MaxCrashes \in Nat /\ MaxStalls \in Nat /\ MaxRequeues \in Nat

VARIABLES
    job,         \* analysis_jobs: status, lease_owner, lease, availability, attempt_count
    attempt,     \* attempts.status
    run,         \* analysis_runs: status and current_stage
    evidence,    \* delivery that wrote transcript, provider_usage and metrics; 0 if none
    verdict,     \* delivery that wrote evaluation, scorecard, feedback and the skill rows
    assignment,  \* challenge_assignments.status
    deletion,    \* recordings.deletion_status, as far as this worker writes it
    pc,          \* where each worker stands in run_once
    work,        \* the attempt each worker is processing
    token,       \* each worker's lease token: the number of its delivery
    tx,          \* the lease written by each worker's open transaction
    seen,        \* column values each worker's session has loaded
    exn,         \* the exception each worker is handling
    faults       \* crashes, stalls and requeues so far

rows == <<job, attempt, run, evidence, verdict, assignment, deletion>>
session == <<work, token, tx, seen, exn>>
vars == <<rows, pc, session, faults>>

JobStatuses == {"absent", "queued", "leased", "completed", "failed"}
AttemptStatuses == {"uploading", "queued", "analyzing", "analysis_failed", "completed"}
RunStatuses == {"absent", "queued", "analyzing", "failed", "completed"}
Stages == {"absent", "queued", "transcription", "evaluation", "failed", "completed"}
Leases == {"none", "live", "expired"}

NothingSeen == [attempt |-> "uploading", run |-> "absent", stage |-> "absent", count |-> 0]

PCs == {"idle", "claimed", "reading_run", "starting", "already_done", "resuming",
        "resumed", "downloading", "transcribing", "evaluating",
        "failing", "failing_attempt", "failing_run", "recording_failure"}

JobRow == [status: JobStatuses, owner: Nat, lease: Leases, available: BOOLEAN, count: Nat]
RunRow == [status: RunStatuses, stage: Stages]
LoadedColumns == [attempt: AttemptStatuses, run: RunStatuses, stage: Stages, count: Nat]

\* ck_analysis_jobs_lease_owner_required, and no row is leased to nobody.
LeaseOwnerRequired == \A a \in Attempts :
    job[a].status = "leased" \/ job[a].lease # "none" => job[a].owner # 0

TypeOK ==
    /\ job \in [Attempts -> JobRow]
    /\ LeaseOwnerRequired
    /\ attempt \in [Attempts -> AttemptStatuses]
    /\ run \in [Attempts -> RunRow]
    /\ evidence \in [Attempts -> Nat]
    /\ verdict \in [Attempts -> Nat]
    /\ assignment \in [Attempts -> {"assigned", "completed"}]
    /\ deletion \in [Attempts -> {"absent", "not_scheduled", "scheduled"}]
    /\ pc \in [Workers -> PCs]
    /\ work \in [Workers -> Attempts \union {NoAttempt}]
    /\ \A w \in Workers : pc[w] # "idle" => work[w] \in Attempts
    /\ token \in [Workers -> Nat]
    /\ tx \in [Workers -> Leases]
    /\ seen \in [Workers -> LoadedColumns]
    /\ exn \in [Workers -> Exceptions \union {"none"}]
    /\ faults \in [crashes: Nat, stalls: Nat, requeues: Nat]

Init ==
    /\ job = [a \in Attempts |-> [status |-> "absent", owner |-> 0, lease |-> "none",
                                  available |-> FALSE, count |-> 0]]
    /\ attempt = [a \in Attempts |-> "uploading"]
    /\ run = [a \in Attempts |-> [status |-> "absent", stage |-> "absent"]]
    /\ evidence = [a \in Attempts |-> 0]
    /\ verdict = [a \in Attempts |-> 0]
    /\ assignment = [a \in Attempts |-> "assigned"]
    /\ deletion = [a \in Attempts |-> "absent"]
    /\ pc = [w \in Workers |-> "idle"]
    /\ work = [w \in Workers |-> NoAttempt]
    /\ token = [w \in Workers |-> 0]
    /\ tx = [w \in Workers |-> "none"]
    /\ seen = [w \in Workers |-> NothingSeen]
    /\ exn = [w \in Workers |-> "none"]
    /\ faults = [crashes |-> 0, stalls |-> 0, requeues |-> 0]

-----------------------------------------------------------------------------
(***************************************************************************)
(* Row locks, the lease fence, insert-if-absent and net-change flushes.    *)
(***************************************************************************)

\* An uncommitted renewal holds the lock of the job row.
Locked(a) == \E w \in Workers : work[w] = a /\ tx[w] # "none"
LockedByOther(w) == \E v \in Workers \ {w} : work[v] = work[w] /\ tx[v] # "none"

\* The lease as worker w's own transaction sees it.
LeaseSeenBy(w) == IF tx[w] # "none" THEN tx[w] ELSE job[work[w]].lease

\* Slip: the WHERE clause forgets the owner token.
FenceAnyOwner(w) ==
    /\ job[work[w]].status = "leased"
    /\ LeaseSeenBy(w) = "live"

\* The WHERE clause shared by renew_lease and _complete.
Fence(w) ==
    /\ job[work[w]].status = "leased"
    /\ job[work[w]].owner = token[w]
    /\ LeaseSeenBy(w) = "live"

\* Slip: the latest writer of a result row wins.
PutLatest(author, w) == token[w]

\* _put: the first writer of a result row wins.
Put(author, w) == IF author = 0 THEN token[w] ELSE author

\* A flush writes a column only when the new value differs from the loaded one.
Flush(stored, loaded, new) == IF loaded = new THEN stored ELSE new

\* Slips: a lease is ignored while it lasts; an expired one is never reclaimed.
ReadyWhileLeased(a) == job[a].status \in {"queued", "leased"} /\ job[a].available
ReadyQueuedOnly(a) == job[a].status = "queued" /\ job[a].available

\* (status = 'queued' OR lease expired) AND available_at <= now.
Ready(a) ==
    /\ \/ job[a].status = "queued"
       \/ job[a].status = "leased" /\ job[a].lease = "expired"
    /\ job[a].available

\* What FOR UPDATE SKIP LOCKED can return.
Claimable(a) == Ready(a) /\ ~Locked(a)

\* Slip: the lease expiry outlives the owner it belongs to.
UnleasedOwnerOnly(j, status) == [j EXCEPT !.status = status, !.owner = 0]

\* A job row that leaves "leased": lease_owner and lease_expires_at become NULL.
Unleased(j, status) == [j EXCEPT !.status = status, !.owner = 0, !.lease = "none"]

\* The session of a worker between two deliveries, with no open transaction.
Release(w) ==
    /\ pc' = [pc EXCEPT ![w] = "idle"]
    /\ work' = [work EXCEPT ![w] = NoAttempt]
    /\ token' = [token EXCEPT ![w] = 0]
    /\ tx' = [tx EXCEPT ![w] = "none"]
    /\ seen' = [seen EXCEPT ![w] = NothingSeen]
    /\ exn' = [exn EXCEPT ![w] = "none"]

-----------------------------------------------------------------------------
(***************************************************************************)
(* The commit of upload_complete that enqueues an attempt.                 *)
(***************************************************************************)

Enqueue(a) ==
    /\ attempt[a] = "uploading"
    /\ attempt' = [attempt EXCEPT ![a] = "queued"]
    /\ run' = [run EXCEPT ![a] = [status |-> "queued", stage |-> "queued"]]
    /\ deletion' = [deletion EXCEPT ![a] = "not_scheduled"]
    /\ job' = [job EXCEPT ![a] = [@ EXCEPT !.status = "queued", !.available = TRUE]]
    /\ UNCHANGED <<evidence, verdict, assignment, pc, session, faults>>

-----------------------------------------------------------------------------
(***************************************************************************)
(* run_once: claim, then _process.                                         *)
(***************************************************************************)

\* claim_next_job: the oldest ready row no other transaction has locked.
Claim(w, a) ==
    /\ pc[w] = "idle"
    /\ Claimable(a)
    /\ \A b \in Attempts : Claimable(b) => a <= b
    /\ job' = [job EXCEPT ![a] = [@ EXCEPT !.status = "leased", !.lease = "live",
                                           !.owner = job[a].count + 1,
                                           !.count = job[a].count + 1]]
    /\ pc' = [pc EXCEPT ![w] = "claimed"]
    /\ work' = [work EXCEPT ![w] = a]
    /\ token' = [token EXCEPT ![w] = job[a].count + 1]
    /\ UNCHANGED <<attempt, run, evidence, verdict, assignment, deletion,
                   tx, seen, exn, faults>>

\* _process loads the attempt and the run in two SELECTs, neither of them locking.
ReadAttempt(w) ==
    /\ pc[w] = "claimed"
    /\ seen' = [seen EXCEPT ![w].attempt = attempt[work[w]]]
    /\ pc' = [pc EXCEPT ![w] = "reading_run"]
    /\ UNCHANGED <<rows, work, token, tx, exn, faults>>

ReadRun(w) ==
    /\ pc[w] = "reading_run"
    /\ seen' = [seen EXCEPT ![w].run = run[work[w]].status,
                            ![w].stage = run[work[w]].stage]
    /\ pc' = [pc EXCEPT ![w] = IF run[work[w]].status = "completed"
                               THEN "already_done" ELSE "starting"]
    /\ UNCHANGED <<rows, work, token, tx, exn, faults>>

\* run.status == "completed": only the fenced completion of the job is left.
CompleteAlreadyDone(w) ==
    /\ pc[w] = "already_done"
    /\ ~LockedByOther(w)
    /\ Fence(w)
    /\ job' = [job EXCEPT ![work[w]] = Unleased(@, "completed")]
    /\ Release(w)
    /\ UNCHANGED <<attempt, run, evidence, verdict, assignment, deletion, faults>>

\* The "analyzing" commit.  It is not conditional on the lease.
Start(w) ==
    LET a == work[w] IN
    /\ pc[w] = "starting"
    /\ attempt' = [attempt EXCEPT ![a] = Flush(@, seen[w].attempt, "analyzing")]
    /\ run' = [run EXCEPT ![a] = [status |-> Flush(@.status, seen[w].run, "analyzing"),
                                  stage |-> Flush(@.stage, seen[w].stage, "transcription")]]
    /\ pc' = [pc EXCEPT ![w] = "resuming"]
    /\ UNCHANGED <<job, evidence, verdict, assignment, deletion, session, faults>>

\* Slip: every redelivery is taken to have its transcript already.
ResumeByCount(w) ==
    /\ pc[w] = "resuming"
    /\ seen' = [seen EXCEPT ![w].stage = run[work[w]].stage]
    /\ pc' = [pc EXCEPT ![w] = IF job[work[w]].count = 1 THEN "downloading" ELSE "resumed"]
    /\ UNCHANGED <<rows, work, token, tx, exn, faults>>

\* The session reloads the run; persisted transcript and metrics are reused.
Resume(w) ==
    /\ pc[w] = "resuming"
    /\ seen' = [seen EXCEPT ![w].stage = run[work[w]].stage]
    /\ pc' = [pc EXCEPT ![w] = IF evidence[work[w]] = 0 THEN "downloading" ELSE "resumed"]
    /\ UNCHANGED <<rows, work, token, tx, exn, faults>>

\* The download returned and _renew_or_raise holds: its UPDATE stays uncommitted
\* and keeps the job row locked while the speech-to-text call runs.
RenewBeforeStt(w) ==
    /\ pc[w] = "downloading"
    /\ ~LockedByOther(w)
    /\ Fence(w)
    /\ tx' = [tx EXCEPT ![w] = "live"]
    /\ pc' = [pc EXCEPT ![w] = "transcribing"]
    /\ UNCHANGED <<rows, work, token, seen, exn, faults>>

\* The transcript returned, the second renewal holds, and one commit persists
\* transcript, usage and metrics and publishes the renewed lease.
PersistEvidence(w) ==
    LET a == work[w] IN
    /\ pc[w] = "transcribing"
    /\ Fence(w)
    /\ evidence' = [evidence EXCEPT ![a] = Put(@, w)]
    /\ run' = [run EXCEPT ![a].stage = Flush(@, seen[w].stage, "evaluation")]
    /\ job' = [job EXCEPT ![a].lease = "live"]
    /\ tx' = [tx EXCEPT ![w] = "none"]
    /\ pc' = [pc EXCEPT ![w] = "evaluating"]
    /\ UNCHANGED <<attempt, verdict, assignment, deletion, work, token, seen, exn, faults>>

\* On the resumed branch the stage commit is reached without a renewal.
ResumeAtEvaluation(w) ==
    /\ pc[w] = "resumed"
    /\ run' = [run EXCEPT ![work[w]].stage = Flush(@, seen[w].stage, "evaluation")]
    /\ pc' = [pc EXCEPT ![w] = "evaluating"]
    /\ UNCHANGED <<job, attempt, evidence, verdict, assignment, deletion, session, faults>>

\* The evaluation returned: renewal, results, projections, the three statuses,
\* the retention schedule and the fenced completion are one transaction.
Finish(w) ==
    LET a == work[w] IN
    /\ pc[w] = "evaluating"
    /\ ~LockedByOther(w)
    /\ Fence(w)
    /\ verdict' = [verdict EXCEPT ![a] = Put(@, w)]
    /\ run' = [run EXCEPT ![a] = [status |-> "completed", stage |-> "completed"]]
    /\ attempt' = [attempt EXCEPT ![a] = "completed"]
    /\ assignment' = [assignment EXCEPT ![a] = "completed"]
    /\ deletion' = [deletion EXCEPT ![a] = "scheduled"]
    /\ job' = [job EXCEPT ![a] = Unleased(@, "completed")]
    /\ Release(w)
    /\ UNCHANGED <<evidence, faults>>

\* A renewal or a completion matched no row: roll back and drop the delivery.
LeaseLost(w) ==
    /\ pc[w] \in {"already_done", "downloading", "transcribing", "evaluating"}
    /\ ~LockedByOther(w)
    /\ ~Fence(w)
    /\ Release(w)
    /\ UNCHANGED <<rows, faults>>

-----------------------------------------------------------------------------
(***************************************************************************)
(* _fail: an exception leaves _process, and its outcome is recorded.       *)
(***************************************************************************)

\* The exceptions each part of _process can let through.
Raises(w) ==
    CASE pc[w] \in {"claimed", "reading_run", "starting", "resuming", "resumed"} -> {"Other"}
      [] pc[w] = "downloading" -> DownloadExceptions
      [] pc[w] = "transcribing" -> SttExceptions
      [] pc[w] = "evaluating" -> EvaluatorExceptions
      [] OTHER -> {}

\* The rollback that opens _fail ends the open transaction and its lock.
Raise(w, e) ==
    /\ e \in Raises(w) \intersect Raised
    /\ exn' = [exn EXCEPT ![w] = e]
    /\ tx' = [tx EXCEPT ![w] = "none"]
    /\ pc' = [pc EXCEPT ![w] = "failing"]
    /\ UNCHANGED <<rows, work, token, seen, faults>>

\* _fail reads the job without a lock and compares status and owner, not expiry.
FailReadJob(w) ==
    LET j == job[work[w]] IN
    /\ pc[w] = "failing"
    /\ \/ /\ j.status = "leased" /\ j.owner = token[w]
          /\ seen' = [seen EXCEPT ![w].count = j.count]
          /\ pc' = [pc EXCEPT ![w] = "failing_attempt"]
          /\ UNCHANGED <<work, token, tx, exn>>
       \/ /\ ~(j.status = "leased" /\ j.owner = token[w])
          /\ Release(w)
    /\ UNCHANGED <<rows, faults>>

FailReadAttempt(w) ==
    /\ pc[w] = "failing_attempt"
    /\ seen' = [seen EXCEPT ![w].attempt = attempt[work[w]]]
    /\ pc' = [pc EXCEPT ![w] = "failing_run"]
    /\ UNCHANGED <<rows, work, token, tx, exn, faults>>

FailReadRun(w) ==
    /\ pc[w] = "failing_run"
    /\ seen' = [seen EXCEPT ![w].run = run[work[w]].status,
                            ![w].stage = run[work[w]].stage]
    /\ pc' = [pc EXCEPT ![w] = "recording_failure"]
    /\ UNCHANGED <<rows, work, token, tx, exn, faults>>

\* _failure_classification.  Gemini's transport raises its own message, which the
\* worker does not recognise as the transient one.
FailureCode(e) ==
    CASE e = "SttTransient" -> "stt_retryable"
      [] e = "SttInvalid" -> "stt_invalid"
      [] e = "EvaluatorTransport" /\ LlmProvider = "openai" -> "evaluator_retryable"
      [] e = "EvaluatorTransport" /\ LlmProvider = "gemini" -> "evaluator_invalid"
      [] e = "EvaluatorContract" -> "evaluator_invalid"
      [] e = "FileNotFound" -> "recording_missing"
      [] e = "StorageStatus" -> "storage_invalid"
      [] e = "StorageTimeout" -> "storage_retryable"
      [] OTHER -> "analysis_invalid"

Retryable(code) == code \in {"stt_retryable", "evaluator_retryable", "storage_retryable"}

RetryLimit(code) == IF code = "storage_retryable" THEN StorageRetryLimit ELSE MaxAttempts

WillRetry(w) ==
    LET code == FailureCode(exn[w])
    IN  Retryable(code) /\ seen[w].count < RetryLimit(code)

\* The failure commit: updates by primary key that wait for the row lock only.
RecordFailure(w) ==
    LET a == work[w] IN
    /\ pc[w] = "recording_failure"
    /\ ~LockedByOther(w)
    /\ job' = [job EXCEPT ![a] =
                 IF WillRetry(w) THEN [Unleased(@, "queued") EXCEPT !.available = FALSE]
                                 ELSE Unleased(@, "failed")]
    /\ attempt' = [attempt EXCEPT ![a] = Flush(@, seen[w].attempt, "analysis_failed")]
    /\ run' = [run EXCEPT ![a] = [status |-> Flush(@.status, seen[w].run, "failed"),
                                  stage |-> Flush(@.stage, seen[w].stage, "failed")]]
    /\ Release(w)
    /\ UNCHANGED <<evidence, verdict, assignment, deletion, faults>>

-----------------------------------------------------------------------------
(***************************************************************************)
(* The operator, the clock, and the processes' environment.                *)
(***************************************************************************)

\* Slip: a completed job can be requeued as well.
RequeueableTerminal(a) == job[a].status \in {"failed", "completed"}

\* "never requeues a leased/completed job".
Requeueable(a) == job[a].status = "failed"

\* requeue_failed_job: neither attempt_count nor the attempt and run are reset.
RequeueFailedJob(a) ==
    /\ Requeueable(a)
    /\ faults.requeues < MaxRequeues
    /\ job' = [job EXCEPT ![a] = [Unleased(@, "queued") EXCEPT !.available = TRUE]]
    /\ faults' = [faults EXCEPT !.requeues = @ + 1]
    /\ UNCHANGED <<attempt, run, evidence, verdict, assignment, deletion, pc, session>>

\* available_at passes.
BackoffElapses(a) ==
    /\ job[a].status = "queued"
    /\ ~job[a].available
    /\ job' = [job EXCEPT ![a].available = TRUE]
    /\ UNCHANGED <<attempt, run, evidence, verdict, assignment, deletion,
                   pc, session, faults>>

\* Some worker is still processing the delivery that owns the lease.
OwnerAlive(a) == \E w \in Workers : work[w] = a /\ token[w] = job[a].owner

\* lease_expires_at passes after the owner has died.
LeaseExpires(a) ==
    /\ job[a].status = "leased"
    /\ job[a].lease = "live"
    /\ ~OwnerAlive(a)
    /\ job' = [job EXCEPT ![a].lease = "expired"]
    /\ UNCHANGED <<attempt, run, evidence, verdict, assignment, deletion,
                   pc, session, faults>>

\* lease_expires_at passes while its owner is still at work: a slow download, a
\* suspended process, a clock that differs between hosts.
WorkerStalls(a) ==
    /\ job[a].status = "leased"
    /\ job[a].lease = "live"
    /\ OwnerAlive(a)
    /\ faults.stalls < MaxStalls
    /\ job' = [job EXCEPT ![a].lease = "expired"]
    /\ faults' = [faults EXCEPT !.stalls = @ + 1]
    /\ UNCHANGED <<attempt, run, evidence, verdict, assignment, deletion, pc, session>>

\* A longer stall outlasts the renewed, uncommitted lease too.
RenewedLeaseExpires(w) ==
    /\ tx[w] = "live"
    /\ job[work[w]].lease = "expired"
    /\ tx' = [tx EXCEPT ![w] = "expired"]
    /\ UNCHANGED <<rows, pc, work, token, seen, exn, faults>>

\* The process dies; PostgreSQL rolls its open transaction back.
Crash(w) ==
    /\ pc[w] # "idle"
    /\ faults.crashes < MaxCrashes
    /\ Release(w)
    /\ faults' = [faults EXCEPT !.crashes = @ + 1]
    /\ UNCHANGED rows

-----------------------------------------------------------------------------

WorkerStep(w) ==
    \/ \E a \in Attempts : Claim(w, a)
    \/ ReadAttempt(w) \/ ReadRun(w) \/ CompleteAlreadyDone(w)
    \/ Start(w) \/ Resume(w) \/ ResumeAtEvaluation(w)
    \/ RenewBeforeStt(w) \/ PersistEvidence(w) \/ Finish(w) \/ LeaseLost(w)
    \/ \E e \in Exceptions : Raise(w, e)
    \/ FailReadJob(w) \/ FailReadAttempt(w) \/ FailReadRun(w) \/ RecordFailure(w)

Next ==
    \/ \E a \in Attempts :
         \/ Enqueue(a) \/ RequeueFailedJob(a) \/ BackoffElapses(a)
         \/ LeaseExpires(a) \/ WorkerStalls(a)
    \/ \E w \in Workers : WorkerStep(w) \/ RenewedLeaseExpires(w) \/ Crash(w)

Spec == Init /\ [][Next]_vars

\* The worker loop polls and its provider calls are bounded by timeouts; the
\* clock advances.  Nothing is assumed of learners, operators or crashes.
Fairness ==
    /\ \A w \in Workers : WF_vars(WorkerStep(w))
    /\ \A a \in Attempts : WF_vars(BackoffElapses(a)) /\ WF_vars(LeaseExpires(a))

FairSpec == Spec /\ Fairness

-----------------------------------------------------------------------------
(***************************************************************************)
(* What holds however long a worker stalls.                                *)
(***************************************************************************)

\* A speech-to-text call is made only by the delivery that owns the job, and
\* never again once a transcript is persisted, so the provider is not paid twice
\* for one recording by two workers at a time (renew_lease before the call).
TranscribesUnderLease ==
    \A w \in Workers : pc[w] = "transcribing" =>
        /\ job[work[w]].status = "leased"
        /\ job[work[w]].owner = token[w]
        /\ evidence[work[w]] = 0

EvidenceStep ==
    \A a \in Attempts : evidence'[a] # evidence[a] =>
        /\ evidence[a] = 0
        /\ job[a].status = "leased"
        /\ evidence'[a] = job[a].owner

\* Transcript, metrics and usage are written once, by the delivery that owns the
\* job when they are committed; a delivery that lost its lease never writes them.
EvidenceByOwner == [][EvidenceStep]_vars

VerdictStep == \A a \in Attempts : verdict[a] # 0 => verdict'[a] = verdict[a]

\* Evaluation, scorecard and feedback, once shown, are never replaced, not even
\* when a stale failure sends a completed job through the pipeline again (_put).
VerdictIsStable == [][VerdictStep]_vars

\* The raw recording is handed to retention, and a run called completed, only
\* when the evidence and the verdict derived from it are persisted.
CompletedHasEvidence ==
    \A a \in Attempts : run[a].status = "completed" \/ deletion[a] = "scheduled" =>
        /\ evidence[a] # 0
        /\ verdict[a] # 0
        /\ assignment[a] = "completed"

(***************************************************************************)
(* What holds when no lease runs out under a live worker (MaxStalls = 0).  *)
(***************************************************************************)

\* At most one worker processes an attempt, through crashes, reclaims, retries
\* and requeues.
OneDeliveryAtATime ==
    \A v, w \in Workers : v # w /\ work[v] = work[w] => work[w] = NoAttempt

\* The delivery record, the run and the status the learner sees agree: nobody is
\* left in "analyzing" behind a job that no worker will take, and a retried or
\* requeued delivery starts from a failed one.
OutcomeAgreement ==
    \A a \in Attempts :
        /\ job[a].status = "completed" <=> attempt[a] = "completed"
        /\ job[a].status = "failed" => attempt[a] = "analysis_failed"
        /\ attempt[a] = "analyzing" => job[a].status = "leased"
        /\ \A s \in {"queued", "analyzing", "completed"} :
              attempt[a] = s <=> run[a].status = s
        /\ \A s \in {"failed", "completed"} : run[a].status = s <=> run[a].stage = s

\* A completed analysis is never taken back (_fail: "A stale delivery must never
\* overwrite the current owner's outcome").
CompletedIsFinal ==
    [][\A a \in Attempts : attempt[a] = "completed" => attempt'[a] = "completed"]_vars

\* The learner's view: the delivery implements the promise of RecordingAnalysis.
Promise == INSTANCE RecordingAnalysis WITH
    phase <- attempt,
    transcribed <- [a \in Attempts |-> evidence[a] # 0],
    released <- [a \in Attempts |-> deletion[a] = "scheduled"]

\* Leases, reclaims, retries and crashes are invisible to the learner: each step is
\* a step of the promise or changes nothing in it.
KeepsPromise == Promise!Spec

\* A transient speech-to-text or evaluator failure is queued for another delivery
\* while the limit allows one (docs/analysis-worker-operations.md).
TransportFailuresRetry ==
    [][\A w \in Workers :
        /\ pc[w] = "recording_failure"
        /\ pc'[w] = "idle"
        /\ faults' = faults
        /\ exn[w] \in {"SttTransient", "EvaluatorTransport"}
        /\ seen[w].count < MaxAttempts
        => job'[work[w]].status = "queued"]_vars

\* Every enqueued recording reaches an outcome the learner can see, despite
\* crashes, transient failures and requeues.
EveryRecordingSettles ==
    \A a \in Attempts : job[a].status # "absent" ~>
        \/ job[a].status = "completed" /\ attempt[a] = "completed"
        \/ job[a].status = "failed" /\ attempt[a] = "analysis_failed"

=============================================================================
