------------------------- MODULE AnalysisDeliveryProofs -------------------------
(***************************************************************************)
(* Theorems about AnalysisDelivery for every set of attempts and workers,  *)
(* every limit, every provider and any number of crashes and stalls.       *)
(***************************************************************************)
EXTENDS AnalysisDelivery, TLAPS

USE AttemptsAssumption, LimitsAssumption, ProviderAssumption, RaisedAssumption,
    BoundsAssumption

-----------------------------------------------------------------------------
(***************************************************************************)
(* The rows the actions write.                                             *)
(***************************************************************************)

\* Updates of the columns of a job row stay job rows.
LEMMA JobRows ==
    ASSUME NEW j \in JobRow, NEW n \in Nat, NEW s \in JobStatuses, NEW l \in Leases,
           NEW b \in BOOLEAN
    PROVE  /\ [j EXCEPT !.status = s, !.lease = l, !.owner = n, !.count = n] \in JobRow
           /\ [j EXCEPT !.status = s, !.available = b] \in JobRow
           /\ [j EXCEPT !.lease = l] \in JobRow
           /\ [j EXCEPT !.available = b] \in JobRow
  BY DEF JobRow, Leases

\* A row no worker holds a lease on.
NotLeased(j) == j \in JobRow /\ j.lease = "none" /\ j.status # "leased"

\* So does giving up a lease.
LEMMA UnleasedRows ==
    ASSUME NEW j \in JobRow, NEW s \in JobStatuses \ {"leased"}, NEW b \in BOOLEAN
    PROVE  NotLeased(Unleased(j, s)) /\ NotLeased([Unleased(j, s) EXCEPT !.available = b])
  BY DEF JobRow, Unleased, Leases, NotLeased

\* Reloading a column keeps the record of loaded columns well typed.
LEMMA LoadedRows ==
    ASSUME NEW r \in LoadedColumns, NEW x \in AttemptStatuses, NEW y \in RunStatuses,
           NEW z \in Stages, NEW n \in Nat
    PROVE  /\ [r EXCEPT !.attempt = x] \in LoadedColumns
           /\ [r EXCEPT !.run = y, !.stage = z] \in LoadedColumns
           /\ [r EXCEPT !.stage = z] \in LoadedColumns
           /\ [r EXCEPT !.count = n] \in LoadedColumns
           /\ NothingSeen \in LoadedColumns
  BY DEF LoadedColumns, NothingSeen, AttemptStatuses, RunStatuses, Stages

\* Every program location the actions assign is one of PCs.
LEMMA Labels ==
    /\ {"idle", "claimed", "reading_run", "starting", "already_done", "resuming",
        "resumed", "downloading", "transcribing", "evaluating", "failing",
        "failing_attempt", "failing_run", "recording_failure"} \subseteq PCs
    /\ {"none", "live", "expired"} \subseteq Leases
    /\ {"absent", "queued", "leased", "completed", "failed"} \subseteq JobStatuses
    /\ {"queued", "analyzing", "analysis_failed", "completed"} \subseteq AttemptStatuses
    /\ {"queued", "analyzing", "failed", "completed"} \subseteq RunStatuses
    /\ {"queued", "transcription", "evaluation", "failed", "completed"} \subseteq Stages
  BY DEF PCs, Leases, JobStatuses, AttemptStatuses, RunStatuses, Stages

\* A worker that ends a delivery leaves its session well typed.
LEMMA ReleaseType ==
    ASSUME TypeOK, NEW w \in Workers, Release(w)
    PROVE  /\ pc' \in [Workers -> PCs]
           /\ work' \in [Workers -> Attempts \union {NoAttempt}]
           /\ \A v \in Workers : pc'[v] # "idle" => work'[v] \in Attempts
           /\ token' \in [Workers -> Nat]
           /\ tx' \in [Workers -> Leases]
           /\ seen' \in [Workers -> LoadedColumns]
           /\ exn' \in [Workers -> Exceptions \union {"none"}]
<1>1. NothingSeen \in LoadedColumns
  BY DEF LoadedColumns, NothingSeen, AttemptStatuses, RunStatuses, Stages
<1>2. "idle" \in PCs /\ "none" \in Leases
  BY Labels
<1>3. QED
  BY <1>1, <1>2 DEF TypeOK, Release

\* The initial state is well typed.
LEMMA InitType == Init => TypeOK
  BY Labels DEF Init, TypeOK, LeaseOwnerRequired, JobRow, RunRow, LoadedColumns,
     NothingSeen,
     AttemptStatuses, RunStatuses, Stages

\* Every action keeps the state well typed.
LEMMA TypeStep == TypeOK /\ [Next]_vars => TypeOK'
<1> SUFFICES ASSUME TypeOK, [Next]_vars PROVE TypeOK'
  OBVIOUS
<1> USE Labels DEF TypeOK, LeaseOwnerRequired
<1>1. ASSUME NEW a \in Attempts, Enqueue(a) PROVE TypeOK'
  <2>1. [job[a] EXCEPT !.status = "queued", !.available = TRUE] \in JobRow
    BY JobRows
  <2>2. [status |-> "queued", stage |-> "queued"] \in RunRow
    BY DEF RunRow
  <2>3. LeaseOwnerRequired'
    BY <1>1 DEF Enqueue, JobRow
  <2>4. QED
    BY <1>1, <2>1, <2>2, <2>3 DEF Enqueue, session
<1>2. ASSUME NEW w \in Workers, NEW a \in Attempts, Claim(w, a) PROVE TypeOK'
  <2>1. job[a].count + 1 \in Nat
    BY DEF JobRow
  <2>2. [job[a] EXCEPT !.status = "leased", !.lease = "live", !.owner = job[a].count + 1,
                       !.count = job[a].count + 1] \in JobRow
    BY <2>1, JobRows
  <2>3. job' \in [Attempts -> JobRow]
    BY <1>2, <2>2 DEF Claim
  <2>4. LeaseOwnerRequired'
    BY <1>2, <2>1 DEF Claim, JobRow
  <2>5. QED
    BY <1>2, <2>1, <2>3, <2>4 DEF Claim
<1>3. ASSUME NEW w \in Workers, ReadAttempt(w) PROVE TypeOK'
  <2>1. work[w] \in Attempts
    BY <1>3 DEF ReadAttempt
  <2>2. [seen[w] EXCEPT !.attempt = attempt[work[w]]] \in LoadedColumns
    BY <2>1, LoadedRows
  <2>3. seen' \in [Workers -> LoadedColumns]
    BY <1>3, <2>2 DEF ReadAttempt
  <2>4. QED
    BY <1>3, <2>1, <2>3 DEF ReadAttempt, rows
<1>4. ASSUME NEW w \in Workers, ReadRun(w) PROVE TypeOK'
  <2>1. work[w] \in Attempts /\ run[work[w]] \in RunRow
    BY <1>4 DEF ReadRun
  <2>2. [seen[w] EXCEPT !.run = run[work[w]].status, !.stage = run[work[w]].stage]
          \in LoadedColumns
    BY <2>1, LoadedRows DEF RunRow
  <2>3. seen' \in [Workers -> LoadedColumns]
    BY <1>4, <2>2 DEF ReadRun
  <2>4. QED
    BY <1>4, <2>1, <2>3 DEF ReadRun, rows
<1>5. ASSUME NEW w \in Workers, CompleteAlreadyDone(w) PROVE TypeOK'
  <2>1. work[w] \in Attempts
    BY <1>5 DEF CompleteAlreadyDone
  <2>2. NotLeased(Unleased(job[work[w]], "completed"))
    BY <2>1, UnleasedRows
  <2>3. job' \in [Attempts -> JobRow] /\ LeaseOwnerRequired'
    BY <1>5, <2>1, <2>2 DEF CompleteAlreadyDone, NotLeased
  <2>4. QED
    BY <1>5, <2>3, ReleaseType DEF CompleteAlreadyDone
<1>6. ASSUME NEW w \in Workers, Start(w) PROVE TypeOK'
  <2>1. work[w] \in Attempts /\ run[work[w]] \in RunRow
    BY <1>6 DEF Start
  <2>2. [status |-> Flush(run[work[w]].status, seen[w].run, "analyzing"),
         stage |-> Flush(run[work[w]].stage, seen[w].stage, "transcription")] \in RunRow
    BY <2>1 DEF RunRow, Flush
  <2>3. attempt' \in [Attempts -> AttemptStatuses] /\ run' \in [Attempts -> RunRow]
    BY <1>6, <2>1, <2>2 DEF Start, Flush
  <2>4. QED
    BY <1>6, <2>1, <2>3 DEF Start, session
<1>7. ASSUME NEW w \in Workers, Resume(w) PROVE TypeOK'
  <2>1. work[w] \in Attempts /\ run[work[w]].stage \in Stages
    BY <1>7 DEF Resume, RunRow
  <2>2. [seen[w] EXCEPT !.stage = run[work[w]].stage] \in LoadedColumns
    BY <2>1, LoadedRows
  <2>3. seen' \in [Workers -> LoadedColumns]
    BY <1>7, <2>2 DEF Resume
  <2>4. QED
    BY <1>7, <2>1, <2>3 DEF Resume, rows
<1>8. ASSUME NEW w \in Workers, RenewBeforeStt(w) PROVE TypeOK'
  <2>1. work[w] \in Attempts
    BY <1>8 DEF RenewBeforeStt
  <2>2. QED
    BY <1>8, <2>1 DEF RenewBeforeStt, rows
<1>9. ASSUME NEW w \in Workers, PersistEvidence(w) PROVE TypeOK'
  <2>1. work[w] \in Attempts /\ run[work[w]] \in RunRow
    BY <1>9 DEF PersistEvidence
  <2>2. [run[work[w]] EXCEPT !.stage = Flush(@, seen[w].stage, "evaluation")] \in RunRow
    BY <2>1 DEF RunRow, Flush
  <2>3. [job[work[w]] EXCEPT !.lease = "live"] \in JobRow
    BY <2>1, JobRows
  <2>4. run' \in [Attempts -> RunRow] /\ job' \in [Attempts -> JobRow]
        /\ evidence' \in [Attempts -> Nat]
    BY <1>9, <2>2, <2>3 DEF PersistEvidence, Put
  <2>5. job[work[w]].status = "leased" /\ job[work[w]].owner = token[w]
    BY <1>9 DEF PersistEvidence, Fence
  <2>6. job'[work[w]].owner # 0
    BY <1>9, <2>1, <2>5 DEF PersistEvidence, JobRow
  <2>7. LeaseOwnerRequired'
    BY <1>9, <2>1, <2>6 DEF PersistEvidence, JobRow
  <2>8. QED
    BY <1>9, <2>1, <2>4, <2>7 DEF PersistEvidence
<1>10. ASSUME NEW w \in Workers, ResumeAtEvaluation(w) PROVE TypeOK'
  <2>1. work[w] \in Attempts /\ run[work[w]] \in RunRow
    BY <1>10 DEF ResumeAtEvaluation
  <2>2. [run[work[w]] EXCEPT !.stage = Flush(@, seen[w].stage, "evaluation")] \in RunRow
    BY <2>1 DEF RunRow, Flush
  <2>3. run' \in [Attempts -> RunRow]
    BY <1>10, <2>2 DEF ResumeAtEvaluation
  <2>4. QED
    BY <1>10, <2>1, <2>3 DEF ResumeAtEvaluation, session
<1>11. ASSUME NEW w \in Workers, Finish(w) PROVE TypeOK'
  <2>1. work[w] \in Attempts
    BY <1>11 DEF Finish
  <2>2. NotLeased(Unleased(job[work[w]], "completed"))
    BY <2>1, UnleasedRows
  <2>3. job' \in [Attempts -> JobRow] /\ LeaseOwnerRequired'
    BY <1>11, <2>1, <2>2 DEF Finish, NotLeased
  <2>4. [status |-> "completed", stage |-> "completed"] \in RunRow
    BY DEF RunRow
  <2>5. QED
    BY <1>11, <2>1, <2>3, <2>4, ReleaseType DEF Finish, Put
<1>12. ASSUME NEW w \in Workers, LeaseLost(w) PROVE TypeOK'
  BY <1>12, ReleaseType DEF LeaseLost, rows
<1>13. ASSUME NEW w \in Workers, NEW e \in Exceptions, Raise(w, e) PROVE TypeOK'
  <2>1. pc[w] # "idle"
    BY <1>13 DEF Raise, Raises
  <2>2. QED
    BY <1>13, <2>1 DEF Raise, rows
<1>14. ASSUME NEW w \in Workers, FailReadJob(w) PROVE TypeOK'
  <2>1. work[w] \in Attempts /\ job[work[w]].count \in Nat
    BY <1>14 DEF FailReadJob, JobRow
  <2>2. [seen[w] EXCEPT !.count = job[work[w]].count] \in LoadedColumns
    BY <2>1, LoadedRows
  <2>3. CASE Release(w)
    BY <1>14, <2>3, ReleaseType DEF FailReadJob, rows
  <2>4. CASE ~Release(w)
    <3>1. seen' = [seen EXCEPT ![w].count = job[work[w]].count]
          /\ pc' = [pc EXCEPT ![w] = "failing_attempt"]
          /\ UNCHANGED <<work, token, tx, exn, rows, faults>>
      BY <1>14, <2>4 DEF FailReadJob
    <3>2. seen' \in [Workers -> LoadedColumns]
      BY <3>1, <2>2
    <3>3. QED
      BY <2>1, <3>1, <3>2 DEF rows
  <2>5. QED
    BY <2>3, <2>4
<1>15. ASSUME NEW w \in Workers, FailReadAttempt(w) PROVE TypeOK'
  <2>1. work[w] \in Attempts
    BY <1>15 DEF FailReadAttempt
  <2>2. [seen[w] EXCEPT !.attempt = attempt[work[w]]] \in LoadedColumns
    BY <2>1, LoadedRows
  <2>3. seen' \in [Workers -> LoadedColumns]
    BY <1>15, <2>2 DEF FailReadAttempt
  <2>4. QED
    BY <1>15, <2>1, <2>3 DEF FailReadAttempt, rows
<1>16. ASSUME NEW w \in Workers, FailReadRun(w) PROVE TypeOK'
  <2>1. work[w] \in Attempts /\ run[work[w]] \in RunRow
    BY <1>16 DEF FailReadRun
  <2>2. [seen[w] EXCEPT !.run = run[work[w]].status, !.stage = run[work[w]].stage]
          \in LoadedColumns
    BY <2>1, LoadedRows DEF RunRow
  <2>3. seen' \in [Workers -> LoadedColumns]
    BY <1>16, <2>2 DEF FailReadRun
  <2>4. QED
    BY <1>16, <2>1, <2>3 DEF FailReadRun, rows
<1>17. ASSUME NEW w \in Workers, RecordFailure(w) PROVE TypeOK'
  <2>1. work[w] \in Attempts /\ run[work[w]] \in RunRow
    BY <1>17 DEF RecordFailure
  <2>2. /\ NotLeased([Unleased(job[work[w]], "queued") EXCEPT !.available = FALSE])
        /\ NotLeased(Unleased(job[work[w]], "failed"))
    BY <2>1, UnleasedRows
  <2>3. job' \in [Attempts -> JobRow] /\ LeaseOwnerRequired'
    BY <1>17, <2>1, <2>2 DEF RecordFailure, NotLeased
  <2>4. [status |-> Flush(run[work[w]].status, seen[w].run, "failed"),
         stage |-> Flush(run[work[w]].stage, seen[w].stage, "failed")] \in RunRow
    BY <2>1 DEF RunRow, Flush
  <2>5. attempt' \in [Attempts -> AttemptStatuses] /\ run' \in [Attempts -> RunRow]
    BY <1>17, <2>1, <2>4 DEF RecordFailure, Flush
  <2>6. QED
    BY <1>17, <2>3, <2>5, ReleaseType DEF RecordFailure
<1>18. ASSUME NEW a \in Attempts, RequeueFailedJob(a) PROVE TypeOK'
  <2>1. NotLeased([Unleased(job[a], "queued") EXCEPT !.available = TRUE])
    BY UnleasedRows
  <2>2. job' \in [Attempts -> JobRow] /\ LeaseOwnerRequired'
    BY <1>18, <2>1 DEF RequeueFailedJob, NotLeased
  <2>3. QED
    BY <1>18, <2>2 DEF RequeueFailedJob, session
<1>19. ASSUME NEW a \in Attempts, BackoffElapses(a) PROVE TypeOK'
  <2>1. [job[a] EXCEPT !.available = TRUE] \in JobRow
    BY JobRows
  <2>2. job' \in [Attempts -> JobRow] /\ LeaseOwnerRequired'
    BY <1>19, <2>1 DEF BackoffElapses, JobRow
  <2>3. QED
    BY <1>19, <2>2 DEF BackoffElapses, session
<1>20. ASSUME NEW a \in Attempts, LeaseExpires(a) PROVE TypeOK'
  <2>1. [job[a] EXCEPT !.lease = "expired"] \in JobRow
    BY JobRows
  <2>2. job' \in [Attempts -> JobRow] /\ LeaseOwnerRequired'
    BY <1>20, <2>1 DEF LeaseExpires, JobRow
  <2>3. QED
    BY <1>20, <2>2 DEF LeaseExpires, session
<1>21. ASSUME NEW a \in Attempts, WorkerStalls(a) PROVE TypeOK'
  <2>1. [job[a] EXCEPT !.lease = "expired"] \in JobRow
    BY JobRows
  <2>2. job' \in [Attempts -> JobRow] /\ LeaseOwnerRequired'
    BY <1>21, <2>1 DEF WorkerStalls, JobRow
  <2>3. QED
    BY <1>21, <2>2 DEF WorkerStalls, session
<1>22. ASSUME NEW w \in Workers, RenewedLeaseExpires(w) PROVE TypeOK'
  BY <1>22 DEF RenewedLeaseExpires, rows
<1>23. ASSUME NEW w \in Workers, Crash(w) PROVE TypeOK'
  BY <1>23, ReleaseType DEF Crash, rows
<1>24. CASE UNCHANGED vars
  BY <1>24 DEF vars, rows, session
<1>25. QED
  BY <1>1, <1>2, <1>3, <1>4, <1>5, <1>6, <1>7, <1>8, <1>9, <1>10, <1>11, <1>12, <1>13,
     <1>14, <1>15, <1>16, <1>17, <1>18, <1>19, <1>20, <1>21, <1>22, <1>23, <1>24
     DEF Next, WorkerStep

\* Every variable keeps its type, and the database's check constraint on leases
\* (LeaseOwnerRequired) holds in every reachable state.
THEOREM TypeCorrect == Spec => []TypeOK
  BY InitType, TypeStep, PTL DEF Spec

-----------------------------------------------------------------------------
(***************************************************************************)
(* The lease protocol.                                                     *)
(***************************************************************************)

\* An attempt that is still uploading has no delivery.
UploadShape ==
    \A a \in Attempts : attempt[a] = "uploading" =>
        job[a].status = "absent" /\ job[a].count = 0

\* A row is leased exactly while it has an owner and an expiry, and its owner is
\* the latest delivery.
LeaseShape ==
    \A a \in Attempts :
        /\ job[a].status = "leased" <=> job[a].owner # 0
        /\ job[a].status = "leased" <=> job[a].lease # "none"
        /\ job[a].status = "leased" => job[a].owner = job[a].count

\* Every delivery in progress has a token of its own, drawn from the claims so far.
TokenShape ==
    /\ \A w \in Workers :
         /\ pc[w] = "idle" => work[w] = NoAttempt
         /\ pc[w] # "idle" => token[w] # 0 /\ token[w] <= job[work[w]].count
    /\ \A v, w \in Workers :
         v # w /\ work[v] = work[w] /\ work[w] # NoAttempt => token[v] # token[w]

\* A transaction stays open, and the row locked, exactly during transcription.
LockShape == \A w \in Workers : tx[w] # "none" <=> pc[w] = "transcribing"

\* The owner that is still downloading has no transcript to reuse; a delivery past
\* transcription has one.
EvidenceShape ==
    \A w \in Workers :
        /\ pc[w] = "downloading" /\ job[work[w]].owner = token[w] => evidence[work[w]] = 0
        /\ pc[w] \in {"resumed", "evaluating"} => evidence[work[w]] # 0

\* The inductive invariant, for any number of stalls.
SafeInv ==
    /\ TypeOK
    /\ UploadShape
    /\ LeaseShape
    /\ TokenShape
    /\ LockShape
    /\ EvidenceShape
    /\ TranscribesUnderLease
    /\ CompletedHasEvidence

\* Only Enqueue starts from "uploading", and nothing returns to it.
LEMMA UploadShapeStep == SafeInv /\ [Next]_vars => UploadShape'
<1> SUFFICES ASSUME SafeInv, [Next]_vars PROVE UploadShape'
  OBVIOUS
<1> USE DEF SafeInv, TypeOK, JobRow, NoAttempt, UploadShape, TokenShape
<1>1. ASSUME NEW a \in Attempts, Enqueue(a) PROVE UploadShape'
  BY <1>1 DEF Enqueue, session
<1>2. ASSUME NEW w \in Workers, NEW a \in Attempts, Claim(w, a) PROVE UploadShape'
  BY <1>2 DEF Claim, Claimable, Ready, Locked
<1>3. ASSUME NEW w \in Workers, ReadAttempt(w) PROVE UploadShape'
  BY <1>3 DEF ReadAttempt, rows
<1>4. ASSUME NEW w \in Workers, ReadRun(w) PROVE UploadShape'
  BY <1>4 DEF ReadRun, rows
<1>5. ASSUME NEW w \in Workers, CompleteAlreadyDone(w) PROVE UploadShape'
  BY <1>5 DEF CompleteAlreadyDone, Release, Unleased, Fence, LockedByOther
<1>6. ASSUME NEW w \in Workers, Start(w) PROVE UploadShape'
  BY <1>6 DEF Start, Flush, session
<1>7. ASSUME NEW w \in Workers, Resume(w) PROVE UploadShape'
  BY <1>7 DEF Resume, rows
<1>8. ASSUME NEW w \in Workers, RenewBeforeStt(w) PROVE UploadShape'
  BY <1>8 DEF RenewBeforeStt, Fence, rows
<1>9. ASSUME NEW w \in Workers, PersistEvidence(w) PROVE UploadShape'
  BY <1>9 DEF PersistEvidence, Fence, Put, Flush
<1>10. ASSUME NEW w \in Workers, ResumeAtEvaluation(w) PROVE UploadShape'
  BY <1>10 DEF ResumeAtEvaluation, Flush, session
<1>11. ASSUME NEW w \in Workers, Finish(w) PROVE UploadShape'
  BY <1>11 DEF Finish, Release, Unleased, Fence, LockedByOther, Put
<1>12. ASSUME NEW w \in Workers, LeaseLost(w) PROVE UploadShape'
  BY <1>12 DEF LeaseLost, Release, rows
<1>13. ASSUME NEW w \in Workers, NEW e \in Exceptions, Raise(w, e) PROVE UploadShape'
  BY <1>13 DEF Raise, Raises, rows
<1>14. ASSUME NEW w \in Workers, FailReadJob(w) PROVE UploadShape'
  BY <1>14 DEF FailReadJob, Release, rows
<1>15. ASSUME NEW w \in Workers, FailReadAttempt(w) PROVE UploadShape'
  BY <1>15 DEF FailReadAttempt, rows
<1>16. ASSUME NEW w \in Workers, FailReadRun(w) PROVE UploadShape'
  BY <1>16 DEF FailReadRun, rows
<1>17. ASSUME NEW w \in Workers, RecordFailure(w) PROVE UploadShape'
  BY <1>17 DEF RecordFailure, Release, Unleased, Flush, LockedByOther
<1>18. ASSUME NEW a \in Attempts, RequeueFailedJob(a) PROVE UploadShape'
  BY <1>18 DEF RequeueFailedJob, Requeueable, Unleased, session
<1>19. ASSUME NEW a \in Attempts, BackoffElapses(a) PROVE UploadShape'
  BY <1>19 DEF BackoffElapses, session
<1>20. ASSUME NEW a \in Attempts, LeaseExpires(a) PROVE UploadShape'
  BY <1>20 DEF LeaseExpires, session
<1>21. ASSUME NEW a \in Attempts, WorkerStalls(a) PROVE UploadShape'
  BY <1>21 DEF WorkerStalls, session
<1>22. ASSUME NEW w \in Workers, RenewedLeaseExpires(w) PROVE UploadShape'
  BY <1>22 DEF RenewedLeaseExpires, rows
<1>23. ASSUME NEW w \in Workers, Crash(w) PROVE UploadShape'
  BY <1>23 DEF Crash, Release, rows
<1>24. CASE UNCHANGED vars
  BY <1>24 DEF vars, rows, session
<1>25. QED
  BY <1>1, <1>2, <1>3, <1>4, <1>5, <1>6, <1>7, <1>8, <1>9, <1>10, <1>11, <1>12, <1>13,
     <1>14, <1>15, <1>16, <1>17, <1>18, <1>19, <1>20, <1>21, <1>22, <1>23, <1>24
     DEF Next, WorkerStep

\* Every write of status, owner or expiry writes the three consistently.
LEMMA LeaseShapeStep == SafeInv /\ [Next]_vars => LeaseShape'
<1> SUFFICES ASSUME SafeInv, [Next]_vars PROVE LeaseShape'
  OBVIOUS
<1> USE DEF SafeInv, TypeOK, JobRow, UploadShape, LeaseShape
<1>1. ASSUME NEW a \in Attempts, Enqueue(a) PROVE LeaseShape'
  BY <1>1 DEF Enqueue, session
<1>2. ASSUME NEW w \in Workers, NEW a \in Attempts, Claim(w, a) PROVE LeaseShape'
  BY <1>2 DEF Claim, Claimable, Ready, Locked
<1>3. ASSUME NEW w \in Workers, ReadAttempt(w) PROVE LeaseShape'
  BY <1>3 DEF ReadAttempt, rows
<1>4. ASSUME NEW w \in Workers, ReadRun(w) PROVE LeaseShape'
  BY <1>4 DEF ReadRun, rows
<1>5. ASSUME NEW w \in Workers, CompleteAlreadyDone(w) PROVE LeaseShape'
  BY <1>5 DEF CompleteAlreadyDone, Release, Unleased, Fence, LockedByOther
<1>6. ASSUME NEW w \in Workers, Start(w) PROVE LeaseShape'
  BY <1>6 DEF Start, Flush, session
<1>7. ASSUME NEW w \in Workers, Resume(w) PROVE LeaseShape'
  BY <1>7 DEF Resume, rows
<1>8. ASSUME NEW w \in Workers, RenewBeforeStt(w) PROVE LeaseShape'
  BY <1>8 DEF RenewBeforeStt, Fence, rows
<1>9. ASSUME NEW w \in Workers, PersistEvidence(w) PROVE LeaseShape'
  BY <1>9 DEF PersistEvidence, Fence, Put, Flush
<1>10. ASSUME NEW w \in Workers, ResumeAtEvaluation(w) PROVE LeaseShape'
  BY <1>10 DEF ResumeAtEvaluation, Flush, session
<1>11. ASSUME NEW w \in Workers, Finish(w) PROVE LeaseShape'
  BY <1>11 DEF Finish, Release, Unleased, Fence, LockedByOther, Put
<1>12. ASSUME NEW w \in Workers, LeaseLost(w) PROVE LeaseShape'
  BY <1>12 DEF LeaseLost, Release, rows
<1>13. ASSUME NEW w \in Workers, NEW e \in Exceptions, Raise(w, e) PROVE LeaseShape'
  BY <1>13 DEF Raise, Raises, rows
<1>14. ASSUME NEW w \in Workers, FailReadJob(w) PROVE LeaseShape'
  BY <1>14 DEF FailReadJob, Release, rows
<1>15. ASSUME NEW w \in Workers, FailReadAttempt(w) PROVE LeaseShape'
  BY <1>15 DEF FailReadAttempt, rows
<1>16. ASSUME NEW w \in Workers, FailReadRun(w) PROVE LeaseShape'
  BY <1>16 DEF FailReadRun, rows
<1>17. ASSUME NEW w \in Workers, RecordFailure(w) PROVE LeaseShape'
  BY <1>17 DEF RecordFailure, Release, Unleased, Flush, LockedByOther
<1>18. ASSUME NEW a \in Attempts, RequeueFailedJob(a) PROVE LeaseShape'
  BY <1>18 DEF RequeueFailedJob, Requeueable, Unleased, session
<1>19. ASSUME NEW a \in Attempts, BackoffElapses(a) PROVE LeaseShape'
  BY <1>19 DEF BackoffElapses, session
<1>20. ASSUME NEW a \in Attempts, LeaseExpires(a) PROVE LeaseShape'
  BY <1>20 DEF LeaseExpires, session
<1>21. ASSUME NEW a \in Attempts, WorkerStalls(a) PROVE LeaseShape'
  BY <1>21 DEF WorkerStalls, session
<1>22. ASSUME NEW w \in Workers, RenewedLeaseExpires(w) PROVE LeaseShape'
  BY <1>22 DEF RenewedLeaseExpires, rows
<1>23. ASSUME NEW w \in Workers, Crash(w) PROVE LeaseShape'
  BY <1>23 DEF Crash, Release, rows
<1>24. CASE UNCHANGED vars
  BY <1>24 DEF vars, rows, session
<1>25. QED
  BY <1>1, <1>2, <1>3, <1>4, <1>5, <1>6, <1>7, <1>8, <1>9, <1>10, <1>11, <1>12, <1>13,
     <1>14, <1>15, <1>16, <1>17, <1>18, <1>19, <1>20, <1>21, <1>22, <1>23, <1>24
     DEF Next, WorkerStep

\* Only a claim makes a token, and it makes a new one.
LEMMA TokenShapeStep == SafeInv /\ [Next]_vars => TokenShape'
<1> SUFFICES ASSUME SafeInv, [Next]_vars PROVE TokenShape'
  OBVIOUS
<1> USE DEF SafeInv, TypeOK, JobRow, NoAttempt, TokenShape
<1>1. ASSUME NEW a \in Attempts, Enqueue(a) PROVE TokenShape'
  BY <1>1 DEF Enqueue, session
<1>2. ASSUME NEW w \in Workers, NEW a \in Attempts, Claim(w, a) PROVE TokenShape'
  BY <1>2 DEF Claim, Claimable, Ready, Locked
<1>3. ASSUME NEW w \in Workers, ReadAttempt(w) PROVE TokenShape'
  BY <1>3 DEF ReadAttempt, rows
<1>4. ASSUME NEW w \in Workers, ReadRun(w) PROVE TokenShape'
  BY <1>4 DEF ReadRun, rows
<1>5. ASSUME NEW w \in Workers, CompleteAlreadyDone(w) PROVE TokenShape'
  BY <1>5 DEF CompleteAlreadyDone, Release, Unleased, Fence, LockedByOther
<1>6. ASSUME NEW w \in Workers, Start(w) PROVE TokenShape'
  BY <1>6 DEF Start, Flush, session
<1>7. ASSUME NEW w \in Workers, Resume(w) PROVE TokenShape'
  BY <1>7 DEF Resume, rows
<1>8. ASSUME NEW w \in Workers, RenewBeforeStt(w) PROVE TokenShape'
  BY <1>8 DEF RenewBeforeStt, Fence, rows
<1>9. ASSUME NEW w \in Workers, PersistEvidence(w) PROVE TokenShape'
  BY <1>9 DEF PersistEvidence, Fence, Put, Flush
<1>10. ASSUME NEW w \in Workers, ResumeAtEvaluation(w) PROVE TokenShape'
  BY <1>10 DEF ResumeAtEvaluation, Flush, session
<1>11. ASSUME NEW w \in Workers, Finish(w) PROVE TokenShape'
  BY <1>11 DEF Finish, Release, Unleased, Fence, LockedByOther, Put
<1>12. ASSUME NEW w \in Workers, LeaseLost(w) PROVE TokenShape'
  BY <1>12 DEF LeaseLost, Release, rows
<1>13. ASSUME NEW w \in Workers, NEW e \in Exceptions, Raise(w, e) PROVE TokenShape'
  BY <1>13 DEF Raise, Raises, rows
<1>14. ASSUME NEW w \in Workers, FailReadJob(w) PROVE TokenShape'
  <2>1. CASE Release(w)
    BY <1>14, <2>1 DEF FailReadJob, Release, rows
  <2>2. CASE ~Release(w)
    BY <1>14, <2>2 DEF FailReadJob, rows
  <2>3. QED
    BY <2>1, <2>2
<1>15. ASSUME NEW w \in Workers, FailReadAttempt(w) PROVE TokenShape'
  BY <1>15 DEF FailReadAttempt, rows
<1>16. ASSUME NEW w \in Workers, FailReadRun(w) PROVE TokenShape'
  BY <1>16 DEF FailReadRun, rows
<1>17. ASSUME NEW w \in Workers, RecordFailure(w) PROVE TokenShape'
  BY <1>17 DEF RecordFailure, Release, Unleased, Flush, LockedByOther
<1>18. ASSUME NEW a \in Attempts, RequeueFailedJob(a) PROVE TokenShape'
  BY <1>18 DEF RequeueFailedJob, Requeueable, Unleased, session
<1>19. ASSUME NEW a \in Attempts, BackoffElapses(a) PROVE TokenShape'
  BY <1>19 DEF BackoffElapses, session
<1>20. ASSUME NEW a \in Attempts, LeaseExpires(a) PROVE TokenShape'
  BY <1>20 DEF LeaseExpires, session
<1>21. ASSUME NEW a \in Attempts, WorkerStalls(a) PROVE TokenShape'
  BY <1>21 DEF WorkerStalls, session
<1>22. ASSUME NEW w \in Workers, RenewedLeaseExpires(w) PROVE TokenShape'
  BY <1>22 DEF RenewedLeaseExpires, rows
<1>23. ASSUME NEW w \in Workers, Crash(w) PROVE TokenShape'
  BY <1>23 DEF Crash, Release, rows
<1>24. CASE UNCHANGED vars
  BY <1>24 DEF vars, rows, session
<1>25. QED
  BY <1>1, <1>2, <1>3, <1>4, <1>5, <1>6, <1>7, <1>8, <1>9, <1>10, <1>11, <1>12, <1>13,
     <1>14, <1>15, <1>16, <1>17, <1>18, <1>19, <1>20, <1>21, <1>22, <1>23, <1>24
     DEF Next, WorkerStep

\* The renewal before speech-to-text opens the transaction; persisting, raising, losing
\* the lease and dying close it.
LEMMA LockShapeStep == SafeInv /\ [Next]_vars => LockShape'
<1> SUFFICES ASSUME SafeInv, [Next]_vars PROVE LockShape'
  OBVIOUS
<1> USE DEF SafeInv, TypeOK, LockShape
<1>1. ASSUME NEW a \in Attempts, Enqueue(a) PROVE LockShape'
  BY <1>1 DEF Enqueue, session
<1>2. ASSUME NEW w \in Workers, NEW a \in Attempts, Claim(w, a) PROVE LockShape'
  BY <1>2 DEF Claim, Claimable, Ready, Locked
<1>3. ASSUME NEW w \in Workers, ReadAttempt(w) PROVE LockShape'
  BY <1>3 DEF ReadAttempt, rows
<1>4. ASSUME NEW w \in Workers, ReadRun(w) PROVE LockShape'
  BY <1>4 DEF ReadRun, rows
<1>5. ASSUME NEW w \in Workers, CompleteAlreadyDone(w) PROVE LockShape'
  BY <1>5 DEF CompleteAlreadyDone, Release, Unleased, Fence, LockedByOther
<1>6. ASSUME NEW w \in Workers, Start(w) PROVE LockShape'
  BY <1>6 DEF Start, Flush, session
<1>7. ASSUME NEW w \in Workers, Resume(w) PROVE LockShape'
  BY <1>7 DEF Resume, rows
<1>8. ASSUME NEW w \in Workers, RenewBeforeStt(w) PROVE LockShape'
  BY <1>8 DEF RenewBeforeStt, Fence, rows
<1>9. ASSUME NEW w \in Workers, PersistEvidence(w) PROVE LockShape'
  BY <1>9 DEF PersistEvidence, Fence, Put, Flush
<1>10. ASSUME NEW w \in Workers, ResumeAtEvaluation(w) PROVE LockShape'
  BY <1>10 DEF ResumeAtEvaluation, Flush, session
<1>11. ASSUME NEW w \in Workers, Finish(w) PROVE LockShape'
  BY <1>11 DEF Finish, Release, Unleased, Fence, LockedByOther, Put
<1>12. ASSUME NEW w \in Workers, LeaseLost(w) PROVE LockShape'
  BY <1>12 DEF LeaseLost, Release, rows
<1>13. ASSUME NEW w \in Workers, NEW e \in Exceptions, Raise(w, e) PROVE LockShape'
  BY <1>13 DEF Raise, Raises, rows
<1>14. ASSUME NEW w \in Workers, FailReadJob(w) PROVE LockShape'
  BY <1>14 DEF FailReadJob, Release, rows
<1>15. ASSUME NEW w \in Workers, FailReadAttempt(w) PROVE LockShape'
  BY <1>15 DEF FailReadAttempt, rows
<1>16. ASSUME NEW w \in Workers, FailReadRun(w) PROVE LockShape'
  BY <1>16 DEF FailReadRun, rows
<1>17. ASSUME NEW w \in Workers, RecordFailure(w) PROVE LockShape'
  BY <1>17 DEF RecordFailure, Release, Unleased, Flush, LockedByOther
<1>18. ASSUME NEW a \in Attempts, RequeueFailedJob(a) PROVE LockShape'
  BY <1>18 DEF RequeueFailedJob, Requeueable, Unleased, session
<1>19. ASSUME NEW a \in Attempts, BackoffElapses(a) PROVE LockShape'
  BY <1>19 DEF BackoffElapses, session
<1>20. ASSUME NEW a \in Attempts, LeaseExpires(a) PROVE LockShape'
  BY <1>20 DEF LeaseExpires, session
<1>21. ASSUME NEW a \in Attempts, WorkerStalls(a) PROVE LockShape'
  BY <1>21 DEF WorkerStalls, session
<1>22. ASSUME NEW w \in Workers, RenewedLeaseExpires(w) PROVE LockShape'
  BY <1>22 DEF RenewedLeaseExpires, rows
<1>23. ASSUME NEW w \in Workers, Crash(w) PROVE LockShape'
  BY <1>23 DEF Crash, Release, rows
<1>24. CASE UNCHANGED vars
  BY <1>24 DEF vars, rows, session
<1>25. QED
  BY <1>1, <1>2, <1>3, <1>4, <1>5, <1>6, <1>7, <1>8, <1>9, <1>10, <1>11, <1>12, <1>13,
     <1>14, <1>15, <1>16, <1>17, <1>18, <1>19, <1>20, <1>21, <1>22, <1>23, <1>24
     DEF Next, WorkerStep

\* While the owner is downloading no other delivery can persist evidence.
LEMMA EvidenceShapeStep == SafeInv /\ [Next]_vars => EvidenceShape'
<1> SUFFICES ASSUME SafeInv, [Next]_vars PROVE EvidenceShape'
  OBVIOUS
<1> USE DEF SafeInv, TypeOK, JobRow, NoAttempt, EvidenceShape, TokenShape, LeaseShape
<1>1. ASSUME NEW a \in Attempts, Enqueue(a) PROVE EvidenceShape'
  BY <1>1 DEF Enqueue, session
<1>2. ASSUME NEW w \in Workers, NEW a \in Attempts, Claim(w, a) PROVE EvidenceShape'
  BY <1>2 DEF Claim, Claimable, Ready, Locked
<1>3. ASSUME NEW w \in Workers, ReadAttempt(w) PROVE EvidenceShape'
  BY <1>3 DEF ReadAttempt, rows
<1>4. ASSUME NEW w \in Workers, ReadRun(w) PROVE EvidenceShape'
  BY <1>4 DEF ReadRun, rows
<1>5. ASSUME NEW w \in Workers, CompleteAlreadyDone(w) PROVE EvidenceShape'
  BY <1>5 DEF CompleteAlreadyDone, Release, Unleased, Fence, LockedByOther
<1>6. ASSUME NEW w \in Workers, Start(w) PROVE EvidenceShape'
  BY <1>6 DEF Start, Flush, session
<1>7. ASSUME NEW w \in Workers, Resume(w) PROVE EvidenceShape'
  BY <1>7 DEF Resume, rows
<1>8. ASSUME NEW w \in Workers, RenewBeforeStt(w) PROVE EvidenceShape'
  BY <1>8 DEF RenewBeforeStt, Fence, rows
<1>9. ASSUME NEW w \in Workers, PersistEvidence(w) PROVE EvidenceShape'
  BY <1>9 DEF PersistEvidence, Fence, Put, Flush
<1>10. ASSUME NEW w \in Workers, ResumeAtEvaluation(w) PROVE EvidenceShape'
  BY <1>10 DEF ResumeAtEvaluation, Flush, session
<1>11. ASSUME NEW w \in Workers, Finish(w) PROVE EvidenceShape'
  BY <1>11 DEF Finish, Release, Unleased, Fence, LockedByOther, Put
<1>12. ASSUME NEW w \in Workers, LeaseLost(w) PROVE EvidenceShape'
  BY <1>12 DEF LeaseLost, Release, rows
<1>13. ASSUME NEW w \in Workers, NEW e \in Exceptions, Raise(w, e) PROVE EvidenceShape'
  BY <1>13 DEF Raise, Raises, rows
<1>14. ASSUME NEW w \in Workers, FailReadJob(w) PROVE EvidenceShape'
  BY <1>14 DEF FailReadJob, Release, rows
<1>15. ASSUME NEW w \in Workers, FailReadAttempt(w) PROVE EvidenceShape'
  BY <1>15 DEF FailReadAttempt, rows
<1>16. ASSUME NEW w \in Workers, FailReadRun(w) PROVE EvidenceShape'
  BY <1>16 DEF FailReadRun, rows
<1>17. ASSUME NEW w \in Workers, RecordFailure(w) PROVE EvidenceShape'
  BY <1>17 DEF RecordFailure, Release, Unleased, Flush, LockedByOther
<1>18. ASSUME NEW a \in Attempts, RequeueFailedJob(a) PROVE EvidenceShape'
  BY <1>18 DEF RequeueFailedJob, Requeueable, Unleased, session
<1>19. ASSUME NEW a \in Attempts, BackoffElapses(a) PROVE EvidenceShape'
  BY <1>19 DEF BackoffElapses, session
<1>20. ASSUME NEW a \in Attempts, LeaseExpires(a) PROVE EvidenceShape'
  BY <1>20 DEF LeaseExpires, session
<1>21. ASSUME NEW a \in Attempts, WorkerStalls(a) PROVE EvidenceShape'
  BY <1>21 DEF WorkerStalls, session
<1>22. ASSUME NEW w \in Workers, RenewedLeaseExpires(w) PROVE EvidenceShape'
  BY <1>22 DEF RenewedLeaseExpires, rows
<1>23. ASSUME NEW w \in Workers, Crash(w) PROVE EvidenceShape'
  BY <1>23 DEF Crash, Release, rows
<1>24. CASE UNCHANGED vars
  BY <1>24 DEF vars, rows, session
<1>25. QED
  BY <1>1, <1>2, <1>3, <1>4, <1>5, <1>6, <1>7, <1>8, <1>9, <1>10, <1>11, <1>12, <1>13,
     <1>14, <1>15, <1>16, <1>17, <1>18, <1>19, <1>20, <1>21, <1>22, <1>23, <1>24
     DEF Next, WorkerStep

\* The open transaction keeps every other writer off the job row.
LEMMA TranscribesStep == SafeInv /\ [Next]_vars => TranscribesUnderLease'
<1> SUFFICES ASSUME SafeInv, [Next]_vars PROVE TranscribesUnderLease'
  OBVIOUS
<1> USE DEF SafeInv, TypeOK, JobRow, NoAttempt, UploadShape, TranscribesUnderLease,
            EvidenceShape, TokenShape, LeaseShape, LockShape
<1>1. ASSUME NEW a \in Attempts, Enqueue(a) PROVE TranscribesUnderLease'
  BY <1>1 DEF Enqueue, session
<1>2. ASSUME NEW w \in Workers, NEW a \in Attempts, Claim(w, a) PROVE TranscribesUnderLease'
  BY <1>2 DEF Claim, Claimable, Ready, Locked
<1>3. ASSUME NEW w \in Workers, ReadAttempt(w) PROVE TranscribesUnderLease'
  BY <1>3 DEF ReadAttempt, rows
<1>4. ASSUME NEW w \in Workers, ReadRun(w) PROVE TranscribesUnderLease'
  BY <1>4 DEF ReadRun, rows
<1>5. ASSUME NEW w \in Workers, CompleteAlreadyDone(w) PROVE TranscribesUnderLease'
  BY <1>5 DEF CompleteAlreadyDone, Release, Unleased, Fence, LockedByOther
<1>6. ASSUME NEW w \in Workers, Start(w) PROVE TranscribesUnderLease'
  BY <1>6 DEF Start, Flush, session
<1>7. ASSUME NEW w \in Workers, Resume(w) PROVE TranscribesUnderLease'
  BY <1>7 DEF Resume, rows
<1>8. ASSUME NEW w \in Workers, RenewBeforeStt(w) PROVE TranscribesUnderLease'
  BY <1>8 DEF RenewBeforeStt, Fence, rows
<1>9. ASSUME NEW w \in Workers, PersistEvidence(w) PROVE TranscribesUnderLease'
  BY <1>9 DEF PersistEvidence, Fence, Put, Flush
<1>10. ASSUME NEW w \in Workers, ResumeAtEvaluation(w) PROVE TranscribesUnderLease'
  BY <1>10 DEF ResumeAtEvaluation, Flush, session
<1>11. ASSUME NEW w \in Workers, Finish(w) PROVE TranscribesUnderLease'
  BY <1>11 DEF Finish, Release, Unleased, Fence, LockedByOther, Put
<1>12. ASSUME NEW w \in Workers, LeaseLost(w) PROVE TranscribesUnderLease'
  BY <1>12 DEF LeaseLost, Release, rows
<1>13. ASSUME NEW w \in Workers, NEW e \in Exceptions, Raise(w, e) PROVE TranscribesUnderLease'
  BY <1>13 DEF Raise, Raises, rows
<1>14. ASSUME NEW w \in Workers, FailReadJob(w) PROVE TranscribesUnderLease'
  BY <1>14 DEF FailReadJob, Release, rows
<1>15. ASSUME NEW w \in Workers, FailReadAttempt(w) PROVE TranscribesUnderLease'
  BY <1>15 DEF FailReadAttempt, rows
<1>16. ASSUME NEW w \in Workers, FailReadRun(w) PROVE TranscribesUnderLease'
  BY <1>16 DEF FailReadRun, rows
<1>17. ASSUME NEW w \in Workers, RecordFailure(w) PROVE TranscribesUnderLease'
  BY <1>17 DEF RecordFailure, Release, Unleased, Flush, LockedByOther
<1>18. ASSUME NEW a \in Attempts, RequeueFailedJob(a) PROVE TranscribesUnderLease'
  BY <1>18 DEF RequeueFailedJob, Requeueable, Unleased, session
<1>19. ASSUME NEW a \in Attempts, BackoffElapses(a) PROVE TranscribesUnderLease'
  BY <1>19 DEF BackoffElapses, session
<1>20. ASSUME NEW a \in Attempts, LeaseExpires(a) PROVE TranscribesUnderLease'
  BY <1>20 DEF LeaseExpires, session
<1>21. ASSUME NEW a \in Attempts, WorkerStalls(a) PROVE TranscribesUnderLease'
  BY <1>21 DEF WorkerStalls, session
<1>22. ASSUME NEW w \in Workers, RenewedLeaseExpires(w) PROVE TranscribesUnderLease'
  BY <1>22 DEF RenewedLeaseExpires, rows
<1>23. ASSUME NEW w \in Workers, Crash(w) PROVE TranscribesUnderLease'
  BY <1>23 DEF Crash, Release, rows
<1>24. CASE UNCHANGED vars
  BY <1>24 DEF vars, rows, session
<1>25. QED
  BY <1>1, <1>2, <1>3, <1>4, <1>5, <1>6, <1>7, <1>8, <1>9, <1>10, <1>11, <1>12, <1>13,
     <1>14, <1>15, <1>16, <1>17, <1>18, <1>19, <1>20, <1>21, <1>22, <1>23, <1>24
     DEF Next, WorkerStep

\* Completion reads evidence that is never unwritten.
LEMMA CompletedStep == SafeInv /\ [Next]_vars => CompletedHasEvidence'
<1> SUFFICES ASSUME SafeInv, [Next]_vars PROVE CompletedHasEvidence'
  OBVIOUS
<1> USE DEF SafeInv, TypeOK, RunRow, CompletedHasEvidence, EvidenceShape, TokenShape
<1>1. ASSUME NEW a \in Attempts, Enqueue(a) PROVE CompletedHasEvidence'
  BY <1>1 DEF Enqueue, session
<1>2. ASSUME NEW w \in Workers, NEW a \in Attempts, Claim(w, a) PROVE CompletedHasEvidence'
  BY <1>2 DEF Claim, Claimable, Ready, Locked
<1>3. ASSUME NEW w \in Workers, ReadAttempt(w) PROVE CompletedHasEvidence'
  BY <1>3 DEF ReadAttempt, rows
<1>4. ASSUME NEW w \in Workers, ReadRun(w) PROVE CompletedHasEvidence'
  BY <1>4 DEF ReadRun, rows
<1>5. ASSUME NEW w \in Workers, CompleteAlreadyDone(w) PROVE CompletedHasEvidence'
  BY <1>5 DEF CompleteAlreadyDone, Release, Unleased, Fence, LockedByOther
<1>6. ASSUME NEW w \in Workers, Start(w) PROVE CompletedHasEvidence'
  BY <1>6 DEF Start, Flush, session
<1>7. ASSUME NEW w \in Workers, Resume(w) PROVE CompletedHasEvidence'
  BY <1>7 DEF Resume, rows
<1>8. ASSUME NEW w \in Workers, RenewBeforeStt(w) PROVE CompletedHasEvidence'
  BY <1>8 DEF RenewBeforeStt, Fence, rows
<1>9. ASSUME NEW w \in Workers, PersistEvidence(w) PROVE CompletedHasEvidence'
  BY <1>9 DEF PersistEvidence, Fence, Put, Flush
<1>10. ASSUME NEW w \in Workers, ResumeAtEvaluation(w) PROVE CompletedHasEvidence'
  BY <1>10 DEF ResumeAtEvaluation, Flush, session
<1>11. ASSUME NEW w \in Workers, Finish(w) PROVE CompletedHasEvidence'
  BY <1>11 DEF Finish, Release, Unleased, Fence, LockedByOther, Put
<1>12. ASSUME NEW w \in Workers, LeaseLost(w) PROVE CompletedHasEvidence'
  BY <1>12 DEF LeaseLost, Release, rows
<1>13. ASSUME NEW w \in Workers, NEW e \in Exceptions, Raise(w, e) PROVE CompletedHasEvidence'
  BY <1>13 DEF Raise, Raises, rows
<1>14. ASSUME NEW w \in Workers, FailReadJob(w) PROVE CompletedHasEvidence'
  BY <1>14 DEF FailReadJob, Release, rows
<1>15. ASSUME NEW w \in Workers, FailReadAttempt(w) PROVE CompletedHasEvidence'
  BY <1>15 DEF FailReadAttempt, rows
<1>16. ASSUME NEW w \in Workers, FailReadRun(w) PROVE CompletedHasEvidence'
  BY <1>16 DEF FailReadRun, rows
<1>17. ASSUME NEW w \in Workers, RecordFailure(w) PROVE CompletedHasEvidence'
  BY <1>17 DEF RecordFailure, Release, Unleased, Flush, LockedByOther
<1>18. ASSUME NEW a \in Attempts, RequeueFailedJob(a) PROVE CompletedHasEvidence'
  BY <1>18 DEF RequeueFailedJob, Requeueable, Unleased, session
<1>19. ASSUME NEW a \in Attempts, BackoffElapses(a) PROVE CompletedHasEvidence'
  BY <1>19 DEF BackoffElapses, session
<1>20. ASSUME NEW a \in Attempts, LeaseExpires(a) PROVE CompletedHasEvidence'
  BY <1>20 DEF LeaseExpires, session
<1>21. ASSUME NEW a \in Attempts, WorkerStalls(a) PROVE CompletedHasEvidence'
  BY <1>21 DEF WorkerStalls, session
<1>22. ASSUME NEW w \in Workers, RenewedLeaseExpires(w) PROVE CompletedHasEvidence'
  BY <1>22 DEF RenewedLeaseExpires, rows
<1>23. ASSUME NEW w \in Workers, Crash(w) PROVE CompletedHasEvidence'
  BY <1>23 DEF Crash, Release, rows
<1>24. CASE UNCHANGED vars
  BY <1>24 DEF vars, rows, session
<1>25. QED
  BY <1>1, <1>2, <1>3, <1>4, <1>5, <1>6, <1>7, <1>8, <1>9, <1>10, <1>11, <1>12, <1>13,
     <1>14, <1>15, <1>16, <1>17, <1>18, <1>19, <1>20, <1>21, <1>22, <1>23, <1>24
     DEF Next, WorkerStep

\* The initial state satisfies the invariant.
LEMMA SafeInvInit == Init => SafeInv
<1> SUFFICES ASSUME Init PROVE SafeInv
  OBVIOUS
<1>1. TypeOK
  BY InitType
<1>2. QED
  BY <1>1 DEF Init, SafeInv, UploadShape, LeaseShape, TokenShape, LockShape,
     EvidenceShape,
     TranscribesUnderLease, CompletedHasEvidence, NoAttempt

\* Every step preserves it.
LEMMA SafeInvStep == SafeInv /\ [Next]_vars => SafeInv'
  BY TypeStep, UploadShapeStep, LeaseShapeStep, TokenShapeStep, LockShapeStep,
     EvidenceShapeStep, TranscribesStep, CompletedStep DEF SafeInv

\* The lease protocol as a whole.
THEOREM SafeInvariant == Spec => []SafeInv
  BY SafeInvInit, SafeInvStep, PTL DEF Spec

\* At no time does a worker call the speech-to-text provider for a recording it does
\* not own or that has a transcript, whatever stalls, crashes and races occur.
THEOREM TranscriptionIsExclusive == Spec => []TranscribesUnderLease
<1>1. SafeInv => TranscribesUnderLease
  BY DEF SafeInv
<1>2. QED
  BY SafeInvariant, <1>1, PTL

\* No recording is handed to retention, and no run completes, without its evidence.
THEOREM CompletionHasEvidence == Spec => []CompletedHasEvidence
<1>1. SafeInv => CompletedHasEvidence
  BY DEF SafeInv
<1>2. QED
  BY SafeInvariant, <1>1, PTL

\* Evidence is written once, by the delivery that owns the job at that moment.
THEOREM EvidenceWrittenByOwner == Spec => EvidenceByOwner
<1>1. SafeInv /\ [Next]_vars => [EvidenceStep]_vars
  <2> SUFFICES ASSUME SafeInv, Next PROVE EvidenceStep
    OBVIOUS
  <2>1. CASE UNCHANGED evidence
    BY <2>1 DEF EvidenceStep
  <2>2. CASE \E w \in Workers : PersistEvidence(w)
    BY <2>2 DEF EvidenceStep, PersistEvidence, Fence, Put, SafeInv, TypeOK,
       TranscribesUnderLease
  <2>3. UNCHANGED evidence \/ \E w \in Workers : PersistEvidence(w)
    BY DEF Next, WorkerStep, Enqueue, Claim, ReadAttempt, ReadRun, CompleteAlreadyDone,
       Start,
       Resume, RenewBeforeStt, ResumeAtEvaluation, Finish, LeaseLost, Raise, FailReadJob,
       FailReadAttempt, FailReadRun, RecordFailure, RequeueFailedJob, BackoffElapses,
       LeaseExpires, WorkerStalls, RenewedLeaseExpires, Crash, rows
  <2>4. QED
    BY <2>1, <2>2, <2>3
<1>2. QED
  BY SafeInvariant, <1>1, PTL DEF Spec, EvidenceByOwner

\* A result the learner has seen is never replaced, even by a delivery that a stale
\* failure resurrected.
THEOREM VerdictNeverReplaced == Spec => VerdictIsStable
<1>1. SafeInv /\ [Next]_vars => [VerdictStep]_vars
  <2> SUFFICES ASSUME SafeInv, Next PROVE VerdictStep
    OBVIOUS
  <2>1. CASE UNCHANGED verdict
    BY <2>1 DEF VerdictStep
  <2>2. CASE \E w \in Workers : Finish(w)
    BY <2>2 DEF VerdictStep, Finish, Put, SafeInv, TypeOK
  <2>3. UNCHANGED verdict \/ \E w \in Workers : Finish(w)
    BY DEF Next, WorkerStep, Enqueue, Claim, ReadAttempt, ReadRun, CompleteAlreadyDone,
       Start,
       Resume, RenewBeforeStt, ResumeAtEvaluation, PersistEvidence, LeaseLost, Raise, FailReadJob,
       FailReadAttempt, FailReadRun, RecordFailure, RequeueFailedJob, BackoffElapses,
       LeaseExpires, WorkerStalls, RenewedLeaseExpires, Crash, rows
  <2>4. QED
    BY <2>1, <2>2, <2>3
<1>2. QED
  BY SafeInvariant, <1>1, PTL DEF Spec, VerdictIsStable

-----------------------------------------------------------------------------
(***************************************************************************)
(* When no lease runs out under a live worker, AnalysisDelivery implements *)
(* the promise of RecordingAnalysis, through any number of crashes,        *)
(* retries and requeues.                                                   *)
(***************************************************************************)

\* A delivery in progress still owns a live lease.
HoldsLease ==
    \A w \in Workers : pc[w] # "idle" =>
        /\ job[work[w]].status = "leased"
        /\ job[work[w]].owner = token[w]
        /\ job[work[w]].lease = "live"
        /\ tx[w] # "expired"

\* What a session has loaded and still relies on is what is stored.
LoadedIsCurrent ==
    \A w \in Workers :
        /\ pc[w] \in {"reading_run", "starting", "failing_run", "recording_failure"} =>
              seen[w].attempt = attempt[work[w]]
        /\ pc[w] \in {"starting", "recording_failure"} =>
              seen[w].run = run[work[w]].status
        /\ pc[w] \in {"starting", "resumed", "downloading", "transcribing",
                      "recording_failure"} =>
              seen[w].stage = run[work[w]].stage

\* Between its first commit and its outcome a delivery's attempt is "analyzing".
PhaseShape ==
    \A w \in Workers :
        /\ pc[w] # "already_done"
        /\ pc[w] \in {"resuming", "resumed", "downloading", "transcribing", "evaluating"} =>
              attempt[work[w]] = "analyzing"

\* No retention deadline precedes the upload.
DeadlineShape ==
    \A a \in Attempts : attempt[a] = "uploading" => deletion[a] = "absent"

TimelyInv ==
    /\ SafeInv
    /\ DeadlineShape
    /\ HoldsLease
    /\ LoadedIsCurrent
    /\ PhaseShape
    /\ OutcomeAgreement

\* Two deliveries in progress are of different attempts.
LEMMA DeliveriesDiffer ==
    TimelyInv => \A v, w \in Workers :
        v # w /\ pc[v] # "idle" /\ pc[w] # "idle" => work[v] # work[w]
<1> SUFFICES ASSUME TimelyInv, NEW v \in Workers, NEW w \in Workers, v # w,
                    pc[v] # "idle", pc[w] # "idle", work[v] = work[w]
             PROVE  FALSE
  OBVIOUS
<1>1. work[w] # NoAttempt
  BY AttemptsAssumption DEF TimelyInv, SafeInv, TypeOK
<1>2. token[v] # token[w]
  BY <1>1 DEF TimelyInv, SafeInv, TokenShape
<1>3. job[work[w]].owner = token[v] /\ job[work[w]].owner = token[w]
  BY DEF TimelyInv, HoldsLease
<1>4. QED
  BY <1>2, <1>3

\* A live lease is only given up by its own delivery: no claim can take it and, without
\* stalls, no clock can end it.
LEMMA HoldsLeaseStep == MaxStalls = 0 /\ TimelyInv /\ [Next]_vars => HoldsLease'
<1> SUFFICES ASSUME MaxStalls = 0, TimelyInv, [Next]_vars PROVE HoldsLease'
  OBVIOUS
<1> USE DEF TimelyInv, SafeInv, TypeOK, JobRow, RunRow, LoadedColumns, NoAttempt,
            HoldsLease, TokenShape, LockShape, UploadShape, OwnerAlive
<1>1. ASSUME NEW a \in Attempts, Enqueue(a) PROVE HoldsLease'
  BY <1>1 DEF Enqueue, session
<1>2. ASSUME NEW w \in Workers, NEW a \in Attempts, Claim(w, a) PROVE HoldsLease'
  BY <1>2 DEF Claim, Claimable, Ready, Locked
<1>3. ASSUME NEW w \in Workers, ReadAttempt(w) PROVE HoldsLease'
  BY <1>3 DEF ReadAttempt, rows
<1>4. ASSUME NEW w \in Workers, ReadRun(w) PROVE HoldsLease'
  BY <1>4 DEF ReadRun, rows
<1>5. ASSUME NEW w \in Workers, CompleteAlreadyDone(w) PROVE HoldsLease'
  <2>1. \A v \in Workers \ {w} :
          /\ pc'[v] = pc[v] /\ work'[v] = work[v] /\ token'[v] = token[v]
          /\ tx'[v] = tx[v] /\ seen'[v] = seen[v]
          /\ pc[v] # "idle" => work[v] \in Attempts /\ work[v] # work[w]
    BY <1>5, DeliveriesDiffer DEF CompleteAlreadyDone, Release, Unleased
  <2>2. \A a \in Attempts \ {work[w]} :
          job'[a] = job[a] /\ attempt'[a] = attempt[a] /\ run'[a] = run[a]
    BY <1>5 DEF CompleteAlreadyDone, Release, Unleased
  <2>3. QED
    BY <1>5, <2>1, <2>2 DEF CompleteAlreadyDone, Release, Unleased
<1>6. ASSUME NEW w \in Workers, Start(w) PROVE HoldsLease'
  BY <1>6 DEF Start, Flush, session
<1>7. ASSUME NEW w \in Workers, Resume(w) PROVE HoldsLease'
  BY <1>7 DEF Resume, rows
<1>8. ASSUME NEW w \in Workers, RenewBeforeStt(w) PROVE HoldsLease'
  BY <1>8 DEF RenewBeforeStt, Fence, rows
<1>9. ASSUME NEW w \in Workers, PersistEvidence(w) PROVE HoldsLease'
  BY <1>9 DEF PersistEvidence, Fence, Put, Flush
<1>10. ASSUME NEW w \in Workers, ResumeAtEvaluation(w) PROVE HoldsLease'
  BY <1>10 DEF ResumeAtEvaluation, Flush, session
<1>11. ASSUME NEW w \in Workers, Finish(w) PROVE HoldsLease'
  <2>1. \A v \in Workers \ {w} :
          /\ pc'[v] = pc[v] /\ work'[v] = work[v] /\ token'[v] = token[v]
          /\ tx'[v] = tx[v] /\ seen'[v] = seen[v]
          /\ pc[v] # "idle" => work[v] \in Attempts /\ work[v] # work[w]
    BY <1>11, DeliveriesDiffer DEF Finish, Release, Unleased
  <2>2. \A a \in Attempts \ {work[w]} :
          job'[a] = job[a] /\ attempt'[a] = attempt[a] /\ run'[a] = run[a]
    BY <1>11 DEF Finish, Release, Unleased
  <2>3. QED
    BY <1>11, <2>1, <2>2 DEF Finish, Release, Unleased
<1>12. ASSUME NEW w \in Workers, LeaseLost(w) PROVE HoldsLease'
  BY <1>12 DEF LeaseLost, Release, rows
<1>13. ASSUME NEW w \in Workers, NEW e \in Exceptions, Raise(w, e) PROVE HoldsLease'
  BY <1>13 DEF Raise, Raises, rows
<1>14. ASSUME NEW w \in Workers, FailReadJob(w) PROVE HoldsLease'
  <2>1. CASE Release(w)
    BY <1>14, <2>1 DEF FailReadJob, Release, rows
  <2>2. CASE ~Release(w)
    BY <1>14, <2>2 DEF FailReadJob, rows
  <2>3. QED
    BY <2>1, <2>2
<1>15. ASSUME NEW w \in Workers, FailReadAttempt(w) PROVE HoldsLease'
  BY <1>15 DEF FailReadAttempt, rows
<1>16. ASSUME NEW w \in Workers, FailReadRun(w) PROVE HoldsLease'
  BY <1>16 DEF FailReadRun, rows
<1>17. ASSUME NEW w \in Workers, RecordFailure(w) PROVE HoldsLease'
  <2>1. \A v \in Workers \ {w} :
          /\ pc'[v] = pc[v] /\ work'[v] = work[v] /\ token'[v] = token[v]
          /\ tx'[v] = tx[v] /\ seen'[v] = seen[v]
          /\ pc[v] # "idle" => work[v] \in Attempts /\ work[v] # work[w]
    BY <1>17, DeliveriesDiffer DEF RecordFailure, Release, Unleased, Flush
  <2>2. \A a \in Attempts \ {work[w]} :
          job'[a] = job[a] /\ attempt'[a] = attempt[a] /\ run'[a] = run[a]
    BY <1>17 DEF RecordFailure, Release, Unleased, Flush
  <2>3. QED
    BY <1>17, <2>1, <2>2 DEF RecordFailure, Release, Unleased, Flush
<1>18. ASSUME NEW a \in Attempts, RequeueFailedJob(a) PROVE HoldsLease'
  BY <1>18 DEF RequeueFailedJob, Requeueable, Unleased, session
<1>19. ASSUME NEW a \in Attempts, BackoffElapses(a) PROVE HoldsLease'
  BY <1>19 DEF BackoffElapses, session
<1>20. ASSUME NEW a \in Attempts, LeaseExpires(a) PROVE HoldsLease'
  BY <1>20 DEF LeaseExpires, session
<1>21. ASSUME NEW a \in Attempts, WorkerStalls(a) PROVE HoldsLease'
  BY <1>21 DEF WorkerStalls, session
<1>22. ASSUME NEW w \in Workers, RenewedLeaseExpires(w) PROVE HoldsLease'
  BY <1>22 DEF RenewedLeaseExpires, rows
<1>23. ASSUME NEW w \in Workers, Crash(w) PROVE HoldsLease'
  BY <1>23 DEF Crash, Release, rows
<1>24. CASE UNCHANGED vars
  BY <1>24 DEF vars, rows, session
<1>25. QED
  BY <1>1, <1>2, <1>3, <1>4, <1>5, <1>6, <1>7, <1>8, <1>9, <1>10, <1>11, <1>12, <1>13,
     <1>14, <1>15, <1>16, <1>17, <1>18, <1>19, <1>20, <1>21, <1>22, <1>23, <1>24
     DEF Next, WorkerStep

\* A loaded column goes stale only by the write of another delivery of the attempt.
LEMMA LoadedStep == MaxStalls = 0 /\ TimelyInv /\ [Next]_vars => LoadedIsCurrent'
<1> SUFFICES ASSUME MaxStalls = 0, TimelyInv, [Next]_vars PROVE LoadedIsCurrent'
  OBVIOUS
<1> USE DEF TimelyInv, SafeInv, TypeOK, JobRow, RunRow, LoadedColumns, NoAttempt,
            HoldsLease, LoadedIsCurrent, TokenShape, UploadShape
<1>1. ASSUME NEW a \in Attempts, Enqueue(a) PROVE LoadedIsCurrent'
  BY <1>1 DEF Enqueue, session
<1>2. ASSUME NEW w \in Workers, NEW a \in Attempts, Claim(w, a) PROVE LoadedIsCurrent'
  BY <1>2 DEF Claim, Claimable, Ready, Locked
<1>3. ASSUME NEW w \in Workers, ReadAttempt(w) PROVE LoadedIsCurrent'
  BY <1>3 DEF ReadAttempt, rows
<1>4. ASSUME NEW w \in Workers, ReadRun(w) PROVE LoadedIsCurrent'
  BY <1>4 DEF ReadRun, rows
<1>5. ASSUME NEW w \in Workers, CompleteAlreadyDone(w) PROVE LoadedIsCurrent'
  BY <1>5 DEF CompleteAlreadyDone, Release, Unleased, Fence, LockedByOther
<1>6. ASSUME NEW w \in Workers, Start(w) PROVE LoadedIsCurrent'
  <2>1. \A v \in Workers \ {w} :
          /\ pc'[v] = pc[v] /\ work'[v] = work[v] /\ token'[v] = token[v]
          /\ tx'[v] = tx[v] /\ seen'[v] = seen[v]
          /\ pc[v] # "idle" => work[v] \in Attempts /\ work[v] # work[w]
    BY <1>6, DeliveriesDiffer DEF Start, session, Flush
  <2>2. \A a \in Attempts \ {work[w]} :
          job'[a] = job[a] /\ attempt'[a] = attempt[a] /\ run'[a] = run[a]
    BY <1>6 DEF Start, session, Flush
  <2>3. QED
    BY <1>6, <2>1, <2>2 DEF Start, session, Flush
<1>7. ASSUME NEW w \in Workers, Resume(w) PROVE LoadedIsCurrent'
  BY <1>7 DEF Resume, rows
<1>8. ASSUME NEW w \in Workers, RenewBeforeStt(w) PROVE LoadedIsCurrent'
  BY <1>8 DEF RenewBeforeStt, Fence, rows
<1>9. ASSUME NEW w \in Workers, PersistEvidence(w) PROVE LoadedIsCurrent'
  <2>1. \A v \in Workers \ {w} :
          /\ pc'[v] = pc[v] /\ work'[v] = work[v] /\ token'[v] = token[v]
          /\ tx'[v] = tx[v] /\ seen'[v] = seen[v]
          /\ pc[v] # "idle" => work[v] \in Attempts /\ work[v] # work[w]
    BY <1>9, DeliveriesDiffer DEF PersistEvidence, Flush
  <2>2. \A a \in Attempts \ {work[w]} :
          job'[a] = job[a] /\ attempt'[a] = attempt[a] /\ run'[a] = run[a]
    BY <1>9 DEF PersistEvidence, Flush
  <2>3. QED
    BY <1>9, <2>1, <2>2 DEF PersistEvidence, Flush
<1>10. ASSUME NEW w \in Workers, ResumeAtEvaluation(w) PROVE LoadedIsCurrent'
  <2>1. \A v \in Workers \ {w} :
          /\ pc'[v] = pc[v] /\ work'[v] = work[v] /\ token'[v] = token[v]
          /\ tx'[v] = tx[v] /\ seen'[v] = seen[v]
          /\ pc[v] # "idle" => work[v] \in Attempts /\ work[v] # work[w]
    BY <1>10, DeliveriesDiffer DEF ResumeAtEvaluation, session, Flush
  <2>2. \A a \in Attempts \ {work[w]} :
          job'[a] = job[a] /\ attempt'[a] = attempt[a] /\ run'[a] = run[a]
    BY <1>10 DEF ResumeAtEvaluation, session, Flush
  <2>3. QED
    BY <1>10, <2>1, <2>2 DEF ResumeAtEvaluation, session, Flush
<1>11. ASSUME NEW w \in Workers, Finish(w) PROVE LoadedIsCurrent'
  <2>1. \A v \in Workers \ {w} :
          /\ pc'[v] = pc[v] /\ work'[v] = work[v] /\ token'[v] = token[v]
          /\ tx'[v] = tx[v] /\ seen'[v] = seen[v]
          /\ pc[v] # "idle" => work[v] \in Attempts /\ work[v] # work[w]
    BY <1>11, DeliveriesDiffer DEF Finish, Release, Unleased
  <2>2. \A a \in Attempts \ {work[w]} :
          job'[a] = job[a] /\ attempt'[a] = attempt[a] /\ run'[a] = run[a]
    BY <1>11 DEF Finish, Release, Unleased
  <2>3. QED
    BY <1>11, <2>1, <2>2 DEF Finish, Release, Unleased
<1>12. ASSUME NEW w \in Workers, LeaseLost(w) PROVE LoadedIsCurrent'
  BY <1>12 DEF LeaseLost, Release, rows
<1>13. ASSUME NEW w \in Workers, NEW e \in Exceptions, Raise(w, e) PROVE LoadedIsCurrent'
  BY <1>13 DEF Raise, Raises, rows
<1>14. ASSUME NEW w \in Workers, FailReadJob(w) PROVE LoadedIsCurrent'
  <2>1. CASE Release(w)
    BY <1>14, <2>1 DEF FailReadJob, Release, rows
  <2>2. CASE ~Release(w)
    <3>1. UNCHANGED <<rows, work>> /\ pc' = [pc EXCEPT ![w] = "failing_attempt"]
          /\ seen' = [seen EXCEPT ![w].count = job[work[w]].count]
      BY <1>14, <2>2 DEF FailReadJob
    <3>2. \A v \in Workers \ {w} : pc'[v] = pc[v] /\ seen'[v] = seen[v]
      BY <3>1
    <3>3. pc'[w] = "failing_attempt"
      BY <3>1
    <3>4. QED
      BY <3>1, <3>2, <3>3 DEF rows
  <2>3. QED
    BY <2>1, <2>2
<1>15. ASSUME NEW w \in Workers, FailReadAttempt(w) PROVE LoadedIsCurrent'
  BY <1>15 DEF FailReadAttempt, rows
<1>16. ASSUME NEW w \in Workers, FailReadRun(w) PROVE LoadedIsCurrent'
  BY <1>16 DEF FailReadRun, rows
<1>17. ASSUME NEW w \in Workers, RecordFailure(w) PROVE LoadedIsCurrent'
  <2>1. \A v \in Workers \ {w} :
          /\ pc'[v] = pc[v] /\ work'[v] = work[v] /\ token'[v] = token[v]
          /\ tx'[v] = tx[v] /\ seen'[v] = seen[v]
          /\ pc[v] # "idle" => work[v] \in Attempts /\ work[v] # work[w]
    BY <1>17, DeliveriesDiffer DEF RecordFailure, Release, Unleased, Flush
  <2>2. \A a \in Attempts \ {work[w]} :
          job'[a] = job[a] /\ attempt'[a] = attempt[a] /\ run'[a] = run[a]
    BY <1>17 DEF RecordFailure, Release, Unleased, Flush
  <2>3. QED
    BY <1>17, <2>1, <2>2 DEF RecordFailure, Release, Unleased, Flush
<1>18. ASSUME NEW a \in Attempts, RequeueFailedJob(a) PROVE LoadedIsCurrent'
  BY <1>18 DEF RequeueFailedJob, Requeueable, Unleased, session
<1>19. ASSUME NEW a \in Attempts, BackoffElapses(a) PROVE LoadedIsCurrent'
  BY <1>19 DEF BackoffElapses, session
<1>20. ASSUME NEW a \in Attempts, LeaseExpires(a) PROVE LoadedIsCurrent'
  BY <1>20 DEF LeaseExpires, session
<1>21. ASSUME NEW a \in Attempts, WorkerStalls(a) PROVE LoadedIsCurrent'
  BY <1>21 DEF WorkerStalls, session
<1>22. ASSUME NEW w \in Workers, RenewedLeaseExpires(w) PROVE LoadedIsCurrent'
  BY <1>22 DEF RenewedLeaseExpires, rows
<1>23. ASSUME NEW w \in Workers, Crash(w) PROVE LoadedIsCurrent'
  BY <1>23 DEF Crash, Release, rows
<1>24. CASE UNCHANGED vars
  BY <1>24 DEF vars, rows, session
<1>25. QED
  BY <1>1, <1>2, <1>3, <1>4, <1>5, <1>6, <1>7, <1>8, <1>9, <1>10, <1>11, <1>12, <1>13,
     <1>14, <1>15, <1>16, <1>17, <1>18, <1>19, <1>20, <1>21, <1>22, <1>23, <1>24
     DEF Next, WorkerStep

\* Only the delivery that owns the attempt moves it in and out of "analyzing".
LEMMA PhaseStep == MaxStalls = 0 /\ TimelyInv /\ [Next]_vars => PhaseShape'
<1> SUFFICES ASSUME MaxStalls = 0, TimelyInv, [Next]_vars PROVE PhaseShape'
  OBVIOUS
<1> USE DEF TimelyInv, SafeInv, TypeOK, JobRow, RunRow, LoadedColumns, NoAttempt,
            HoldsLease, PhaseShape, TokenShape, UploadShape, OutcomeAgreement
<1>1. ASSUME NEW a \in Attempts, Enqueue(a) PROVE PhaseShape'
  BY <1>1 DEF Enqueue, session
<1>2. ASSUME NEW w \in Workers, NEW a \in Attempts, Claim(w, a) PROVE PhaseShape'
  BY <1>2 DEF Claim, Claimable, Ready, Locked
<1>3. ASSUME NEW w \in Workers, ReadAttempt(w) PROVE PhaseShape'
  BY <1>3 DEF ReadAttempt, rows
<1>4. ASSUME NEW w \in Workers, ReadRun(w) PROVE PhaseShape'
  BY <1>4 DEF ReadRun, rows
<1>5. ASSUME NEW w \in Workers, CompleteAlreadyDone(w) PROVE PhaseShape'
  BY <1>5 DEF CompleteAlreadyDone, Release, Unleased, Fence, LockedByOther
<1>6. ASSUME NEW w \in Workers, Start(w) PROVE PhaseShape'
  <2>1. \A v \in Workers \ {w} :
          /\ pc'[v] = pc[v] /\ work'[v] = work[v] /\ token'[v] = token[v]
          /\ tx'[v] = tx[v] /\ seen'[v] = seen[v]
          /\ pc[v] # "idle" => work[v] \in Attempts /\ work[v] # work[w]
    BY <1>6, DeliveriesDiffer DEF Start, session, Flush
  <2>2. \A a \in Attempts \ {work[w]} :
          job'[a] = job[a] /\ attempt'[a] = attempt[a] /\ run'[a] = run[a]
    BY <1>6 DEF Start, session, Flush
  <2>3. QED
    BY <1>6, <2>1, <2>2 DEF Start, session, Flush, LoadedIsCurrent
<1>7. ASSUME NEW w \in Workers, Resume(w) PROVE PhaseShape'
  BY <1>7 DEF Resume, rows
<1>8. ASSUME NEW w \in Workers, RenewBeforeStt(w) PROVE PhaseShape'
  BY <1>8 DEF RenewBeforeStt, Fence, rows
<1>9. ASSUME NEW w \in Workers, PersistEvidence(w) PROVE PhaseShape'
  BY <1>9 DEF PersistEvidence, Fence, Put, Flush
<1>10. ASSUME NEW w \in Workers, ResumeAtEvaluation(w) PROVE PhaseShape'
  BY <1>10 DEF ResumeAtEvaluation, Flush, session
<1>11. ASSUME NEW w \in Workers, Finish(w) PROVE PhaseShape'
  <2>1. \A v \in Workers \ {w} :
          /\ pc'[v] = pc[v] /\ work'[v] = work[v] /\ token'[v] = token[v]
          /\ tx'[v] = tx[v] /\ seen'[v] = seen[v]
          /\ pc[v] # "idle" => work[v] \in Attempts /\ work[v] # work[w]
    BY <1>11, DeliveriesDiffer DEF Finish, Release, Unleased
  <2>2. \A a \in Attempts \ {work[w]} :
          job'[a] = job[a] /\ attempt'[a] = attempt[a] /\ run'[a] = run[a]
    BY <1>11 DEF Finish, Release, Unleased
  <2>3. QED
    BY <1>11, <2>1, <2>2 DEF Finish, Release, Unleased
<1>12. ASSUME NEW w \in Workers, LeaseLost(w) PROVE PhaseShape'
  BY <1>12 DEF LeaseLost, Release, rows
<1>13. ASSUME NEW w \in Workers, NEW e \in Exceptions, Raise(w, e) PROVE PhaseShape'
  BY <1>13 DEF Raise, Raises, rows
<1>14. ASSUME NEW w \in Workers, FailReadJob(w) PROVE PhaseShape'
  <2>1. CASE Release(w)
    BY <1>14, <2>1 DEF FailReadJob, Release, rows
  <2>2. CASE ~Release(w)
    BY <1>14, <2>2 DEF FailReadJob, rows
  <2>3. QED
    BY <2>1, <2>2
<1>15. ASSUME NEW w \in Workers, FailReadAttempt(w) PROVE PhaseShape'
  BY <1>15 DEF FailReadAttempt, rows
<1>16. ASSUME NEW w \in Workers, FailReadRun(w) PROVE PhaseShape'
  BY <1>16 DEF FailReadRun, rows
<1>17. ASSUME NEW w \in Workers, RecordFailure(w) PROVE PhaseShape'
  <2>1. \A v \in Workers \ {w} :
          /\ pc'[v] = pc[v] /\ work'[v] = work[v] /\ token'[v] = token[v]
          /\ tx'[v] = tx[v] /\ seen'[v] = seen[v]
          /\ pc[v] # "idle" => work[v] \in Attempts /\ work[v] # work[w]
    BY <1>17, DeliveriesDiffer DEF RecordFailure, Release, Unleased, Flush
  <2>2. \A a \in Attempts \ {work[w]} :
          job'[a] = job[a] /\ attempt'[a] = attempt[a] /\ run'[a] = run[a]
    BY <1>17 DEF RecordFailure, Release, Unleased, Flush
  <2>3. QED
    BY <1>17, <2>1, <2>2 DEF RecordFailure, Release, Unleased, Flush
<1>18. ASSUME NEW a \in Attempts, RequeueFailedJob(a) PROVE PhaseShape'
  BY <1>18 DEF RequeueFailedJob, Requeueable, Unleased, session
<1>19. ASSUME NEW a \in Attempts, BackoffElapses(a) PROVE PhaseShape'
  BY <1>19 DEF BackoffElapses, session
<1>20. ASSUME NEW a \in Attempts, LeaseExpires(a) PROVE PhaseShape'
  BY <1>20 DEF LeaseExpires, session
<1>21. ASSUME NEW a \in Attempts, WorkerStalls(a) PROVE PhaseShape'
  BY <1>21 DEF WorkerStalls, session
<1>22. ASSUME NEW w \in Workers, RenewedLeaseExpires(w) PROVE PhaseShape'
  BY <1>22 DEF RenewedLeaseExpires, rows
<1>23. ASSUME NEW w \in Workers, Crash(w) PROVE PhaseShape'
  BY <1>23 DEF Crash, Release, rows
<1>24. CASE UNCHANGED vars
  BY <1>24 DEF vars, rows, session
<1>25. QED
  BY <1>1, <1>2, <1>3, <1>4, <1>5, <1>6, <1>7, <1>8, <1>9, <1>10, <1>11, <1>12, <1>13,
     <1>14, <1>15, <1>16, <1>17, <1>18, <1>19, <1>20, <1>21, <1>22, <1>23, <1>24
     DEF Next, WorkerStep

\* Each outcome is one transaction over job, attempt and run, computed from current
\* columns.
LEMMA AgreementStep == MaxStalls = 0 /\ TimelyInv /\ [Next]_vars => OutcomeAgreement'
<1> SUFFICES ASSUME MaxStalls = 0, TimelyInv, [Next]_vars PROVE OutcomeAgreement'
  OBVIOUS
<1> USE DEF TimelyInv, SafeInv, TypeOK, JobRow, RunRow, LoadedColumns, NoAttempt,
            HoldsLease, LoadedIsCurrent, PhaseShape, TokenShape, UploadShape,
            OutcomeAgreement
<1>1. ASSUME NEW a \in Attempts, Enqueue(a) PROVE OutcomeAgreement'
  BY <1>1 DEF Enqueue, session
<1>2. ASSUME NEW w \in Workers, NEW a \in Attempts, Claim(w, a) PROVE OutcomeAgreement'
  BY <1>2 DEF Claim, Claimable, Ready, Locked
<1>3. ASSUME NEW w \in Workers, ReadAttempt(w) PROVE OutcomeAgreement'
  BY <1>3 DEF ReadAttempt, rows
<1>4. ASSUME NEW w \in Workers, ReadRun(w) PROVE OutcomeAgreement'
  BY <1>4 DEF ReadRun, rows
<1>5. ASSUME NEW w \in Workers, CompleteAlreadyDone(w) PROVE OutcomeAgreement'
  BY <1>5 DEF CompleteAlreadyDone, Release, Unleased, Fence, LockedByOther
<1>6. ASSUME NEW w \in Workers, Start(w) PROVE OutcomeAgreement'
  BY <1>6 DEF Start, Flush, session
<1>7. ASSUME NEW w \in Workers, Resume(w) PROVE OutcomeAgreement'
  BY <1>7 DEF Resume, rows
<1>8. ASSUME NEW w \in Workers, RenewBeforeStt(w) PROVE OutcomeAgreement'
  BY <1>8 DEF RenewBeforeStt, Fence, rows
<1>9. ASSUME NEW w \in Workers, PersistEvidence(w) PROVE OutcomeAgreement'
  BY <1>9 DEF PersistEvidence, Fence, Put, Flush
<1>10. ASSUME NEW w \in Workers, ResumeAtEvaluation(w) PROVE OutcomeAgreement'
  BY <1>10 DEF ResumeAtEvaluation, Flush, session
<1>11. ASSUME NEW w \in Workers, Finish(w) PROVE OutcomeAgreement'
  BY <1>11 DEF Finish, Release, Unleased, Fence, LockedByOther, Put
<1>12. ASSUME NEW w \in Workers, LeaseLost(w) PROVE OutcomeAgreement'
  BY <1>12 DEF LeaseLost, Release, rows
<1>13. ASSUME NEW w \in Workers, NEW e \in Exceptions, Raise(w, e) PROVE OutcomeAgreement'
  BY <1>13 DEF Raise, Raises, rows
<1>14. ASSUME NEW w \in Workers, FailReadJob(w) PROVE OutcomeAgreement'
  <2>1. CASE Release(w)
    BY <1>14, <2>1 DEF FailReadJob, Release, rows
  <2>2. CASE ~Release(w)
    BY <1>14, <2>2 DEF FailReadJob, rows
  <2>3. QED
    BY <2>1, <2>2
<1>15. ASSUME NEW w \in Workers, FailReadAttempt(w) PROVE OutcomeAgreement'
  BY <1>15 DEF FailReadAttempt, rows
<1>16. ASSUME NEW w \in Workers, FailReadRun(w) PROVE OutcomeAgreement'
  BY <1>16 DEF FailReadRun, rows
<1>17. ASSUME NEW w \in Workers, RecordFailure(w) PROVE OutcomeAgreement'
  BY <1>17 DEF RecordFailure, Release, Unleased, Flush, LockedByOther
<1>18. ASSUME NEW a \in Attempts, RequeueFailedJob(a) PROVE OutcomeAgreement'
  BY <1>18 DEF RequeueFailedJob, Requeueable, Unleased, session
<1>19. ASSUME NEW a \in Attempts, BackoffElapses(a) PROVE OutcomeAgreement'
  BY <1>19 DEF BackoffElapses, session
<1>20. ASSUME NEW a \in Attempts, LeaseExpires(a) PROVE OutcomeAgreement'
  BY <1>20 DEF LeaseExpires, session
<1>21. ASSUME NEW a \in Attempts, WorkerStalls(a) PROVE OutcomeAgreement'
  BY <1>21 DEF WorkerStalls, session
<1>22. ASSUME NEW w \in Workers, RenewedLeaseExpires(w) PROVE OutcomeAgreement'
  BY <1>22 DEF RenewedLeaseExpires, rows
<1>23. ASSUME NEW w \in Workers, Crash(w) PROVE OutcomeAgreement'
  BY <1>23 DEF Crash, Release, rows
<1>24. CASE UNCHANGED vars
  BY <1>24 DEF vars, rows, session
<1>25. QED
  BY <1>1, <1>2, <1>3, <1>4, <1>5, <1>6, <1>7, <1>8, <1>9, <1>10, <1>11, <1>12, <1>13,
     <1>14, <1>15, <1>16, <1>17, <1>18, <1>19, <1>20, <1>21, <1>22, <1>23, <1>24
     DEF Next, WorkerStep

\* Only four actions touch what the learner or the retention schedule sees; a
\* fifth persists the evidence.
LEMMA QuietSteps ==
    ASSUME [Next]_vars
    PROVE  \/ \E a \in Attempts : Enqueue(a)
           \/ \E w \in Workers : Start(w) \/ Finish(w) \/ RecordFailure(w)
           \/ UNCHANGED <<attempt, deletion>> /\ \E w \in Workers : PersistEvidence(w)
           \/ UNCHANGED <<attempt, deletion, evidence>>
<1>1. CASE \E a \in Attempts : RequeueFailedJob(a) \/ BackoffElapses(a) \/ LeaseExpires(a)
                               \/ WorkerStalls(a)
  BY <1>1 DEF RequeueFailedJob, BackoffElapses, LeaseExpires, WorkerStalls
<1>2. CASE \E w \in Workers : RenewedLeaseExpires(w) \/ Crash(w) \/ LeaseLost(w) \/ FailReadJob(w)
                               \/ FailReadAttempt(w) \/ FailReadRun(w)
  BY <1>2 DEF RenewedLeaseExpires, Crash, LeaseLost, FailReadJob, FailReadAttempt,
              FailReadRun, rows
<1>3. CASE \E w \in Workers : ReadAttempt(w) \/ ReadRun(w) \/ Resume(w) \/ RenewBeforeStt(w)
                               \/ \E e \in Exceptions : Raise(w, e)
  BY <1>3 DEF ReadAttempt, ReadRun, Resume, RenewBeforeStt, Raise, rows
<1>4. CASE \E w \in Workers : ResumeAtEvaluation(w) \/ CompleteAlreadyDone(w)
                               \/ \E a \in Attempts : Claim(w, a)
  BY <1>4 DEF ResumeAtEvaluation, CompleteAlreadyDone, Claim
<1>5. CASE \E w \in Workers : PersistEvidence(w)
  BY <1>5 DEF PersistEvidence
<1>6. CASE UNCHANGED vars
  BY <1>6 DEF vars, rows
<1>7. QED
  BY <1>1, <1>2, <1>3, <1>4, <1>5, <1>6 DEF Next, WorkerStep

\* A deadline is set with the completion, which leaves "uploading" for good.
LEMMA DeadlineStep == MaxStalls = 0 /\ TimelyInv /\ [Next]_vars => DeadlineShape'
<1> SUFFICES ASSUME MaxStalls = 0, TimelyInv, [Next]_vars, NEW a \in Attempts,
                    attempt'[a] = "uploading"
             PROVE  deletion'[a] = "absent"
  BY DEF DeadlineShape
<1> USE DEF TimelyInv, SafeInv, TypeOK, AttemptStatuses, JobRow, LoadedColumns
<1>1. CASE \E b \in Attempts : Enqueue(b)
  BY <1>1 DEF Enqueue, DeadlineShape
<1>2. CASE \E w \in Workers : Start(w)
  <2>1. PICK w \in Workers : Start(w)
    BY <1>2
  <2>2. attempt'[work[w]] = "analyzing"
    BY <2>1 DEF Start, Flush, LoadedIsCurrent
  <2>3. QED
    BY <2>1, <2>2 DEF Start, DeadlineShape, session
<1>3. CASE \E w \in Workers : Finish(w)
  <2>1. PICK w \in Workers : Finish(w)
    BY <1>3
  <2>2. work[w] \in Attempts /\ attempt'[work[w]] = "completed"
    BY <2>1 DEF Finish
  <2>3. QED
    BY <2>1, <2>2 DEF Finish, DeadlineShape
<1>4. CASE \E w \in Workers : RecordFailure(w)
  <2>1. PICK w \in Workers : RecordFailure(w)
    BY <1>4
  <2>2. work[w] \in Attempts /\ attempt'[work[w]] = "analysis_failed"
    BY <2>1 DEF RecordFailure, Flush, LoadedIsCurrent
  <2>3. QED
    BY <2>1, <2>2 DEF RecordFailure, DeadlineShape
<1>5. CASE UNCHANGED <<attempt, deletion>>
  BY <1>5 DEF DeadlineShape
<1>6. QED
  BY <1>1, <1>2, <1>3, <1>4, <1>5, QuietSteps

\* TimelyInv is inductive when there are no stalls.
LEMMA TimelyInvariant == ASSUME MaxStalls = 0 PROVE Spec => []TimelyInv
<1>1. Init => TimelyInv
  BY SafeInvInit DEF Init, TimelyInv, HoldsLease, LoadedIsCurrent, PhaseShape,
     DeadlineShape, OutcomeAgreement
<1>2. TimelyInv /\ [Next]_vars => TimelyInv'
  <2>1. TimelyInv /\ [Next]_vars => SafeInv'
    BY SafeInvStep DEF TimelyInv
  <2>2. QED
    BY <2>1, DeadlineStep, HoldsLeaseStep, LoadedStep, PhaseStep, AgreementStep
       DEF TimelyInv
<1>3. QED
  BY <1>1, <1>2, PTL DEF Spec

\* Without stalls, job, run and learner-visible status always agree.
THEOREM OutcomesAgree == ASSUME MaxStalls = 0 PROVE Spec => []OutcomeAgreement
<1>1. TimelyInv => OutcomeAgreement
  BY DEF TimelyInv
<1>2. QED
  BY TimelyInvariant, <1>1, PTL

\* Without stalls, no attempt is ever processed by two workers.
THEOREM DeliveriesAreExclusive == ASSUME MaxStalls = 0 PROVE Spec => []OneDeliveryAtATime
<1>1. TimelyInv => OneDeliveryAtATime
  BY DEF TimelyInv, SafeInv, TypeOK, TokenShape, HoldsLease, OneDeliveryAtATime
<1>2. QED
  BY TimelyInvariant, <1>1, PTL

-----------------------------------------------------------------------------
(***************************************************************************)
(* Refinement: each step is a step of the promise, or invisible in it.     *)
(***************************************************************************)

Transcribed == [a \in Attempts |-> evidence[a] # 0]
Released == [a \in Attempts |-> deletion[a] = "scheduled"]

\* The learner's view depends on the evidence and the deadline only through two flags.
LEMMA ViewUnchanged ==
    /\ evidence' = evidence => Transcribed' = Transcribed
    /\ deletion' = deletion => Released' = Released
BY DEF Transcribed, Released

\* A step that leaves status, evidence and deadline alone is invisible.
LEMMA HiddenStep ==
    ASSUME UNCHANGED <<attempt, deletion, evidence>>
    PROVE  UNCHANGED Promise!vars
BY DEF Promise!vars

\* Enqueue is the sealing of the recording.
LEMMA SealStep ==
    ASSUME TimelyInv, NEW a \in Attempts, Enqueue(a)
    PROVE  Promise!Seal(a)
<1> USE DEF TimelyInv, SafeInv, TypeOK, Enqueue
<1>1. deletion[a] # "scheduled" /\ deletion' = [deletion EXCEPT ![a] = "not_scheduled"]
  BY DEF DeadlineShape
<1>2. Released' = Released
  BY <1>1 DEF Released
<1>3. evidence' = evidence
  OBVIOUS
<1>4. QED
  BY <1>2, <1>3 DEF Released, Promise!Seal, Promise!Move

\* The "analyzing" commit begins an analysis, or continues one that crashed.
LEMMA StartStep ==
    ASSUME TimelyInv, NEW w \in Workers, NEW a \in Attempts, a = work[w], Start(w)
    PROVE  Promise!Begin(a) \/ UNCHANGED Promise!vars
<1> USE DEF TimelyInv, SafeInv, TypeOK, Start
<1>1. UNCHANGED <<deletion, evidence>>
  OBVIOUS
<1>2. attempt' = [attempt EXCEPT ![work[w]] = "analyzing"]
  BY DEF LoadedIsCurrent, Flush
<1>3. work[w] \in Attempts /\ job[work[w]].status = "leased"
  BY DEF HoldsLease
<1>4. attempt[work[w]] \in {"queued", "analyzing", "analysis_failed"}
  BY <1>3 DEF UploadShape, OutcomeAgreement, AttemptStatuses
<1>5. CASE attempt[work[w]] = "analyzing"
  <2>1. attempt' = attempt
    BY <1>2, <1>3, <1>5
  <2>2. QED
    BY <1>1, <2>1, HiddenStep
<1>6. CASE attempt[work[w]] # "analyzing"
  <2>1. Transcribed' = Transcribed /\ Released' = Released
    BY <1>1, ViewUnchanged
  <2>2. attempt[work[w]] \in {"queued", "analysis_failed"}
    BY <1>4, <1>6
  <2>3. QED
    BY <1>2, <2>1, <2>2 DEF Transcribed, Released, Promise!Begin, Promise!Move
<1>7. QED
  BY <1>5, <1>6

\* Persisting the evidence is the promise's transcription.
LEMMA TranscribeStep ==
    ASSUME TimelyInv, NEW w \in Workers, NEW a \in Attempts, a = work[w], PersistEvidence(w)
    PROVE  Promise!Transcribe(a)
<1> USE DEF TimelyInv, SafeInv, TypeOK, PersistEvidence
<1>1. work[w] \in Attempts /\ attempt[work[w]] = "analyzing"
  BY DEF PhaseShape
<1>2. evidence[work[w]] = 0 /\ token[w] # 0
  BY DEF TranscribesUnderLease, TokenShape
<1>3. evidence' = [evidence EXCEPT ![work[w]] = token[w]]
  BY <1>1, <1>2 DEF Put
<1>4. Transcribed' = [Transcribed EXCEPT ![work[w]] = TRUE]
  BY <1>1, <1>2, <1>3 DEF Transcribed
<1>5. UNCHANGED <<attempt, deletion>>
  OBVIOUS
<1>6. QED
  <2>1. Released' = Released /\ ~Transcribed[work[w]]
    BY <1>1, <1>2, <1>5, ViewUnchanged DEF Transcribed
  <2>2. QED
    BY <1>1, <1>4, <1>5, <2>1 DEF Transcribed, Released, Promise!Transcribe

\* Finish is the promise's completion.
LEMMA CompleteStep ==
    ASSUME TimelyInv, NEW w \in Workers, NEW a \in Attempts, a = work[w], Finish(w)
    PROVE  Promise!Complete(a)
<1> USE DEF TimelyInv, SafeInv, TypeOK, Finish
<1>1. work[w] \in Attempts /\ attempt[work[w]] = "analyzing"
  BY DEF PhaseShape
<1>2. evidence[work[w]] # 0 /\ UNCHANGED evidence
  BY DEF EvidenceShape
<1>3. deletion' = [deletion EXCEPT ![work[w]] = "scheduled"]
  OBVIOUS
<1>4. Released' = [Released EXCEPT ![work[w]] = TRUE]
  BY <1>1, <1>3 DEF Released
<1>5. attempt' = [attempt EXCEPT ![work[w]] = "completed"]
  OBVIOUS
<1>6. QED
  BY <1>1, <1>2, <1>4, <1>5 DEF Released, Promise!Complete, Promise!Move

\* A recorded failure is shown, unless the previous one still is.
LEMMA FailStep ==
    ASSUME TimelyInv, NEW w \in Workers, NEW a \in Attempts, a = work[w], RecordFailure(w)
    PROVE  Promise!Fail(a) \/ UNCHANGED Promise!vars
<1> USE DEF TimelyInv, SafeInv, TypeOK, RecordFailure
<1>1. UNCHANGED <<deletion, evidence>>
  OBVIOUS
<1>2. attempt' = [attempt EXCEPT ![work[w]] = "analysis_failed"]
  BY DEF LoadedIsCurrent, Flush
<1>3. work[w] \in Attempts /\ job[work[w]].status = "leased"
  BY DEF HoldsLease
<1>4. attempt[work[w]] \in {"queued", "analyzing", "analysis_failed"}
  BY <1>3 DEF UploadShape, OutcomeAgreement, AttemptStatuses
<1>5. CASE attempt[work[w]] = "analysis_failed"
  <2>1. attempt' = attempt
    BY <1>2, <1>3, <1>5
  <2>2. QED
    BY <1>1, <2>1, HiddenStep
<1>6. CASE attempt[work[w]] # "analysis_failed"
  <2>1. Transcribed' = Transcribed /\ Released' = Released
    BY <1>1, ViewUnchanged
  <2>2. attempt[work[w]] \in {"queued", "analyzing"}
    BY <1>4, <1>6
  <2>3. QED
    BY <1>2, <2>1, <2>2 DEF Transcribed, Released, Promise!Fail, Promise!Move
<1>7. QED
  BY <1>5, <1>6

\* Without stalls, the lease-driven delivery implements the promise made to the
\* learner, whatever crashes, is retried or is requeued.
THEOREM PromiseKept == ASSUME MaxStalls = 0 PROVE Spec => KeepsPromise
<1>1. Init => Promise!Init
  <2> SUFFICES ASSUME Init PROVE Promise!Init
    OBVIOUS
  <2>1. Transcribed = [a \in Attempts |-> FALSE]
    BY DEF Init, Transcribed
  <2>2. Released = [a \in Attempts |-> FALSE]
    BY DEF Init, Released
  <2>3. QED
    BY <2>1, <2>2 DEF Init, Transcribed, Released, Promise!Init
<1>2. TimelyInv /\ [Next]_vars => [Promise!Next]_Promise!vars
  <2> SUFFICES ASSUME TimelyInv, [Next]_vars PROVE [Promise!Next]_Promise!vars
    OBVIOUS
  <2>1. ASSUME NEW w \in Workers, pc[w] # "idle" PROVE work[w] \in Attempts
    BY <2>1 DEF TimelyInv, SafeInv, TypeOK
  <2>2. CASE \E a \in Attempts : Enqueue(a)
    BY <2>2, SealStep DEF Promise!Next
  <2>3. CASE \E w \in Workers : Start(w)
    <3>1. PICK w \in Workers : Start(w)
      BY <2>3
    <3>2. PICK a \in Attempts : a = work[w]
      BY <2>1, <3>1 DEF Start
    <3>3. QED
      BY <3>1, <3>2, StartStep DEF Promise!Next
  <2>4. CASE \E w \in Workers : PersistEvidence(w)
    <3>1. PICK w \in Workers : PersistEvidence(w)
      BY <2>4
    <3>2. PICK a \in Attempts : a = work[w]
      BY <2>1, <3>1 DEF PersistEvidence
    <3>3. QED
      BY <3>1, <3>2, TranscribeStep DEF Promise!Next
  <2>5. CASE \E w \in Workers : Finish(w)
    <3>1. PICK w \in Workers : Finish(w)
      BY <2>5
    <3>2. PICK a \in Attempts : a = work[w]
      BY <2>1, <3>1 DEF Finish
    <3>3. QED
      BY <3>1, <3>2, CompleteStep DEF Promise!Next
  <2>6. CASE \E w \in Workers : RecordFailure(w)
    <3>1. PICK w \in Workers : RecordFailure(w)
      BY <2>6
    <3>2. PICK a \in Attempts : a = work[w]
      BY <2>1, <3>1 DEF RecordFailure
    <3>3. QED
      BY <3>1, <3>2, FailStep DEF Promise!Next
  <2>7. CASE UNCHANGED <<attempt, deletion, evidence>>
    BY <2>7, HiddenStep
  <2>8. QED
    BY <2>2, <2>3, <2>4, <2>5, <2>6, <2>7, QuietSteps
<1>3. QED
  BY <1>1, <1>2, TimelyInvariant, PTL DEF Spec, KeepsPromise, Promise!Spec

=============================================================================
