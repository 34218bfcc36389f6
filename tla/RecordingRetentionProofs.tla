--------------------- MODULE RecordingRetentionProofs ---------------------
(***************************************************************************)
(* What RecordingRetention guarantees for any number of recordings and     *)
(* workers, any retry limit, and any number of crashes and stalls.         *)
(***************************************************************************)
EXTENDS RecordingRetention, FiniteSets, FiniteSetTheorems, TLAPS

\* The updates of the actions keep a row well typed.
LEMMA RowUpdates ==
    ASSUME NEW row \in Row
    PROVE  /\ [row EXCEPT !.status = "scheduled", !.available = "future"] \in Row
           /\ [row EXCEPT !.count = row.count + 1] \in Row
           /\ \A status \in Statuses, available \in Instants :
                 Outcome(row, status, available) \in Row
<1>1. /\ row = [status |-> row.status, available |-> row.available,
                lease |-> row.lease, count |-> row.count]
      /\ row.status \in Statuses /\ row.available \in Instants
      /\ row.lease \in Nat /\ row.count \in Nat
  BY DEF Row
<1>2. [row EXCEPT !.status = "scheduled", !.available = "future"] \in Row
  BY <1>1 DEF Row, Statuses, Instants
<1>3. [row EXCEPT !.count = row.count + 1] \in Row
  BY <1>1 DEF Row
<1>4. ASSUME NEW status \in Statuses, NEW available \in Instants
      PROVE  Outcome(row, status, available) \in Row
  BY <1>1 DEF Row, Outcome
<1>5. QED
  BY <1>2, <1>3, <1>4

\* _finish keeps the state well typed, whether or not its claim is stale.
LEMMA FinishType ==
    ASSUME TypeOK, NEW w \in Workers, pc[w] # "idle",
           NEW status \in Statuses \ {"deleting"}, NEW available \in Instants,
           FinishAs(w, status, available)
    PROVE  TypeOK'
<1> DEFINE r == claim[w].recording
<1>1. r \in Recordings
  BY DEF TypeOK
<1>2. /\ pc' \in [Workers -> PCs] /\ Release(w)
      /\ UNCHANGED <<deadline, object, calls, claims, faults>>
  BY DEF FinishAs, Release, TypeOK, PCs
<1>3. CASE Fence(w)
  <2>1. rec' = [rec EXCEPT ![r] = Outcome(rec[r], status, available)]
        /\ expired' = [expired EXCEPT ![r] = FALSE]
    BY <1>3 DEF FinishAs
  <2>2. Outcome(rec[r], status, available) \in Row
    BY <1>1, RowUpdates DEF TypeOK
  <2>3. rec' \in [Recordings -> Row]
    BY <2>1, <2>2 DEF TypeOK
  <2>4. LeaseColumn'
    BY <1>1, <1>2, <2>1 DEF LeaseColumn, TypeOK, Outcome, Row, Release, NoClaim
  <2>5. QED
    BY <1>1, <1>2, <2>1, <2>3, <2>4 DEF TypeOK, Release, NoClaim
<1>4. CASE ~Fence(w)
  <2>1. rec' = rec /\ expired' = expired
    BY <1>4 DEF FinishAs
  <2>2. QED
    BY <1>1, <1>2, <2>1 DEF TypeOK, LeaseColumn, Release, NoClaim
<1>5. QED
  BY <1>3, <1>4

\* Every action keeps the state well typed and the lease column consistent.
LEMMA TypeStep == TypeOK /\ [Next]_vars => TypeOK'
<1> SUFFICES ASSUME TypeOK, [Next]_vars PROVE TypeOK'
  OBVIOUS
<1>0. ASSUME NEW r \in Recordings
      PROVE  /\ [rec[r] EXCEPT !.status = "scheduled", !.available = "future"] \in Row
             /\ [rec[r] EXCEPT !.count = rec[r].count + 1] \in Row
  <2>1. rec[r] \in Row
    BY DEF TypeOK
  <2>2. QED
    BY <2>1, RowUpdates
<1> USE DEF TypeOK, Row, Statuses, Instants, PCs, LeaseColumn, NoClaim, NoRecording
<1>1. ASSUME NEW r \in Recordings, Schedule(r) PROVE TypeOK'
  <2>1. [rec[r] EXCEPT !.status = "scheduled", !.available = "future"] \in Row
    BY <1>0
  <2>2. rec' = [rec EXCEPT ![r] = [@ EXCEPT !.status = "scheduled", !.available = "future"]]
    BY <1>1 DEF Schedule
  <2>3. rec' \in [Recordings -> Row]
    BY <2>1, <2>2
  <2>4. LeaseColumn'
    BY <1>1 DEF Schedule, local
  <2>5. QED
    BY <2>3, <2>4, <1>1 DEF Schedule, local
<1>2. ASSUME NEW w \in Workers, NEW r \in Recordings, Claim(w, r) PROVE TypeOK'
  BY <1>2 DEF Claim, ReadyScheduled, ExpiredLease
<1>3. ASSUME NEW w \in Workers, RefuseForeign(w) PROVE TypeOK'
  <2>1. pc[w] # "idle" /\ FinishAs(w, "delete_failed", "null")
    BY <1>3 DEF RefuseForeign
  <2>2. "delete_failed" \in Statuses \ {"deleting"} /\ "null" \in Instants
    BY DEF FailedStatus
  <2>3. QED
    BY <2>1, <2>2, FinishType
<1>4. ASSUME NEW w \in Workers, BeginExternalDelete(w) PROVE TypeOK'
  <2> DEFINE r == claim[w].recording
  <2>1. r \in Recordings /\ [rec[r] EXCEPT !.count = rec[r].count + 1] \in Row
    <3>1. r \in Recordings
      BY <1>4 DEF BeginExternalDelete
    <3>2. QED
      BY <3>1, <1>0
  <2>2. rec' = [rec EXCEPT ![r] = [@ EXCEPT !.count = rec[r].count + 1]]
    BY <1>4 DEF BeginExternalDelete, Counted
  <2>3. rec' \in [Recordings -> Row]
    BY <2>1, <2>2
  <2>4. LeaseColumn'
    BY <1>4 DEF BeginExternalDelete
  <2>5. QED
    BY <2>3, <2>4, <1>4 DEF BeginExternalDelete
<1>5. ASSUME NEW w \in Workers, DropStaleClaim(w) PROVE TypeOK'
  BY <1>5 DEF DropStaleClaim, Release
<1>6. ASSUME NEW w \in Workers, ReadAttemptCount(w) PROVE TypeOK'
  BY <1>6 DEF ReadAttemptCount
<1>7. ASSUME NEW w \in Workers, DeleteReturns(w) PROVE TypeOK'
  BY <1>7 DEF DeleteReturns
<1>8. ASSUME NEW w \in Workers, NEW e \in Exceptions, DeleteRaises(w, e) PROVE TypeOK'
  <2>1. PICK there \in BOOLEAN : object' = [object EXCEPT ![claim[w].recording] = there]
                                /\ (there => object[claim[w].recording])
    BY <1>8 DEF DeleteRaises
  <2>2. QED
    BY <2>1, <1>8 DEF DeleteRaises
<1>9. ASSUME NEW w \in Workers, MarkDeleted(w) PROVE TypeOK'
  <2>1. pc[w] # "idle" /\ FinishAs(w, "deleted", "null")
    BY <1>9 DEF MarkDeleted
  <2>2. "deleted" \in Statuses \ {"deleting"} /\ "null" \in Instants
    BY DEF FailedStatus
  <2>3. QED
    BY <2>1, <2>2, FinishType
<1>10. ASSUME NEW w \in Workers, RecordFailure(w) PROVE TypeOK'
  <2>1. pc[w] # "idle" /\ FinishAs(w, FailedStatus(w), (IF IsRetry(w) THEN "future" ELSE "null"))
    BY <1>10 DEF RecordFailure
  <2>2. /\ FailedStatus(w) \in Statuses \ {"deleting"}
        /\ (IF IsRetry(w) THEN "future" ELSE "null") \in Instants
    BY DEF FailedStatus
  <2>3. QED
    BY <2>1, <2>2, FinishType
<1>11. ASSUME NEW r \in Recordings, AvailabilityComes(r) PROVE TypeOK'
  BY <1>11 DEF AvailabilityComes, local
<1>12. ASSUME NEW r \in Recordings, LeaseExpires(r) PROVE TypeOK'
  BY <1>12 DEF LeaseExpires, local
<1>13. ASSUME NEW r \in Recordings, WorkerStalls(r) PROVE TypeOK'
  BY <1>13 DEF WorkerStalls, local
<1>14. ASSUME NEW w \in Workers, Crash(w) PROVE TypeOK'
  <2>1. UNCHANGED <<rec, deadline, expired, claims>> /\ Release(w)
    BY <1>14 DEF Crash
  <2>2. CASE UNCHANGED <<object, calls>>
    BY <2>1, <2>2, <1>14 DEF Crash, Release
  <2>3. CASE ~UNCHANGED <<object, calls>>
    <3>1. /\ pc[w] = "deleting" /\ claim[w].recording \in Recordings
          /\ object' = [object EXCEPT ![claim[w].recording] = FALSE]
          /\ calls' = [calls EXCEPT ![claim[w].recording] = @ + 1]
      BY <2>3, <1>14 DEF Crash
    <3>2. object' \in [Recordings -> BOOLEAN] /\ calls' \in [Recordings -> Nat]
      BY <3>1
    <3>3. LeaseColumn'
      BY <2>1 DEF Release
    <3>4. faults' \in [crashes: Nat, stalls: Nat]
      BY <1>14 DEF Crash
    <3>5. QED
      BY <2>1, <3>2, <3>3, <3>4 DEF Release
  <2>4. QED
    BY <2>2, <2>3
<1>15. CASE UNCHANGED vars
  BY <1>15 DEF vars, local
<1>16. QED
  BY <1>1, <1>2, <1>3, <1>4, <1>5, <1>6, <1>7, <1>8, <1>9, <1>10, <1>11, <1>12, <1>13, <1>14, <1>15
     DEF Next, WorkerStep

\* The rows, the claims and the lease column are well typed in every reachable state.
THEOREM TypeCorrect == Spec => []TypeOK
<1>1. Init => TypeOK
  BY RecordingsAssumption DEF Init, TypeOK, Row, Statuses, Instants, PCs, LeaseColumn, NoClaim
<1>2. QED
  BY <1>1, TypeStep, PTL DEF Spec

-----------------------------------------------------------------------------

\* Two workers never hold the same claim.
ClaimsDiffer ==
    \A v, w \in Workers :
        v # w /\ pc[v] # "idle" /\ pc[w] # "idle" => claim[v] # claim[w]

\* A claim is given out only when the deadline has passed.
DeadlineShape ==
    \A r \in Recordings :
        /\ rec[r].status = "not_scheduled" =>
              claims[r] = 0 /\ deadline[r] = "null" /\ rec[r].available = "null"
        /\ rec[r].available = "past" \/ claims[r] # 0 => deadline[r] = "past"

\* Past its first check a worker is not at work on a foreign recording, and one whose
\* call returned has removed the object.
CallShape ==
    \A w \in Workers :
        /\ pc[w] \in {"counting", "deleting", "deleted", "failed"} =>
              claim[w].recording \notin Foreign
        /\ pc[w] = "deleted" => ~object[claim[w].recording]

\* The inductive invariant.
RetentionInv ==
    /\ TypeOK
    /\ ClaimsDiffer
    /\ DeadlineShape
    /\ CallShape
    /\ KeptUntilDeadline
    /\ AuditIsTrue

\* A claim is made with a number no claim of the recording had.
LEMMA ClaimsDifferStep == RetentionInv /\ [Next]_vars => ClaimsDiffer'
<1> SUFFICES ASSUME RetentionInv, [Next]_vars PROVE ClaimsDiffer'
  OBVIOUS
<1> USE DEF RetentionInv, TypeOK, Row, Statuses, Instants, PCs, LeaseColumn, NoClaim,
            NoRecording, ClaimsDiffer
<1>1. ASSUME NEW r \in Recordings, Schedule(r) PROVE ClaimsDiffer'
  BY <1>1 DEF Schedule, local
<1>2. ASSUME NEW w \in Workers, NEW r \in Recordings, Claim(w, r) PROVE ClaimsDiffer'
  BY <1>2 DEF Claim, ReadyScheduled, ExpiredLease
<1>3. ASSUME NEW w \in Workers, RefuseForeign(w) PROVE ClaimsDiffer'
  BY <1>3 DEF RefuseForeign, FinishAs, Outcome, Release, Fence
<1>4. ASSUME NEW w \in Workers, BeginExternalDelete(w) PROVE ClaimsDiffer'
  BY <1>4 DEF BeginExternalDelete, Counted, Fence
<1>5. ASSUME NEW w \in Workers, DropStaleClaim(w) PROVE ClaimsDiffer'
  BY <1>5 DEF DropStaleClaim, Release
<1>6. ASSUME NEW w \in Workers, ReadAttemptCount(w) PROVE ClaimsDiffer'
  BY <1>6 DEF ReadAttemptCount
<1>7. ASSUME NEW w \in Workers, DeleteReturns(w) PROVE ClaimsDiffer'
  BY <1>7 DEF DeleteReturns
<1>8. ASSUME NEW w \in Workers, NEW e \in Exceptions, DeleteRaises(w, e) PROVE ClaimsDiffer'
  BY <1>8 DEF DeleteRaises
<1>9. ASSUME NEW w \in Workers, MarkDeleted(w) PROVE ClaimsDiffer'
  BY <1>9 DEF MarkDeleted, FinishAs, Outcome, Release, Fence
<1>10. ASSUME NEW w \in Workers, RecordFailure(w) PROVE ClaimsDiffer'
  BY <1>10 DEF RecordFailure, FailedStatus, FinishAs, Outcome, Release, Fence
<1>11. ASSUME NEW r \in Recordings, AvailabilityComes(r) PROVE ClaimsDiffer'
  BY <1>11 DEF AvailabilityComes, local
<1>12. ASSUME NEW r \in Recordings, LeaseExpires(r) PROVE ClaimsDiffer'
  BY <1>12 DEF LeaseExpires, local
<1>13. ASSUME NEW r \in Recordings, WorkerStalls(r) PROVE ClaimsDiffer'
  BY <1>13 DEF WorkerStalls, local
<1>14. ASSUME NEW w \in Workers, Crash(w) PROVE ClaimsDiffer'
  BY <1>14 DEF Crash, Release
<1>15. CASE UNCHANGED vars
  BY <1>15 DEF vars, local
<1>16. QED
  BY <1>1, <1>2, <1>3, <1>4, <1>5, <1>6, <1>7, <1>8, <1>9, <1>10, <1>11, <1>12, <1>13, <1>14, <1>15
     DEF Next, WorkerStep

\* No action moves a deadline that has passed.
LEMMA DeadlineShapeStep == RetentionInv /\ [Next]_vars => DeadlineShape'
<1> SUFFICES ASSUME RetentionInv, [Next]_vars PROVE DeadlineShape'
  OBVIOUS
<1> USE DEF RetentionInv, TypeOK, Row, Statuses, Instants, PCs, LeaseColumn, NoClaim,
            NoRecording, DeadlineShape
<1>1. ASSUME NEW r \in Recordings, Schedule(r) PROVE DeadlineShape'
  BY <1>1 DEF Schedule, local
<1>2. ASSUME NEW w \in Workers, NEW r \in Recordings, Claim(w, r) PROVE DeadlineShape'
  BY <1>2 DEF Claim, ReadyScheduled, ExpiredLease
<1>3. ASSUME NEW w \in Workers, RefuseForeign(w) PROVE DeadlineShape'
  BY <1>3 DEF RefuseForeign, FinishAs, Outcome, Release, Fence
<1>4. ASSUME NEW w \in Workers, BeginExternalDelete(w) PROVE DeadlineShape'
  BY <1>4 DEF BeginExternalDelete, Counted, Fence
<1>5. ASSUME NEW w \in Workers, DropStaleClaim(w) PROVE DeadlineShape'
  BY <1>5 DEF DropStaleClaim, Release
<1>6. ASSUME NEW w \in Workers, ReadAttemptCount(w) PROVE DeadlineShape'
  BY <1>6 DEF ReadAttemptCount
<1>7. ASSUME NEW w \in Workers, DeleteReturns(w) PROVE DeadlineShape'
  BY <1>7 DEF DeleteReturns
<1>8. ASSUME NEW w \in Workers, NEW e \in Exceptions, DeleteRaises(w, e) PROVE DeadlineShape'
  BY <1>8 DEF DeleteRaises
<1>9. ASSUME NEW w \in Workers, MarkDeleted(w) PROVE DeadlineShape'
  BY <1>9 DEF MarkDeleted, FinishAs, Outcome, Release, Fence
<1>10. ASSUME NEW w \in Workers, RecordFailure(w) PROVE DeadlineShape'
  BY <1>10 DEF RecordFailure, FailedStatus, FinishAs, Outcome, Release, Fence
<1>11. ASSUME NEW r \in Recordings, AvailabilityComes(r) PROVE DeadlineShape'
  BY <1>11 DEF AvailabilityComes, local
<1>12. ASSUME NEW r \in Recordings, LeaseExpires(r) PROVE DeadlineShape'
  BY <1>12 DEF LeaseExpires, local
<1>13. ASSUME NEW r \in Recordings, WorkerStalls(r) PROVE DeadlineShape'
  BY <1>13 DEF WorkerStalls, local
<1>14. ASSUME NEW w \in Workers, Crash(w) PROVE DeadlineShape'
  BY <1>14 DEF Crash, Release
<1>15. CASE UNCHANGED vars
  BY <1>15 DEF vars, local
<1>16. QED
  BY <1>1, <1>2, <1>3, <1>4, <1>5, <1>6, <1>7, <1>8, <1>9, <1>10, <1>11, <1>12, <1>13, <1>14, <1>15
     DEF Next, WorkerStep

\* The store never gets an object back.
LEMMA CallShapeStep == RetentionInv /\ [Next]_vars => CallShape'
<1> SUFFICES ASSUME RetentionInv, [Next]_vars PROVE CallShape'
  OBVIOUS
<1> USE DEF RetentionInv, TypeOK, Row, Statuses, Instants, PCs, LeaseColumn, NoClaim,
            NoRecording, CallShape
<1>1. ASSUME NEW r \in Recordings, Schedule(r) PROVE CallShape'
  BY <1>1 DEF Schedule, local
<1>2. ASSUME NEW w \in Workers, NEW r \in Recordings, Claim(w, r) PROVE CallShape'
  BY <1>2 DEF Claim, ReadyScheduled, ExpiredLease
<1>3. ASSUME NEW w \in Workers, RefuseForeign(w) PROVE CallShape'
  BY <1>3 DEF RefuseForeign, FinishAs, Outcome, Release, Fence
<1>4. ASSUME NEW w \in Workers, BeginExternalDelete(w) PROVE CallShape'
  BY <1>4 DEF BeginExternalDelete, Counted, Fence
<1>5. ASSUME NEW w \in Workers, DropStaleClaim(w) PROVE CallShape'
  BY <1>5 DEF DropStaleClaim, Release
<1>6. ASSUME NEW w \in Workers, ReadAttemptCount(w) PROVE CallShape'
  BY <1>6 DEF ReadAttemptCount
<1>7. ASSUME NEW w \in Workers, DeleteReturns(w) PROVE CallShape'
  BY <1>7 DEF DeleteReturns
<1>8. ASSUME NEW w \in Workers, NEW e \in Exceptions, DeleteRaises(w, e) PROVE CallShape'
  <2>1. PICK there \in BOOLEAN : object' = [object EXCEPT ![claim[w].recording] = there]
                                /\ (there => object[claim[w].recording])
    BY <1>8 DEF DeleteRaises
  <2>2. QED
    BY <2>1, <1>8 DEF DeleteRaises
<1>9. ASSUME NEW w \in Workers, MarkDeleted(w) PROVE CallShape'
  BY <1>9 DEF MarkDeleted, FinishAs, Outcome, Release, Fence
<1>10. ASSUME NEW w \in Workers, RecordFailure(w) PROVE CallShape'
  BY <1>10 DEF RecordFailure, FailedStatus, FinishAs, Outcome, Release, Fence
<1>11. ASSUME NEW r \in Recordings, AvailabilityComes(r) PROVE CallShape'
  BY <1>11 DEF AvailabilityComes, local
<1>12. ASSUME NEW r \in Recordings, LeaseExpires(r) PROVE CallShape'
  BY <1>12 DEF LeaseExpires, local
<1>13. ASSUME NEW r \in Recordings, WorkerStalls(r) PROVE CallShape'
  BY <1>13 DEF WorkerStalls, local
<1>14. ASSUME NEW w \in Workers, Crash(w) PROVE CallShape'
  BY <1>14 DEF Crash, Release
<1>15. CASE UNCHANGED vars
  BY <1>15 DEF vars, local
<1>16. QED
  BY <1>1, <1>2, <1>3, <1>4, <1>5, <1>6, <1>7, <1>8, <1>9, <1>10, <1>11, <1>12, <1>13, <1>14, <1>15
     DEF Next, WorkerStep

\* Only a worker with a claim calls the store.
LEMMA KeptStep == RetentionInv /\ [Next]_vars => KeptUntilDeadline'
<1> SUFFICES ASSUME RetentionInv, [Next]_vars PROVE KeptUntilDeadline'
  OBVIOUS
<1> USE DEF RetentionInv, TypeOK, Row, Statuses, Instants, PCs, LeaseColumn, NoClaim,
            NoRecording, DeadlineShape, CallShape, KeptUntilDeadline
<1>1. ASSUME NEW r \in Recordings, Schedule(r) PROVE KeptUntilDeadline'
  BY <1>1 DEF Schedule, local
<1>2. ASSUME NEW w \in Workers, NEW r \in Recordings, Claim(w, r) PROVE KeptUntilDeadline'
  BY <1>2 DEF Claim, ReadyScheduled, ExpiredLease
<1>3. ASSUME NEW w \in Workers, RefuseForeign(w) PROVE KeptUntilDeadline'
  BY <1>3 DEF RefuseForeign, FinishAs, Outcome, Release, Fence
<1>4. ASSUME NEW w \in Workers, BeginExternalDelete(w) PROVE KeptUntilDeadline'
  BY <1>4 DEF BeginExternalDelete, Counted, Fence
<1>5. ASSUME NEW w \in Workers, DropStaleClaim(w) PROVE KeptUntilDeadline'
  BY <1>5 DEF DropStaleClaim, Release
<1>6. ASSUME NEW w \in Workers, ReadAttemptCount(w) PROVE KeptUntilDeadline'
  BY <1>6 DEF ReadAttemptCount
<1>7. ASSUME NEW w \in Workers, DeleteReturns(w) PROVE KeptUntilDeadline'
  BY <1>7 DEF DeleteReturns
<1>8. ASSUME NEW w \in Workers, NEW e \in Exceptions, DeleteRaises(w, e) PROVE KeptUntilDeadline'
  <2>1. PICK there \in BOOLEAN : object' = [object EXCEPT ![claim[w].recording] = there]
                                /\ (there => object[claim[w].recording])
    BY <1>8 DEF DeleteRaises
  <2>2. QED
    BY <2>1, <1>8 DEF DeleteRaises
<1>9. ASSUME NEW w \in Workers, MarkDeleted(w) PROVE KeptUntilDeadline'
  BY <1>9 DEF MarkDeleted, FinishAs, Outcome, Release, Fence
<1>10. ASSUME NEW w \in Workers, RecordFailure(w) PROVE KeptUntilDeadline'
  BY <1>10 DEF RecordFailure, FailedStatus, FinishAs, Outcome, Release, Fence
<1>11. ASSUME NEW r \in Recordings, AvailabilityComes(r) PROVE KeptUntilDeadline'
  BY <1>11 DEF AvailabilityComes, local
<1>12. ASSUME NEW r \in Recordings, LeaseExpires(r) PROVE KeptUntilDeadline'
  BY <1>12 DEF LeaseExpires, local
<1>13. ASSUME NEW r \in Recordings, WorkerStalls(r) PROVE KeptUntilDeadline'
  BY <1>13 DEF WorkerStalls, local
<1>14. ASSUME NEW w \in Workers, Crash(w) PROVE KeptUntilDeadline'
  <2>1. UNCHANGED <<rec, deadline, expired, claims>> /\ Release(w)
    BY <1>14 DEF Crash
  <2>2. CASE UNCHANGED <<object, calls>>
    BY <2>1, <2>2, <1>14 DEF Crash, Release
  <2>3. CASE ~UNCHANGED <<object, calls>>
    <3>1. /\ pc[w] = "deleting" /\ claim[w].recording \in Recordings
          /\ object' = [object EXCEPT ![claim[w].recording] = FALSE]
          /\ calls' = [calls EXCEPT ![claim[w].recording] = @ + 1]
      BY <2>3, <1>14 DEF Crash
    <3>2. QED
      BY <2>1, <3>1, <1>14 DEF Crash, Release
  <2>4. QED
    BY <2>2, <2>3
<1>15. CASE UNCHANGED vars
  BY <1>15 DEF vars, local
<1>16. QED
  BY <1>1, <1>2, <1>3, <1>4, <1>5, <1>6, <1>7, <1>8, <1>9, <1>10, <1>11, <1>12, <1>13, <1>14, <1>15
     DEF Next, WorkerStep

\* Only a worker whose call returned writes "deleted".
LEMMA AuditStep == RetentionInv /\ [Next]_vars => AuditIsTrue'
<1> SUFFICES ASSUME RetentionInv, [Next]_vars PROVE AuditIsTrue'
  OBVIOUS
<1> USE DEF RetentionInv, TypeOK, Row, Statuses, Instants, PCs, LeaseColumn, NoClaim,
            NoRecording, CallShape, AuditIsTrue
<1>1. ASSUME NEW r \in Recordings, Schedule(r) PROVE AuditIsTrue'
  BY <1>1 DEF Schedule, local
<1>2. ASSUME NEW w \in Workers, NEW r \in Recordings, Claim(w, r) PROVE AuditIsTrue'
  BY <1>2 DEF Claim, ReadyScheduled, ExpiredLease
<1>3. ASSUME NEW w \in Workers, RefuseForeign(w) PROVE AuditIsTrue'
  BY <1>3 DEF RefuseForeign, FinishAs, Outcome, Release, Fence
<1>4. ASSUME NEW w \in Workers, BeginExternalDelete(w) PROVE AuditIsTrue'
  BY <1>4 DEF BeginExternalDelete, Counted, Fence
<1>5. ASSUME NEW w \in Workers, DropStaleClaim(w) PROVE AuditIsTrue'
  BY <1>5 DEF DropStaleClaim, Release
<1>6. ASSUME NEW w \in Workers, ReadAttemptCount(w) PROVE AuditIsTrue'
  BY <1>6 DEF ReadAttemptCount
<1>7. ASSUME NEW w \in Workers, DeleteReturns(w) PROVE AuditIsTrue'
  BY <1>7 DEF DeleteReturns
<1>8. ASSUME NEW w \in Workers, NEW e \in Exceptions, DeleteRaises(w, e) PROVE AuditIsTrue'
  BY <1>8 DEF DeleteRaises
<1>9. ASSUME NEW w \in Workers, MarkDeleted(w) PROVE AuditIsTrue'
  BY <1>9 DEF MarkDeleted, FinishAs, Outcome, Release, Fence
<1>10. ASSUME NEW w \in Workers, RecordFailure(w) PROVE AuditIsTrue'
  BY <1>10 DEF RecordFailure, FailedStatus, FinishAs, Outcome, Release, Fence
<1>11. ASSUME NEW r \in Recordings, AvailabilityComes(r) PROVE AuditIsTrue'
  BY <1>11 DEF AvailabilityComes, local
<1>12. ASSUME NEW r \in Recordings, LeaseExpires(r) PROVE AuditIsTrue'
  BY <1>12 DEF LeaseExpires, local
<1>13. ASSUME NEW r \in Recordings, WorkerStalls(r) PROVE AuditIsTrue'
  BY <1>13 DEF WorkerStalls, local
<1>14. ASSUME NEW w \in Workers, Crash(w) PROVE AuditIsTrue'
  BY <1>14 DEF Crash, Release
<1>15. CASE UNCHANGED vars
  BY <1>15 DEF vars, local
<1>16. QED
  BY <1>1, <1>2, <1>3, <1>4, <1>5, <1>6, <1>7, <1>8, <1>9, <1>10, <1>11, <1>12, <1>13, <1>14, <1>15
     DEF Next, WorkerStep

\* The retention protocol as a whole.
THEOREM RetentionInvariant == Spec => []RetentionInv
<1>1. Init => RetentionInv
  BY RecordingsAssumption
     DEF Init, RetentionInv, TypeOK, Row, Statuses, Instants, PCs, LeaseColumn, NoClaim,
         ClaimsDiffer, DeadlineShape, CallShape, KeptUntilDeadline, AuditIsTrue
<1>2. RetentionInv /\ [Next]_vars => RetentionInv'
  <2>1. RetentionInv /\ [Next]_vars => TypeOK'
    BY TypeStep DEF RetentionInv
  <2>2. QED
    BY <2>1, ClaimsDifferStep, DeadlineShapeStep, CallShapeStep, KeptStep, AuditStep
       DEF RetentionInv
<1>3. QED
  BY <1>1, <1>2, PTL DEF Spec

\* A recording audited as deleted is not in the store.
THEOREM AuditCorrect == Spec => []AuditIsTrue
<1>1. RetentionInv => AuditIsTrue
  BY DEF RetentionInv
<1>2. QED
  BY <1>1, RetentionInvariant, PTL

\* Nothing is deleted before its deadline, nor at another provider.
THEOREM KeptUntilDue == Spec => []KeptUntilDeadline
<1>1. RetentionInv => KeptUntilDeadline
  BY DEF RetentionInv
<1>2. QED
  BY <1>1, RetentionInvariant, PTL

\* A worker without the current claim writes nothing to the row.
LEMMA OutcomeByHolder == RetentionInv /\ [Next]_vars => OutcomeStep
<1> SUFFICES ASSUME RetentionInv, [Next]_vars PROVE OutcomeStep
  OBVIOUS
<1> USE DEF RetentionInv, TypeOK, Row, Statuses, Instants, PCs, LeaseColumn, NoClaim,
            NoRecording, ClaimsDiffer, OutcomeStep
<1>1. ASSUME NEW r \in Recordings, Schedule(r) PROVE OutcomeStep
  BY <1>1 DEF Schedule, local
<1>2. ASSUME NEW w \in Workers, NEW r \in Recordings, Claim(w, r) PROVE OutcomeStep
  BY <1>2 DEF Claim, ReadyScheduled, ExpiredLease
<1>3. ASSUME NEW w \in Workers, RefuseForeign(w) PROVE OutcomeStep
  BY <1>3 DEF RefuseForeign, FinishAs, Outcome, Release, Fence
<1>4. ASSUME NEW w \in Workers, BeginExternalDelete(w) PROVE OutcomeStep
  BY <1>4 DEF BeginExternalDelete, Counted, Fence
<1>5. ASSUME NEW w \in Workers, DropStaleClaim(w) PROVE OutcomeStep
  BY <1>5 DEF DropStaleClaim, Release
<1>6. ASSUME NEW w \in Workers, ReadAttemptCount(w) PROVE OutcomeStep
  BY <1>6 DEF ReadAttemptCount
<1>7. ASSUME NEW w \in Workers, DeleteReturns(w) PROVE OutcomeStep
  BY <1>7 DEF DeleteReturns
<1>8. ASSUME NEW w \in Workers, NEW e \in Exceptions, DeleteRaises(w, e) PROVE OutcomeStep
  BY <1>8 DEF DeleteRaises
<1>9. ASSUME NEW w \in Workers, MarkDeleted(w) PROVE OutcomeStep
  BY <1>9 DEF MarkDeleted, FinishAs, Outcome, Release, Fence
<1>10. ASSUME NEW w \in Workers, RecordFailure(w) PROVE OutcomeStep
  BY <1>10 DEF RecordFailure, FailedStatus, FinishAs, Outcome, Release, Fence
<1>11. ASSUME NEW r \in Recordings, AvailabilityComes(r) PROVE OutcomeStep
  BY <1>11 DEF AvailabilityComes, local
<1>12. ASSUME NEW r \in Recordings, LeaseExpires(r) PROVE OutcomeStep
  BY <1>12 DEF LeaseExpires, local
<1>13. ASSUME NEW r \in Recordings, WorkerStalls(r) PROVE OutcomeStep
  BY <1>13 DEF WorkerStalls, local
<1>14. ASSUME NEW w \in Workers, Crash(w) PROVE OutcomeStep
  BY <1>14 DEF Crash, Release
<1>15. CASE UNCHANGED vars
  BY <1>15 DEF vars, local
<1>16. QED
  BY <1>1, <1>2, <1>3, <1>4, <1>5, <1>6, <1>7, <1>8, <1>9, <1>10, <1>11, <1>12, <1>13, <1>14, <1>15
     DEF Next, WorkerStep

\* While its lease lasts, only the worker that holds it ends or loses a deletion.
THEOREM OutcomeIsHolders == Spec => OutcomeByLeaseholder
<1>1. RetentionInv /\ [Next]_vars => OutcomeStep
  BY OutcomeByHolder
<1>2. QED
  BY <1>1, RetentionInvariant, PTL DEF Spec, OutcomeByLeaseholder

-----------------------------------------------------------------------------

\* Workers whose increment is committed and whose delete call is still to come.
Begun(r) == {w \in Workers : pc[w] \in {"counting", "deleting"} /\ claim[w].recording = r}

\* The increments a row has seen cover the calls made and those still to be made.
CallsToCome ==
    \A r \in Recordings :
        /\ IsFiniteSet(Begun(r))
        /\ calls[r] + Cardinality(Begun(r)) <= rec[r].count

CountInv == TypeOK /\ CallsToCome

\* No new call is to come, and neither the calls nor the count of a row move.
LEMMA SameCount ==
    ASSUME CountInv, TypeOK',
           \A r \in Recordings : calls'[r] = calls[r] /\ rec'[r].count = rec[r].count,
           \A w \in Workers : pc'[w] \in {"counting", "deleting"} =>
             pc[w] \in {"counting", "deleting"} /\ claim'[w].recording = claim[w].recording
    PROVE  CallsToCome'
<1> SUFFICES ASSUME NEW r \in Recordings
             PROVE  /\ IsFiniteSet(Begun(r)')
                    /\ calls'[r] + Cardinality(Begun(r)') <= rec'[r].count
  BY DEF CallsToCome
<1>1. Begun(r)' \subseteq Begun(r)
  BY DEF Begun
<1>2. IsFiniteSet(Begun(r)) /\ calls[r] + Cardinality(Begun(r)) <= rec[r].count
  BY DEF CountInv, CallsToCome
<1>3. IsFiniteSet(Begun(r)') /\ Cardinality(Begun(r)') <= Cardinality(Begun(r))
  BY <1>1, <1>2, FS_Subset
<1>4. Cardinality(Begun(r)) \in Nat /\ Cardinality(Begun(r)') \in Nat
  BY <1>2, <1>3, FS_CardinalityType
<1>5. calls[r] \in Nat /\ rec[r].count \in Nat
  BY DEF CountInv, TypeOK, Row
<1>6. QED
  BY <1>2, <1>3, <1>4, <1>5

\* The increment of one worker makes room for one call.
LEMMA BeginCounts ==
    ASSUME CountInv, TypeOK', NEW w \in Workers, BeginExternalDelete(w)
    PROVE  CallsToCome'
<1> SUFFICES ASSUME NEW r \in Recordings
             PROVE  /\ IsFiniteSet(Begun(r)')
                    /\ calls'[r] + Cardinality(Begun(r)') <= rec'[r].count
  BY DEF CallsToCome
<1>1. /\ pc[w] = "claimed" /\ pc' = [pc EXCEPT ![w] = "counting"]
      /\ claim' = claim /\ calls' = calls
      /\ claim[w].recording \in Recordings
      /\ rec' = [rec EXCEPT ![claim[w].recording].count = rec[claim[w].recording].count + 1]
  BY DEF BeginExternalDelete, CountInv, TypeOK, Counted
<1>2. IsFiniteSet(Begun(r)) /\ calls[r] + Cardinality(Begun(r)) <= rec[r].count
  BY DEF CountInv, CallsToCome
<1>3. calls[r] \in Nat /\ rec[r].count \in Nat /\ Cardinality(Begun(r)) \in Nat
  BY <1>2, FS_CardinalityType DEF CountInv, TypeOK, Row
<1>4. CASE r = claim[w].recording
  <2>1. Begun(r)' = Begun(r) \union {w} /\ w \notin Begun(r)
    BY <1>1, <1>4 DEF Begun, CountInv, TypeOK
  <2>2. IsFiniteSet(Begun(r)') /\ Cardinality(Begun(r)') = Cardinality(Begun(r)) + 1
    BY <1>2, <2>1, FS_AddElement
  <2>3. rec'[r].count = rec[r].count + 1
    BY <1>1, <1>4 DEF CountInv, TypeOK, Row
  <2>4. QED
    BY <1>1, <1>2, <1>3, <2>2, <2>3
<1>5. CASE r # claim[w].recording
  <2>1. Begun(r)' = Begun(r) /\ rec'[r].count = rec[r].count
    BY <1>1, <1>5 DEF Begun, CountInv, TypeOK
  <2>2. QED
    BY <1>1, <1>2, <2>1
<1>6. QED
  BY <1>4, <1>5

\* A call uses up the increment of its worker, whatever becomes of it.
LEMMA CallCounts ==
    ASSUME CountInv, TypeOK', NEW w \in Workers,
           pc[w] = "deleting", pc' \in [Workers -> PCs],
           pc'[w] \notin {"counting", "deleting"},
           \A v \in Workers \ {w} : pc'[v] = pc[v] /\ claim'[v] = claim[v],
           rec' = rec,
           calls' = [calls EXCEPT ![claim[w].recording] = @ + 1]
    PROVE  CallsToCome'
<1> SUFFICES ASSUME NEW r \in Recordings
             PROVE  /\ IsFiniteSet(Begun(r)')
                    /\ calls'[r] + Cardinality(Begun(r)') <= rec'[r].count
  BY DEF CallsToCome
<1>1. claim[w].recording \in Recordings
  BY DEF CountInv, TypeOK
<1>2. IsFiniteSet(Begun(r)) /\ calls[r] + Cardinality(Begun(r)) <= rec[r].count
  BY DEF CountInv, CallsToCome
<1>3. calls[r] \in Nat /\ rec[r].count \in Nat /\ Cardinality(Begun(r)) \in Nat
  BY <1>2, FS_CardinalityType DEF CountInv, TypeOK, Row
<1>4. CASE r = claim[w].recording
  <2>1. Begun(r)' = Begun(r) \ {w} /\ w \in Begun(r)
    BY <1>4 DEF Begun
  <2>2. IsFiniteSet(Begun(r)') /\ Cardinality(Begun(r)') = Cardinality(Begun(r)) - 1
    BY <1>2, <2>1, FS_RemoveElement
  <2>3. calls'[r] = calls[r] + 1
    BY <1>1, <1>4 DEF CountInv, TypeOK
  <2>4. QED
    BY <1>2, <1>3, <2>2, <2>3
<1>5. CASE r # claim[w].recording
  <2>1. Begun(r)' = Begun(r) /\ calls'[r] = calls[r]
    BY <1>1, <1>5 DEF Begun, CountInv, TypeOK
  <2>2. QED
    BY <1>2, <2>1
<1>6. QED
  BY <1>4, <1>5

\* The outcome of a deletion leaves the count as it is.
LEMMA FinishCounts ==
    ASSUME CountInv, TypeOK', NEW w \in Workers,
           NEW status \in Statuses, NEW available \in Instants,
           FinishAs(w, status, available)
    PROVE  CallsToCome'
<1>1. \A r \in Recordings : rec'[r].count = rec[r].count
  <2>1. rec \in [Recordings -> Row]
    BY DEF CountInv, TypeOK
  <2>2. CASE Fence(w)
    <3>1. rec' = [rec EXCEPT ![claim[w].recording] = Outcome(@, status, available)]
      BY <2>2 DEF FinishAs
    <3>2. QED
      BY <2>1, <3>1 DEF Outcome, Row
  <2>3. CASE ~Fence(w)
    BY <2>3 DEF FinishAs
  <2>4. QED
    BY <2>2, <2>3
<1>2. \A v \in Workers : pc'[v] \in {"counting", "deleting"} =>
         pc[v] \in {"counting", "deleting"} /\ claim'[v].recording = claim[v].recording
  <2>1. pc \in [Workers -> PCs] /\ claim \in [Workers -> [recording: Recordings \union {NoRecording}, lease: Nat]]
    BY DEF CountInv, TypeOK
  <2>2. pc'[w] = "idle" /\ \A v \in Workers \ {w} : pc'[v] = pc[v] /\ claim'[v] = claim[v]
    BY <2>1 DEF FinishAs, Release
  <2>3. QED
    BY <2>2
<1>3. calls' = calls
  BY DEF FinishAs
<1>4. QED
  BY <1>1, <1>2, <1>3, SameCount

\* Every step keeps the counts: only an increment lets a worker call, once.
LEMMA CountStep == CountInv /\ [Next]_vars => CountInv'
<1> SUFFICES ASSUME CountInv, [Next]_vars PROVE CountInv'
  OBVIOUS
<1>0. TypeOK'
  BY TypeStep DEF CountInv
<1>1. ASSUME NEW r \in Recordings, Schedule(r) \/ AvailabilityComes(r) PROVE CallsToCome'
  <2>1. pc' = pc /\ claim' = claim /\ calls' = calls
    BY <1>1 DEF Schedule, AvailabilityComes, local
  <2>2. rec \in [Recordings -> Row]
    BY DEF CountInv, TypeOK
  <2>3. CASE Schedule(r)
    <3>1. rec' = [rec EXCEPT ![r].status = "scheduled", ![r].available = "future"]
      BY <2>3 DEF Schedule
    <3>2. \A s \in Recordings : rec'[s].count = rec[s].count
      BY <2>2, <3>1 DEF Row
    <3>3. QED
      BY <1>0, <2>1, <3>2, SameCount
  <2>4. CASE AvailabilityComes(r)
    <3>1. rec' = [rec EXCEPT ![r].available = "past"]
      BY <2>4 DEF AvailabilityComes
    <3>2. \A s \in Recordings : rec'[s].count = rec[s].count
      BY <2>2, <3>1 DEF Row
    <3>3. QED
      BY <1>0, <2>1, <3>2, SameCount
  <2>5. QED
    BY <1>1, <2>3, <2>4
<1>2. ASSUME NEW w \in Workers, NEW r \in Recordings, Claim(w, r) PROVE CallsToCome'
  <2>1. \A s \in Recordings : calls'[s] = calls[s] /\ rec'[s].count = rec[s].count
    BY <1>2 DEF Claim, CountInv, TypeOK, Row
  <2>2. \A v \in Workers : pc'[v] \in {"counting", "deleting"} =>
           pc[v] \in {"counting", "deleting"} /\ claim'[v].recording = claim[v].recording
    BY <1>2 DEF Claim, CountInv, TypeOK
  <2>3. QED
    BY <1>0, <2>1, <2>2, SameCount
<1>3. ASSUME NEW w \in Workers, RefuseForeign(w) PROVE CallsToCome'
  <2>1. FinishAs(w, "delete_failed", "null") /\ "delete_failed" \in Statuses /\ "null" \in Instants
    BY <1>3 DEF RefuseForeign, Statuses, Instants
  <2>2. QED
    BY <1>0, <2>1, FinishCounts
<1>4. ASSUME NEW w \in Workers, BeginExternalDelete(w) PROVE CallsToCome'
  BY <1>0, <1>4, BeginCounts
<1>5. ASSUME NEW w \in Workers, DropStaleClaim(w) PROVE CallsToCome'
  <2>1. \A v \in Workers : pc'[v] \in {"counting", "deleting"} =>
           pc[v] \in {"counting", "deleting"} /\ claim'[v].recording = claim[v].recording
    BY <1>5 DEF DropStaleClaim, Release, CountInv, TypeOK
  <2>2. rec' = rec /\ calls' = calls
    BY <1>5 DEF DropStaleClaim
  <2>3. QED
    BY <1>0, <2>1, <2>2, SameCount
<1>6. ASSUME NEW w \in Workers, ReadAttemptCount(w) PROVE CallsToCome'
  <2>1. \A v \in Workers : pc'[v] \in {"counting", "deleting"} =>
           pc[v] \in {"counting", "deleting"} /\ claim'[v].recording = claim[v].recording
    BY <1>6 DEF ReadAttemptCount, CountInv, TypeOK
  <2>2. rec' = rec /\ calls' = calls
    BY <1>6 DEF ReadAttemptCount
  <2>3. QED
    BY <1>0, <2>1, <2>2, SameCount
<1>7. ASSUME NEW w \in Workers, DeleteReturns(w) \/ \E e \in Exceptions : DeleteRaises(w, e)
      PROVE  CallsToCome'
  <2>1. /\ pc[w] = "deleting" /\ rec' = rec
        /\ calls' = [calls EXCEPT ![claim[w].recording] = @ + 1]
    BY <1>7 DEF DeleteReturns, DeleteRaises
  <2>2. /\ pc' \in [Workers -> PCs] /\ pc'[w] \notin {"counting", "deleting"}
        /\ \A v \in Workers \ {w} : pc'[v] = pc[v] /\ claim'[v] = claim[v]
    BY <1>7 DEF DeleteReturns, DeleteRaises, CountInv, TypeOK, PCs
  <2>3. QED
    BY <1>0, <2>1, <2>2, CallCounts
<1>8. ASSUME NEW w \in Workers, MarkDeleted(w) PROVE CallsToCome'
  <2>1. FinishAs(w, "deleted", "null") /\ "deleted" \in Statuses /\ "null" \in Instants
    BY <1>8 DEF MarkDeleted, Statuses, Instants
  <2>2. QED
    BY <1>0, <2>1, FinishCounts
<1>9. ASSUME NEW w \in Workers, RecordFailure(w) PROVE CallsToCome'
  <2>1. PICK status \in Statuses, available \in Instants : FinishAs(w, status, available)
    BY <1>9 DEF RecordFailure, FailedStatus, Statuses, Instants
  <2>2. QED
    BY <1>0, <2>1, FinishCounts
<1>10. ASSUME NEW r \in Recordings, LeaseExpires(r) \/ WorkerStalls(r) PROVE CallsToCome'
  <2>1. pc' = pc /\ claim' = claim /\ calls' = calls /\ rec' = rec
    BY <1>10 DEF LeaseExpires, WorkerStalls, local
  <2>2. QED
    BY <1>0, <2>1, SameCount
<1>11. ASSUME NEW w \in Workers, Crash(w) PROVE CallsToCome'
  <2>1. /\ pc' \in [Workers -> PCs] /\ pc'[w] = "idle" /\ rec' = rec
        /\ \A v \in Workers \ {w} : pc'[v] = pc[v] /\ claim'[v] = claim[v]
    BY <1>11 DEF Crash, Release, CountInv, TypeOK, PCs
  <2>2. CASE calls' = calls
    <3>1. \A v \in Workers : pc'[v] \in {"counting", "deleting"} =>
             pc[v] \in {"counting", "deleting"} /\ claim'[v].recording = claim[v].recording
      BY <2>1
    <3>2. QED
      BY <1>0, <2>1, <2>2, <3>1, SameCount
  <2>3. CASE calls' # calls
    <3>1. pc[w] = "deleting" /\ calls' = [calls EXCEPT ![claim[w].recording] = @ + 1]
      BY <1>11, <2>3 DEF Crash
    <3>2. QED
      BY <1>0, <2>1, <3>1, CallCounts
  <2>4. QED
    BY <2>2, <2>3
<1>12. ASSUME UNCHANGED vars PROVE CallsToCome'
  <2>1. pc' = pc /\ claim' = claim /\ calls' = calls /\ rec' = rec
    BY <1>12 DEF vars, local
  <2>2. QED
    BY <1>0, <2>1, SameCount
<1>13. CallsToCome'
  BY <1>1, <1>2, <1>3, <1>4, <1>5, <1>6, <1>7, <1>8, <1>9, <1>10, <1>11, <1>12
     DEF Next, WorkerStep
<1>14. QED
  BY <1>0, <1>13 DEF CountInv

\* The persisted attempt count never understates the delete calls the store has
\* received, across any number of workers, reclaims and crashes.
THEOREM CallsCounted == Spec => []CallsAreCounted
<1>1. Init => CountInv
  <2> SUFFICES ASSUME Init PROVE CountInv
    OBVIOUS
  <2>1. TypeOK
    BY RecordingsAssumption DEF Init, TypeOK, Row, Statuses, Instants, PCs, LeaseColumn, NoClaim
  <2>2. \A r \in Recordings : Begun(r) = {} /\ calls[r] = 0 /\ rec[r].count = 0
    BY DEF Init, Begun
  <2>3. IsFiniteSet({}) /\ Cardinality({}) = 0
    BY FS_EmptySet
  <2>4. ASSUME NEW r \in Recordings
        PROVE  IsFiniteSet(Begun(r)) /\ calls[r] + Cardinality(Begun(r)) <= rec[r].count
    <3>1. Begun(r) = {} /\ calls[r] = 0 /\ rec[r].count = 0
      BY <2>2
    <3>2. QED
      BY <2>3, <3>1
  <2>5. QED
    BY <2>1, <2>4 DEF CountInv, CallsToCome
<1>2. CountInv => CallsAreCounted
  <2> SUFFICES ASSUME CountInv, NEW r \in Recordings PROVE calls[r] <= rec[r].count
    BY DEF CallsAreCounted
  <2>1. IsFiniteSet(Begun(r)) /\ calls[r] + Cardinality(Begun(r)) <= rec[r].count
    BY DEF CountInv, CallsToCome
  <2>2. calls[r] \in Nat /\ rec[r].count \in Nat /\ Cardinality(Begun(r)) \in Nat
    BY <2>1, FS_CardinalityType DEF CountInv, TypeOK, Row
  <2>3. QED
    BY <2>1, <2>2
<1>3. QED
  BY <1>1, <1>2, CountStep, PTL DEF Spec
=============================================================================
