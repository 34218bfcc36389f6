--------------------------- MODULE RecordingRetention ---------------------------
(***************************************************************************)
(* The raw-recording retention worker of app/retention_worker.py: the      *)
(* deletion columns of a recordings row, the workers that lease a due row  *)
(* and call the object store, and the store itself.                        *)
(*                                                                         *)
(* One action is one transaction, one read, or one call of the store.      *)
(* Every write of a worker after its claim is an UPDATE whose WHERE clause *)
(* compares the expiry it was given, so the expiry is the fencing token.   *)
(* Two claims of a row never get the same expiry: a lease outlasts the     *)
(* claim by at least 120 s, which a reclaim or the first retry (60 s plus  *)
(* the sub-second nonce of _lease_expiry) exceeds.  It is modelled by a    *)
(* number that grows with every claim.                                     *)
(***************************************************************************)
EXTENDS Naturals

CONSTANTS
    Recordings,
    Foreign,            \* recordings kept by another storage provider than the worker's
    Workers,            \* retention worker processes
    MaxDeleteAttempts,  \* MAX_DELETE_ATTEMPTS, 5 in the code
    Raised,             \* the exceptions storage.delete raises in this instance
    MaxCrashes,         \* bound: worker processes that die mid-deletion
    MaxStalls           \* bound: leases that run out under a live worker

NoRecording == "none"

\* Python's ConnectionError and TimeoutError; an error with a true "retryable"
\* attribute; what botocore raises when R2 is unreachable, slow or answers 5xx; the rest.
Exceptions == {"BuiltinTransport", "MarkedRetryable", "BotocoreTransport", "Permanent"}

ASSUME RecordingsAssumption == NoRecording \notin Recordings /\ Foreign \subseteq Recordings
ASSUME AttemptsAssumption == MaxDeleteAttempts \in Nat
ASSUME RaisedAssumption == Raised \subseteq Exceptions
ASSUME BoundsAssumption == MaxCrashes \in Nat /\ MaxStalls \in Nat

VARIABLES
    rec,       \* recordings: deletion_status, deletion_available_at,
               \* deletion_lease_expires_at (0 is NULL), deletion_attempt_count
    deadline,  \* recordings.retention_deadline
    expired,   \* whether deletion_lease_expires_at has passed
    object,    \* the store: the object is still there
    calls,     \* the store: delete calls received
    claims,    \* leases given out so far
    pc,        \* where each worker stands in run_once
    claim,     \* each worker's ClaimedDeletion
    counted,   \* the attempt_count each worker has read
    exn,       \* the exception each worker is handling
    faults     \* crashes and stalls so far

local == <<pc, claim, counted, exn>>
vars == <<rec, deadline, expired, object, calls, claims, local, faults>>

Statuses == {"not_scheduled", "scheduled", "deleting", "deleted", "delete_failed"}
Instants == {"null", "future", "past"}
PCs == {"idle", "claimed", "counting", "deleting", "deleted", "failed"}
NoClaim == [recording |-> NoRecording, lease |-> 0]

Row == [status: Statuses, available: Instants, lease: Nat, count: Nat]

\* A row holds a lease exactly while it is being deleted, and nobody holds a lease
\* that was not given out.
LeaseColumn ==
    /\ \A r \in Recordings : rec[r].status = "deleting" <=> rec[r].lease # 0
    /\ \A r \in Recordings : rec[r].lease <= claims[r]
    /\ \A w \in Workers : pc[w] # "idle" =>
          claim[w].lease \in 1 .. claims[claim[w].recording]

TypeOK ==
    /\ rec \in [Recordings -> Row]
    /\ deadline \in [Recordings -> Instants]
    /\ expired \in [Recordings -> BOOLEAN]
    /\ object \in [Recordings -> BOOLEAN]
    /\ calls \in [Recordings -> Nat]
    /\ claims \in [Recordings -> Nat]
    /\ pc \in [Workers -> PCs]
    /\ claim \in [Workers -> [recording: Recordings \union {NoRecording}, lease: Nat]]
    /\ \A w \in Workers : pc[w] # "idle" => claim[w].recording \in Recordings
    /\ counted \in [Workers -> Nat]
    /\ exn \in [Workers -> Exceptions \union {"none"}]
    /\ faults \in [crashes: Nat, stalls: Nat]
    /\ LeaseColumn

Init ==
    /\ rec = [r \in Recordings |-> [status |-> "not_scheduled", available |-> "null",
                                    lease |-> 0, count |-> 0]]
    /\ deadline = [r \in Recordings |-> "null"]
    /\ expired = [r \in Recordings |-> FALSE]
    /\ object = [r \in Recordings |-> TRUE]
    /\ calls = [r \in Recordings |-> 0]
    /\ claims = [r \in Recordings |-> 0]
    /\ pc = [w \in Workers |-> "idle"]
    /\ claim = [w \in Workers |-> NoClaim]
    /\ counted = [w \in Workers |-> 0]
    /\ exn = [w \in Workers |-> "none"]
    /\ faults = [crashes |-> 0, stalls |-> 0]

-----------------------------------------------------------------------------

\* Slip: the retention deadline is not looked at.
ReadyScheduledAny(r) == rec[r].status = "scheduled"

\* ready_scheduled: completion and back-off both set deletion_available_at.
ReadyScheduled(r) == rec[r].status = "scheduled" /\ rec[r].available = "past"

\* Slip: a deletion that was begun is not reclaimed.
ExpiredLeaseUncounted(r) ==
    rec[r].status = "deleting" /\ rec[r].lease # 0 /\ expired[r] /\ rec[r].count = 0

\* expired_lease.
ExpiredLease(r) == rec[r].status = "deleting" /\ rec[r].lease # 0 /\ expired[r]

\* Slip: any row being deleted is taken for the worker's own.
FenceStatusOnly(w) == rec[claim[w].recording].status = "deleting"

\* The WHERE clause of _begin_external_delete and _finish: it compares the expiry,
\* not whether it has passed.
Fence(w) ==
    LET row == rec[claim[w].recording]
    IN  row.status = "deleting" /\ row.lease = claim[w].lease

Release(w) ==
    /\ pc' = [pc EXCEPT ![w] = "idle"]
    /\ claim' = [claim EXCEPT ![w] = NoClaim]
    /\ counted' = [counted EXCEPT ![w] = 0]
    /\ exn' = [exn EXCEPT ![w] = "none"]

\* Slip: the expired lease stays in the row.
OutcomeKeepsLease(row, status, available) ==
    [row EXCEPT !.status = status, !.available = available]

\* The columns every outcome writes.
Outcome(row, status, available) ==
    [row EXCEPT !.status = status, !.available = available, !.lease = 0]

\* _finish: a stale claim matches no row and is rolled back.
FinishAs(w, status, available) ==
    LET r == claim[w].recording IN
    /\ rec' = IF Fence(w) THEN [rec EXCEPT ![r] = Outcome(@, status, available)] ELSE rec
    /\ expired' = IF Fence(w) THEN [expired EXCEPT ![r] = FALSE] ELSE expired
    /\ Release(w)
    /\ UNCHANGED <<deadline, object, calls, claims, faults>>

-----------------------------------------------------------------------------

\* The completion of the analysis schedules the deletion.  The code's update is
\* unconditional: that it happens once is what AnalysisDelivery shows of completion
\* while leases do not run out.
Schedule(r) ==
    /\ rec[r].status = "not_scheduled"
    /\ rec' = [rec EXCEPT ![r].status = "scheduled", ![r].available = "future"]
    /\ deadline' = [deadline EXCEPT ![r] = "future"]
    /\ UNCHANGED <<expired, object, calls, claims, local, faults>>

\* _claim_due_recording.  ORDER BY deletion_available_at puts the rows of expired
\* leases, where it is NULL, after every scheduled row.
Claim(w, r) ==
    /\ pc[w] = "idle"
    /\ \/ ReadyScheduled(r)
       \/ ExpiredLease(r) /\ \A s \in Recordings : ~ReadyScheduled(s)
    /\ claims' = [claims EXCEPT ![r] = @ + 1]
    /\ rec' = [rec EXCEPT ![r].status = "deleting", ![r].available = "null",
                          ![r].lease = claims[r] + 1]
    /\ expired' = [expired EXCEPT ![r] = FALSE]
    /\ pc' = [pc EXCEPT ![w] = "claimed"]
    /\ claim' = [claim EXCEPT ![w] = [recording |-> r, lease |-> claims[r] + 1]]
    /\ UNCHANGED <<deadline, object, calls, counted, exn, faults>>

\* A provider-name mismatch fails closed, before any external call.
RefuseForeign(w) ==
    /\ pc[w] = "claimed"
    /\ claim[w].recording \in Foreign
    /\ FinishAs(w, "delete_failed", "null")

\* Slip: a reclaimed deletion is not counted again.
CountedOnce(row) == IF row.count = 0 THEN 1 ELSE row.count

\* deletion_attempt_count + 1
Counted(row) == row.count + 1

\* _begin_external_delete: the conditional increment and its commit.
BeginExternalDelete(w) ==
    LET r == claim[w].recording IN
    /\ pc[w] = "claimed"
    /\ r \notin Foreign
    /\ Fence(w)
    /\ rec' = [rec EXCEPT ![r].count = Counted(rec[r])]
    /\ pc' = [pc EXCEPT ![w] = "counting"]
    /\ UNCHANGED <<deadline, expired, object, calls, claims, claim, counted, exn, faults>>

\* The lease went to another worker before the deletion began.
DropStaleClaim(w) ==
    /\ pc[w] = "claimed"
    /\ claim[w].recording \notin Foreign
    /\ ~Fence(w)
    /\ Release(w)
    /\ UNCHANGED <<rec, deadline, expired, object, calls, claims, faults>>

\* The count is read back in a transaction of its own, which another worker's
\* increment may precede.
ReadAttemptCount(w) ==
    /\ pc[w] = "counting"
    /\ counted' = [counted EXCEPT ![w] = rec[claim[w].recording].count]
    /\ pc' = [pc EXCEPT ![w] = "deleting"]
    /\ UNCHANGED <<rec, deadline, expired, object, calls, claims, claim, exn, faults>>

\* storage.delete returns; deleting an object that is gone succeeds as well.
DeleteReturns(w) ==
    LET r == claim[w].recording IN
    /\ pc[w] = "deleting"
    /\ object' = [object EXCEPT ![r] = FALSE]
    /\ calls' = [calls EXCEPT ![r] = @ + 1]
    /\ pc' = [pc EXCEPT ![w] = "deleted"]
    /\ UNCHANGED <<rec, deadline, expired, claims, claim, counted, exn, faults>>

\* storage.delete raises, with or without having removed the object.
DeleteRaises(w, e) ==
    LET r == claim[w].recording IN
    /\ pc[w] = "deleting"
    /\ e \in Raised
    /\ \E there \in {object[r], FALSE} : object' = [object EXCEPT ![r] = there]
    /\ calls' = [calls EXCEPT ![r] = @ + 1]
    /\ exn' = [exn EXCEPT ![w] = e]
    /\ pc' = [pc EXCEPT ![w] = "failed"]
    /\ UNCHANGED <<rec, deadline, expired, claims, claim, counted, faults>>

MarkDeleted(w) ==
    /\ pc[w] = "deleted"
    /\ FinishAs(w, "deleted", "null")

\* _failure_code; the R2 adapter lets botocore's errors through unchanged.
Retryable(e) == e \in {"BuiltinTransport", "MarkedRetryable"}

IsRetry(w) == Retryable(exn[w]) /\ counted[w] < MaxDeleteAttempts

\* Slip: a deletion given up is recorded as done.
FailedStatusDone(w) == IF IsRetry(w) THEN "scheduled" ELSE "deleted"

FailedStatus(w) == IF IsRetry(w) THEN "scheduled" ELSE "delete_failed"

\* _fail
RecordFailure(w) ==
    /\ pc[w] = "failed"
    /\ FinishAs(w, FailedStatus(w), IF IsRetry(w) THEN "future" ELSE "null")

-----------------------------------------------------------------------------

\* deletion_available_at passes: the retention deadline, or later a back-off.
AvailabilityComes(r) ==
    /\ rec[r].available = "future"
    /\ rec' = [rec EXCEPT ![r].available = "past"]
    /\ deadline' = [deadline EXCEPT ![r] = "past"]
    /\ UNCHANGED <<expired, object, calls, claims, local, faults>>

HolderAlive(r) == \E w \in Workers : claim[w] = [recording |-> r, lease |-> rec[r].lease]

\* The expiry passes after its holder has died.
LeaseExpires(r) ==
    /\ rec[r].status = "deleting"
    /\ ~expired[r]
    /\ ~HolderAlive(r)
    /\ expired' = [expired EXCEPT ![r] = TRUE]
    /\ UNCHANGED <<rec, deadline, object, calls, claims, local, faults>>

\* The expiry passes while its holder is still at work.
WorkerStalls(r) ==
    /\ rec[r].status = "deleting"
    /\ ~expired[r]
    /\ HolderAlive(r)
    /\ faults.stalls < MaxStalls
    /\ expired' = [expired EXCEPT ![r] = TRUE]
    /\ faults' = [faults EXCEPT !.stalls = @ + 1]
    /\ UNCHANGED <<rec, deadline, object, calls, claims, local>>

\* The process dies; a delete call on its way may still arrive.
Crash(w) ==
    LET r == claim[w].recording IN
    /\ pc[w] # "idle"
    /\ faults.crashes < MaxCrashes
    /\ \/ UNCHANGED <<object, calls>>
       \/ /\ pc[w] = "deleting"
          /\ object' = [object EXCEPT ![r] = FALSE]
          /\ calls' = [calls EXCEPT ![r] = @ + 1]
    /\ Release(w)
    /\ faults' = [faults EXCEPT !.crashes = @ + 1]
    /\ UNCHANGED <<rec, deadline, expired, claims>>

WorkerStep(w) ==
    \/ \E r \in Recordings : Claim(w, r)
    \/ RefuseForeign(w) \/ BeginExternalDelete(w) \/ DropStaleClaim(w)
    \/ ReadAttemptCount(w) \/ DeleteReturns(w) \/ MarkDeleted(w) \/ RecordFailure(w)
    \/ \E e \in Exceptions : DeleteRaises(w, e)

Next ==
    \/ \E r \in Recordings :
         Schedule(r) \/ AvailabilityComes(r) \/ LeaseExpires(r) \/ WorkerStalls(r)
    \/ \E w \in Workers : WorkerStep(w) \/ Crash(w)

Spec == Init /\ [][Next]_vars

\* The supervised worker polls, the store answers within its timeouts, time passes.
Fairness ==
    /\ \A w \in Workers : WF_vars(WorkerStep(w))
    /\ \A r \in Recordings : WF_vars(AvailabilityComes(r)) /\ WF_vars(LeaseExpires(r))

FairSpec == Spec /\ Fairness

-----------------------------------------------------------------------------

\* The audit is true: a recording marked deleted is not in the store, whichever of
\* several overlapping deletions reported it (_mark_deleted, docs/retention-operations.md).
AuditIsTrue == \A r \in Recordings : rec[r].status = "deleted" => ~object[r]

\* Nothing is deleted before its retention deadline, and never an object of another
\* provider, although a claim may be reclaimed and its worker resume late.
KeptUntilDeadline ==
    \A r \in Recordings : calls[r] > 0 \/ ~object[r] => deadline[r] = "past" /\ r \notin Foreign

\* deletion_attempt_count never understates the delete calls made, so that
\* the limit bounds the calls across workers and crashes ("increments the persisted
\* attempt count immediately before that call").
CallsAreCounted == \A r \in Recordings : calls[r] <= rec[r].count

OutcomeStep ==
    \A w \in Workers, r \in Recordings :
        /\ claim[w] = [recording |-> r, lease |-> rec[r].lease]
        /\ ~expired[r]
        /\ rec'[r].status # rec[r].status \/ rec'[r].lease # rec[r].lease
        => pc'[w] = "idle"

\* While a worker holds an unexpired lease nobody else takes its deletion over or
\* ends it ("a stale worker cannot overwrite the newer lease's outcome").
OutcomeByLeaseholder == [][OutcomeStep]_vars

\* Every scheduled deletion ends deleted or visibly failed, despite crashes.
EveryDeadlineHonoured ==
    \A r \in Recordings :
        rec[r].status = "scheduled" ~> rec[r].status \in {"deleted", "delete_failed"}

\* A transient failure of the store is backed off and tried again
\* (docs/retention-operations.md: "exponential deletion_available_at backoff after a
\* transient failure").
TransientDeletesRetry ==
    [][\A w \in Workers :
        /\ pc[w] = "failed"
        /\ pc'[w] = "idle"
        /\ faults' = faults
        /\ exn[w] \in {"BuiltinTransport", "MarkedRetryable", "BotocoreTransport"}
        /\ HolderAlive(claim[w].recording)
        /\ counted[w] < MaxDeleteAttempts
        => rec'[claim[w].recording].status = "scheduled"]_vars

=============================================================================
