----------------------------- MODULE UploadLifecycle -----------------------------
(***************************************************************************)
(* How one learner's recordings for one assignment become queued analyses: *)
(* create_attempt and upload_complete of app/main.py, the browser's direct *)
(* upload to the private store, and what the analysis makes of the attempt *)
(* afterwards (AnalysisDelivery has that in detail).                       *)
(*                                                                         *)
(* A request runs on a thread of its own and ends with one commit.  The    *)
(* steps between its first SELECT, its call of the store and that commit   *)
(* interleave with other requests; nothing it has read is locked.          *)
(***************************************************************************)
EXTENDS Integers, FiniteSets

CONSTANTS
    Recordings,        \* what the browser records, told apart by the SHA-256 checksum
    Requests,          \* API threads serving the learner
    MaxAttempts        \* bound: attempts created in this instance

NoRecording == "none"
Attempts == 1 .. MaxAttempts

ASSUME RecordingsAssumption == NoRecording \notin Recordings
ASSUME BoundAssumption == MaxAttempts \in Nat

VARIABLES
    attempt,   \* attempts: status, checksum and whether it retries a completed one
    sealed,    \* attempts with a recordings, an analysis_runs and an analysis_jobs row
    object,    \* the store: what lies under the key issued for each attempt
    url,       \* the presigned PUT of each attempt
    answer,    \* the latest answer to a completion request
    pc,        \* where each request stands
    work,      \* the attempt each request is about
    recorded   \* the recording each create request brings

\* History: nothing in the program reads it and no step waits for it.
VARIABLES
    crossed,   \* requests at work that met one able to undo what they are about to commit
    contested  \* attempts issued or sealed last by a crossed request

request == <<pc, work, recorded>>
history == <<crossed, contested>>
vars == <<attempt, sealed, object, url, answer, request, history>>

Statuses == {"absent", "uploading", "abandoned", "queued", "analyzing",
             "analysis_failed", "completed"}
Creating == {"creating", "superseding", "replacing"}
Completing == {"verifying", "sealing"}
PCs == {"idle"} \union Creating \union Completing

TypeOK ==
    /\ attempt \in [Attempts -> [status: Statuses, checksum: Recordings \union {NoRecording},
                                 retry: BOOLEAN]]
    /\ \A a \in Attempts : attempt[a].status = "absent" <=> attempt[a].checksum = NoRecording
    /\ sealed \subseteq Attempts
    /\ \A a \in Attempts : object[a] \in {NoRecording, attempt[a].checksum}
    /\ url \in [Attempts -> {"none", "live", "expired"}]
    /\ answer \in {"none", "accepted", "refused", "error"}
    /\ pc \in [Requests -> PCs]
    /\ work \in [Requests -> Attempts \union {0}]
    /\ recorded \in [Requests -> Recordings \union {NoRecording}]
    /\ crossed \subseteq Requests
    /\ contested \subseteq Attempts

Init ==
    /\ attempt = [a \in Attempts |-> [status |-> "absent", checksum |-> NoRecording,
                                      retry |-> FALSE]]
    /\ sealed = {}
    /\ object = [a \in Attempts |-> NoRecording]
    /\ url = [a \in Attempts |-> "none"]
    /\ answer = "none"
    /\ pc = [p \in Requests |-> "idle"]
    /\ work = [p \in Requests |-> 0]
    /\ recorded = [p \in Requests |-> NoRecording]
    /\ crossed = {}
    /\ contested = {}

Status(a) == attempt[a].status

(***************************************************************************)
(* Two creates at work undo each other's choice of the open attempt; one   *)
(* that replaces an attempt undoes the completion of that attempt.  Two    *)
(* completions, and a create and the completion of another attempt, do not *)
(* disturb each other.                                                     *)
(***************************************************************************)
Threatens(q, p) ==
    /\ q # p
    /\ pc[q] \in Creating
    /\ \/ pc[p] \in Creating
       \/ pc[p] \in Completing /\ pc[q] # "creating" /\ work[q] = work[p]

Crossing == {p \in Requests : \E q \in Requests : Threatens(q, p)}

\* After a request has begun: who has met whom.
Meet == crossed' = crossed \union Crossing'

\* The commit of the request p decides whether the attempt a is contested.
Commit(p, a) ==
    contested' = IF p \in crossed THEN contested \union {a} ELSE contested \ {a}

Respond(p) ==
    /\ pc' = [pc EXCEPT ![p] = "idle"]
    /\ work' = [work EXCEPT ![p] = 0]
    /\ recorded' = [recorded EXCEPT ![p] = NoRecording]
    /\ crossed' = crossed \ {p}

\* Slip: the row lacks the checksum, as the one of the unlisted retry route does.
IssueUnsigned(a, r, isRetry, others) ==
    /\ Status(a) = "absent"
    /\ \A b \in Attempts : b < a => Status(b) # "absent"
    /\ attempt' = [others EXCEPT ![a] = [status |-> "uploading", checksum |-> NoRecording,
                                         retry |-> isRetry]]
    /\ url' = [url EXCEPT ![a] = "live"]

\* The row and the instruction of a new attempt; ids grow with created_at.
Issue(a, r, isRetry, others) ==
    /\ Status(a) = "absent"
    /\ \A b \in Attempts : b < a => Status(b) # "absent"
    /\ attempt' = [others EXCEPT ![a] = [status |-> "uploading", checksum |-> r,
                                         retry |-> isRetry]]
    /\ url' = [url EXCEPT ![a] = "live"]

-----------------------------------------------------------------------------
(***************************************************************************)
(* create_attempt                                                          *)
(***************************************************************************)

\* The attempts a repeated create resumes or replaces.
Open(a) == Status(a) = "uploading" /\ ~attempt[a].retry

\* Slip: a recording already confirmed counts as open.
LatestOpenOrQueued(a) ==
    /\ Open(a) \/ Status(a) = "queued"
    /\ \A b \in Attempts : Open(b) => b <= a

LatestOpen(a) == Open(a) /\ \A b \in Attempts : Open(b) => b <= a

\* The same recording again: a fresh instruction for the attempt already open.
ResumeOpen(p, r, a) ==
    /\ pc[p] = "idle"
    /\ LatestOpen(a)
    /\ attempt[a].checksum = r
    /\ url' = [url EXCEPT ![a] = "live"]
    /\ UNCHANGED <<attempt, sealed, object, answer, request, history>>

\* Another recording supersedes the open attempt, or none is open.
ReadOpen(p, r) ==
    /\ pc[p] = "idle"
    /\ \/ /\ \A a \in Attempts : ~LatestOpen(a)
          /\ pc' = [pc EXCEPT ![p] = "creating"]
          /\ UNCHANGED work
       \/ \E a \in Attempts :
          /\ LatestOpen(a)
          /\ attempt[a].checksum # r
          /\ pc' = [pc EXCEPT ![p] = "superseding"]
          /\ work' = [work EXCEPT ![p] = a]
    /\ recorded' = [recorded EXCEPT ![p] = r]
    /\ Meet
    /\ UNCHANGED <<attempt, sealed, object, url, answer, contested>>

\* storage.delete of the superseded object; a failure is logged and ignored.
DeleteSuperseded(p) ==
    /\ pc[p] = "superseding"
    /\ \/ object' = [object EXCEPT ![work[p]] = NoRecording]
       \/ UNCHANGED object
    /\ pc' = [pc EXCEPT ![p] = "replacing"]
    /\ UNCHANGED <<attempt, sealed, url, answer, work, recorded, history>>

\* Slip: the superseded attempt is left open.
SupersededOpen(p) == attempt

Superseded(p) == [attempt EXCEPT ![work[p]].status = "abandoned"]

\* One commit abandons the superseded attempt, by primary key, and adds the new one.
Replace(p, a) ==
    /\ pc[p] = "replacing"
    /\ Issue(a, recorded[p], FALSE, Superseded(p))
    /\ Commit(p, a)
    /\ Respond(p)
    /\ UNCHANGED <<sealed, object, answer>>

Create(p, a) ==
    /\ pc[p] = "creating"
    /\ Issue(a, recorded[p], FALSE, attempt)
    /\ Commit(p, a)
    /\ Respond(p)
    /\ UNCHANGED <<sealed, object, answer>>

\* No instruction could be made: 503, and nothing is committed.
InstructionFails(p) ==
    /\ pc[p] \in {"creating", "replacing"}
    /\ Respond(p)
    /\ UNCHANGED <<attempt, sealed, object, url, answer, contested>>

\* A retry of a completed attempt is a new attempt every time.
CreateRetry(p, source, r, a) ==
    /\ pc[p] = "idle"
    /\ Status(source) = "completed"
    /\ Issue(a, r, TRUE, attempt)
    /\ UNCHANGED <<sealed, object, answer, request, history>>

-----------------------------------------------------------------------------
(***************************************************************************)
(* The browser's PUT: the URL is signed for one key and one checksum.      *)
(***************************************************************************)

Put(a) ==
    /\ url[a] = "live"
    /\ object' = [object EXCEPT ![a] = attempt[a].checksum]
    /\ UNCHANGED <<attempt, sealed, url, answer, request, history>>

UrlExpires(a) ==
    /\ url[a] = "live"
    /\ url' = [url EXCEPT ![a] = "expired"]
    /\ UNCHANGED <<attempt, sealed, object, answer, request, history>>

-----------------------------------------------------------------------------
(***************************************************************************)
(* upload_complete                                                         *)
(***************************************************************************)

\* A replay is answered as the first time while the attempt is still queued, and
\* refused once the analysis has it (409).
ReplayCompletion(p, a) ==
    /\ pc[p] = "idle"
    /\ Status(a) \notin {"absent", "uploading"}
    /\ answer' = IF Status(a) = "queued" /\ a \in sealed THEN "accepted" ELSE "refused"
    /\ UNCHANGED <<attempt, sealed, object, url, request, history>>

BeginCompletion(p, a) ==
    /\ pc[p] = "idle"
    /\ Status(a) = "uploading"
    /\ pc' = [pc EXCEPT ![p] = "verifying"]
    /\ work' = [work EXCEPT ![p] = a]
    /\ Meet
    /\ UNCHANGED <<attempt, sealed, object, url, answer, recorded, contested>>

\* Slip: the object's metadata is not compared with the attempt's checksum.
VerifiedAnything(p) == TRUE

Verified(p) == object[work[p]] = attempt[work[p]].checksum

\* storage.head finds the confirmed recording ...
VerifyUpload(p) ==
    /\ pc[p] = "verifying"
    /\ Verified(p)
    /\ pc' = [pc EXCEPT ![p] = "sealing"]
    /\ UNCHANGED <<attempt, sealed, object, url, answer, work, recorded, history>>

\* ... or something else, or fails, which a good upload does not prevent (409).
RefuseUpload(p) ==
    /\ pc[p] = "verifying"
    /\ answer' = "refused"
    /\ Respond(p)
    /\ UNCHANGED <<attempt, sealed, object, url, contested>>

\* Slip: the rows are inserted if absent, so that the status is written regardless.
MaySealAgain(a) == TRUE

\* The unique constraints of recordings, analysis_runs and analysis_jobs.
MaySeal(a) == a \notin sealed

\* One commit: the status, by primary key, and the three rows.
Seal(p) ==
    LET a == work[p] IN
    /\ pc[p] = "sealing"
    /\ MaySeal(a)
    /\ attempt' = [attempt EXCEPT ![a].status = "queued"]
    /\ sealed' = sealed \union {a}
    /\ answer' = "accepted"
    /\ Commit(p, a)
    /\ Respond(p)
    /\ UNCHANGED <<object, url>>

\* The PostgreSQL constraints a duplicate insert can report first.
Constraints == {"recordings_attempt_id_key", "analysis_runs_attempt_id_version_key",
                "uq_analysis_jobs_event_key"}

\* _is_upload_completion_uniqueness_error: for the job, it knows SQLite's message and
\* a name that no constraint of analysis_jobs has.
Recognised(c) == c # "uq_analysis_jobs_event_key"

\* A duplicate key rolls everything back; a recognised one on an attempt that is still
\* queued is answered as the first completion was, and any other raises (500).
SealRefused(p, c) ==
    LET a == work[p] IN
    /\ pc[p] = "sealing"
    /\ ~MaySeal(a)
    /\ answer' = IF Recognised(c) /\ Status(a) = "queued" THEN "accepted" ELSE "error"
    /\ Respond(p)
    /\ UNCHANGED <<attempt, sealed, object, url, contested>>

-----------------------------------------------------------------------------

\* The API process dies or the request is dropped: its transaction rolls back.
Drop(p) ==
    /\ pc[p] # "idle"
    /\ Respond(p)
    /\ UNCHANGED <<attempt, sealed, object, url, answer, contested>>

Move(a, from, to) ==
    /\ a \in sealed
    /\ Status(a) \in from
    /\ attempt' = [attempt EXCEPT ![a].status = to]
    /\ UNCHANGED <<sealed, object, url, answer, request, history>>

\* The outcomes of AnalysisDelivery.  The worker goes by its job and writes the status
\* without a condition, over that of an attempt abandoned meanwhile too.
AnalysisStarts(a) == Move(a, {"queued", "analysis_failed", "abandoned"}, "analyzing")
AnalysisFails(a) == Move(a, {"queued", "analyzing", "abandoned"}, "analysis_failed")
AnalysisCompletes(a) == Move(a, {"analyzing", "abandoned"}, "completed")

CreateStep(p) ==
    \E r \in Recordings, a \in Attempts :
        \/ ResumeOpen(p, r, a) \/ ReadOpen(p, r) \/ Replace(p, a) \/ Create(p, a)
        \/ \E source \in Attempts : CreateRetry(p, source, r, a)

CompleteStep(p) ==
    \/ \E a \in Attempts : ReplayCompletion(p, a) \/ BeginCompletion(p, a)
    \/ VerifyUpload(p) \/ RefuseUpload(p) \/ Seal(p)
    \/ \E c \in Constraints : SealRefused(p, c)

Next ==
    \/ \E p \in Requests :
         CreateStep(p) \/ DeleteSuperseded(p) \/ InstructionFails(p)
         \/ CompleteStep(p) \/ Drop(p)
    \/ \E a \in Attempts :
         Put(a) \/ UrlExpires(a)
         \/ AnalysisStarts(a) \/ AnalysisFails(a) \/ AnalysisCompletes(a)

Spec == Init /\ [][Next]_vars

-----------------------------------------------------------------------------
(***************************************************************************)
(* What holds for every client: one that gives a request up and sends the  *)
(* next while the server is still at work on it, and one with two tabs.    *)
(***************************************************************************)

\* The analysis finds the recording that was confirmed: unless a create that replaces
\* the attempt was at work beside the completion, the object stays in the store until
\* the analysis is over (upload_complete verifies it and commits later; create_attempt
\* deletes what it read as open).
UncontestedIsStored ==
    \A a \in sealed \ contested : Status(a) \in {"queued", "analyzing"} =>
        object[a] = attempt[a].checksum

\* "confirmed/queued recordings are never replaced here" (create_attempt): so it is of
\* every recording whose completion no replacing create overlapped, however many
\* requests follow.
UncontestedIsKept == \A a \in sealed \ contested : Status(a) # "abandoned"

\* "Repeated create requests before an upload is sealed resume the same attempt": an
\* open attempt beside another one comes from creates that overlapped.
UncontestedIsAlone ==
    \A a, b \in Attempts \ contested : Open(a) /\ Open(b) => a = b

\* Replaying a completion never throws an attempt back: once the analysis has started,
\* the status is never "queued" or "uploading" again (upload_complete: "the durable
\* event key makes replaying upload completion safe").
NeverRequeued ==
    [][\A a \in Attempts : Status(a) \in {"analyzing", "analysis_failed", "completed"}
        => attempt'[a].status \notin {"queued", "uploading"}]_vars

(***************************************************************************)
(* What the comments say and the code does not do for every client.        *)
(***************************************************************************)

\* A duplicate of a completion that is still queued is recovered, not answered with an
\* error (upload_complete: "Another request can seal the same upload ... Recover").
DuplicateIsRecovered ==
    [][\A p \in Requests :
        pc[p] = "sealing" /\ pc'[p] = "idle" /\ answer # "error" /\ answer' = "error"
        => Status(work[p]) # "queued"]_vars

\* "confirmed/queued recordings are never replaced here" (create_attempt), whatever
\* overlaps: the attempt is not abandoned and its object is there.
ConfirmedNeverReplaced == \A a \in sealed : Status(a) # "abandoned"
SealedHasObject ==
    \A a \in sealed : Status(a) \in {"queued", "analyzing"} =>
        object[a] = attempt[a].checksum

\* "Repeated create requests before an upload is sealed resume the same attempt",
\* whatever overlaps: an assignment never has two open uploads.
OneOpenUpload == \A a, b \in Attempts : Open(a) /\ Open(b) => a = b

=============================================================================
