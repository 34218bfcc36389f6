-------------------------- MODULE PracticeRecorder --------------------------
(***************************************************************************)
(* The practice page: useMediaRecorder and the submission of a take.       *)
(*                                                                         *)
(* Every start of the recorder opens a session named by the generation it  *)
(* increments generationRef to; the permission answer, the error event and *)
(* the stop event of a session arrive at any later time, also after the    *)
(* session was superseded by a discard, a new start or the page's unmount. *)
(* A new mount has a fresh generationRef; here generations go on counting, *)
(* which only renames sessions, because an unmount increments it last.     *)
(* A take is named by its session.  Each call of the submission succeeds   *)
(* or fails (an answer that times out fails here; what the server made of  *)
(* it is UploadLifecycle's subject).  After an unmount the calls go on, but*)
(* React ignores what they set.  The browser supports recording.           *)
(***************************************************************************)
EXTENDS Naturals

CONSTANT MaxGeneration     \* bound on generationRef

ASSUME MaxGenerationAssumption == MaxGeneration \in Nat

VARIABLES
    mounted,    \* the practice page is shown
    gen,        \* generationRef.current
    mic,        \* mic[g]: the stream of session g
    rec,        \* rec[g]: its MediaRecorder and the event it still owes
    status,     \* RecorderStatus
    recording,  \* the take under review, 0 when none
    urls,       \* object URLs not yet revoked, by take
    stage,      \* stage of the submission
    call,       \* the call the submission awaits
    pending,    \* the take last submitted, 0 when none
    verified    \* the take of verifiedUpload, 0 when null

hook == <<gen, mic, rec, status, recording, urls>>
submission == <<stage, call, pending, verified>>
vars == <<mounted, hook, submission>>

Generations == 1..MaxGeneration

TypeOK ==
    /\ mounted \in BOOLEAN
    /\ gen \in 0..MaxGeneration
    /\ mic \in [Generations -> {"none", "asked", "live", "off"}]
    /\ rec \in [Generations -> {"none", "recording", "stopping", "failed", "inactive"}]
    /\ status \in {"idle", "requesting-permission", "recording", "stopped", "error"}
    /\ recording \in 0..MaxGeneration
    /\ urls \subseteq Generations
    /\ stage \in {"idle", "hashing", "uploading", "queued", "error"}
    /\ call \in {"none", "create", "put", "confirm"}
    /\ pending \in 0..MaxGeneration
    /\ verified \in 0..MaxGeneration
    /\ call # "none" <=> stage = "uploading"
    /\ recording # 0 => rec[recording] = "inactive"

Init ==
    /\ mounted = TRUE
    /\ gen = 0
    /\ mic = [g \in Generations |-> "none"]
    /\ rec = [g \in Generations |-> "none"]
    /\ status = "idle"
    /\ recording = 0
    /\ urls = {}
    /\ stage = "idle"
    /\ call = "none"
    /\ pending = 0
    /\ verified = 0

Submitting == stage \in {"hashing", "uploading"}

(***************************************************************************)
(* The recorder.  streamRef and mediaRecorderRef hold the stream and the   *)
(* recorder of the current session while these are live.                   *)
(***************************************************************************)
IsCurrent(g) == g = gen

\* What discard and the unmount effect have in common.
Released(f, live, after) == [g \in Generations |-> IF g = gen /\ f[g] = live THEN after ELSE f[g]]

Release ==
    /\ rec' = Released(rec, "recording", "stopping")
    /\ mic' = Released(mic, "live", "off")
    /\ urls' = urls \ {recording}
    /\ recording' = 0

RecorderShown == mounted /\ stage # "queued"

Start ==
    /\ RecorderShown /\ ~Submitting
    /\ recording = 0
    /\ status \in {"idle", "stopped", "error"}
    /\ gen + 2 <= MaxGeneration
    /\ gen' = gen + 2
    /\ rec' = Released(rec, "recording", "stopping")
    /\ mic' = [Released(mic, "live", "off") EXCEPT ![gen + 2] = "asked"]
    /\ status' = "requesting-permission"
    /\ UNCHANGED <<mounted, recording, urls, submission>>

\* A take under review is thrown away.
Discard ==
    /\ RecorderShown /\ ~Submitting
    /\ recording # 0
    /\ gen < MaxGeneration
    /\ gen' = gen + 1
    /\ Release
    /\ status' = "idle"
    /\ UNCHANGED <<mounted, submission>>

\* getUserMedia answers with a stream to a session that is over.
LateGrant(g) ==
    /\ mic[g] = "asked" /\ ~IsCurrent(g)
    /\ mic' = [mic EXCEPT ![g] = "off"]
    /\ UNCHANGED <<rec, status>>

\* It answers the current session, whose recorder starts or throws.
Grant(g) ==
    /\ mic[g] = "asked" /\ IsCurrent(g)
    /\ \/ /\ mic' = [mic EXCEPT ![g] = "live"]
          /\ rec' = [rec EXCEPT ![g] = "recording"]
          /\ status' = "recording"
       \/ /\ mic' = [mic EXCEPT ![g] = "off"]
          /\ status' = "error"
          /\ UNCHANGED rec

Denial(g) ==
    /\ mic[g] = "asked"
    /\ mic' = [mic EXCEPT ![g] = "none"]
    /\ status' = IF IsCurrent(g) THEN "error" ELSE status
    /\ UNCHANGED rec

\* Slip: the stream of a superseded request is used like any other.
AnswerUnchecked(g) ==
    /\ \/ /\ mic[g] = "asked"
          /\ mic' = [mic EXCEPT ![g] = "live"]
          /\ rec' = [rec EXCEPT ![g] = "recording"]
          /\ status' = "recording"
       \/ Denial(g)
    /\ UNCHANGED <<mounted, gen, recording, urls, submission>>

PermissionAnswer(g) ==
    /\ LateGrant(g) \/ Grant(g) \/ Denial(g)
    /\ UNCHANGED <<mounted, gen, recording, urls, submission>>

\* The stop button, or the device goes away: the stop event is still to come.
Stop(g) ==
    /\ rec[g] = "recording"
    /\ rec' = [rec EXCEPT ![g] = "stopping"]
    /\ \/ /\ RecorderShown /\ ~Submitting /\ IsCurrent(g) /\ status = "recording"
          /\ UNCHANGED mic
       \/ mic' = [mic EXCEPT ![g] = "off"]
    /\ UNCHANGED <<mounted, gen, status, recording, urls, submission>>

\* onerror; the browser fires the stop event after it.
OnError(g) ==
    /\ rec[g] = "recording"
    /\ rec' = [rec EXCEPT ![g] = "failed"]
    /\ \/ /\ ~IsCurrent(g)
          /\ UNCHANGED <<mic, status>>
       \/ /\ IsCurrent(g)
          /\ mic' = [mic EXCEPT ![g] = "off"]
          /\ status' = "error"
    /\ UNCHANGED <<mounted, gen, recording, urls, submission>>

\* The blob of session g is empty, or becomes the take under review.
Captured(g) ==
    /\ mic' = [mic EXCEPT ![g] = IF @ = "live" THEN "off" ELSE @]
    /\ \/ /\ status' = "error"
          /\ UNCHANGED <<recording, urls>>
       \/ /\ status' = "stopped"
          /\ recording' = g
          /\ urls' = urls \cup {g}

\* Slip: the stop event of a superseded session is handled.
OnStopUnchecked(g) ==
    /\ rec[g] \in {"stopping", "failed"}
    /\ rec' = [rec EXCEPT ![g] = "inactive"]
    /\ Captured(g)
    /\ UNCHANGED <<mounted, gen, submission>>

OnStop(g) ==
    /\ rec[g] \in {"stopping", "failed"}
    /\ rec' = [rec EXCEPT ![g] = "inactive"]
    /\ \/ IsCurrent(g) /\ Captured(g)
       \/ ~IsCurrent(g) /\ UNCHANGED <<mic, status, recording, urls>>
    /\ UNCHANGED <<mounted, gen, submission>>

(***************************************************************************)
(* The submission.                                                         *)
(***************************************************************************)
\* Slip: the upload verified for an earlier take is kept.
SubmitKeepsVerified(take) ==
    /\ pending' = take
    /\ stage' = "hashing"
    /\ UNCHANGED <<call, verified>>

Submit(take) ==
    /\ pending' = take
    /\ verified' = 0
    /\ stage' = "hashing"
    /\ UNCHANGED call

UseRecording ==
    /\ RecorderShown /\ ~Submitting
    /\ recording # 0
    /\ Submit(recording)
    /\ UNCHANGED <<mounted, hook>>

RetryUpload ==
    /\ mounted /\ stage = "error"
    /\ verified = 0 /\ pending # 0
    /\ Submit(pending)
    /\ UNCHANGED <<mounted, hook>>

RetryConfirmation ==
    /\ mounted /\ stage = "error"
    /\ verified # 0
    /\ stage' = "uploading"
    /\ call' = "confirm"
    /\ UNCHANGED <<mounted, hook, pending, verified>>

Hashed ==
    /\ mounted /\ stage = "hashing"
    /\ stage' = "uploading"
    /\ call' = "create"
    /\ UNCHANGED <<mounted, hook, pending, verified>>

AttemptCreated ==
    /\ mounted /\ call = "create"
    /\ call' = "put"
    /\ UNCHANGED <<mounted, hook, stage, pending, verified>>

BlobUploaded ==
    /\ mounted /\ call = "put"
    /\ verified' = pending
    /\ call' = "confirm"
    /\ UNCHANGED <<mounted, hook, stage, pending>>

\* The page then shows the queue instead of the recorder, whose unmount
\* effect releases whatever it was doing.
UploadConfirmed ==
    /\ mounted /\ call = "confirm"
    /\ gen < MaxGeneration
    /\ stage' = "queued"
    /\ call' = "none"
    /\ gen' = gen + 1
    /\ Release
    /\ status' = "idle"
    /\ UNCHANGED <<mounted, pending, verified>>

\* Hashing, the request, the PUT or an answer fails or times out.
SubmissionFailed ==
    /\ mounted /\ Submitting
    /\ stage' = "error"
    /\ call' = "none"
    /\ UNCHANGED <<mounted, hook, pending, verified>>

\* Every view of the application is one navigation away, at any time.
Leave ==
    /\ mounted /\ gen < MaxGeneration
    /\ mounted' = FALSE
    /\ gen' = gen + 1
    /\ Release
    /\ status' = "idle"
    /\ stage' = "idle" /\ call' = "none"
    /\ pending' = 0 /\ verified' = 0

Enter ==
    /\ ~mounted
    /\ mounted' = TRUE
    /\ UNCHANGED <<hook, submission>>

Next ==
    \/ Start \/ Discard
    \/ \E g \in Generations :
         PermissionAnswer(g) \/ Stop(g) \/ OnError(g) \/ OnStop(g)
    \/ UseRecording \/ RetryUpload \/ RetryConfirmation
    \/ Hashed \/ AttemptCreated \/ BlobUploaded \/ UploadConfirmed
    \/ SubmissionFailed
    \/ Leave \/ Enter

Spec == Init /\ [][Next]_vars

(***************************************************************************)
(* Properties                                                              *)
(***************************************************************************)
\* The microphone is open in the current session only, and only while the
\* page says that it records: neither a permission granted too late, nor a
\* discard, nor leaving the page leaves it open.
MicOnlyInSession ==
    \A g \in Generations :
        mic[g] = "live" => mounted /\ IsCurrent(g) /\ status = "recording"

\* The page shows a take exactly when the current session captured it, and
\* the object URL of that take is the only one that is not revoked.
ReviewIsCurrent ==
    /\ status = "stopped" <=> recording # 0
    /\ recording # 0 => IsCurrent(recording)
    /\ urls = {recording} \ {0}

\* The attempt whose upload the page reports as accepted is that of the take
\* the learner submitted last, not of an earlier take whose confirmation
\* failed.
ConfirmsChosen ==
    stage = "queued" \/ call = "confirm" => verified # 0 /\ verified = pending
=============================================================================
