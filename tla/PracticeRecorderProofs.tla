----------------------- MODULE PracticeRecorderProofs -----------------------
(***************************************************************************)
(* The microphone, the review and the confirmation of the practice page,   *)
(* for any number of recording sessions.                                   *)
(***************************************************************************)
EXTENDS PracticeRecorder, TLAPS

\* Sessions that are still to come have neither stream nor recorder.
NothingBeyond == \A g \in Generations : g > gen => mic[g] = "none" /\ rec[g] = "none"

\* A session that waits for permission has no recorder, and when it is the
\* current one the page says so.
AskedIsOpen ==
    \A g \in Generations : mic[g] = "asked" =>
        /\ rec[g] = "none"
        /\ g = gen => mounted /\ status = "requesting-permission"

\* A verified upload is that of the pending take, and there is one under way.
PendingIsVerified ==
    /\ verified # 0 => verified = pending
    /\ Submitting => pending # 0

RecorderInv ==
    /\ TypeOK
    /\ MicOnlyInSession
    /\ ReviewIsCurrent
    /\ ConfirmsChosen
    /\ NothingBeyond
    /\ AskedIsOpen
    /\ PendingIsVerified

\* Releasing the current session keeps the types and leaves no stream open in it.
LEMMA ReleaseEffect ==
    ASSUME RecorderInv, Release
    PROVE  /\ mic' \in [Generations -> {"none", "asked", "live", "off"}]
           /\ rec' \in [Generations -> {"none", "recording", "stopping", "failed", "inactive"}]
           /\ recording' = 0 /\ urls' = {}
           /\ \A g \in Generations : mic'[g] # "live"
           /\ \A g \in Generations : g # gen => mic'[g] = mic[g] /\ rec'[g] = rec[g]
           /\ \A g \in Generations : mic'[g] = "asked" => mic[g] = "asked" /\ rec'[g] = rec[g]
<1> USE DEF RecorderInv, TypeOK, Release, Released, Generations
<1>1. urls' = {}
  BY DEF ReviewIsCurrent
<1>2. \A g \in Generations : mic'[g] # "live"
  BY DEF MicOnlyInSession, IsCurrent
<1>3. \A g \in Generations : mic'[g] = "asked" => mic[g] = "asked" /\ rec'[g] = rec[g]
  BY DEF AskedIsOpen
<1>4. QED
  BY <1>1, <1>2, <1>3

\* The submission's part of the invariant, on a step that leaves the recorder alone.
LEMMA HookUnchanged ==
    ASSUME RecorderInv, UNCHANGED <<mounted, hook>>,
           stage' \in {"idle", "hashing", "uploading", "queued", "error"},
           call' \in {"none", "create", "put", "confirm"},
           pending' \in 0..MaxGeneration, verified' \in 0..MaxGeneration,
           call' # "none" <=> stage' = "uploading",
           ConfirmsChosen', PendingIsVerified'
    PROVE  RecorderInv'
<1> USE DEF RecorderInv, hook
<1>1. TypeOK'
  BY DEF TypeOK
<1>2. MicOnlyInSession' /\ ReviewIsCurrent'
  BY DEF MicOnlyInSession, ReviewIsCurrent, IsCurrent
<1>3. NothingBeyond' /\ AskedIsOpen'
  BY DEF NothingBeyond, AskedIsOpen
<1>4. QED
  BY <1>1, <1>2, <1>3

\* The recorder's part of the invariant, on a step that leaves the submission alone.
LEMMA SubmissionUnchanged ==
    ASSUME RecorderInv, UNCHANGED <<mounted, submission>>,
           gen' \in 0..MaxGeneration,
           mic' \in [Generations -> {"none", "asked", "live", "off"}],
           rec' \in [Generations -> {"none", "recording", "stopping", "failed", "inactive"}],
           status' \in {"idle", "requesting-permission", "recording", "stopped", "error"},
           recording' \in 0..MaxGeneration,
           urls' \subseteq Generations,
           recording' # 0 => rec'[recording'] = "inactive",
           MicOnlyInSession', ReviewIsCurrent', NothingBeyond', AskedIsOpen'
    PROVE  RecorderInv'
<1> USE DEF RecorderInv, submission
<1>1. TypeOK'
  BY DEF TypeOK
<1>2. ConfirmsChosen' /\ PendingIsVerified'
  BY DEF ConfirmsChosen, PendingIsVerified, Submitting
<1>3. QED
  BY <1>1, <1>2

LEMMA InitRecorder == Init => RecorderInv
<1> SUFFICES ASSUME Init PROVE RecorderInv
  OBVIOUS
<1> USE MaxGenerationAssumption DEF Init, Generations
<1>1. TypeOK
  BY DEF TypeOK
<1>2. MicOnlyInSession /\ ReviewIsCurrent /\ ConfirmsChosen
  BY DEF MicOnlyInSession, ReviewIsCurrent, ConfirmsChosen
<1>3. NothingBeyond /\ AskedIsOpen /\ PendingIsVerified
  BY DEF NothingBeyond, AskedIsOpen, PendingIsVerified, Submitting
<1>4. QED
  BY <1>1, <1>2, <1>3 DEF RecorderInv

\* The recorder's actions.
LEMMA StartStep == RecorderInv /\ Start => RecorderInv'
<1> SUFFICES ASSUME RecorderInv, Start PROVE RecorderInv'
  OBVIOUS
<1> USE MaxGenerationAssumption DEF Generations
<1>1. /\ gen \in 0..MaxGeneration /\ gen' = gen + 2 /\ gen' \in Generations
      /\ status' = "requesting-permission" /\ recording = 0 /\ recording' = 0
      /\ urls' = urls /\ mounted' = mounted /\ mounted
      /\ submission' = submission
  BY DEF Start, RecorderInv, TypeOK, RecorderShown
<1>2. \A g \in Generations : mic[g] # "live"
  BY DEF Start, RecorderInv, MicOnlyInSession
<1>3. /\ mic' = [mic EXCEPT ![gen'] = "asked"]
      /\ rec' \in [Generations -> {"none", "recording", "stopping", "failed", "inactive"}]
      /\ \A g \in Generations : g # gen => rec'[g] = rec[g]
      /\ \A g \in Generations : mic[g] = "asked" => rec'[g] = rec[g]
  BY <1>1, <1>2 DEF Start, RecorderInv, TypeOK, Released, AskedIsOpen
<1>4. mic' \in [Generations -> {"none", "asked", "live", "off"}]
  BY <1>1, <1>3 DEF RecorderInv, TypeOK
<1>5. MicOnlyInSession' /\ ReviewIsCurrent'
  BY <1>1, <1>2, <1>3 DEF RecorderInv, TypeOK, MicOnlyInSession, ReviewIsCurrent
<1>6. NothingBeyond' /\ AskedIsOpen'
  BY <1>1, <1>3 DEF RecorderInv, TypeOK, NothingBeyond, AskedIsOpen
<1>7. QED
  BY <1>1, <1>3, <1>4, <1>5, <1>6, SubmissionUnchanged DEF RecorderInv, TypeOK

LEMMA DiscardStep == RecorderInv /\ Discard => RecorderInv'
<1> SUFFICES ASSUME RecorderInv, Discard PROVE RecorderInv'
  OBVIOUS
<1> USE MaxGenerationAssumption DEF Generations
<1>1. /\ gen \in 0..MaxGeneration /\ gen' = gen + 1 /\ gen' \in 0..MaxGeneration
      /\ status' = "idle" /\ mounted' = mounted /\ submission' = submission /\ Release
  BY DEF Discard, RecorderInv, TypeOK
<1>2. MicOnlyInSession' /\ ReviewIsCurrent'
  BY <1>1, ReleaseEffect DEF MicOnlyInSession, ReviewIsCurrent
<1>3. NothingBeyond' /\ AskedIsOpen'
  BY <1>1, ReleaseEffect DEF RecorderInv, NothingBeyond, AskedIsOpen
<1>4. QED
  BY <1>1, <1>2, <1>3, ReleaseEffect, SubmissionUnchanged

LEMMA AnswerStep ==
    ASSUME RecorderInv, NEW g \in Generations, PermissionAnswer(g)
    PROVE  RecorderInv'
<1> USE DEF Generations
<1>0. TypeOK /\ MicOnlyInSession /\ ReviewIsCurrent /\ NothingBeyond /\ AskedIsOpen
  BY DEF RecorderInv
<1>1. UNCHANGED <<mounted, gen, recording, urls, submission>>
      /\ mic[g] = "asked" /\ rec[g] = "none"
  BY <1>0 DEF PermissionAnswer, LateGrant, Grant, Denial, AskedIsOpen
<1>2. recording # g
  BY <1>0, <1>1 DEF TypeOK
<1>3. CASE LateGrant(g)
  BY <1>0, <1>1, <1>3, SubmissionUnchanged
     DEF LateGrant, TypeOK, MicOnlyInSession, ReviewIsCurrent, IsCurrent, NothingBeyond, AskedIsOpen
<1>4. CASE Denial(g)
  <2>1. IsCurrent(g) => status = "requesting-permission"
    BY <1>0, <1>1 DEF IsCurrent, AskedIsOpen
  <2>2. MicOnlyInSession' /\ ReviewIsCurrent'
    BY <1>0, <1>1, <1>4, <2>1 DEF Denial, TypeOK, MicOnlyInSession, ReviewIsCurrent, IsCurrent
  <2>3. NothingBeyond' /\ AskedIsOpen'
    BY <1>0, <1>1, <1>4 DEF Denial, TypeOK, NothingBeyond, AskedIsOpen, IsCurrent
  <2>4. QED
    BY <1>0, <1>1, <1>4, <2>2, <2>3, SubmissionUnchanged DEF Denial, TypeOK
<1>5. CASE Grant(g)
  <2>1. g = gen /\ mounted /\ status = "requesting-permission" /\ recording = 0
    BY <1>0, <1>1, <1>5 DEF Grant, IsCurrent, AskedIsOpen, ReviewIsCurrent
  <2>2. MicOnlyInSession' /\ ReviewIsCurrent'
    BY <1>0, <1>1, <1>5, <2>1 DEF Grant, TypeOK, MicOnlyInSession, ReviewIsCurrent, IsCurrent
  <2>3. NothingBeyond' /\ AskedIsOpen'
    <3>1. mic'[g] \in {"live", "off"} /\ gen' = gen
      BY <1>0, <1>1, <1>5 DEF Grant, TypeOK
    <3>2. \A h \in Generations : h # g => mic'[h] = mic[h] /\ rec'[h] = rec[h]
      BY <1>0, <1>5 DEF Grant, TypeOK
    <3>3. QED
      BY <1>0, <2>1, <3>1, <3>2 DEF TypeOK, NothingBeyond, AskedIsOpen
  <2>4. /\ gen' \in 0..MaxGeneration /\ recording' = 0 /\ urls' \subseteq Generations
        /\ mic' \in [Generations -> {"none", "asked", "live", "off"}]
        /\ rec' \in [Generations -> {"none", "recording", "stopping", "failed", "inactive"}]
        /\ status' \in {"idle", "requesting-permission", "recording", "stopped", "error"}
    BY <1>0, <1>1, <1>5, <2>1 DEF Grant, TypeOK
  <2>5. recording' \in 0..MaxGeneration /\ mounted' = mounted /\ submission' = submission
    BY <1>1, <2>4, MaxGenerationAssumption
  <2>6. QED
    BY <2>2, <2>3, <2>4, <2>5, SubmissionUnchanged
<1>6. QED
  BY <1>3, <1>4, <1>5 DEF PermissionAnswer

LEMMA StopStep ==
    ASSUME RecorderInv, NEW g \in Generations, Stop(g)
    PROVE  RecorderInv'
<1> USE DEF Generations
<1>0. TypeOK /\ MicOnlyInSession /\ ReviewIsCurrent /\ NothingBeyond /\ AskedIsOpen
  BY DEF RecorderInv
<1>1. /\ rec[g] = "recording" /\ rec' = [rec EXCEPT ![g] = "stopping"]
      /\ mic' = mic \/ mic' = [mic EXCEPT ![g] = "off"]
      /\ UNCHANGED <<mounted, gen, status, recording, urls, submission>>
  BY DEF Stop
<1>2. recording # g
  BY <1>0, <1>1 DEF TypeOK
<1>3. MicOnlyInSession' /\ ReviewIsCurrent'
  BY <1>0, <1>1 DEF TypeOK, MicOnlyInSession, ReviewIsCurrent, IsCurrent
<1>4. NothingBeyond' /\ AskedIsOpen'
  BY <1>0, <1>1 DEF TypeOK, NothingBeyond, AskedIsOpen
<1>5. QED
  BY <1>0, <1>1, <1>2, <1>3, <1>4, SubmissionUnchanged DEF TypeOK

LEMMA ErrorStep ==
    ASSUME RecorderInv, NEW g \in Generations, OnError(g)
    PROVE  RecorderInv'
<1> USE DEF Generations
<1>0. TypeOK /\ MicOnlyInSession /\ ReviewIsCurrent /\ NothingBeyond /\ AskedIsOpen
  BY DEF RecorderInv
<1>1. /\ rec[g] = "recording" /\ rec' = [rec EXCEPT ![g] = "failed"]
      /\ \/ g # gen /\ mic' = mic /\ status' = status
         \/ g = gen /\ mic' = [mic EXCEPT ![g] = "off"] /\ status' = "error"
      /\ UNCHANGED <<mounted, gen, recording, urls, submission>>
  BY DEF OnError, IsCurrent
<1>2. recording # g /\ mic[g] # "asked"
  BY <1>0, <1>1 DEF TypeOK, AskedIsOpen
<1>3. g = gen => recording = 0
  BY <1>0, <1>2 DEF ReviewIsCurrent, IsCurrent
<1>4. MicOnlyInSession' /\ ReviewIsCurrent'
  BY <1>0, <1>1, <1>3 DEF TypeOK, MicOnlyInSession, ReviewIsCurrent, IsCurrent
<1>5. NothingBeyond' /\ AskedIsOpen'
  BY <1>0, <1>1, <1>2 DEF TypeOK, NothingBeyond, AskedIsOpen
<1>6. QED
  BY <1>0, <1>1, <1>2, <1>4, <1>5, SubmissionUnchanged DEF TypeOK

\* The stop event of the current session finds no take under review.
LEMMA OnStopStep ==
    ASSUME RecorderInv, NEW g \in Generations, OnStop(g)
    PROVE  RecorderInv'
<1> USE DEF Generations
<1>0. TypeOK /\ MicOnlyInSession /\ ReviewIsCurrent /\ NothingBeyond /\ AskedIsOpen
  BY DEF RecorderInv
<1>1. /\ rec[g] \in {"stopping", "failed"} /\ rec' = [rec EXCEPT ![g] = "inactive"]
      /\ mounted' = mounted /\ gen' = gen /\ submission' = submission
      /\ \/ g = gen /\ Captured(g)
         \/ g # gen /\ mic' = mic /\ status' = status /\ recording' = recording /\ urls' = urls
  BY DEF OnStop, IsCurrent
<1>2. /\ mic[g] # "asked" /\ recording # g
      /\ rec' \in [Generations -> {"none", "recording", "stopping", "failed", "inactive"}]
  BY <1>0, <1>1 DEF AskedIsOpen, TypeOK
<1>3. CASE g # gen
  <2>1. MicOnlyInSession' /\ ReviewIsCurrent'
    BY <1>0, <1>1, <1>3 DEF MicOnlyInSession, ReviewIsCurrent, IsCurrent
  <2>2. NothingBeyond' /\ AskedIsOpen'
    BY <1>0, <1>1, <1>2, <1>3 DEF TypeOK, NothingBeyond, AskedIsOpen
  <2>3. /\ gen' \in 0..MaxGeneration /\ recording' \in 0..MaxGeneration
        /\ urls' \subseteq Generations
        /\ mic' \in [Generations -> {"none", "asked", "live", "off"}]
        /\ status' \in {"idle", "requesting-permission", "recording", "stopped", "error"}
    BY <1>0, <1>1, <1>3 DEF TypeOK
  <2>4. recording' # 0 => rec'[recording'] = "inactive"
    BY <1>0, <1>1, <1>2, <1>3 DEF TypeOK
  <2>5. QED
    BY <1>1, <1>2, <2>1, <2>2, <2>3, <2>4, SubmissionUnchanged
<1>4. CASE g = gen
  <2>1. recording = 0 /\ urls = {}
    BY <1>0, <1>2, <1>4 DEF ReviewIsCurrent, IsCurrent
  <2>2. /\ mic' \in [Generations -> {"none", "asked", "live", "off"}]
        /\ \A h \in Generations : mic'[h] # "live"
        /\ \A h \in Generations : h # g => mic'[h] = mic[h]
        /\ mic'[g] = "off" \/ mic'[g] = mic[g]
        /\ \/ status' = "error" /\ recording' = 0 /\ urls' = {}
           \/ status' = "stopped" /\ recording' = g /\ urls' = {g}
    BY <1>0, <1>1, <1>4, <2>1 DEF Captured, TypeOK, MicOnlyInSession, IsCurrent
  <2>3. MicOnlyInSession' /\ ReviewIsCurrent'
    BY <1>0, <1>1, <1>4, <2>2 DEF MicOnlyInSession, ReviewIsCurrent, IsCurrent
  <2>4. NothingBeyond' /\ AskedIsOpen'
    BY <1>0, <1>1, <1>2, <1>4, <2>2 DEF TypeOK, NothingBeyond, AskedIsOpen
  <2>5. /\ gen' \in 0..MaxGeneration /\ recording' \in 0..MaxGeneration
        /\ urls' \subseteq Generations
        /\ status' \in {"idle", "requesting-permission", "recording", "stopped", "error"}
    BY <1>0, <1>1, <2>2, MaxGenerationAssumption DEF TypeOK
  <2>6. recording' # 0 => rec'[recording'] = "inactive"
    BY <1>0, <1>1, <2>2 DEF TypeOK
  <2>7. QED
    BY <1>1, <1>2, <2>2, <2>3, <2>4, <2>5, <2>6, SubmissionUnchanged
<1>5. QED
  BY <1>3, <1>4

\* The submission's actions that leave the recorder alone.
LEMMA SubmissionStep ==
    ASSUME RecorderInv,
           \/ UseRecording \/ RetryUpload \/ RetryConfirmation \/ Hashed
           \/ AttemptCreated \/ BlobUploaded \/ SubmissionFailed
    PROVE  RecorderInv'
<1> USE DEF RecorderInv, ConfirmsChosen, PendingIsVerified, Submitting, TypeOK
<1>1. CASE UseRecording
  <2>1. recording \in 1..MaxGeneration /\ stage # "uploading"
    BY <1>1 DEF UseRecording
  <2>2. /\ mounted' = mounted /\ hook' = hook /\ call' = call
        /\ pending' = recording /\ verified' = 0 /\ stage' = "hashing"
    BY <1>1 DEF UseRecording, Submit
  <2>3. call' = "none"
    BY <2>1, <2>2
  <2>4. ConfirmsChosen' /\ PendingIsVerified'
    BY <2>1, <2>2, <2>3
  <2>5. QED
    BY <2>1, <2>2, <2>3, <2>4, HookUnchanged, MaxGenerationAssumption
<1>2. CASE RetryUpload
  BY <1>2, HookUnchanged DEF RetryUpload, Submit
<1>3. CASE RetryConfirmation
  BY <1>3, HookUnchanged DEF RetryConfirmation
<1>4. CASE Hashed
  BY <1>4, HookUnchanged DEF Hashed
<1>5. CASE AttemptCreated
  BY <1>5, HookUnchanged DEF AttemptCreated
<1>6. CASE BlobUploaded
  BY <1>6, HookUnchanged DEF BlobUploaded
<1>7. CASE SubmissionFailed
  BY <1>7, HookUnchanged DEF SubmissionFailed
<1>8. QED
  BY <1>1, <1>2, <1>3, <1>4, <1>5, <1>6, <1>7

\* The accepted submission, and leaving the page, end the current session.
LEMMA EndStep ==
    ASSUME RecorderInv, UploadConfirmed \/ Leave
    PROVE  RecorderInv'
<1> USE MaxGenerationAssumption DEF Generations
<1>1. /\ gen \in 0..MaxGeneration /\ gen' = gen + 1 /\ gen' \in 0..MaxGeneration
      /\ status' = "idle" /\ Release
  BY DEF UploadConfirmed, Leave, RecorderInv, TypeOK
<1>2. MicOnlyInSession' /\ ReviewIsCurrent'
  BY <1>1, ReleaseEffect DEF MicOnlyInSession, ReviewIsCurrent
<1>3. NothingBeyond' /\ AskedIsOpen'
  BY <1>1, ReleaseEffect DEF RecorderInv, NothingBeyond, AskedIsOpen
<1>4. ConfirmsChosen' /\ PendingIsVerified'
  BY DEF UploadConfirmed, Leave, RecorderInv, ConfirmsChosen, PendingIsVerified, Submitting
<1>5. TypeOK'
  <2>1. /\ mic' \in [Generations -> {"none", "asked", "live", "off"}]
        /\ rec' \in [Generations -> {"none", "recording", "stopping", "failed", "inactive"}]
        /\ recording' = 0 /\ urls' = {}
    BY <1>1, ReleaseEffect
  <2>2. /\ mounted' \in BOOLEAN /\ stage' \in {"idle", "queued"} /\ call' = "none"
        /\ pending' \in 0..MaxGeneration /\ verified' \in 0..MaxGeneration
    <3>1. CASE UploadConfirmed
      <4>1. mounted' = mounted /\ pending' = pending /\ verified' = verified
        BY <3>1 DEF UploadConfirmed
      <4>2. stage' = "queued" /\ call' = "none"
        BY <3>1 DEF UploadConfirmed
      <4>3. /\ mounted \in BOOLEAN
            /\ pending \in 0..MaxGeneration /\ verified \in 0..MaxGeneration
        BY DEF RecorderInv, TypeOK
      <4>4. QED
        BY <4>1, <4>2, <4>3
    <3>2. CASE Leave
      <4>1. mounted' = FALSE /\ stage' = "idle" /\ call' = "none" /\ pending' = 0 /\ verified' = 0
        BY <3>2 DEF Leave
      <4>2. mounted' \in BOOLEAN
        BY <4>1
      <4>3. QED
        BY <4>1, <4>2
    <3>3. QED
      BY <3>1, <3>2
  <2>3. (call' # "none" <=> stage' = "uploading") /\ ~ (recording' # 0)
    BY <2>1, <2>2
  <2>4. QED
    BY <1>1, <2>1, <2>2, <2>3 DEF TypeOK
<1>6. QED
  BY <1>2, <1>3, <1>4, <1>5 DEF RecorderInv

LEMMA EnterStep == RecorderInv /\ Enter => RecorderInv'
  BY HookUnchanged DEF Enter, RecorderInv, TypeOK, MicOnlyInSession, ReviewIsCurrent, IsCurrent,
     ConfirmsChosen, NothingBeyond, AskedIsOpen, PendingIsVerified, Submitting, hook, submission

LEMMA NextRecorder == RecorderInv /\ [Next]_vars => RecorderInv'
<1> SUFFICES ASSUME RecorderInv, [Next]_vars PROVE RecorderInv'
  OBVIOUS
<1>1. CASE Start \/ Discard
  BY <1>1, StartStep, DiscardStep
<1>2. ASSUME NEW g \in Generations, PermissionAnswer(g) \/ Stop(g) \/ OnError(g) \/ OnStop(g)
      PROVE  RecorderInv'
  BY <1>2, AnswerStep, StopStep, ErrorStep, OnStopStep
<1>3. CASE \/ UseRecording \/ RetryUpload \/ RetryConfirmation \/ Hashed
           \/ AttemptCreated \/ BlobUploaded \/ SubmissionFailed
  BY <1>3, SubmissionStep
<1>4. CASE UploadConfirmed \/ Leave
  BY <1>4, EndStep
<1>5. CASE Enter
  BY <1>5, EnterStep
<1>6. CASE UNCHANGED vars
  BY <1>6 DEF vars, hook, submission, RecorderInv, TypeOK, MicOnlyInSession, ReviewIsCurrent,
     IsCurrent, ConfirmsChosen, NothingBeyond, AskedIsOpen, PendingIsVerified, Submitting
<1>7. QED
  BY <1>1, <1>2, <1>3, <1>4, <1>5, <1>6 DEF Next

\* The practice page keeps the types of its state and all of the above, through any
\* number of sessions and submissions.
THEOREM RecorderInvariant == Spec => []RecorderInv
<1>1. Init => RecorderInv
  BY InitRecorder
<1>2. RecorderInv /\ [Next]_vars => RecorderInv'
  BY NextRecorder
<1>3. QED
  BY <1>1, <1>2, PTL DEF Spec

\* The microphone is open only while the current session says that it records.
THEOREM MicrophoneIsClosed == Spec => []MicOnlyInSession
<1>1. RecorderInv => MicOnlyInSession
  BY DEF RecorderInv
<1>2. QED
  BY <1>1, RecorderInvariant, PTL

\* No stop event of an earlier session reaches the review.
THEOREM ReviewedTakeIsCurrent == Spec => []ReviewIsCurrent
<1>1. RecorderInv => ReviewIsCurrent
  BY DEF RecorderInv
<1>2. QED
  BY <1>1, RecorderInvariant, PTL

\* What is confirmed is the take submitted last.
THEOREM ConfirmedTakeIsChosen == Spec => []ConfirmsChosen
<1>1. RecorderInv => ConfirmsChosen
  BY DEF RecorderInv
<1>2. QED
  BY <1>1, RecorderInvariant, PTL
=============================================================================
