------------------------ MODULE UploadLifecycleProofs ------------------------
(***************************************************************************)
(* Uploads and their confirmation, for any recordings, any requests and    *)
(* any number of attempts, whatever requests the client lets overlap.      *)
(***************************************************************************)
EXTENDS UploadLifecycle, TLAPS

Working == {"superseding", "replacing", "verifying", "sealing"}
Analysed == {"queued", "analyzing", "analysis_failed", "completed"}

\* A request brings its recording, or has an attempt that exists.
RequestOK(p) ==
    /\ pc[p] \in Creating => recorded[p] \in Recordings
    /\ pc[p] \in Working => work[p] \in Attempts /\ Status(work[p]) # "absent"

AnalysedIsSealed == \A a \in Attempts : Status(a) \in Analysed => a \in sealed

UploadInv ==
    /\ TypeOK
    /\ object \in [Attempts -> Recordings \union {NoRecording}]
    /\ \A p \in Requests : RequestOK(p)
    /\ AnalysedIsSealed

Rows == [status : Statuses, checksum : Recordings \union {NoRecording}, retry : BOOLEAN]

\* Types of what requests keep.
RequestTypes ==
    /\ pc \in [Requests -> PCs]
    /\ work \in [Requests -> Attempts \union {0}]
    /\ recorded \in [Requests -> Recordings \union {NoRecording}]

OnlyRequest(p) ==
    \A q \in Requests \ {p} : pc'[q] = pc[q] /\ work'[q] = work[q] /\ recorded'[q] = recorded[q]

\* Types of the rows: only an absent row has no checksum, and what lies in the store is
\* what the row names.
RowTypes ==
    /\ attempt \in [Attempts -> Rows]
    /\ \A a \in Attempts : attempt[a].status = "absent" <=> attempt[a].checksum = NoRecording
    /\ object \in [Attempts -> Recordings \union {NoRecording}]
    /\ \A a \in Attempts : object[a] \in {NoRecording, attempt[a].checksum}

HistoryTypes == crossed \subseteq Requests /\ contested \subseteq Attempts

LEMMA UploadTypes ==
    ASSUME UploadInv
    PROVE  /\ RequestTypes /\ RowTypes /\ HistoryTypes /\ sealed \subseteq Attempts
           /\ url \in [Attempts -> {"none", "live", "expired"}]
  BY DEF UploadInv, TypeOK, RequestTypes, RowTypes, Rows, HistoryTypes

\* The parts of the invariant back together.
LEMMA Together ==
    ASSUME RequestTypes', RowTypes', sealed' \subseteq Attempts,
           url' \in [Attempts -> {"none", "live", "expired"}],
           answer' \in {"none", "accepted", "refused", "error"},
           HistoryTypes',
           \A p \in Requests : RequestOK(p)',
           AnalysedIsSealed'
    PROVE  UploadInv'
  BY DEF UploadInv, TypeOK, RequestTypes, RowTypes, Rows, HistoryTypes

LEMMA RespondEffect ==
    ASSUME RequestTypes, NEW p \in Requests, Respond(p)
    PROVE  RequestTypes' /\ OnlyRequest(p) /\ pc'[p] = "idle"
  BY DEF RequestTypes, Respond, OnlyRequest, PCs, Creating, Completing

\* Requests other than p are as they were while no row disappears.
LEMMA OthersStay ==
    ASSUME UploadInv, NEW p \in Requests, OnlyRequest(p), RequestOK(p)',
           \A a \in Attempts : attempt[a].status # "absent" => attempt'[a].status # "absent"
    PROVE  \A q \in Requests : RequestOK(q)'
<1>1. ASSUME NEW q \in Requests \ {p} PROVE RequestOK(q)'
  <2>1. RequestOK(q) /\ pc'[q] = pc[q] /\ work'[q] = work[q] /\ recorded'[q] = recorded[q]
    BY DEF UploadInv, OnlyRequest
  <2>2. QED
    BY <2>1 DEF RequestOK, Status
<1>2. QED
  BY <1>1

\* A step of one request that changes no row, no object and no seal.
LEMMA RequestOnly ==
    ASSUME UploadInv, HistoryTypes', NEW p \in Requests, OnlyRequest(p), RequestTypes', RequestOK(p)',
           UNCHANGED <<attempt, sealed, object>>,
           url' \in [Attempts -> {"none", "live", "expired"}],
           answer' \in {"none", "accepted", "refused", "error"}
    PROVE  UploadInv'
<1>1. attempt' = attempt /\ sealed' = sealed /\ object' = object
  OBVIOUS
<1>2. RowTypes' /\ sealed' \subseteq Attempts
  BY <1>1, UploadTypes DEF RowTypes
<1>3. \A q \in Requests : RequestOK(q)'
  BY <1>1, OthersStay
<1>4. AnalysedIsSealed'
  BY <1>1 DEF UploadInv, AnalysedIsSealed, Status
<1>5. QED
  BY <1>2, <1>3, <1>4, Together

\* A step of the environment, or a client's call that leaves no trace in its request.
LEMMA RequestsStay ==
    ASSUME UploadInv, HistoryTypes', UNCHANGED request, RowTypes',
           \A a \in Attempts : attempt[a].status # "absent" => attempt'[a].status # "absent",
           sealed' = sealed, AnalysedIsSealed',
           url' \in [Attempts -> {"none", "live", "expired"}],
           answer' \in {"none", "accepted", "refused", "error"}
    PROVE  UploadInv'
<1>1. pc' = pc /\ work' = work /\ recorded' = recorded
  BY DEF request
<1>2. RequestTypes' /\ sealed' \subseteq Attempts
  BY <1>1, UploadTypes DEF RequestTypes
<1>3. \A q \in Requests : RequestOK(q)'
  BY <1>1 DEF UploadInv, RequestOK, Status
<1>4. QED
  BY <1>2, <1>3, Together

\* A new row over rows that are as they were, or one of them abandoned.
LEMMA IssueEffect ==
    ASSUME UploadInv, NEW a \in Attempts, NEW r \in Recordings, NEW isRetry \in BOOLEAN,
           NEW others \in [Attempts -> Rows], Issue(a, r, isRetry, others),
           \A b \in Attempts : \/ others[b] = attempt[b]
                               \/ /\ others[b].checksum = attempt[b].checksum
                                  /\ others[b].status = "abandoned"
                                  /\ others[b].retry = attempt[b].retry
                                  /\ attempt[b].status # "absent",
           object' = object, sealed' = sealed
    PROVE  /\ RowTypes' /\ AnalysedIsSealed' /\ url' \in [Attempts -> {"none", "live", "expired"}]
           /\ attempt[a].status = "absent"
           /\ attempt'[a] = [status |-> "uploading", checksum |-> r, retry |-> isRetry]
           /\ \A b \in Attempts \ {a} : attempt'[b] = others[b]
           /\ \A b \in Attempts : attempt[b].status # "absent" => attempt'[b].status # "absent"
<1>1. /\ attempt[a].status = "absent" /\ attempt' = [others EXCEPT ![a] =
            [status |-> "uploading", checksum |-> r, retry |-> isRetry]]
      /\ url' = [url EXCEPT ![a] = "live"]
  BY DEF Issue, Status
<1>2. [status |-> "uploading", checksum |-> r, retry |-> isRetry] \in Rows
  BY DEF Rows, Statuses
<1>3. attempt' \in [Attempts -> Rows]
  BY <1>1, <1>2
<1>4. /\ attempt'[a].status = "uploading" /\ attempt'[a].checksum = r
      /\ attempt'[a] = [status |-> "uploading", checksum |-> r, retry |-> isRetry]
  BY <1>1
<1>5. \A b \in Attempts \ {a} : attempt'[b] = others[b]
  BY <1>1
<1>6. RowTypes
  BY UploadTypes
<1>7. r # NoRecording /\ attempt[a].checksum = NoRecording
  BY <1>1, <1>6, RecordingsAssumption DEF RowTypes
<1>8. \A b \in Attempts \ {a} :
          attempt'[b].checksum = attempt[b].checksum
          /\ (attempt'[b].status = "absent" <=> attempt[b].status = "absent")
  BY <1>5
<1>9. \A b \in Attempts : attempt'[b].status = "absent" <=> attempt'[b].checksum = NoRecording
  BY <1>4, <1>6, <1>7, <1>8 DEF RowTypes
<1>10. \A b \in Attempts : object'[b] \in {NoRecording, attempt'[b].checksum}
  BY <1>6, <1>7, <1>8 DEF RowTypes
<1>11. RowTypes'
  BY <1>3, <1>6, <1>9, <1>10 DEF RowTypes
<1>12. AnalysedIsSealed'
  BY <1>4, <1>5 DEF UploadInv, AnalysedIsSealed, Status, Analysed
<1>13. url' \in [Attempts -> {"none", "live", "expired"}]
  BY <1>1, UploadTypes
<1>14. QED
  BY <1>1, <1>4, <1>5, <1>8, <1>11, <1>12, <1>13

-----------------------------------------------------------------------------
(***************************************************************************)
(* Every client.                                                           *)
(***************************************************************************)
LEMMA CreateKeeps ==
    ASSUME UploadInv, HistoryTypes', NEW p \in Requests, CreateStep(p)
    PROVE  UploadInv'
<1>1. /\ RequestTypes /\ RowTypes /\ RequestOK(p)
      /\ answer \in {"none", "accepted", "refused", "error"} /\ url \in [Attempts -> {"none", "live", "expired"}]
  BY UploadTypes DEF UploadInv, TypeOK
<1>2. ASSUME NEW r \in Recordings, NEW a \in Attempts, ResumeOpen(p, r, a) PROVE UploadInv'
  <2>1. url' \in [Attempts -> {"none", "live", "expired"}] /\ answer' = answer
    BY <1>1, <1>2 DEF ResumeOpen
  <2>2. attempt' = attempt /\ sealed' = sealed /\ object' = object /\ request' = request
    BY <1>2 DEF ResumeOpen
  <2>3. RowTypes' /\ AnalysedIsSealed'
    BY <1>1, <2>2 DEF RowTypes, UploadInv, AnalysedIsSealed, Status
  <2>4. QED
    BY <1>1, <2>1, <2>2, <2>3, RequestsStay
<1>3. ASSUME NEW r \in Recordings, ReadOpen(p, r) PROVE UploadInv'
  <2>1. /\ UNCHANGED <<attempt, sealed, object, url, answer>>
        /\ recorded' = [recorded EXCEPT ![p] = r]
    BY <1>3 DEF ReadOpen
  <2>2. \/ pc' = [pc EXCEPT ![p] = "creating"] /\ work' = work
        \/ \E a \in Attempts : /\ pc' = [pc EXCEPT ![p] = "superseding"]
                               /\ work' = [work EXCEPT ![p] = a] /\ Status(a) = "uploading"
    BY <1>3 DEF ReadOpen, LatestOpen, Open
  <2>3. RequestTypes' /\ OnlyRequest(p)
    BY <1>1, <2>1, <2>2 DEF RequestTypes, OnlyRequest, PCs, Creating, Completing
  <2>4. RequestOK(p)'
    BY <1>1, <2>1, <2>2 DEF RequestTypes, RequestOK, Creating, Working, Status
  <2>5. url' \in [Attempts -> {"none", "live", "expired"}] /\ answer' \in {"none", "accepted", "refused", "error"}
    BY <1>1, <2>1
  <2>6. QED
    BY <2>1, <2>3, <2>4, <2>5, RequestOnly
<1>4. ASSUME NEW a \in Attempts, Replace(p, a) PROVE UploadInv'
  <2>1. /\ pc[p] = "replacing" /\ Issue(a, recorded[p], FALSE, Superseded(p)) /\ Respond(p)
        /\ sealed' = sealed /\ object' = object /\ answer' = answer
    BY <1>4 DEF Replace
  <2>2. recorded[p] \in Recordings /\ work[p] \in Attempts /\ attempt[work[p]].status # "absent"
    BY <1>1, <2>1 DEF RequestOK, Creating, Working, Status
  <2>3. /\ Superseded(p) \in [Attempts -> Rows]
        /\ \A b \in Attempts : \/ Superseded(p)[b] = attempt[b]
                               \/ /\ Superseded(p)[b].checksum = attempt[b].checksum
                                  /\ Superseded(p)[b].status = "abandoned"
                                  /\ Superseded(p)[b].retry = attempt[b].retry
                                  /\ attempt[b].status # "absent"
    BY <1>1, <2>2 DEF Superseded, RowTypes, Rows, Statuses
  <2>4. /\ RowTypes' /\ AnalysedIsSealed' /\ url' \in [Attempts -> {"none", "live", "expired"}]
        /\ \A b \in Attempts : attempt[b].status # "absent" => attempt'[b].status # "absent"
    BY <2>1, <2>2, <2>3, IssueEffect
  <2>5. RequestTypes' /\ OnlyRequest(p) /\ pc'[p] = "idle"
    BY <1>1, <2>1, RespondEffect
  <2>6. RequestOK(p)'
    BY <2>5 DEF RequestOK, Creating, Working
  <2>7. \A q \in Requests : RequestOK(q)'
    BY <2>4, <2>5, <2>6, OthersStay
  <2>8. sealed' \subseteq Attempts
    BY <2>1, UploadTypes
  <2>9. QED
    BY <1>1, <2>1, <2>4, <2>5, <2>7, <2>8, Together
<1>5. ASSUME NEW a \in Attempts, Create(p, a) PROVE UploadInv'
  <2>1. /\ pc[p] = "creating" /\ Issue(a, recorded[p], FALSE, attempt) /\ Respond(p)
        /\ sealed' = sealed /\ object' = object /\ answer' = answer
    BY <1>5 DEF Create
  <2>2. recorded[p] \in Recordings /\ attempt \in [Attempts -> Rows]
    BY <1>1, <2>1 DEF RequestOK, Creating, RowTypes
  <2>3. /\ RowTypes' /\ AnalysedIsSealed' /\ url' \in [Attempts -> {"none", "live", "expired"}]
        /\ \A b \in Attempts : attempt[b].status # "absent" => attempt'[b].status # "absent"
    BY <2>1, <2>2, IssueEffect
  <2>4. RequestTypes' /\ OnlyRequest(p) /\ pc'[p] = "idle"
    BY <1>1, <2>1, RespondEffect
  <2>5. RequestOK(p)'
    BY <2>4 DEF RequestOK, Creating, Working
  <2>6. \A q \in Requests : RequestOK(q)'
    BY <2>3, <2>4, <2>5, OthersStay
  <2>7. sealed' \subseteq Attempts
    BY <2>1, UploadTypes
  <2>8. QED
    BY <1>1, <2>1, <2>3, <2>4, <2>6, <2>7, Together
<1>6. ASSUME NEW source \in Attempts, NEW r \in Recordings, NEW a \in Attempts,
             CreateRetry(p, source, r, a)
      PROVE  UploadInv'
  <2>1. /\ Issue(a, r, TRUE, attempt) /\ request' = request
        /\ sealed' = sealed /\ object' = object /\ answer' = answer
    BY <1>6 DEF CreateRetry
  <2>2. attempt \in [Attempts -> Rows]
    BY <1>1 DEF RowTypes
  <2>3. /\ RowTypes' /\ AnalysedIsSealed' /\ url' \in [Attempts -> {"none", "live", "expired"}]
        /\ \A b \in Attempts : attempt[b].status # "absent" => attempt'[b].status # "absent"
    BY <2>1, <2>2, IssueEffect
  <2>4. QED
    BY <1>1, <2>1, <2>3, RequestsStay
<1>7. QED
  BY <1>2, <1>3, <1>4, <1>5, <1>6 DEF CreateStep

\* The superseded object goes, or the store fails.
LEMMA DeleteKeeps ==
    ASSUME UploadInv, HistoryTypes', NEW p \in Requests, DeleteSuperseded(p)
    PROVE  UploadInv'
<1>1. /\ RequestTypes /\ RowTypes /\ RequestOK(p) /\ pc[p] = "superseding"
      /\ answer \in {"none", "accepted", "refused", "error"} /\ url \in [Attempts -> {"none", "live", "expired"}]
  BY UploadTypes DEF UploadInv, TypeOK, DeleteSuperseded
<1>2. /\ pc' = [pc EXCEPT ![p] = "replacing"]
      /\ attempt' = attempt /\ sealed' = sealed /\ url' = url /\ answer' = answer
      /\ work' = work /\ recorded' = recorded
      /\ object' = object \/ object' = [object EXCEPT ![work[p]] = NoRecording]
  BY DEF DeleteSuperseded
<1>3. RequestTypes' /\ OnlyRequest(p) /\ RequestOK(p)'
  BY <1>1, <1>2 DEF RequestTypes, OnlyRequest, PCs, RequestOK, Creating, Working, Status, Completing
<1>4. RowTypes'
  BY <1>1, <1>2 DEF RowTypes
<1>5. \A q \in Requests : RequestOK(q)'
  BY <1>2, <1>3, OthersStay
<1>6. AnalysedIsSealed'
  BY <1>2 DEF UploadInv, AnalysedIsSealed, Status
<1>7. sealed' \subseteq Attempts
  BY <1>2, UploadTypes
<1>8. QED
  BY <1>1, <1>2, <1>3, <1>4, <1>5, <1>6, <1>7, Together

\* Requests that end without a commit.
LEMMA EndsKeep ==
    ASSUME UploadInv, HistoryTypes', NEW p \in Requests,
           \/ InstructionFails(p) \/ RefuseUpload(p) \/ Drop(p)
           \/ \E c \in Constraints : SealRefused(p, c)
    PROVE  UploadInv'
<1>1. /\ RequestTypes /\ url \in [Attempts -> {"none", "live", "expired"}]
      /\ answer \in {"none", "accepted", "refused", "error"}
  BY UploadTypes DEF UploadInv, TypeOK
<1>2. /\ Respond(p) /\ UNCHANGED <<attempt, sealed, object, url>>
      /\ answer' = answer \/ answer' \in {"accepted", "refused", "error"}
  BY DEF InstructionFails, RefuseUpload, Drop, SealRefused
<1>3. RequestTypes' /\ OnlyRequest(p) /\ pc'[p] = "idle"
  BY <1>1, <1>2, RespondEffect
<1>4. RequestOK(p)'
  BY <1>3 DEF RequestOK, Creating, Working
<1>5. QED
  BY <1>1, <1>2, <1>3, <1>4, RequestOnly

LEMMA VerifyingKeeps ==
    ASSUME UploadInv, HistoryTypes', NEW p \in Requests,
           \/ VerifyUpload(p)
           \/ \E a \in Attempts : ReplayCompletion(p, a) \/ BeginCompletion(p, a)
    PROVE  UploadInv'
<1>1. /\ RequestTypes /\ RowTypes /\ RequestOK(p) /\ url \in [Attempts -> {"none", "live", "expired"}]
      /\ answer \in {"none", "accepted", "refused", "error"}
  BY UploadTypes DEF UploadInv, TypeOK
<1>2. CASE VerifyUpload(p)
  <2>1. /\ pc[p] = "verifying" /\ pc' = [pc EXCEPT ![p] = "sealing"] /\ work' = work /\ recorded' = recorded
        /\ UNCHANGED <<attempt, sealed, object>> /\ url' = url /\ answer' = answer
    BY <1>2 DEF VerifyUpload
  <2>2. RequestTypes' /\ OnlyRequest(p) /\ RequestOK(p)'
    BY <1>1, <2>1 DEF RequestTypes, OnlyRequest, PCs, RequestOK, Creating, Working, Status, Completing
  <2>3. QED
    BY <1>1, <2>1, <2>2, RequestOnly
<1>3. ASSUME NEW a \in Attempts, ReplayCompletion(p, a) PROVE UploadInv'
  <2>1. /\ UNCHANGED <<attempt, sealed, object>> /\ url' = url /\ request' = request
        /\ answer' \in {"none", "accepted", "refused", "error"}
    BY <1>3 DEF ReplayCompletion
  <2>2. RowTypes' /\ AnalysedIsSealed'
    BY <1>1, <2>1 DEF RowTypes, UploadInv, AnalysedIsSealed, Status
  <2>3. QED
    BY <1>1, <2>1, <2>2, RequestsStay
<1>4. ASSUME NEW a \in Attempts, BeginCompletion(p, a) PROVE UploadInv'
  <2>1. /\ Status(a) = "uploading" /\ pc' = [pc EXCEPT ![p] = "verifying"]
        /\ work' = [work EXCEPT ![p] = a] /\ recorded' = recorded
        /\ UNCHANGED <<attempt, sealed, object>> /\ url' = url /\ answer' = answer
    BY <1>4 DEF BeginCompletion
  <2>2. RequestTypes' /\ OnlyRequest(p) /\ RequestOK(p)'
    BY <1>1, <2>1 DEF RequestTypes, OnlyRequest, PCs, RequestOK, Creating, Working, Status, Completing
  <2>3. QED
    BY <1>1, <2>1, <2>2, RequestOnly
<1>5. QED
  BY <1>2, <1>3, <1>4

LEMMA SealKeeps ==
    ASSUME UploadInv, HistoryTypes', NEW p \in Requests, Seal(p)
    PROVE  UploadInv'
<1>1. /\ RequestTypes /\ RowTypes /\ RequestOK(p) /\ url \in [Attempts -> {"none", "live", "expired"}]
      /\ sealed \subseteq Attempts
  BY UploadTypes DEF UploadInv
<1>2. PICK a \in Attempts : a = work[p] /\ attempt[a].status # "absent"
  BY <1>1 DEF Seal, RequestOK, Working, Status
<1>3. /\ attempt' = [attempt EXCEPT ![a].status = "queued"] /\ sealed' = sealed \union {a}
      /\ answer' = "accepted" /\ Respond(p) /\ object' = object /\ url' = url
  BY <1>2 DEF Seal
<1>4. /\ attempt' \in [Attempts -> Rows] /\ attempt'[a].status = "queued"
      /\ \A b \in Attempts : attempt'[b].checksum = attempt[b].checksum
      /\ \A b \in Attempts \ {a} : attempt'[b] = attempt[b]
  BY <1>1, <1>3 DEF RowTypes, Rows, Statuses
<1>5. RowTypes'
  BY <1>1, <1>2, <1>3, <1>4 DEF RowTypes
<1>6. RequestTypes' /\ OnlyRequest(p) /\ pc'[p] = "idle"
  BY <1>1, <1>3, RespondEffect
<1>7. \A b \in Attempts : attempt[b].status # "absent" => attempt'[b].status # "absent"
  BY <1>4
<1>8. RequestOK(p)'
  BY <1>6 DEF RequestOK, Creating, Working
<1>9. \A q \in Requests : RequestOK(q)'
  BY <1>6, <1>7, <1>8, OthersStay
<1>10. AnalysedIsSealed'
  BY <1>3, <1>4 DEF UploadInv, AnalysedIsSealed, Status
<1>11. sealed' \subseteq Attempts
  BY <1>1, <1>3
<1>12. QED
  BY <1>1, <1>3, <1>5, <1>6, <1>9, <1>10, <1>11, Together

\* The browser, the clock and the analysis.
LEMMA OutsideKeeps ==
    ASSUME UploadInv, HistoryTypes', NEW a \in Attempts,
           \/ Put(a) \/ UrlExpires(a)
           \/ AnalysisStarts(a) \/ AnalysisFails(a) \/ AnalysisCompletes(a)
    PROVE  UploadInv'
<1>1. /\ RowTypes /\ url \in [Attempts -> {"none", "live", "expired"}]
      /\ answer \in {"none", "accepted", "refused", "error"}
  BY UploadTypes DEF UploadInv, TypeOK
<1>2. CASE Put(a)
  <2>1. /\ object' = [object EXCEPT ![a] = attempt[a].checksum] /\ attempt' = attempt /\ sealed' = sealed
        /\ url' = url /\ answer' = answer /\ request' = request
    BY <1>2 DEF Put
  <2>2. attempt[a].checksum \in Recordings \union {NoRecording}
    BY <1>1 DEF RowTypes, Rows
  <2>3. RowTypes'
    BY <1>1, <2>1, <2>2 DEF RowTypes
  <2>4. AnalysedIsSealed'
    BY <2>1 DEF UploadInv, AnalysedIsSealed, Status
  <2>5. QED
    BY <1>1, <2>1, <2>3, <2>4, RequestsStay
<1>3. CASE UrlExpires(a)
  <2>1. /\ url' = [url EXCEPT ![a] = "expired"] /\ attempt' = attempt /\ sealed' = sealed
        /\ object' = object /\ answer' = answer /\ request' = request
    BY <1>3 DEF UrlExpires
  <2>2. RowTypes' /\ AnalysedIsSealed'
    BY <1>1, <2>1 DEF RowTypes, UploadInv, AnalysedIsSealed, Status
  <2>3. url' \in [Attempts -> {"none", "live", "expired"}]
    BY <1>1, <2>1
  <2>4. QED
    BY <1>1, <2>1, <2>2, <2>3, RequestsStay
<1>4. CASE AnalysisStarts(a) \/ AnalysisFails(a) \/ AnalysisCompletes(a)
  <2>1. PICK to \in {"analyzing", "analysis_failed", "completed"} :
            attempt' = [attempt EXCEPT ![a].status = to]
    BY <1>4 DEF AnalysisStarts, AnalysisFails, AnalysisCompletes, Move
  <2>2. /\ a \in sealed /\ attempt[a].status # "absent" /\ sealed' = sealed /\ object' = object
        /\ url' = url /\ answer' = answer /\ request' = request
    BY <1>4 DEF AnalysisStarts, AnalysisFails, AnalysisCompletes, Move, Status
  <2>3. /\ attempt' \in [Attempts -> Rows] /\ attempt'[a].status = to
        /\ \A b \in Attempts : attempt'[b].checksum = attempt[b].checksum
        /\ \A b \in Attempts \ {a} : attempt'[b] = attempt[b]
    BY <1>1, <2>1 DEF RowTypes, Rows, Statuses
  <2>4. RowTypes'
    BY <1>1, <2>2, <2>3 DEF RowTypes
  <2>5. AnalysedIsSealed'
    BY <2>2, <2>3 DEF UploadInv, AnalysedIsSealed, Status
  <2>6. \A b \in Attempts : attempt[b].status # "absent" => attempt'[b].status # "absent"
    BY <2>3
  <2>7. QED
    BY <1>1, <2>2, <2>4, <2>5, <2>6, RequestsStay
<1>5. QED
  BY <1>2, <1>3, <1>4

\* The history of a step is one of requests and of attempts.
LEMMA HistoryKeeps ==
    ASSUME UploadInv, [Next]_vars
    PROVE  HistoryTypes'
<1>1. HistoryTypes /\ \A p \in Requests : RequestOK(p)
  BY UploadTypes DEF UploadInv
<1>2. Crossing' \subseteq Requests
  BY DEF Crossing
<1>3. ASSUME NEW p \in Requests, Respond(p), UNCHANGED contested \/ \E a \in Attempts : Commit(p, a)
      PROVE  HistoryTypes'
  BY <1>1, <1>3 DEF Respond, Commit, HistoryTypes
<1>4. ASSUME NEW p \in Requests, CreateStep(p) PROVE HistoryTypes'
  <2>1. CASE \E r \in Recordings : ReadOpen(p, r)
    BY <1>1, <1>2, <2>1 DEF ReadOpen, Meet, HistoryTypes
  <2>2. CASE \E a \in Attempts : Replace(p, a) \/ Create(p, a)
    BY <1>3, <2>2 DEF Replace, Create
  <2>3. CASE \E r \in Recordings, a, source \in Attempts : ResumeOpen(p, r, a) \/ CreateRetry(p, source, r, a)
    BY <1>1, <2>3 DEF ResumeOpen, CreateRetry, history, HistoryTypes
  <2>4. QED
    BY <1>4, <2>1, <2>2, <2>3 DEF CreateStep
<1>5. ASSUME NEW p \in Requests, CompleteStep(p) PROVE HistoryTypes'
  <2>1. CASE \E a \in Attempts : BeginCompletion(p, a)
    BY <1>1, <1>2, <2>1 DEF BeginCompletion, Meet, HistoryTypes
  <2>2. CASE VerifyUpload(p) \/ \E a \in Attempts : ReplayCompletion(p, a)
    BY <1>1, <2>2 DEF VerifyUpload, ReplayCompletion, history, HistoryTypes
  <2>3. CASE Seal(p)
    <3>1. work[p] \in Attempts
      BY <1>1, <2>3 DEF Seal, RequestOK, Working
    <3>2. QED
      BY <1>3, <2>3, <3>1 DEF Seal
  <2>4. CASE RefuseUpload(p) \/ \E c \in Constraints : SealRefused(p, c)
    BY <1>3, <2>4 DEF RefuseUpload, SealRefused
  <2>5. QED
    BY <1>5, <2>1, <2>2, <2>3, <2>4 DEF CompleteStep
<1>6. ASSUME NEW p \in Requests, DeleteSuperseded(p) PROVE HistoryTypes'
  BY <1>1, <1>6 DEF DeleteSuperseded, history, HistoryTypes
<1>7. ASSUME NEW p \in Requests, InstructionFails(p) \/ Drop(p) PROVE HistoryTypes'
  BY <1>3, <1>7 DEF InstructionFails, Drop
<1>8. ASSUME NEW a \in Attempts,
             \/ Put(a) \/ UrlExpires(a)
             \/ AnalysisStarts(a) \/ AnalysisFails(a) \/ AnalysisCompletes(a)
      PROVE  HistoryTypes'
  BY <1>1, <1>8 DEF Put, UrlExpires, AnalysisStarts, AnalysisFails, AnalysisCompletes, Move,
     history, HistoryTypes
<1>9. CASE UNCHANGED vars
  BY <1>1, <1>9 DEF vars, history, HistoryTypes
<1>10. QED
  BY <1>4, <1>5, <1>6, <1>7, <1>8, <1>9 DEF Next

LEMMA NextUpload == UploadInv /\ [Next]_vars => UploadInv'
<1> SUFFICES ASSUME UploadInv, [Next]_vars PROVE UploadInv'
  OBVIOUS
<1>0. HistoryTypes'
  BY HistoryKeeps
<1>1. ASSUME NEW p \in Requests,
             CreateStep(p) \/ DeleteSuperseded(p) \/ InstructionFails(p) \/ CompleteStep(p) \/ Drop(p)
      PROVE  UploadInv'
  <2>1. CASE CreateStep(p)
    BY <1>0, <2>1, CreateKeeps
  <2>2. CASE DeleteSuperseded(p)
    BY <1>0, <2>2, DeleteKeeps
  <2>3. CASE InstructionFails(p) \/ Drop(p)
    BY <1>0, <2>3, EndsKeep
  <2>4. CASE CompleteStep(p)
    <3>1. CASE VerifyUpload(p) \/ \E a \in Attempts : ReplayCompletion(p, a) \/ BeginCompletion(p, a)
      BY <1>0, <3>1, VerifyingKeeps
    <3>2. CASE RefuseUpload(p) \/ \E c \in Constraints : SealRefused(p, c)
      BY <1>0, <3>2, EndsKeep
    <3>3. CASE Seal(p)
      BY <1>0, <3>3, SealKeeps
    <3>4. QED
      BY <2>4, <3>1, <3>2, <3>3 DEF CompleteStep
  <2>5. QED
    BY <1>1, <2>1, <2>2, <2>3, <2>4
<1>2. ASSUME NEW a \in Attempts,
             \/ Put(a) \/ UrlExpires(a)
             \/ AnalysisStarts(a) \/ AnalysisFails(a) \/ AnalysisCompletes(a)
      PROVE  UploadInv'
  BY <1>0, <1>2, OutsideKeeps
<1>3. CASE UNCHANGED vars
  BY <1>3 DEF vars, request, history, UploadInv, TypeOK, RequestOK, AnalysedIsSealed, Status
<1>4. QED
  BY <1>1, <1>2, <1>3 DEF Next

LEMMA InitUpload == Init => UploadInv
<1> SUFFICES ASSUME Init PROVE UploadInv
  OBVIOUS
<1>1. TypeOK
  BY BoundAssumption DEF Init, TypeOK, Statuses, PCs, Creating, Completing
<1>2. object \in [Attempts -> Recordings \union {NoRecording}]
  BY DEF Init
<1>3. \A p \in Requests : RequestOK(p)
  BY DEF Init, RequestOK, Creating, Working
<1>4. AnalysedIsSealed
  BY DEF Init, AnalysedIsSealed, Status, Analysed
<1>5. QED
  BY <1>1, <1>2, <1>3, <1>4 DEF UploadInv

\* The invariant of every client: requests work on attempts that exist, and what is
\* analysed was sealed.
THEOREM UploadInvariant == Spec => []UploadInv
<1>1. Init => UploadInv
  BY InitUpload
<1>2. UploadInv /\ [Next]_vars => UploadInv'
  BY NextUpload
<1>3. QED
  BY <1>1, <1>2, PTL DEF Spec

\* Rows, store and requests keep their types; an object is what its row names.
THEOREM UploadTypeCorrect == Spec => []TypeOK
<1>1. UploadInv => TypeOK
  BY DEF UploadInv
<1>2. QED
  BY <1>1, UploadInvariant, PTL

Begun == {"analyzing", "analysis_failed", "completed"}

\* Only a seal writes "queued", and only on an attempt that was not sealed.
LEMMA BegunStays ==
    ASSUME UploadInv, Next, NEW a \in Attempts, Status(a) \in Begun
    PROVE  attempt'[a].status \notin {"queued", "uploading"}
<1>1. attempt \in [Attempts -> Rows] /\ a \in sealed
  BY DEF UploadInv, TypeOK, Rows, AnalysedIsSealed, Begun, Analysed
<1>2. CASE attempt' = attempt
  BY <1>2 DEF Status, Begun
<1>3. ASSUME NEW b \in Attempts, NEW r \in Recordings \union {NoRecording}, NEW isRetry \in BOOLEAN,
             NEW others, Issue(b, r, isRetry, others), others[a].status = attempt[a].status,
             others \in [Attempts -> Rows]
      PROVE  attempt'[a].status \notin {"queued", "uploading"}
  <2>1. a # b
    BY <1>3 DEF Issue, Status, Begun
  <2>2. attempt'[a] = others[a]
    BY <1>3, <2>1 DEF Issue
  <2>3. QED
    BY <1>3, <2>2 DEF Status, Begun
<1>4. ASSUME NEW p \in Requests, NEW b \in Attempts, Replace(p, b)
      PROVE  attempt'[a].status \notin {"queued", "uploading"}
  <2>1. Issue(b, recorded[p], FALSE, Superseded(p)) /\ RequestOK(p) /\ pc[p] = "replacing"
    BY <1>4 DEF Replace, UploadInv
  <2>2. a # b
    BY <2>1 DEF Issue, Status, Begun
  <2>3. attempt'[a] = Superseded(p)[a] /\ work[p] \in Attempts
    BY <1>1, <2>1, <2>2 DEF Issue, Superseded, RequestOK, Working
  <2>4. Superseded(p)[a].status = "abandoned" \/ Superseded(p)[a] = attempt[a]
    BY <1>1, <2>3 DEF Superseded, Rows
  <2>5. QED
    BY <2>3, <2>4 DEF Status, Begun
<1>5. ASSUME NEW p \in Requests, CreateStep(p) PROVE attempt'[a].status \notin {"queued", "uploading"}
  <2>1. CASE \E b \in Attempts : Create(p, b)
    <3>1. PICK b \in Attempts : Issue(b, recorded[p], FALSE, attempt)
      BY <2>1 DEF Create
    <3>2. recorded[p] \in Recordings \union {NoRecording}
      BY DEF UploadInv, TypeOK
    <3>3. QED
      BY <1>1, <1>3, <3>1, <3>2
  <2>2. CASE \E r \in Recordings, b, source \in Attempts : CreateRetry(p, source, r, b)
    BY <1>1, <1>3, <2>2 DEF CreateRetry
  <2>3. CASE \E r \in Recordings, b \in Attempts : ResumeOpen(p, r, b) \/ ReadOpen(p, r)
    BY <1>2, <2>3 DEF ResumeOpen, ReadOpen
  <2>4. QED
    BY <1>4, <1>5, <2>1, <2>2, <2>3 DEF CreateStep
<1>6. ASSUME NEW p \in Requests, Seal(p) PROVE attempt'[a].status \notin {"queued", "uploading"}
  <2>1. PICK b \in Attempts : b = work[p]
    BY <1>6 DEF Seal, UploadInv, RequestOK, Working
  <2>2. b \notin sealed /\ attempt' = [attempt EXCEPT ![b].status = "queued"]
    BY <1>6, <2>1 DEF Seal, MaySeal
  <2>3. attempt'[a] = attempt[a]
    BY <1>1, <2>2
  <2>4. QED
    BY <2>3 DEF Status, Begun
<1>7. ASSUME NEW b \in Attempts, AnalysisStarts(b) \/ AnalysisFails(b) \/ AnalysisCompletes(b)
      PROVE  attempt'[a].status \notin {"queued", "uploading"}
  <2>1. PICK to \in Begun : attempt' = [attempt EXCEPT ![b].status = to]
    BY <1>7 DEF AnalysisStarts, AnalysisFails, AnalysisCompletes, Move, Begun
  <2>2. attempt'[a].status \in Begun
    BY <1>1, <2>1 DEF Status, Rows
  <2>3. QED
    BY <2>2 DEF Begun
<1>8. ASSUME NEW b \in Attempts, Put(b) \/ UrlExpires(b) PROVE attempt'[a].status \notin {"queued", "uploading"}
  BY <1>2, <1>8 DEF Put, UrlExpires
<1>9. ASSUME NEW p \in Requests,
             DeleteSuperseded(p) \/ InstructionFails(p) \/ CompleteStep(p) \/ Drop(p), ~Seal(p)
      PROVE  attempt'[a].status \notin {"queued", "uploading"}
  BY <1>2, <1>9 DEF DeleteSuperseded, InstructionFails, CompleteStep, Drop, ReplayCompletion,
     BeginCompletion, VerifyUpload, RefuseUpload, SealRefused
<1>10. QED
  BY <1>5, <1>6, <1>7, <1>8, <1>9 DEF Next

\* A replayed completion never throws an attempt back, whatever the client does.
THEOREM ReplayIsSafe == Spec => NeverRequeued
<1>1. UploadInv /\ [Next]_vars =>
        [\A a \in Attempts : Status(a) \in {"analyzing", "analysis_failed", "completed"}
            => attempt'[a].status \notin {"queued", "uploading"}]_vars
  BY BegunStays DEF Begun
<1>2. QED
  BY <1>1, UploadInvariant, PTL DEF Spec, NeverRequeued

-----------------------------------------------------------------------------
(***************************************************************************)
(* Requests that overlap.                                                  *)
(***************************************************************************)
Replacing == {"superseding", "replacing"}

\* Whoever meets a request that can undo its commit is crossed from then on.
CrossingsSeen == Crossing \subseteq crossed

IssuedInOrder ==
    \A a, b \in Attempts : b < a /\ Status(a) # "absent" => Status(b) # "absent"

SealedIsClosed == \A a \in sealed : Status(a) \notin {"absent", "uploading"}

\* An open attempt that no overlap issued is the one the next create will find.
OpenIsLatest ==
    \A a \in Attempts \ contested : Open(a) => \A b \in Attempts : Open(b) => b <= a

SealedIsKept ==
    \A a \in sealed \ contested : Status(a) \in Analysed /\ object[a] = attempt[a].checksum

\* What a request has read and still counts on: a creating one knows the open attempt
\* that no overlap issued, a replacing one has none that is safely sealed, and an
\* uncrossed completion still has the object it verified.
Informed(p) ==
    /\ pc[p] \in Creating =>
         \A a \in Attempts \ contested : Open(a) => pc[p] # "creating" /\ work[p] = a
    /\ pc[p] \in Replacing => work[p] \notin sealed \ contested
    /\ pc[p] = "sealing" /\ p \notin crossed => object[work[p]] = attempt[work[p]].checksum

OverlapInv ==
    /\ UploadInv
    /\ CrossingsSeen
    /\ IssuedInOrder
    /\ SealedIsClosed
    /\ OpenIsLatest
    /\ SealedIsKept
    /\ \A p \in Requests : Informed(p)

\* The request is at work on what it was, or has ended and is forgotten.
LEMMA NoNewCrossing ==
    ASSUME CrossingsSeen, NEW p \in Requests, OnlyRequest(p), crossed \ {p} \subseteq crossed',
           \/ pc'[p] = "idle"
           \/ /\ p \in crossed => p \in crossed'
              /\ work'[p] = work[p]
              /\ \/ pc[p] = "superseding" /\ pc'[p] = "replacing"
                 \/ pc[p] = "verifying" /\ pc'[p] = "sealing"
    PROVE  CrossingsSeen'
<1>1. SUFFICES ASSUME NEW q \in Requests, NEW r \in Requests, Threatens(q, r)' PROVE r \in crossed'
  BY DEF CrossingsSeen, Crossing
<1>2. q # r /\ pc'[q] \in Creating /\ pc'[r] \in Creating \union Completing
  BY <1>1 DEF Threatens
<1>3. CASE pc'[p] = "idle"
  <2>1. q # p /\ r # p
    BY <1>2, <1>3 DEF Creating, Completing
  <2>2. pc'[q] = pc[q] /\ work'[q] = work[q] /\ pc'[r] = pc[r] /\ work'[r] = work[r]
    BY <2>1 DEF OnlyRequest
  <2>3. Threatens(q, r)
    BY <1>1, <2>2 DEF Threatens
  <2>4. QED
    BY <2>1, <2>3 DEF CrossingsSeen, Crossing
<1>4. CASE /\ p \in crossed => p \in crossed'
           /\ work'[p] = work[p]
           /\ \/ pc[p] = "superseding" /\ pc'[p] = "replacing"
              \/ pc[p] = "verifying" /\ pc'[p] = "sealing"
  <2>1. ASSUME NEW t \in Requests
        PROVE  /\ work'[t] = work[t]
               /\ pc'[t] \in Creating <=> pc[t] \in Creating
               /\ pc'[t] \in Completing <=> pc[t] \in Completing
               /\ pc'[t] = "creating" <=> pc[t] = "creating"
    BY <1>4 DEF OnlyRequest, Creating, Completing
  <2>2. Threatens(q, r)
    BY <1>1, <2>1 DEF Threatens
  <2>3. r \in crossed
    BY <2>2 DEF CrossingsSeen, Crossing
  <2>4. QED
    BY <1>4, <2>3
<1>5. QED
  BY <1>3, <1>4

LEMMA MetCrossing ==
    ASSUME Meet
    PROVE  CrossingsSeen'
  BY DEF Meet, CrossingsSeen

\* Nothing moves but the request p; the others rely on what they relied on before.
LEMMA OverlapRequestOnly ==
    ASSUME OverlapInv, UploadInv', NEW p \in Requests, OnlyRequest(p),
           UNCHANGED <<attempt, sealed, object, contested>>,
           crossed \ {p} \subseteq crossed', CrossingsSeen', Informed(p)'
    PROVE  OverlapInv'
<1>1. attempt' = attempt /\ sealed' = sealed /\ object' = object /\ contested' = contested
  OBVIOUS
<1>2. ASSUME NEW q \in Requests \ {p} PROVE Informed(q)'
  <2>1. /\ Informed(q) /\ pc'[q] = pc[q] /\ work'[q] = work[q]
        /\ q \notin crossed' => q \notin crossed
    BY DEF OverlapInv, OnlyRequest
  <2>2. QED
    BY <1>1, <2>1 DEF Informed, Open, Status
<1>3. IssuedInOrder' /\ SealedIsClosed' /\ OpenIsLatest' /\ SealedIsKept'
  BY <1>1 DEF OverlapInv, IssuedInOrder, SealedIsClosed, OpenIsLatest, SealedIsKept, Open, Status
<1>4. QED
  BY <1>2, <1>3 DEF OverlapInv

LEMMA OverlapEnds ==
    ASSUME OverlapInv, UploadInv', NEW p \in Requests,
           \/ InstructionFails(p) \/ RefuseUpload(p) \/ Drop(p)
           \/ \E c \in Constraints : SealRefused(p, c)
    PROVE  OverlapInv'
<1>1. RequestTypes /\ CrossingsSeen
  BY UploadTypes DEF OverlapInv
<1>2. Respond(p) /\ UNCHANGED <<attempt, sealed, object, contested>>
  BY DEF InstructionFails, RefuseUpload, Drop, SealRefused
<1>3. OnlyRequest(p) /\ pc'[p] = "idle" /\ crossed' = crossed \ {p}
  BY <1>1, <1>2, RespondEffect DEF Respond
<1>4. CrossingsSeen'
  BY <1>1, <1>3, NoNewCrossing
<1>5. Informed(p)'
  BY <1>3 DEF Informed, Creating, Replacing
<1>6. QED
  BY <1>2, <1>3, <1>4, <1>5, OverlapRequestOnly

LEMMA OverlapVerifies ==
    ASSUME OverlapInv, UploadInv', NEW p \in Requests,
           VerifyUpload(p) \/ \E a \in Attempts : BeginCompletion(p, a)
    PROVE  OverlapInv'
<1>1. RequestTypes /\ CrossingsSeen
  BY UploadTypes DEF OverlapInv
<1>2. CASE VerifyUpload(p)
  <2>1. /\ pc[p] = "verifying" /\ pc' = [pc EXCEPT ![p] = "sealing"] /\ work' = work
        /\ recorded' = recorded /\ attempt' = attempt /\ sealed' = sealed /\ object' = object
        /\ crossed' = crossed /\ contested' = contested
        /\ object[work[p]] = attempt[work[p]].checksum
    BY <1>2 DEF VerifyUpload, Verified, history
  <2>2. OnlyRequest(p) /\ pc'[p] = "sealing"
    BY <1>1, <2>1 DEF RequestTypes, OnlyRequest
  <2>3. CrossingsSeen'
    BY <1>1, <2>1, <2>2, NoNewCrossing
  <2>4. Informed(p)'
    BY <2>1, <2>2 DEF Informed, Creating, Replacing
  <2>5. QED
    BY <2>1, <2>2, <2>3, <2>4, OverlapRequestOnly
<1>3. ASSUME NEW a \in Attempts, BeginCompletion(p, a) PROVE OverlapInv'
  <2>1. /\ pc' = [pc EXCEPT ![p] = "verifying"] /\ work' = [work EXCEPT ![p] = a]
        /\ recorded' = recorded /\ Meet
        /\ UNCHANGED <<attempt, sealed, object, contested>>
    BY <1>3 DEF BeginCompletion
  <2>2. OnlyRequest(p) /\ pc'[p] = "verifying"
    BY <1>1, <2>1 DEF RequestTypes, OnlyRequest
  <2>3. Informed(p)'
    BY <2>2 DEF Informed, Creating, Replacing
  <2>4. CrossingsSeen' /\ crossed \ {p} \subseteq crossed'
    BY <2>1, MetCrossing DEF Meet
  <2>5. QED
    BY <2>1, <2>2, <2>3, <2>4, OverlapRequestOnly
<1>4. QED
  BY <1>2, <1>3

\* A create that begins finds the open attempt that no overlap issued, if there is one.
LEMMA OverlapReads ==
    ASSUME OverlapInv, UploadInv', NEW p \in Requests, NEW r \in Recordings, ReadOpen(p, r)
    PROVE  OverlapInv'
<1>1. RequestTypes /\ OpenIsLatest /\ SealedIsClosed
  BY UploadTypes DEF OverlapInv
<1>2. /\ UNCHANGED <<attempt, sealed, object, contested>>
      /\ recorded' = [recorded EXCEPT ![p] = r] /\ Meet
  BY DEF ReadOpen
<1>3. attempt' = attempt /\ sealed' = sealed /\ contested' = contested
  BY <1>2
<1>4. CrossingsSeen' /\ crossed \ {p} \subseteq crossed'
  BY <1>2, MetCrossing DEF Meet
<1>5. \A a \in Attempts \ contested : Open(a) => LatestOpen(a)
  BY <1>1 DEF OpenIsLatest, LatestOpen
<1>6. CASE /\ \A a \in Attempts : ~LatestOpen(a)
           /\ pc' = [pc EXCEPT ![p] = "creating"] /\ work' = work
  <2>1. OnlyRequest(p) /\ pc'[p] = "creating"
    BY <1>1, <1>2, <1>6 DEF RequestTypes, OnlyRequest
  <2>2. \A a \in Attempts \ contested : ~Open(a)
    BY <1>5, <1>6
  <2>3. Informed(p)'
    BY <1>3, <2>1, <2>2 DEF Informed, Replacing, Open, Status
  <2>4. QED
    BY <1>2, <1>4, <2>1, <2>3, OverlapRequestOnly
<1>7. ASSUME NEW a \in Attempts, LatestOpen(a), pc' = [pc EXCEPT ![p] = "superseding"],
             work' = [work EXCEPT ![p] = a]
      PROVE  OverlapInv'
  <2>1. OnlyRequest(p) /\ pc'[p] = "superseding" /\ work'[p] = a
    BY <1>1, <1>2, <1>7 DEF RequestTypes, OnlyRequest
  <2>2. ASSUME NEW b \in Attempts \ contested, Open(b) PROVE b = a
    <3>1. b <= a /\ a <= b
      BY <1>5, <1>7, <2>2 DEF LatestOpen
    <3>2. PICK x \in Int, y \in Int : x = a /\ y = b
      BY BoundAssumption DEF Attempts
    <3>3. QED
      BY <3>1, <3>2
  <2>3. a \notin sealed
    BY <1>1, <1>7 DEF SealedIsClosed, LatestOpen, Open
  <2>4. Informed(p)'
    BY <1>3, <2>1, <2>2, <2>3 DEF Informed, Creating, Open, Status
  <2>5. QED
    BY <1>2, <1>4, <2>1, <2>4, OverlapRequestOnly
<1>8. QED
  BY <1>6, <1>7 DEF ReadOpen

\* The object deleted is that of no safely sealed attempt and of no uncrossed completion.
LEMMA OverlapDeletes ==
    ASSUME OverlapInv, UploadInv', NEW p \in Requests, DeleteSuperseded(p)
    PROVE  OverlapInv'
<1>1. /\ RequestTypes /\ RowTypes /\ RequestOK(p) /\ Informed(p) /\ CrossingsSeen
      /\ pc[p] = "superseding" /\ sealed \subseteq Attempts
  BY UploadTypes DEF OverlapInv, UploadInv, DeleteSuperseded
<1>2. PICK a \in Attempts : a = work[p] /\ a \notin sealed \ contested
  BY <1>1 DEF RequestOK, Working, Informed, Replacing
<1>3. /\ pc' = [pc EXCEPT ![p] = "replacing"] /\ work' = work /\ recorded' = recorded
      /\ attempt' = attempt /\ sealed' = sealed /\ crossed' = crossed /\ contested' = contested
  BY DEF DeleteSuperseded, history
<1>4. \A b \in Attempts \ {a} : object'[b] = object[b]
  BY <1>1, <1>2 DEF DeleteSuperseded, RowTypes
<1>5. OnlyRequest(p) /\ pc'[p] = "replacing" /\ work'[p] = a
  BY <1>1, <1>2, <1>3 DEF RequestTypes, OnlyRequest
<1>6. CrossingsSeen'
  BY <1>1, <1>3, <1>5, NoNewCrossing
<1>7. Informed(p)'
  BY <1>1, <1>3, <1>5 DEF Informed, Creating, Replacing, Open, Status
<1>8. ASSUME NEW q \in Requests \ {p} PROVE Informed(q)'
  <2>1. /\ Informed(q) /\ RequestOK(q) /\ pc'[q] = pc[q] /\ work'[q] = work[q]
    BY <1>5 DEF OverlapInv, UploadInv, OnlyRequest
  <2>2. ASSUME pc[q] = "sealing", q \notin crossed PROVE object'[work[q]] = attempt[work[q]].checksum
    <3>1. ~Threatens(p, q)
      BY <1>1, <2>2 DEF CrossingsSeen, Crossing
    <3>2. work[q] # a
      BY <1>1, <1>2, <2>2, <3>1 DEF Threatens, Creating, Completing
    <3>3. QED
      BY <1>4, <2>1, <2>2, <3>2 DEF Informed, RequestOK, Working
  <2>3. QED
    BY <1>3, <2>1, <2>2 DEF Informed, Open, Status
<1>9. SealedIsKept'
  BY <1>1, <1>2, <1>3, <1>4 DEF OverlapInv, SealedIsKept, Status
<1>10. IssuedInOrder' /\ SealedIsClosed' /\ OpenIsLatest'
  BY <1>3 DEF OverlapInv, IssuedInOrder, SealedIsClosed, OpenIsLatest, Open, Status
<1>11. QED
  BY <1>6, <1>7, <1>8, <1>9, <1>10 DEF OverlapInv

\* The row a is new; the others are as they were, or abandoned and not safely sealed.
IssuedBeside(a) ==
    /\ Status(a) = "absent"
    /\ \A b \in Attempts : b < a => Status(b) # "absent"
    /\ attempt'[a].status = "uploading"
    /\ \A b \in Attempts \ {a} :
         \/ attempt'[b] = attempt[b]
         \/ /\ attempt'[b].status = "abandoned" /\ attempt'[b].checksum = attempt[b].checksum
            /\ b \notin sealed \ contested
    /\ \A b \in Attempts \ {a} : b \in contested' <=> b \in contested
    /\ sealed' = sealed /\ object' = object

\* A new attempt that is a retry, or beside which no open attempt is left that no
\* overlap issued.
LEMMA IssueHolds ==
    ASSUME OverlapInv, UploadInv', NEW a \in Attempts, IssuedBeside(a),
           \/ attempt'[a].retry
           \/ \A b \in Attempts \ contested : b # a /\ Open(b) => attempt'[b].status = "abandoned"
    PROVE  /\ IssuedInOrder' /\ SealedIsClosed' /\ OpenIsLatest' /\ SealedIsKept'
           /\ \A q \in Requests :
                /\ pc'[q] = pc[q] /\ work'[q] = work[q]
                /\ q \notin crossed' => q \notin crossed
                /\ attempt'[a].retry \/ a \in contested' \/ pc[q] \notin Creating
                => Informed(q)'
<1>1. /\ RowTypes /\ IssuedInOrder /\ SealedIsClosed /\ OpenIsLatest /\ SealedIsKept
      /\ sealed \subseteq Attempts
  BY UploadTypes DEF OverlapInv
<1>2. /\ attempt[a].status = "absent" /\ attempt'[a].status = "uploading"
      /\ \A b \in Attempts : b < a => attempt[b].status # "absent"
      /\ sealed' = sealed /\ object' = object
      /\ \A b \in Attempts \ {a} : b \in contested' <=> b \in contested
  BY DEF IssuedBeside, Status
<1>3. \A b \in Attempts \ {a} :
          /\ attempt'[b].checksum = attempt[b].checksum
          /\ attempt[b].status # "absent" => attempt'[b].status # "absent"
          /\ attempt'[b].status = attempt[b].status \/ attempt'[b].status = "abandoned"
          /\ b \in sealed \ contested => attempt'[b] = attempt[b]
          /\ attempt'[b].status # "abandoned" => attempt'[b] = attempt[b]
  BY DEF IssuedBeside
<1>4. \A b \in Attempts : attempt[b].status # "absent" => b <= a
  <2>1. SUFFICES ASSUME NEW b \in Attempts, attempt[b].status # "absent" PROVE b <= a
    OBVIOUS
  <2>2. ~(a < b)
    BY <1>1, <1>2, <2>1 DEF IssuedInOrder, Status
  <2>3. PICK x \in Int, y \in Int : x = a /\ y = b
    BY BoundAssumption DEF Attempts
  <2>4. QED
    BY <2>2, <2>3
<1>5. IssuedInOrder'
  <2>1. SUFFICES ASSUME NEW c \in Attempts, NEW b \in Attempts, b < c, attempt'[c].status # "absent"
                 PROVE  attempt'[b].status # "absent"
    BY DEF IssuedInOrder, Status
  <2>2. CASE b = a
    BY <1>2, <2>2
  <2>3. CASE b # a /\ c = a
    BY <1>2, <1>3, <2>1, <2>3
  <2>4. CASE b # a /\ c # a /\ attempt[c].status # "absent"
    BY <1>1, <1>3, <2>1, <2>4 DEF IssuedInOrder, Status
  <2>5. CASE b # a /\ c # a /\ attempt[c].status = "absent"
    <3>1. attempt'[c].status = "abandoned" /\ attempt'[c] # attempt[c]
      BY <1>3, <2>1, <2>5
    <3>2. attempt'[c].checksum = attempt[c].checksum
      BY <1>3, <2>5
    <3>3. attempt[c].checksum = NoRecording
      BY <1>1, <2>5 DEF RowTypes
    <3>4. attempt'[c].checksum # NoRecording
      BY <3>1, UploadTypes DEF UploadInv, TypeOK
    <3>5. QED
      BY <3>2, <3>3, <3>4
  <2>6. QED
    BY <2>2, <2>3, <2>4, <2>5
<1>6. SealedIsClosed'
  <2>1. SUFFICES ASSUME NEW b \in sealed PROVE attempt'[b].status \notin {"absent", "uploading"}
    BY <1>2 DEF SealedIsClosed, Status
  <2>2. b \in Attempts \ {a} /\ attempt[b].status \notin {"absent", "uploading"}
    BY <1>1, <1>2 DEF SealedIsClosed, Status
  <2>3. QED
    BY <1>3, <2>2
<1>7. \A b \in sealed : b \in Attempts \ {a}
  BY <1>1, <1>2 DEF SealedIsClosed, Status
<1>8. SealedIsKept'
  BY <1>1, <1>2, <1>3, <1>7 DEF SealedIsKept, Status
<1>9. \A b \in Attempts \ {a} : Open(b)' => Open(b) /\ attempt'[b].status # "abandoned"
  BY <1>3 DEF Open, Status
<1>10. \A b \in Attempts \ contested' : b # a /\ Open(b)' => attempt'[a].retry
  BY <1>2, <1>9
<1>11. OpenIsLatest'
  <2>1. SUFFICES ASSUME NEW c \in Attempts, c \notin contested', Open(c)', NEW b \in Attempts, Open(b)'
                 PROVE  b <= c
    BY DEF OpenIsLatest
  <2>2. CASE c = a
    <3>1. CASE b = a
      <4>1. PICK x \in Int : x = a
        BY BoundAssumption DEF Attempts
      <4>2. QED
        BY <2>2, <3>1, <4>1
    <3>2. CASE b # a
      <4>1. attempt[b].status # "absent"
        BY <1>9, <2>1, <3>2 DEF Open, Status
      <4>2. QED
        BY <1>4, <2>2, <4>1
    <3>3. QED
      BY <3>1, <3>2
  <2>3. CASE c # a
    <3>1. b # a
      BY <1>10, <2>1, <2>3 DEF Open
    <3>2. Open(b) /\ Open(c) /\ c \notin contested
      BY <1>2, <1>9, <2>1, <2>3, <3>1
    <3>3. QED
      BY <1>1, <3>2 DEF OpenIsLatest
  <2>4. QED
    BY <2>2, <2>3
<1>12. ASSUME NEW q \in Requests, pc'[q] = pc[q], work'[q] = work[q],
              q \notin crossed' => q \notin crossed,
              attempt'[a].retry \/ a \in contested' \/ pc[q] \notin Creating
       PROVE  Informed(q)'
  <2>1. Informed(q) /\ RequestOK(q)
    BY DEF OverlapInv, UploadInv
  <2>2. ASSUME pc[q] \in Creating, NEW b \in Attempts, b \notin contested', Open(b)'
        PROVE  pc[q] # "creating" /\ work[q] = b
    <3>1. b # a
      BY <1>12, <2>2 DEF Open
    <3>2. Open(b) /\ b \notin contested
      BY <1>2, <1>9, <2>2, <3>1
    <3>3. QED
      BY <2>1, <2>2, <3>2 DEF Informed
  <2>3. ASSUME pc[q] \in Replacing PROVE work[q] \notin sealed' \ contested'
    <3>1. work[q] \notin sealed \ contested
      BY <2>1, <2>3 DEF Informed
    <3>2. QED
      BY <1>2, <1>7, <3>1
  <2>4. ASSUME pc[q] = "sealing", q \notin crossed'
        PROVE  object'[work[q]] = attempt'[work[q]].checksum
    <3>1. work[q] \in Attempts \ {a}
      BY <1>2, <2>1, <2>4 DEF RequestOK, Working, Status
    <3>2. object[work[q]] = attempt[work[q]].checksum
      BY <1>12, <2>1, <2>4 DEF Informed
    <3>3. QED
      BY <1>2, <1>3, <3>1, <3>2
  <2>5. QED
    BY <1>12, <2>2, <2>3, <2>4 DEF Informed
<1>13. QED
  BY <1>5, <1>6, <1>8, <1>11, <1>12

\* A create commits: uncrossed, it was the only one at work.
LEMMA OverlapIssues ==
    ASSUME OverlapInv, UploadInv', NEW p \in Requests, NEW a \in Attempts,
           pc[p] \in Creating, Respond(p), Commit(p, a), IssuedBeside(a),
           \A b \in Attempts \ contested : b # a /\ Open(b) => attempt'[b].status = "abandoned"
    PROVE  OverlapInv'
<1>1. RequestTypes /\ CrossingsSeen
  BY UploadTypes DEF OverlapInv
<1>2. OnlyRequest(p) /\ pc'[p] = "idle" /\ crossed' = crossed \ {p}
  BY <1>1, RespondEffect DEF Respond
<1>3. CrossingsSeen'
  BY <1>1, <1>2, NoNewCrossing
<1>4. /\ IssuedInOrder' /\ SealedIsClosed' /\ OpenIsLatest' /\ SealedIsKept'
      /\ \A q \in Requests :
           /\ pc'[q] = pc[q] /\ work'[q] = work[q]
           /\ q \notin crossed' => q \notin crossed
           /\ attempt'[a].retry \/ a \in contested' \/ pc[q] \notin Creating
           => Informed(q)'
  BY IssueHolds
<1>5. ASSUME NEW q \in Requests \ {p} PROVE Informed(q)'
  <2>1. pc'[q] = pc[q] /\ work'[q] = work[q] /\ (q \notin crossed' => q \notin crossed)
    BY <1>2 DEF OnlyRequest
  <2>2. ASSUME pc[q] \in Creating PROVE a \in contested'
    <3>1. Threatens(q, p)
      BY <2>2 DEF Threatens
    <3>2. p \in crossed
      BY <1>1, <3>1 DEF CrossingsSeen, Crossing
    <3>3. QED
      BY <3>2 DEF Commit
  <2>3. QED
    BY <1>4, <2>1, <2>2
<1>6. Informed(p)'
  BY <1>2 DEF Informed, Creating, Replacing
<1>7. QED
  BY <1>3, <1>4, <1>5, <1>6 DEF OverlapInv

LEMMA OverlapReplaces ==
    ASSUME OverlapInv, UploadInv', NEW p \in Requests, NEW a \in Attempts, Replace(p, a)
    PROVE  OverlapInv'
<1>1. /\ RowTypes /\ RequestOK(p) /\ Informed(p)
  BY UploadTypes DEF OverlapInv, UploadInv
<1>2. /\ pc[p] = "replacing" /\ Issue(a, recorded[p], FALSE, Superseded(p)) /\ Commit(p, a)
      /\ Respond(p) /\ sealed' = sealed /\ object' = object
  BY DEF Replace
<1>3. /\ attempt \in [Attempts -> Rows] /\ pc[p] \in Creating
      /\ recorded[p] \in Recordings
  BY <1>1, <1>2 DEF RowTypes, RequestOK, Creating
<1>4. PICK w \in Attempts : w = work[p] /\ attempt[w].status # "absent" /\ w \notin sealed \ contested
  BY <1>1, <1>2 DEF RequestOK, Working, Informed, Replacing, Status
<1>5. /\ Superseded(p) \in [Attempts -> Rows] /\ Superseded(p)[w].status = "abandoned"
      /\ Superseded(p)[w].checksum = attempt[w].checksum
      /\ \A b \in Attempts \ {w} : Superseded(p)[b] = attempt[b]
  BY <1>3, <1>4 DEF Superseded, Rows, Statuses
<1>6. /\ Status(a) = "absent" /\ \A b \in Attempts : b < a => Status(b) # "absent"
      /\ attempt' = [Superseded(p) EXCEPT ![a] =
             [status |-> "uploading", checksum |-> recorded[p], retry |-> FALSE]]
  BY <1>2 DEF Issue
<1>7. a # w
  BY <1>4, <1>6 DEF Status
<1>8. /\ attempt'[a].status = "uploading"
      /\ \A b \in Attempts \ {a} : attempt'[b] = Superseded(p)[b]
  BY <1>5, <1>6
<1>9. \A b \in Attempts \ {a} : b \in contested' <=> b \in contested
  BY <1>2 DEF Commit
<1>10. IssuedBeside(a)
  BY <1>2, <1>4, <1>5, <1>6, <1>8, <1>9 DEF IssuedBeside
<1>11. ASSUME NEW b \in Attempts \ contested, b # a, Open(b) PROVE attempt'[b].status = "abandoned"
  <2>1. b = w
    BY <1>1, <1>3, <1>4, <1>11 DEF Informed
  <2>2. QED
    BY <1>5, <1>7, <1>8, <2>1
<1>12. QED
  BY <1>2, <1>3, <1>10, <1>11, OverlapIssues

LEMMA OverlapCreates ==
    ASSUME OverlapInv, UploadInv', NEW p \in Requests, NEW a \in Attempts, Create(p, a)
    PROVE  OverlapInv'
<1>1. /\ RowTypes /\ RequestOK(p) /\ Informed(p)
  BY UploadTypes DEF OverlapInv, UploadInv
<1>2. /\ pc[p] = "creating" /\ Issue(a, recorded[p], FALSE, attempt) /\ Commit(p, a)
      /\ Respond(p) /\ sealed' = sealed /\ object' = object
  BY DEF Create
<1>3. attempt \in [Attempts -> Rows] /\ pc[p] \in Creating
  BY <1>1, <1>2 DEF RowTypes, Creating
<1>4. \A b \in Attempts \ contested : ~Open(b)
  BY <1>1, <1>2, <1>3 DEF Informed
<1>5. /\ Status(a) = "absent" /\ \A b \in Attempts : b < a => Status(b) # "absent"
      /\ attempt'[a].status = "uploading" /\ \A b \in Attempts \ {a} : attempt'[b] = attempt[b]
  BY <1>2, <1>3 DEF Issue
<1>6. \A b \in Attempts \ {a} : b \in contested' <=> b \in contested
  BY <1>2 DEF Commit
<1>7. IssuedBeside(a)
  BY <1>2, <1>5, <1>6 DEF IssuedBeside
<1>8. QED
  BY <1>2, <1>3, <1>4, <1>7, OverlapIssues

\* A retry is open to no create, and a fresh instruction changes no row.
LEMMA OverlapClient ==
    ASSUME OverlapInv, UploadInv', NEW p \in Requests, NEW a \in Attempts,
           \/ \E r \in Recordings : ResumeOpen(p, r, a)
           \/ \E r \in Recordings, source \in Attempts : CreateRetry(p, source, r, a)
           \/ ReplayCompletion(p, a)
    PROVE  OverlapInv'
<1>1. /\ pc' = pc /\ work' = work /\ recorded' = recorded /\ sealed' = sealed /\ object' = object
      /\ crossed' = crossed /\ contested' = contested
  BY DEF ResumeOpen, CreateRetry, ReplayCompletion, request, history
<1>2. RowTypes /\ CrossingsSeen
  BY UploadTypes DEF OverlapInv
<1>3. CrossingsSeen'
  BY <1>1, <1>2 DEF CrossingsSeen, Crossing, Threatens
<1>4. CASE attempt' = attempt
  <2>1. IssuedInOrder' /\ SealedIsClosed' /\ OpenIsLatest' /\ SealedIsKept'
    BY <1>1, <1>4 DEF OverlapInv, IssuedInOrder, SealedIsClosed, OpenIsLatest, SealedIsKept, Open, Status
  <2>2. \A q \in Requests : Informed(q)'
    BY <1>1, <1>4 DEF OverlapInv, Informed, Open, Status
  <2>3. QED
    BY <1>3, <2>1, <2>2 DEF OverlapInv
<1>5. ASSUME NEW r \in Recordings, Issue(a, r, TRUE, attempt) PROVE OverlapInv'
  <2>1. attempt \in [Attempts -> Rows]
    BY <1>2 DEF RowTypes
  <2>2. /\ Status(a) = "absent" /\ \A b \in Attempts : b < a => Status(b) # "absent"
        /\ attempt'[a].status = "uploading" /\ attempt'[a].retry = TRUE
        /\ \A b \in Attempts \ {a} : attempt'[b] = attempt[b]
    BY <1>5, <2>1 DEF Issue
  <2>3. IssuedBeside(a)
    BY <1>1, <2>2 DEF IssuedBeside
  <2>4. attempt'[a].retry
    BY <2>2
  <2>5. /\ IssuedInOrder' /\ SealedIsClosed' /\ OpenIsLatest' /\ SealedIsKept'
        /\ \A q \in Requests :
             /\ pc'[q] = pc[q] /\ work'[q] = work[q]
             /\ q \notin crossed' => q \notin crossed
             /\ attempt'[a].retry \/ a \in contested' \/ pc[q] \notin Creating
             => Informed(q)'
    BY <2>3, <2>4, IssueHolds
  <2>6. \A q \in Requests : Informed(q)'
    BY <1>1, <2>4, <2>5
  <2>7. QED
    BY <1>3, <2>5, <2>6 DEF OverlapInv
<1>6. QED
  BY <1>4, <1>5 DEF ResumeOpen, CreateRetry, ReplayCompletion

\* A completion commits: uncrossed, the object it verified is there and no create at
\* work replaces its attempt.
LEMMA OverlapSeals ==
    ASSUME OverlapInv, UploadInv', NEW p \in Requests, Seal(p)
    PROVE  OverlapInv'
<1>1. /\ RequestTypes /\ RowTypes /\ RequestOK(p) /\ Informed(p) /\ CrossingsSeen
      /\ pc[p] = "sealing" /\ sealed \subseteq Attempts
  BY UploadTypes DEF OverlapInv, UploadInv, Seal
<1>2. PICK a \in Attempts : a = work[p] /\ attempt[a].status # "absent"
  BY <1>1 DEF RequestOK, Working, Status
<1>3. /\ attempt' = [attempt EXCEPT ![a].status = "queued"] /\ sealed' = sealed \union {a}
      /\ Respond(p) /\ Commit(p, a) /\ object' = object
  BY <1>2 DEF Seal
<1>4. /\ attempt'[a].status = "queued"
      /\ \A b \in Attempts : attempt'[b].checksum = attempt[b].checksum
      /\ \A b \in Attempts \ {a} : attempt'[b] = attempt[b]
  BY <1>1, <1>3 DEF RowTypes, Rows
<1>5. OnlyRequest(p) /\ pc'[p] = "idle" /\ crossed' = crossed \ {p}
  BY <1>1, <1>3, RespondEffect DEF Respond
<1>6. CrossingsSeen'
  BY <1>1, <1>5, NoNewCrossing
<1>7. /\ \A b \in Attempts \ {a} : b \in contested' <=> b \in contested
      /\ a \notin contested' => p \notin crossed
  BY <1>3 DEF Commit
<1>8. \A b \in Attempts : attempt'[b].status = "absent" <=> attempt[b].status = "absent"
  BY <1>2, <1>4
<1>9. IssuedInOrder'
  BY <1>8 DEF OverlapInv, IssuedInOrder, Status
<1>10. SealedIsClosed'
  BY <1>1, <1>3, <1>4 DEF OverlapInv, SealedIsClosed, Status
<1>11. \A b \in Attempts : Open(b)' => Open(b) /\ b # a
  BY <1>4 DEF Open, Status
<1>12. OpenIsLatest'
  BY <1>7, <1>11 DEF OverlapInv, OpenIsLatest
<1>13. p \notin crossed => object[a] = attempt[a].checksum
  BY <1>1, <1>2 DEF Informed
<1>14. SealedIsKept'
  <2>1. SUFFICES ASSUME NEW b \in sealed', b \notin contested'
                 PROVE  attempt'[b].status \in Analysed /\ object'[b] = attempt'[b].checksum
    BY DEF SealedIsKept, Status
  <2>2. CASE b = a
    BY <1>3, <1>4, <1>7, <1>13, <2>1, <2>2 DEF Analysed
  <2>3. CASE b # a
    BY <1>1, <1>3, <1>4, <1>7, <2>1, <2>3 DEF OverlapInv, SealedIsKept, Status
  <2>4. QED
    BY <2>2, <2>3
<1>15. ASSUME NEW q \in Requests \ {p} PROVE Informed(q)'
  <2>1. /\ pc'[q] = pc[q] /\ work'[q] = work[q] /\ Informed(q) /\ RequestOK(q)
        /\ q \notin crossed' => q \notin crossed
    BY <1>5 DEF OnlyRequest, OverlapInv, UploadInv
  <2>2. ASSUME pc[q] \in Creating, NEW b \in Attempts, b \notin contested', Open(b)'
        PROVE  pc[q] # "creating" /\ work[q] = b
    BY <1>7, <1>11, <2>1, <2>2 DEF Informed
  <2>3. ASSUME pc[q] \in Replacing PROVE work[q] \notin sealed' \ contested'
    <3>1. CASE work[q] = a
      <4>1. Threatens(q, p)
        BY <1>1, <1>2, <2>3, <3>1 DEF Threatens, Creating, Completing, Replacing
      <4>2. p \in crossed
        BY <1>1, <4>1 DEF CrossingsSeen, Crossing
      <4>3. QED
        BY <1>7, <3>1, <4>2
    <3>2. CASE work[q] # a
      BY <1>1, <1>3, <1>7, <2>1, <2>3, <3>2 DEF Informed
    <3>3. QED
      BY <3>1, <3>2
  <2>4. ASSUME pc[q] = "sealing", q \notin crossed'
        PROVE  object'[work[q]] = attempt'[work[q]].checksum
    BY <1>3, <1>4, <2>1, <2>4 DEF Informed, RequestOK, Working
  <2>5. QED
    BY <2>1, <2>2, <2>3, <2>4 DEF Informed
<1>16. Informed(p)'
  BY <1>5 DEF Informed, Creating, Replacing
<1>17. QED
  BY <1>6, <1>9, <1>10, <1>12, <1>14, <1>15, <1>16 DEF OverlapInv

\* The browser only ever adds what a row names, and the analysis moves what is sealed.
LEMMA OverlapOutside ==
    ASSUME OverlapInv, UploadInv', NEW a \in Attempts,
           \/ Put(a) \/ UrlExpires(a)
           \/ AnalysisStarts(a) \/ AnalysisFails(a) \/ AnalysisCompletes(a)
    PROVE  OverlapInv'
<1>1. /\ RowTypes /\ IssuedInOrder /\ SealedIsClosed /\ OpenIsLatest /\ SealedIsKept
      /\ CrossingsSeen /\ sealed \subseteq Attempts
      /\ \A q \in Requests : Informed(q) /\ RequestOK(q)
  BY UploadTypes DEF OverlapInv, UploadInv
<1>2. /\ pc' = pc /\ work' = work /\ sealed' = sealed /\ crossed' = crossed /\ contested' = contested
  BY DEF Put, UrlExpires, AnalysisStarts, AnalysisFails, AnalysisCompletes, Move, request, history
<1>3. CrossingsSeen'
  BY <1>1, <1>2 DEF CrossingsSeen, Crossing, Threatens
<1>4. CASE Put(a) \/ UrlExpires(a)
  <2>1. /\ attempt' = attempt
        /\ object' = object \/ object' = [object EXCEPT ![a] = attempt[a].checksum]
    BY <1>4 DEF Put, UrlExpires
  <2>2. \A b \in Attempts : object[b] = attempt[b].checksum => object'[b] = attempt'[b].checksum
    BY <1>1, <2>1 DEF RowTypes
  <2>3. IssuedInOrder' /\ SealedIsClosed' /\ OpenIsLatest' /\ SealedIsKept'
    BY <1>1, <1>2, <2>1, <2>2 DEF IssuedInOrder, SealedIsClosed, OpenIsLatest, SealedIsKept, Open, Status
  <2>4. ASSUME NEW q \in Requests PROVE Informed(q)'
    BY <1>1, <1>2, <2>1, <2>2 DEF Informed, RequestOK, Working, Open, Status
  <2>5. QED
    BY <1>3, <2>3, <2>4 DEF OverlapInv
<1>5. CASE AnalysisStarts(a) \/ AnalysisFails(a) \/ AnalysisCompletes(a)
  <2>1. PICK to \in Begun : attempt' = [attempt EXCEPT ![a].status = to]
    BY <1>5 DEF AnalysisStarts, AnalysisFails, AnalysisCompletes, Move, Begun
  <2>2. a \in sealed /\ object' = object
    BY <1>5 DEF AnalysisStarts, AnalysisFails, AnalysisCompletes, Move
  <2>3. /\ attempt'[a].status \in Begun /\ attempt[a].status \notin {"absent", "uploading"}
        /\ \A b \in Attempts : attempt'[b].checksum = attempt[b].checksum
        /\ \A b \in Attempts \ {a} : attempt'[b] = attempt[b]
    BY <1>1, <2>1, <2>2 DEF RowTypes, Rows, SealedIsClosed, Status
  <2>4. \A b \in Attempts : Open(b)' <=> Open(b)
    BY <2>3 DEF Open, Status, Begun
  <2>5. IssuedInOrder' /\ SealedIsClosed'
    BY <1>1, <1>2, <2>3 DEF IssuedInOrder, SealedIsClosed, Status, Begun
  <2>6. OpenIsLatest'
    BY <1>1, <1>2, <2>4 DEF OpenIsLatest
  <2>7. SealedIsKept'
    BY <1>1, <1>2, <2>2, <2>3 DEF SealedIsKept, Status, Begun, Analysed
  <2>8. ASSUME NEW q \in Requests PROVE Informed(q)'
    BY <1>1, <1>2, <2>2, <2>3, <2>4 DEF Informed, RequestOK, Working
  <2>9. QED
    BY <1>3, <2>5, <2>6, <2>7, <2>8 DEF OverlapInv
<1>6. QED
  BY <1>4, <1>5

LEMMA NextOverlap == OverlapInv /\ [Next]_vars => OverlapInv'
<1> SUFFICES ASSUME OverlapInv, [Next]_vars PROVE OverlapInv'
  OBVIOUS
<1>1. UploadInv'
  BY NextUpload DEF OverlapInv
<1>2. ASSUME NEW p \in Requests, CreateStep(p) PROVE OverlapInv'
  <2>1. CASE \E r \in Recordings : ReadOpen(p, r)
    BY <1>1, <2>1, OverlapReads
  <2>2. CASE \E a \in Attempts : Replace(p, a)
    BY <1>1, <2>2, OverlapReplaces
  <2>3. CASE \E a \in Attempts : Create(p, a)
    BY <1>1, <2>3, OverlapCreates
  <2>4. CASE \E r \in Recordings, a, source \in Attempts : ResumeOpen(p, r, a) \/ CreateRetry(p, source, r, a)
    BY <1>1, <2>4, OverlapClient
  <2>5. QED
    BY <1>2, <2>1, <2>2, <2>3, <2>4 DEF CreateStep
<1>3. ASSUME NEW p \in Requests, CompleteStep(p) PROVE OverlapInv'
  <2>1. CASE \E a \in Attempts : ReplayCompletion(p, a)
    BY <1>1, <2>1, OverlapClient
  <2>2. CASE VerifyUpload(p) \/ \E a \in Attempts : BeginCompletion(p, a)
    BY <1>1, <2>2, OverlapVerifies
  <2>3. CASE RefuseUpload(p) \/ \E c \in Constraints : SealRefused(p, c)
    BY <1>1, <2>3, OverlapEnds
  <2>4. CASE Seal(p)
    BY <1>1, <2>4, OverlapSeals
  <2>5. QED
    BY <1>3, <2>1, <2>2, <2>3, <2>4 DEF CompleteStep
<1>4. ASSUME NEW p \in Requests, DeleteSuperseded(p) PROVE OverlapInv'
  BY <1>1, <1>4, OverlapDeletes
<1>5. ASSUME NEW p \in Requests, InstructionFails(p) \/ Drop(p) PROVE OverlapInv'
  BY <1>1, <1>5, OverlapEnds
<1>6. ASSUME NEW a \in Attempts,
             \/ Put(a) \/ UrlExpires(a)
             \/ AnalysisStarts(a) \/ AnalysisFails(a) \/ AnalysisCompletes(a)
      PROVE  OverlapInv'
  BY <1>1, <1>6, OverlapOutside
<1>7. CASE UNCHANGED vars
  <2>1. /\ attempt' = attempt /\ sealed' = sealed /\ object' = object /\ pc' = pc /\ work' = work
        /\ crossed' = crossed /\ contested' = contested
    BY <1>7 DEF vars, request, history
  <2>2. CrossingsSeen' /\ \A q \in Requests : Informed(q)'
    BY <2>1 DEF OverlapInv, CrossingsSeen, Crossing, Threatens, Informed, Open, Status
  <2>3. IssuedInOrder' /\ SealedIsClosed' /\ OpenIsLatest' /\ SealedIsKept'
    BY <2>1 DEF OverlapInv, IssuedInOrder, SealedIsClosed, OpenIsLatest, SealedIsKept, Open, Status
  <2>4. QED
    BY <1>1, <2>2, <2>3 DEF OverlapInv
<1>8. QED
  BY <1>2, <1>3, <1>4, <1>5, <1>6, <1>7 DEF Next

LEMMA InitOverlap == Init => OverlapInv
<1> SUFFICES ASSUME Init PROVE OverlapInv
  OBVIOUS
<1>1. CrossingsSeen
  BY DEF Init, CrossingsSeen, Crossing, Threatens, Creating
<1>2. IssuedInOrder /\ SealedIsClosed /\ OpenIsLatest /\ SealedIsKept
  BY DEF Init, IssuedInOrder, SealedIsClosed, OpenIsLatest, SealedIsKept, Open, Status
<1>3. \A p \in Requests : Informed(p)
  BY DEF Init, Informed, Creating, Replacing
<1>4. QED
  BY <1>1, <1>2, <1>3, InitUpload DEF OverlapInv

\* What requests may count on, whatever overlaps: a create knows the open attempt that no
\* overlap issued, and what is safely sealed is being replaced by nobody.
THEOREM OverlapInvariant == Spec => []OverlapInv
<1>1. Init => OverlapInv
  BY InitOverlap
<1>2. OverlapInv /\ [Next]_vars => OverlapInv'
  BY NextOverlap
<1>3. QED
  BY <1>1, <1>2, PTL DEF Spec

\* A confirmed recording is in the store until the analysis is over, unless a create that
\* replaces it overlapped its completion.
THEOREM ConfirmedIsStored == Spec => []UncontestedIsStored
<1>1. OverlapInv => UncontestedIsStored
  BY DEF OverlapInv, SealedIsKept, UncontestedIsStored
<1>2. QED
  BY <1>1, OverlapInvariant, PTL

\* A confirmed recording is never given up for another one, with the same exception.
THEOREM ConfirmedStays == Spec => []UncontestedIsKept
<1>1. OverlapInv => UncontestedIsKept
  BY DEF OverlapInv, SealedIsKept, UncontestedIsKept, Analysed
<1>2. QED
  BY <1>1, OverlapInvariant, PTL

\* Two attempts are open beside each other only where creates overlapped.
THEOREM UploadsDoNotPileUp == Spec => []UncontestedIsAlone
<1>1. OverlapInv => UncontestedIsAlone
  <2>1. SUFFICES ASSUME OverlapInv, NEW a \in Attempts \ contested, NEW b \in Attempts \ contested,
                        Open(a), Open(b)
                 PROVE  a = b
    BY DEF UncontestedIsAlone
  <2>2. a <= b /\ b <= a
    BY <2>1 DEF OverlapInv, OpenIsLatest
  <2>3. PICK x \in Int, y \in Int : x = a /\ y = b
    BY BoundAssumption DEF Attempts
  <2>4. QED
    BY <2>2, <2>3
<1>2. QED
  BY <1>1, OverlapInvariant, PTL
=============================================================================
