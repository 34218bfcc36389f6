---------------------------- MODULE RecordingAnalysis ----------------------------
(***************************************************************************)
(* What the analysis pipeline promises the learner about one recording     *)
(* after another, with no job, lease, worker or retry in sight: a sealed   *)
(* recording is analysed from one transcript, ends completed or visibly    *)
(* failed, a completed analysis is never taken back, and the raw recording *)
(* is given up to retention with the completion and not before.            *)
(***************************************************************************)

CONSTANT Attempts

VARIABLES phase, transcribed, released

vars == <<phase, transcribed, released>>

Phases == {"uploading", "queued", "analyzing", "analysis_failed", "completed"}

TypeOK ==
    /\ phase \in [Attempts -> Phases]
    /\ transcribed \in [Attempts -> BOOLEAN]
    /\ released \in [Attempts -> BOOLEAN]

Init ==
    /\ phase = [a \in Attempts |-> "uploading"]
    /\ transcribed = [a \in Attempts |-> FALSE]
    /\ released = [a \in Attempts |-> FALSE]

Move(a, from, to) ==
    /\ phase[a] \in from
    /\ phase' = [phase EXCEPT ![a] = to]

\* The upload is confirmed.
Seal(a) == Move(a, {"uploading"}, "queued") /\ UNCHANGED <<transcribed, released>>

\* An analysis, or a further try after a failure, is under way.
Begin(a) ==
    /\ Move(a, {"queued", "analysis_failed"}, "analyzing")
    /\ UNCHANGED <<transcribed, released>>

\* The one transcript of the recording becomes durable.
Transcribe(a) ==
    /\ phase[a] = "analyzing"
    /\ ~transcribed[a]
    /\ transcribed' = [transcribed EXCEPT ![a] = TRUE]
    /\ UNCHANGED <<phase, released>>

\* The learner is told that the analysis failed.
Fail(a) ==
    /\ Move(a, {"queued", "analyzing"}, "analysis_failed")
    /\ UNCHANGED <<transcribed, released>>

\* The learner gets the result, and the raw recording its retention deadline.
Complete(a) ==
    /\ transcribed[a]
    /\ Move(a, {"analyzing"}, "completed")
    /\ released' = [released EXCEPT ![a] = TRUE]
    /\ UNCHANGED transcribed

Next == \E a \in Attempts : Seal(a) \/ Begin(a) \/ Transcribe(a) \/ Fail(a) \/ Complete(a)

Spec == Init /\ [][Next]_vars

=============================================================================
