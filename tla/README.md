# Oratry in TLA+

Oratry records a learner's spoken answer to a challenge, analyses it with a
speech-to-text provider and an LLM evaluator, shows the result, and deletes the
raw recording after a retention period. This directory holds TLA+ models of its
stateful components and of its pure algorithms, the TLC runs that check them, and
TLAPS proofs of what matters most.

The code decides: every definition is translated from `app/`, `oratry/`,
`schemas/` or `features/`; `PROJECT.json` names the lines behind each of them
(`map`), the hazards the properties are aimed at (`hazards`), and the places
where the code and its documentation disagree (`findings`).

## 1. Inventory

| Component | Code | State | Operations | What is hard | What makes it correct |
|---|---|---|---|---|---|
| Analysis delivery | `app/analysis_worker.py`, `app/worker.py` | `analysis_jobs`, `attempts.status`, `analysis_runs`, `analysis_results`, `recordings.deletion_status`; a worker's session | claim, renew, process, resume, fail, requeue, complete | several workers, leases that run out, crashes, retries, unlocked reads before writes | one paid transcription at a time, results written once, completion implies evidence, statuses agree, every recording settles |
| Upload lifecycle | `app/main.py` (`create_attempt`, `upload_complete`), `app/storage.py` | `attempts`, the object store, presigned URLs, API threads | create, resume, replace, retry, PUT, complete, replay | concurrent and duplicate requests, store failures, URLs that outlive an attempt | a confirmed recording is there and is never replaced, one open upload, no replay moves an attempt back |
| Retention | `app/retention_worker.py` | the `deletion_*` columns of `recordings`, the store | claim, count, delete, finish, back off | overlapping deletions, crashes in mid-call, an expiry used as fencing token | a true audit, nothing deleted early, calls counted, every deadline honoured |
| Learning projections | `_project_skills`, `_project_vocabulary_observations`, `app/personalization/skill_engine.py` | `skill_evidence`, `skill_states`, `vocabulary_observations` | project inside the completing transaction | completions of one learner at once, first rows, lost leases | evidence once per completed run, projections of committed evidence only |
| Curriculum | `CurriculumService`, `app/personalization/` | `challenges`, `challenge_assignments` | start baseline, current assignment, recommend, attempt a step | concurrent starts, savepoints, unique-index recovery, read-check-insert | a start is answered with the whole sequence, steps in order, a bounded number of recommendations |
| Account activation | `ActivationService`, sign-up, resend, activate and login routes | `users`, `email_verification_challenges` | issue, resend, consume, sign in | e-mail before commit, concurrent resends, double clicks | an active link that reached the inbox, single use, limits |
| External identity | `app/identity.py`, `/v1/auth/google/*` | `external_identities`, `oauth_login_codes`, the state cookie | start, callback, link, exchange | read-check-write without locks, races with activation | sessions for verified addresses only, a hand-off code is used once |
| Dictionary and Word Bank | `DictionaryService`, `app/dictionary.py`, vocabulary routes | `dictionary_entries`, `vocabulary_items` | look up, refresh, add, change, delete | inserts that collide, provider failures, deletion under an analysis | references resolve, evidence outlives the item |
| Scoring and transcript measures | `oratry/speech/`, `app/scoring.py` | none | pure functions | missing inputs, weights, boundaries, resumed deliveries | a score rests on what was measured, a resumption gives the same score |
| Evaluation contract | `schemas/evaluation.py`, `oratry/evaluation/provider.py` | none | repair, validate | wrong offsets, rounding, hallucinated metrics | accepted evidence is verbatim, the repair changes nothing valid |
| Challenge choice | `challenge_engine.py`, `catalog.py`, `baseline_policy.py` | none | rank, recommend | ties, recent challenges, missing levels | a repeat only out of greater need |
| Browser recorder | `features/practice/` | recorder, stream, generation; the submission's stage | start, stop, discard, submit, retry, leave | delayed callbacks of an older recorder, failed submissions | no open microphone, no stale take under review, the chosen take is confirmed |
| Read-only views, UI, configuration, migrations | `app/main.py`, `features/`, `app/core.py`, `migrations/` | none of their own | | | |

How they interact: the recorder's submission calls `create_attempt`, the store
and `upload_complete`; that commits the job a worker claims; the worker's last
commit completes attempt, run and assignment, writes the learner's projections
and observations, and sets the retention deadline; the retention worker claims
the recording from there. Recommendations read the projections. All of them share
one PostgreSQL database and nothing else; the store and the providers are called
between transactions, or with a transaction open where the text below says so.

## 2. Modules

| Module | Models |
|---|---|
| `RecordingAnalysis` | the abstract promise to the learner: sealed, analysed from one transcript, completed or visibly failed, never taken back |
| `AnalysisDelivery` | the durable jobs and their workers in detail; implements `RecordingAnalysis` |
| `RecordingRetention` | the retention worker and the store |
| `UploadLifecycle` | attempt creation, direct upload and upload completion |
| `SkillProjection` | evidence and state of one skill, written by concurrent completions |
| `Curriculum` | the baseline, the current assignment and recommendations |
| `Accounts` | activation links, Google sign-in, hand-off codes and sessions of one address |
| `WordBank` | a word's cache entry, its saved items and the observations of its use |
| `PracticeRecorder` | the recorder hook and the submission of a take |
| `SpeechMeasures`, `EvaluationContract`, `ChallengeChoice` | the pure algorithms |
| `MC...` | instances for TLC; `MCFunctions` applies the three algorithm modules to bounded inputs |
| `...Proofs` | theorems and proofs (section 4), a module per component; `LearningProofs` is about `SkillProjection` and the three algorithm modules |

In the modules of the API and the workers one action is one transaction, one
statement whose effect others can see or wait for, one read that a later write
depends on, or the outcome of one external call. PostgreSQL runs them at READ
COMMITTED: what was read may be stale when it is used, an UPDATE or a duplicate
INSERT waits for the other transaction, and a rollback takes everything along.

### AnalysisDelivery

* `job` is the `analysis_jobs` row (status, owner, lease, availability, count),
  `attempt`, `run`, `assignment` and `deletion` are the columns the worker
  writes elsewhere; `evidence` and `verdict` name the delivery that wrote the
  transcript with its metrics and the evaluation with its scorecard.
* `pc`, `work`, `token`, `seen`, `exn` are a worker's place in `run_once`, its
  job, its lease token, the columns its session has loaded and the exception it
  is handling. A token is the number of the delivery, which is as unique as the
  `uuid4` of the code.
* `tx` is the lease of an open transaction: `_renew_or_raise` executes its
  UPDATE and commits only with the evidence, so the row stays locked and the
  committed lease old while the speech-to-text call runs.
* `Flush` is the ORM's behaviour: an update by primary key of the columns whose
  new value differs from the loaded one. A stale session therefore leaves a
  column alone when it believes it right already.
* `Start` and `RecordFailure` are, as in the code, not conditional on an
  unexpired lease. This is what separates the two delivery runs.

### RecordingRetention

The worker's three short transactions and its call of the store. The fence
compares the expiry it was given with the one in the row, and never asks whether
it has passed, so a slow worker whose row nobody reclaimed may still finish.
The expiry is a number that grows with every claim: the code adds a random
sub-second part to 120 s so that two claims never get the same value. A delete
call that raises may or may not have removed the object, and one whose worker
dies may still arrive.

### UploadLifecycle

One learner, one assignment. A request is a thread with a place in its handler;
the store is asked before the final commit, so two requests interleave between.
`object` is what lies under the key of each attempt: the signed PUT admits only
the checksum it was issued for. The store may fail at every call. Nothing is
assumed of the client: the browser aborts a request after 15 s and the server goes
on with it, and two tabs of one learner know nothing of each other, so any two
requests may overlap.

Overlaps can go wrong: a create that replaces an attempt while another request
completes it deletes the confirmed recording, and two creates can each find no open
attempt. The properties say exactly where the harm ends. The history variable
`crossed` collects the requests at work that met one able to undo what they are
about to commit (`Threatens`: two creates, or the completion of an attempt and a
create that read this attempt as open; not two completions, not requests for
different attempts), and `contested` the attempts whose latest commit came from such
a request. Everything promised holds of the attempts that are not contested,
whatever is sent before, beside and after. No action reads the two variables, and
none waits for them. The promises without this exception are in a section of their
own, since they do not hold.

### SkillProjection

A worker claims a run, flushes its evidence row, reads the newest rows it can see
(`Gather`), looks for the state row without a lock (`LookForState`), flushes the
projection (`Store`, which waits for a competing row lock and is refused when it
believed itself the first) and commits everything with the completed job under
its lease (`Commit`), or loses all of it. A row is its run with the worker whose
transaction inserted it; `rows` are all that were inserted and not rolled back,
`committed` those that every transaction sees, and `earlier` is their order by
`recorded_at`, so that `ORDER BY ... LIMIT` takes the rows that fewer than
`Window` visible ones follow (`Newest`). The weighted mean is abstracted to the
runs it is taken over, which is what the interleavings can change.

### Curriculum

A request walks through the baseline: it looks each challenge up, inserts the
missing one in a savepoint, recovers from the unique index, then flushes the
assignments and commits. `inserted` and `flushed` hold what an open transaction
has written. Recommendations are read-check-insert without any constraint, by
two routes; `BeginStep` and `FinishStep` are the attempts at baseline steps that
`create_attempt` admits. The table is either empty or has all of the baseline
challenges when the first request comes.

### Accounts

One address. `signup`, `resend`, `activate`, `login` and the Google routes are
requests of `Requests`; `new` and `old` are the link or code a request works on
and the row it has locked. The e-mail leaves before the commit that makes its
link valid (`mailed`), and the request may die in between. A resend waits for the
row lock of the link it replaces (`blocked`); the unique e-mail and the partial
unique index on active links are `Uncommitted`, which waits, and `Refused`. The
browser's sign-in cookie and the terms it acknowledged are `cookie` and `terms`.
The age of a link is abstract: within the pause, within the hour, older, expired.

### WordBank

One word of one learner, who may save it more than once. A look-up keeps its
transaction open while the provider is asked; the item it will commit is
`pending`. `Resilient`, `FreeDictionary` and `Datamuse` are the provider chain.
PATCH and DELETE read in one statement and write in another. The completing
transaction of an analysis refers to an item (`Refer`) and commits later
(`CompleteRun`), when the item may have gone.

### PracticeRecorder

`generationRef` names a recording session. The permission answer, the error and
the stop event of a session may come at any later time. A submission goes through
hash, create, PUT and confirm; each step may fail and be retried from where the
page would, and the learner may have recorded another take meanwhile. The page
may be left and entered again.

### The algorithms

`SpeechMeasures` goes from the provider's words and utterances through the
transcript measurements, their storage and resumption to the scorecard, in exact
rational arithmetic. Every filter of a list in the code is the selection of the
positions that pass (`Selected`), every sum one over the positions. `EvaluationContract` has the repair of offsets and of the
overall score, then the validation. `ChallengeChoice` has the catalogue, its
validation, the needs, and the ranking with its tie-breaks; a score is 600 times
that of the code, which makes it an integer. A state of `MCFunctions` is the input
of a call (`CallInit`), then its result (`CallSpec`).

## 3. Runs

| Run | Shows | Instance | States |
|---|---|---|---|
| `delivery_stalls` | the safety that survives every overlap | 1 attempt, 2 workers, limit 3, 1 crash, 1 stall, 1 requeue, every exception | 1,296,119 |
| `delivery_timely` | exclusive delivery, agreeing statuses, the refinement, and that every enqueued recording settles, while no lease runs out under a live worker | 2 attempts, 2 workers, limit 2, 1 crash, 1 requeue | 270,123 |
| `stale_overwrite` | violation: a stalled worker takes a completed attempt back | 1 attempt, 2 workers, 1 stall | |
| `retention` | audit, deadline, counting, exclusive outcomes, termination | an own and a foreign recording, 2 workers, limit 2, 1 crash, 2 stalls | 135,171 |
| `upload` | a recording is lost, or a second upload left open, only by requests that overlapped; replays never move an attempt back | 3 attempts, 2 recordings, 2 threads, any store failures | 999,753 |
| `skills` | evidence of exactly the completed runs, projections of committed evidence | 3 workers, 3 runs, window 2, any requeues | 504,321 |
| `curriculum` | starts answered with the whole sequence, steps in order, bounded recommendations | 2 learners, 3 requests, 3 steps, 2 practice challenges | 384,426 |
| `accounts` | one active link that reached the inbox, single use, verified sessions, the resend limit | 2 threads, 3 links, limit 1, 2 codes, 1 sign-in flow | 1,643,278 |
| `handoff_twice` | violation: one hand-off code gives two sessions | 2 threads, 1 code | |
| `words` | references resolve, observations stay | 2 requests, 2 analyses, 3 items | 1,270,134 |
| `recorder` | microphone, take under review and confirmed take belong to the right session | 8 generations | 7,340 |
| `functions` | scorecard, resumption, evaluation, repair and recommendation on every bounded input | texts of up to 3, words of up to 2 or 30, two practised challenges | 245,984 |

Why these bounds are enough: nearly every conflict in this code is between two
actors on one row, so two workers or threads, and two rows where one may delay
the other; where a third actor can profit from the conflict of two (the unique
index of the first skill state, the recommendation count) there are three. A
limit of 2 or 3 lets a delivery be retried, lost and reclaimed, and still run
into the limit. One stall gives one overlap of an old and a new owner, two give
an overlap on each side of a back-off. Three links are one in use, one that
replaces it and one more while that is open. A window of 2 is exceeded by three
runs. Eight generations are more than the longest chain of one open permission
question, a stop under way, a discard and a leave. The inputs of `functions`
contain every combination of measured, late, missing and reversed timestamps for
two words, texts shorter and longer than the target length, quotes that
overlap their own next occurrence, and every level of the three skills that get
evidence.

`MaxCrashes`, `MaxStalls`, `MaxRequeues`, `MaxChallenges`,
`MaxCodes`, `MaxFlows`, `MaxItems`, `MaxGeneration` and, in `UploadLifecycle`,
`MaxAttempts` are bounds of the instances and appear in guards; the other
constants are the code's own limits. Workers, requests and recordings are
interchangeable and symmetric, except in the runs that check liveness.
`CHECK_DEADLOCK FALSE` is set where the system may really stop: everything
settled and every budget used.

`upload.cfg` keeps its three attempts within reach in two more ways. Its VIEW leaves
out `answer`, which no action reads and no property of the run mentions. Its
CONSTRAINT (`FewSealed`) goes on, once all three attempts are issued, only from
states with at most one of them sealed. All interleavings of two attempts at every
stage are there, with room for a third: a completion beside the replacement of its
attempt, a sealed attempt while others are created and replaced, and two or three
attempts open at once. The proofs have neither.

**Fairness** (`AnalysisDelivery`, `RecordingRetention`). Weak fairness of a
worker's step (the process is supervised and polls; each provider call has a
timeout), of a back-off or a deadline coming, and of the lease of a dead worker
expiring (the clock). Nothing is assumed of learners, operators, crashes or
stalls.

**Mutants.** Next to a definition there may be one marked "Slip": the same
definition with a plausible mistake. `PROJECT.json` pairs each property with one
that violates it; nothing else refers to them.

### Stated and not true

Several statements of the documentation or of comments are written down as
properties that the code does not have. Two have a run, the violations above;
the others are shown by a change of one configuration:

| Statement | Module | Violated by |
|---|---|---|
| `CompletedIsFinal` | `AnalysisDelivery` | `stale_overwrite` |
| `TransportFailuresRetry` | `AnalysisDelivery` | `delivery_timely.cfg` with `Spec`, `LlmProvider = "gemini"` and `Raised <- AllExceptions` |
| `TransientDeletesRetry` | `RecordingRetention` | `retention.cfg` with `Raised = {"BotocoreTransport"}` and no crashes or stalls |
| `DuplicateIsRecovered` | `UploadLifecycle` | `upload.cfg` with this property and without its VIEW |
| `ConfirmedNeverReplaced`, `SealedHasObject`, `OneOpenUpload` | `UploadLifecycle` | `upload.cfg` with this invariant |
| `ProjectionCurrent` | `SkillProjection` | `skills.cfg` with this invariant |
| `LookupKeepsItem` | `WordBank` | `words.cfg` with this property |
| `HandoffOnce` | `Accounts` | `handoff_twice` |

`findings` quotes the sentence each of them contradicts, and has what else was
met on the way: concurrent first analyses where the second fails for good, a
ranking that sees skill levels only and never evidence of two of the five skills,
a target word that cannot be credited, repetitions counted once per word,
position marks that index another list of words than the page, a resumed delivery
that shows the evaluator one metric more, 204 answers read as JSON, a reload that
leaves the results page, and a level shown on the wrong scale.

## 4. Proofs

All proofs are for any sets and numbers of actors, rows and budgets, but for the
assumptions named below (each an `ASSUME` or a hypothesis of the theorem); each
property above that a theorem states is named in `theorems`. Every invariant and
every action property that a run checks is stated by a theorem.

* `AnalysisDeliveryProofs`, with no assumption on timing: `TypeOK`,
  `TranscribesUnderLease`, `CompletedHasEvidence`, `EvidenceByOwner`,
  `VerdictIsStable`. `SafeInv` adds what makes them inductive: a token is never
  larger than the count of its job and belongs to one worker; a worker past a
  renewal holds an uncommitted lease or the job's ownership; the verdict exists
  only with the evidence. The key argument is that the open renewal locks the
  row: nobody can reclaim a job whose owner is in the speech-to-text call.
  With `MaxStalls = 0` (no lease runs out under a live worker) also
  `OneDeliveryAtATime`, `OutcomeAgreement` and `KeepsPromise`, the refinement of
  `RecordingAnalysis`. A worker at work owns the job's lease, what its session
  loaded is what the rows hold, and each of its steps has its statuses; each
  action then maps to one abstract action or to a stutter.
* `RecordingRetentionProofs`: `TypeOK`, `AuditIsTrue`, `KeptUntilDeadline`,
  `OutcomeByLeaseholder`. `RetentionInv` adds that no two workers hold one
  claim, that a claim was only given out past the deadline, and that a worker
  whose call returned has removed the object. `CallsAreCounted` has an invariant
  of its own, `CountInv`: the calls a row has received and those of the workers
  that have counted but not called yet (`Begun`) are together no more than its
  count. Only finitely many workers are ever in that gap, since each raised the
  count; the set of workers itself need not be finite.
* `UploadLifecycleProofs`, for every client: `TypeOK`; `NeverRequeued`, since only a
  seal writes `queued` and its unique rows admit it once; and `UncontestedIsStored`,
  `UncontestedIsKept` and `UncontestedIsAlone`. `OverlapInv` says that every request
  that another one can undo is in `crossed`; that a creating request has no
  uncontested open upload in its way but the one it read; that a replacing one never
  holds an uncontested sealed attempt; that a completion outside `crossed` still
  has the object it verified; and that an uncontested open upload is the latest one,
  which the next create finds, since ids grow.
* `CurriculumProofs`: `BaselineInOrder`, from the gate alone; with
  `WholeCatalogues` (the table has all of the baseline challenges or none, the
  case for which the code is written) `StartAnswered` and
  `RecommendationsBounded`. The argument of the first: a request past the first
  step that still misses a challenge inserted the first one itself, and the
  unique index lets only one transaction do that, so nobody else can make a later
  insert fail.
* `AccountsProofs`: `TypeOK`, `ActivationRemains`, `LinkWorksOnce`,
  `SessionsAreVerified`. Row locks exclude each other; at most one request has an
  uncommitted link, and the link it replaces is the only active one; a link that
  is or can become active was not used; a Google identity is only ever linked to
  a verified address. `ResendLimit` rests on `ResendInv`, for finitely many
  requests and a limit of at least 1: the links of the last hour and the requests
  that may still commit one, having passed the unlocked count (`Passed`), are
  together fewer than the limit and all requests (`RoomLeft`), since the last one
  to pass saw fewer links than the limit.
* `WordBankProofs`: `TypeOK`, `ReferencesResolve`, `EvidenceIsImmutable`. A
  look-up alone holds the pending item it will commit, so that neither a delete
  nor an analysis can touch it; an entry once seen never disappears; a run with
  an observation is over.
* `PracticeRecorderProofs`: `MicOnlyInSession`, `ReviewIsCurrent`,
  `ConfirmsChosen`. Sessions to come have neither stream nor recorder; one that
  waits for permission has no recorder, and if it is the current one the page says
  so; a verified upload is that of the pending take.
* `LearningProofs`, of `SkillProjection`: `TypeOK`, `EvidenceOfCompletion` and
  `ProjectionGrounded`. `SkillInv` adds that `earlier` orders the finitely many rows,
  that a transaction which still owns its job has a pending row and a projection
  that is not empty just if the run was measured (a stale one may have neither),
  and that a projection yet to be committed is made of committed rows and of the
  row that is committed with it. The newest rows are at most `Window`, because in an
  order a finite set of rows with fewer than `n` successors has at most `n`
  elements, and there is one, because a finite order has a last.
* `LearningProofs`, of the algorithms. Each of the five properties of `functions`
  has a theorem about every input, whatever its size and its values, and one that
  draws it for `CallSpec`, whose invariant `CallInv` says that a result is what
  the functions compute from the input:
  - `ValidIsCanonical`, `AcceptedAnswerIsGrounded`: texts and quotes of any length
    over any alphabet, any integers for offsets and scores. A quote that is found
    once is found where it was quoted; half-point rounding is arithmetic.
  - `MeasuredScoreRestsOnEvidence`: any words, utterances, timestamps and target
    words, through the mapping, the flattening of the segments, the selections and
    the pauses, to `ScorecardRestsOnEvidence`, which takes any measurements
    that are numbers (`Measurable`). A weighted mean rounded half up lies
    between the bounds of its terms (`WeightedSum`, `HalfUpBetween`).
  - `StorageKeepsScore`: any recording. The scorecard reads a metric by name, and
    both ways of passing the analysis on agree on the names that it reads.
  - `RecommendedIsBest`: any finite curriculum with distinct identifiers, any
    integer levels and any history. The comparison by score and identifier is a
    strict total order, so that a best one exists; and the bonus for what is not
    repeated (7200) exceeds what variety (3000) and familiarity of the topic (2700)
    can add to a repeat; the words of every candidate add the same.

Sums, cardinalities and ranks are defined by recursion, and the theorems need
facts about them for sets of any size. Induction is therefore proved where it is
needed: a set that contains 0 and the successor of each of its numbers contains
them all (`NatFromSteps`), from the pigeonhole principle for finite intervals,
applied to the set of numbers for which the statement holds. From it follow that
any element can be taken out of a sum first (`SumTakesOut`), that a sum keeps
bounds, that the positions of a selection have ranks (`EveryRank`), and that a
flattened sequence is one (`FlattenedIsSequence`).

Only model-checked: `EveryRecordingSettles` and `EveryDeadlineHonoured`, which
are liveness under fairness and out of the prover's reach. Neither TLC nor the
proofs say how far the floating point of the code is from the exact arithmetic of
the model.

## 5. What is not modelled, and abstractions

* `Finish` leaves out that completion rewrites the `provider_usage` row: it adds the
  evaluation's usage and keeps the speech-to-text part, which is what `evidence`
  stands for.
* Operators may queue a failed job again in `AnalysisDelivery` (up to `MaxRequeues`
  times), `SkillProjection` and `WordBank` (any number of times).
* `Said` compares whole tokens. The code searches the joined tokens between
  non-word characters, so that it also finds a target that an apostrophe separates
  from the rest of its token ("don" in "don't").
* `Evaluation` answers "refused" for every bad answer. Its shape may also raise an
  exception of another kind, which the worker records as `analysis_invalid`
  instead of `evaluator_invalid`; both end the job.
* A delete of a superseded upload takes effect within its request or not at all.
* Contents of transcripts, prompts and costs in the delivery; the
  `failure_code` and time columns; log lines. The stages `metrics`, `scoring`
  and `feedback` are set and overwritten within one transaction.
* `Finish` in `AnalysisDelivery` is one action: its UPDATE locks the job row, and
  its other writes become visible with the same commit. Completions of different
  attempts of one learner interleave in `SkillProjection` and `WordBank`.
* Time: a lease is live or expired, a back-off pending or over. The numbers
  (120 s, 60 s, powers of two) only matter through the stalls they rule out.
* Retention rows scheduled before migration `20260920_07`, whose
  `deletion_available_at` is NULL, and the order among scheduled rows.
* The unlisted routes `/sessions/{id}/retry` (its attempt has no checksum and
  never completes) and `/sessions/{id}/analyze` (no effect when the job exists,
  as it does after every completion); `hide_review`, whose flag nothing else
  here reads; playback and the other views, which change nothing.
* The page that polls the status after a submission: it changes only the page.
* `audio.py`, which nothing in the pipeline calls, word confidences, the JSON
  schema sent to the evaluation provider, HTTP, PKCE and signatures, the local
  development store, configuration, migrations, presentation.
* The composition of the modules. Each has its neighbours' effect as an
  environment action (`AnalysisStarts` in `UploadLifecycle`, the scheduled
  recording in `RecordingRetention`); that a recording rescheduled by a stale
  completion meets a retention worker again is not shown in one model.

## 6. Plan

1. `RecordingPipeline`: the composition of upload, delivery and retention, for
   what crosses them: a recording rescheduled by a stale completion, failed
   analyses whose recording has no deadline, playback against deletion. Its
   invariants by the same argument as `SafeInv` and `RetentionInv`.
2. A promise of the retention (kept until the deadline, then deleted or reported)
   as an abstract specification that `RecordingRetention` implements, proved
   step by step from `RetentionInv`.
3. A catalogue that grew between two releases in `Curriculum`: what
   `StartAnswered` would need then.
4. The numbers that `SkillProjection` abstracts: the weighted mean of
   `skill_engine.py` between the lowest and the highest observation, from the
   lemmas on sums.
