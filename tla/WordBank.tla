------------------------------- MODULE WordBank -------------------------------
(***************************************************************************)
(* One learner's saved copies of one word, the shared dictionary cache     *)
(* entry for it, and the observations that analyses make of its use:       *)
(* DictionaryService (app/services.py), the provider chain                 *)
(* (app/dictionary.py), the vocabulary routes (app/main.py) and            *)
(* _project_vocabulary_observations (app/analysis_worker.py).              *)
(*                                                                         *)
(* A word may be saved more than once: vocabulary_items has no unique      *)
(* constraint.  A row of an open transaction is "pending".                 *)
(***************************************************************************)
EXTENDS Integers, FiniteSets

CONSTANTS
    Requests,   \* API threads
    Runs,       \* analysis runs whose transcript uses the word as a target
    MaxItems    \* bound: items ever created for the word

ASSUME ItemsAssumption == MaxItems \in Nat

Items == 1 .. MaxItems

VARIABLES
    entry,      \* the dictionary_entries row of the word
    item,       \* vocabulary_items rows
    linked,     \* items with a dictionary_entry_id
    practised,  \* items whose practice_status the learner has set
    observed,   \* vocabulary_observations: runs that have one
    about,      \* of each observation: its item, or 0 once that is deleted
    run,        \* where the completing transaction of each run stands
    ref,        \* the item such a transaction refers to
    pc,         \* where each request stands
    saw,        \* the entry a request read before it asked the provider
    mine        \* the item a request is about, or 0 for a plain look-up

bank == <<item, linked, practised>>
evidence == <<observed, about>>
analyses == <<run, ref>>
request == <<pc, saw, mine>>
vars == <<entry, bank, evidence, analyses, request>>

TypeOK ==
    /\ entry \in {"absent", "fresh", "stale"}
    /\ item \in [Items -> {"unused", "pending", "live", "gone"}]
    /\ linked \subseteq Items
    /\ practised \subseteq Items
    /\ observed \subseteq Runs
    /\ about \in [Runs -> Items \union {0}]
    /\ run \in [Runs -> {"open", "referring", "completed", "failed"}]
    /\ ref \in [Runs -> Items \union {0}]
    /\ pc \in [Requests -> {"idle", "asking", "patching", "deleting", "failed"}]
    /\ saw \in [Requests -> {"absent", "fresh", "stale"}]
    /\ mine \in [Requests -> Items \union {0}]
    /\ \A i \in Items : item[i] = "pending" =>
         \/ \E r \in Requests : pc[r] = "asking" /\ mine[r] = i
         \/ \E x \in Runs : run[x] = "referring" /\ ref[x] = i

Init ==
    /\ entry = "absent"
    /\ item = [i \in Items |-> "unused"]
    /\ linked = {} /\ practised = {}
    /\ observed = {}
    /\ about = [x \in Runs |-> 0]
    /\ run = [x \in Runs |-> "open"]
    /\ ref = [x \in Runs |-> 0]
    /\ pc = [r \in Requests |-> "idle"]
    /\ saw = [r \in Requests |-> "absent"]
    /\ mine = [r \in Requests |-> 0]

Live == {i \in Items : item[i] = "live"}
IsNew(i) == item[i] = "unused" /\ \A j \in 1 .. i - 1 : item[j] # "unused"

Goto(r, where, i) ==
    /\ pc' = [pc EXCEPT ![r] = where]
    /\ mine' = [mine EXCEPT ![r] = i]

-----------------------------------------------------------------------------
(***************************************************************************)
(* The dictionary: an unexpired entry is used, otherwise the provider is   *)
(* asked and its answer stored.                                            *)
(***************************************************************************)
\* How a dictionary site replies: not at all or with an HTTP error, with 404, with
\* nothing about the word, or with the word.
Replies == {"failed", "not_found", "nothing", "word"}

FreeDictionary(reply) ==
    CASE reply = "failed" -> "error"
      [] reply \in {"not_found", "nothing"} -> "unknown"
      [] reply = "word" -> "found"

\* The second site is asked for the word and then for synonyms; a 404 of either, or a
\* failure of the second request after the first one succeeded, is an error.
Datamuse(exact, synonyms) ==
    CASE exact \in {"failed", "not_found"} -> "error"
      [] exact = "nothing" -> "unknown"
      [] exact = "word" -> IF synonyms \in {"failed", "not_found"} THEN "error" ELSE "found"

\* The fallback is asked only when the primary fails, never for a real miss.
Resilient(primary, fallback) == IF primary = "error" THEN fallback ELSE primary

\* What the look-up may be told; a disabled provider tells it "error".
Answers == {Resilient(FreeDictionary(first), Datamuse(second, third)) :
               first, second, third \in Replies}

\* A request reads the cache on behalf of item i (0: a plain look-up).
Ask(r, i) ==
    /\ Goto(r, "asking", i)
    /\ saw' = [saw EXCEPT ![r] = entry]

Lookup(r) ==
    /\ pc[r] = "idle"
    /\ entry # "fresh"
    /\ Ask(r, 0)
    /\ UNCHANGED <<entry, bank, evidence, analyses>>

\* POST without a look-up, or with a cached entry: the item is there at once.
AddItem(r, i) ==
    /\ pc[r] = "idle" /\ IsNew(i)
    /\ item' = [item EXCEPT ![i] = "live"]
    /\ linked' \in IF entry = "fresh" THEN {linked, linked \union {i}} ELSE {linked}
    /\ UNCHANGED <<entry, practised, evidence, analyses, request>>

\* POST with a look-up of a word that is not cached: the item is flushed and its
\* transaction stays open while the provider is asked.
AddItemAsking(r, i) ==
    /\ pc[r] = "idle" /\ IsNew(i) /\ entry # "fresh"
    /\ item' = [item EXCEPT ![i] = "pending"]
    /\ Ask(r, i)
    /\ UNCHANGED <<entry, linked, practised, evidence, analyses>>

\* The item of r, if it has one, is committed, linked to the entry there is.
CommitItem(r, hasEntry) ==
    /\ item' = [i \in Items |-> IF i = mine[r] THEN "live" ELSE item[i]]
    /\ linked' = linked \union (IF hasEntry THEN {mine[r]} \ {0} ELSE {})

\* Slip: an item is linked although there is no entry.
StoreAnswerAlways(r, answer) ==
    /\ CommitItem(r, TRUE)
    /\ entry' = IF answer = "found" THEN "fresh" ELSE entry

\* What comes of an answer: an expired entry serves on when there is no better
\* one; an insert is refused if another request inserted the word first.
StoreAnswer(r, answer) ==
    /\ CommitItem(r, answer = "found" \/ saw[r] # "absent")
    /\ entry' = IF answer = "found" THEN "fresh" ELSE entry

Refused(r, answer) == answer = "found" /\ saw[r] = "absent" /\ entry # "absent"

Answered(r) ==
    \E answer \in Answers :
        /\ pc[r] = "asking"
        /\ IF Refused(r, answer)
           THEN /\ Goto(r, "failed", 0)
                /\ item' = [i \in Items |-> IF i = mine[r] THEN "gone" ELSE item[i]]
                /\ UNCHANGED <<entry, linked>>
           ELSE StoreAnswer(r, answer) /\ Goto(r, "idle", 0)
        /\ UNCHANGED <<practised, evidence, analyses, saw>>

EntryExpires ==
    /\ entry = "fresh"
    /\ entry' = "stale"
    /\ UNCHANGED <<bank, evidence, analyses, request>>

-----------------------------------------------------------------------------
(***************************************************************************)
(* PATCH and DELETE read the item in one statement and write in another.   *)
(***************************************************************************)
ReadItem(r, i) ==
    /\ pc[r] = "idle" /\ i \in Live
    /\ \/ Goto(r, "patching", i)
       \/ Goto(r, "deleting", i)
    /\ UNCHANGED <<entry, bank, evidence, analyses, saw>>

\* An update that finds its row gone is an error.
Patch(r) ==
    /\ pc[r] = "patching"
    /\ Goto(r, IF mine[r] \in Live THEN "idle" ELSE "failed", 0)
    /\ practised' = practised \union ({mine[r]} \intersect Live)
    /\ UNCHANGED <<entry, item, linked, evidence, analyses, saw>>

\* Slip: deleting an item takes its observations along.
DeleteCascades(r) ==
    /\ pc[r] = "deleting"
    /\ item' = [item EXCEPT ![mine[r]] = "gone"]
    /\ linked' = linked \ {mine[r]} /\ practised' = practised \ {mine[r]}
    /\ observed' = {x \in observed : about[x] # mine[r]}
    /\ about' = [x \in Runs |-> IF about[x] = mine[r] THEN 0 ELSE about[x]]
    /\ Goto(r, "idle", 0)
    /\ UNCHANGED <<entry, analyses, saw>>

\* A deleted item leaves its observations behind, without the reference.  Deleting
\* a row that is gone already is no error.
Delete(r) ==
    /\ pc[r] = "deleting"
    /\ item' = [item EXCEPT ![mine[r]] = "gone"]
    /\ linked' = linked \ {mine[r]} /\ practised' = practised \ {mine[r]}
    /\ about' = [x \in Runs |-> IF about[x] = mine[r] THEN 0 ELSE about[x]]
    /\ Goto(r, "idle", 0)
    /\ UNCHANGED <<entry, observed, analyses, saw>>

\* The process stops, or an answered error leaves the thread free.
Abort(r) ==
    /\ pc[r] # "idle"
    /\ item' = [i \in Items |-> IF i = mine[r] /\ item[i] = "pending" THEN "gone" ELSE item[i]]
    /\ Goto(r, "idle", 0)
    /\ UNCHANGED <<entry, linked, practised, evidence, analyses, saw>>

-----------------------------------------------------------------------------
(***************************************************************************)
(* The completing transaction of an analysis.                              *)
(***************************************************************************)
\* It refers to an item of the learner's with the word, or creates one.
Refer(x, i) ==
    /\ run[x] = "open"
    /\ \/ i \in Live /\ UNCHANGED item
       \/ Live = {} /\ IsNew(i) /\ item' = [item EXCEPT ![i] = "pending"]
    /\ run' = [run EXCEPT ![x] = "referring"]
    /\ ref' = [ref EXCEPT ![x] = i]
    /\ UNCHANGED <<entry, linked, practised, evidence, request>>

\* The foreign key of the observation holds.
Refers(x) == item[ref[x]] \in {"pending", "live"}

\* The observation is committed with the analysis; a reference to an item deleted in
\* between is refused, and the refusal is not a failure the worker retries.
CompleteRun(x) ==
    /\ run[x] = "referring"
    /\ IF Refers(x)
       THEN /\ item' = [item EXCEPT ![ref[x]] = "live"]
            /\ observed' = observed \union {x}
            /\ about' = [about EXCEPT ![x] = ref[x]]
            /\ run' = [run EXCEPT ![x] = "completed"]
       ELSE run' = [run EXCEPT ![x] = "failed"] /\ UNCHANGED <<item, evidence>>
    /\ ref' = [ref EXCEPT ![x] = 0]
    /\ UNCHANGED <<entry, linked, practised, request>>

\* The worker stops or has lost its lease: rolled back, and the job is taken up again.
RetryRun(x) ==
    /\ run[x] = "referring"
    /\ item' = [item EXCEPT ![ref[x]] = IF @ = "pending" THEN "gone" ELSE @]
    /\ run' = [run EXCEPT ![x] = "open"]
    /\ ref' = [ref EXCEPT ![x] = 0]
    /\ UNCHANGED <<entry, linked, practised, evidence, request>>

\* An operator queues the failed job again.
RequeueRun(x) ==
    /\ run[x] = "failed"
    /\ run' = [run EXCEPT ![x] = "open"]
    /\ UNCHANGED <<entry, bank, evidence, ref, request>>

RequestStep(r) ==
    \/ Lookup(r) \/ Answered(r) \/ Patch(r) \/ Delete(r) \/ Abort(r)
    \/ \E i \in Items : AddItem(r, i) \/ AddItemAsking(r, i) \/ ReadItem(r, i)

RunStep(x) ==
    \/ \E i \in Items : Refer(x, i)
    \/ CompleteRun(x) \/ RetryRun(x) \/ RequeueRun(x)

Next ==
    \/ \E r \in Requests : RequestStep(r)
    \/ \E x \in Runs : RunStep(x)
    \/ EntryExpires

Spec == Init /\ [][Next]_vars

-----------------------------------------------------------------------------
(***************************************************************************)
(* Properties.                                                             *)
(***************************************************************************)

\* Every reference of a committed row resolves: an observation's item and a linked
\* item's dictionary entry exist, whatever was deleted, rolled back or not found
\* meanwhile (analysis_worker.py:334, services.py:215).
ReferencesResolve ==
    /\ \A x \in observed : about[x] = 0 \/ about[x] \in Live
    /\ linked \intersect Live # {} => entry # "absent"

\* "Deleting a Word Bank item only removes that learner-facing item": evidence of
\* use is never lost and never moves to another item (docs/vocabulary-engine.md:19).
EvidenceIsImmutable ==
    [][\A x \in observed : x \in observed' /\ about'[x] \in {about[x], 0}]_vars

\* "Cache shared lexical reference data without changing user-owned state": asking
\* for a definition never costs the learner the word (services.py:164).
LookupKeepsItem ==
    [][\A r \in Requests : (pc[r] = "asking" /\ pc'[r] = "failed") => mine[r] = 0]_vars
=============================================================================
