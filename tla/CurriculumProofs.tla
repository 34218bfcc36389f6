-------------------------- MODULE CurriculumProofs --------------------------
(***************************************************************************)
(* The baseline and the recommendations, for any learners, any requests    *)
(* and catalogues of any length.                                           *)
(***************************************************************************)
EXTENDS Curriculum, FiniteSetTheorems, TLAPS

\* Seeding never leaves a part of the baseline behind: the challenges table holds
\* all of it or, before the first start, none.
CatalogueIsWhole == Baseline \subseteq catalogue \/ Baseline \intersect catalogue = {}
WholeCatalogues == \A c \in Catalogues : Baseline \subseteq c \/ Baseline \intersect c = {}

\* A learner has the whole baseline, and then its challenges are there, or none of it.
AssignedIsWhole ==
    \A l \in Learners : assigned[l] = {} \/ (assigned[l] = Baseline /\ Baseline \subseteq catalogue)

\* A challenge is inserted by one open transaction, and only when it is missing.
InsertsAreApart ==
    \A r \in Requests :
        /\ inserted[r] \intersect catalogue = {}
        /\ \A q \in Requests \ {r} : inserted[r] \intersect inserted[q] = {}

\* Where a request stands in its walk over the challenges it needs.  One that is
\* past the first step and still misses a challenge has inserted the first itself.
Walk(r) ==
    /\ pc[r] # "failed"
    /\ pc[r] \in {"looking", "flushing", "inserting"} => next[r] \in Challenges
    /\ pc[r] = "committing" => next[r] \in (Challenges \ Baseline) \union {End}
    /\ pc[r] # "idle" /\ Starting(r) =>
         /\ inserted[r] \subseteq Baseline
         /\ \A i \in Baseline : i < next[r] => i \in catalogue \union inserted[r]
    /\ pc[r] # "idle" /\ ~Starting(r) => inserted[r] \intersect Baseline = {}
    /\ pc[r] \in {"flushing", "inserting"} /\ Starting(r) /\ next[r] # 1 => 1 \in inserted[r]

StartInv ==
    /\ TypeOK
    /\ CatalogueIsWhole
    /\ AssignedIsWhole
    /\ InsertsAreApart
    /\ \A r \in Requests : Walk(r)

\* Only request r takes a step.
OnlyRequest(r) ==
    \A q \in Requests \ {r} :
        /\ pc'[q] = pc[q] /\ who'[q] = who[q] /\ next'[q] = next[q]
        /\ inserted'[q] = inserted[q] /\ flushed'[q] = flushed[q]

LEMMA BaselineShape ==
    /\ 1 \in Baseline /\ Steps \in Baseline
    /\ End \in Int /\ End \notin Challenges /\ 0 \notin Challenges
    /\ Baseline \subseteq Challenges /\ Steps + 1 \in Challenges \ Baseline
    /\ Challenges \subseteq 0 .. End /\ 0 \in 0 .. End /\ End \in 0 .. End
  BY SizeAssumption DEF Baseline, Challenges, End

\* Closing a transaction.
LEMMA CloseEffect ==
    ASSUME TypeOK, NEW r \in Requests, NEW where \in {"idle", "failed"},
           Close(r, where), who' = who, flushed' = [flushed EXCEPT ![r] = {}]
    PROVE  /\ pc' \in [Requests -> {"idle", "looking", "flushing", "inserting", "committing", "failed"}]
           /\ next' \in [Requests -> 0 .. End]
           /\ inserted' \in [Requests -> SUBSET Challenges]
           /\ flushed' \in [Requests -> SUBSET Baseline]
           /\ pc'[r] = where /\ next'[r] = 0 /\ inserted'[r] = {} /\ flushed'[r] = {}
           /\ OnlyRequest(r)
  BY BaselineShape DEF TypeOK, Close, Goto, OnlyRequest

\* Types and walks of the requests that take no step.
LEMMA OthersStay ==
    ASSUME StartInv, NEW r \in Requests, OnlyRequest(r), catalogue \subseteq catalogue',
           NEW q \in Requests \ {r}
    PROVE  Walk(q)'
<1>1. Walk(q)
  BY DEF StartInv
<1>2. pc'[q] = pc[q] /\ next'[q] = next[q] /\ inserted'[q] = inserted[q]
  BY DEF OnlyRequest
<1>3. Starting(q)' <=> Starting(q)
  BY <1>2 DEF Starting
<1>4. QED
  BY <1>1, <1>2, <1>3 DEF Walk

\* A step of request r that commits nothing.
LEMMA PrivateStep ==
    ASSUME StartInv, NEW r \in Requests, OnlyRequest(r), UNCHANGED tables,
           TypeOK', Walk(r)',
           inserted'[r] \intersect catalogue = {},
           \A q \in Requests \ {r} : inserted'[r] \intersect inserted[q] = {}
    PROVE  StartInv'
<1>1. catalogue' = catalogue /\ assigned' = assigned
  BY DEF tables
<1>2. CatalogueIsWhole' /\ AssignedIsWhole'
  BY <1>1 DEF StartInv, CatalogueIsWhole, AssignedIsWhole
<1>3. \A p \in Requests : inserted'[p] \intersect catalogue' = {}
  BY <1>1 DEF StartInv, InsertsAreApart, OnlyRequest
<1>4. \A p \in Requests : \A q \in Requests \ {p} : inserted'[p] \intersect inserted'[q] = {}
  BY DEF StartInv, InsertsAreApart, OnlyRequest
<1>5. \A q \in Requests : Walk(q)'
  BY <1>1, OthersStay
<1>6. QED
  BY <1>2, <1>3, <1>4, <1>5 DEF StartInv, InsertsAreApart

\* A request that ends, without a failure, and commits nothing.
LEMMA RollbackStep ==
    ASSUME StartInv, NEW r \in Requests, Close(r, "idle"), UNCHANGED <<tables, who>>
    PROVE  StartInv'
<1>1. TypeOK
  BY DEF StartInv
<1>2. flushed' = [flushed EXCEPT ![r] = {}]
  BY DEF Close
<1>3. /\ pc' \in [Requests -> {"idle", "looking", "flushing", "inserting", "committing", "failed"}]
      /\ next' \in [Requests -> 0 .. End]
      /\ inserted' \in [Requests -> SUBSET Challenges]
      /\ flushed' \in [Requests -> SUBSET Baseline]
      /\ pc'[r] = "idle" /\ next'[r] = 0 /\ inserted'[r] = {} /\ flushed'[r] = {}
      /\ OnlyRequest(r)
  BY <1>1, <1>2, CloseEffect
<1>4. TypeOK'
  BY <1>1, <1>3 DEF TypeOK, tables, OnlyRequest
<1>5. Walk(r)'
  BY <1>3 DEF Walk
<1>6. QED
  BY <1>3, <1>4, <1>5, PrivateStep

LEMMA ServeStep ==
    ASSUME StartInv, NEW r \in Requests, NEW l \in Learners, NEW n \in Challenges,
           n = 1 \/ n \notin Baseline, Serve(r, l, n)
    PROVE  StartInv'
<1>1. TypeOK /\ pc[r] = "idle" /\ inserted[r] = {} /\ flushed[r] = {}
  BY DEF StartInv, Serve, TypeOK
<1>2. /\ pc' = [pc EXCEPT ![r] = "looking"] /\ next' = [next EXCEPT ![r] = n]
      /\ who' = [who EXCEPT ![r] = l] /\ inserted' = inserted /\ flushed' = flushed
      /\ UNCHANGED tables
  BY DEF Serve, Goto
<1>3. n \in 0 .. End
  BY BaselineShape
<1>4. TypeOK'
  BY <1>1, <1>2, <1>3 DEF TypeOK, tables
<1>5. OnlyRequest(r)
  BY <1>1, <1>2 DEF OnlyRequest, TypeOK
<1>6. pc'[r] = "looking" /\ next'[r] = n /\ inserted'[r] = {}
  BY <1>1, <1>2 DEF TypeOK
<1>7. Walk(r)'
  <2>1. \A i \in Baseline : ~ (i < 1)
    BY SizeAssumption DEF Baseline
  <2>2. n \in Baseline => n = 1
    OBVIOUS
  <2>3. n # End
    BY BaselineShape
  <2>4. QED
    BY <1>6, <2>1, <2>2, <2>3 DEF Walk, Starting
<1>8. QED
  BY <1>1, <1>2, <1>4, <1>5, <1>6, <1>7, PrivateStep

\* The walk goes on when its challenge is there.
LEMMA EnsuredEffect ==
    ASSUME TypeOK, NEW r \in Requests, next[r] \in Challenges, Ensured(r)
    PROVE  /\ pc' \in [Requests -> {"idle", "looking", "flushing", "inserting", "committing", "failed"}]
           /\ next' \in [Requests -> 0 .. End]
           /\ \A q \in Requests \ {r} : pc'[q] = pc[q] /\ next'[q] = next[q]
           /\ \/ /\ next[r] \in Baseline
                 /\ next'[r] \in Baseline \union {End}
                 /\ \A i \in Baseline : i < next'[r] => i < next[r] \/ i = next[r]
                 /\ (pc'[r] = "looking" /\ next'[r] \in Baseline) \/ (pc'[r] = "committing" /\ next'[r] = End)
              \/ /\ next[r] \notin Baseline
                 /\ next'[r] = next[r] /\ pc'[r] = "committing"
<1>1. CASE next[r] \in Baseline /\ next[r] = Steps
  <2>1. Goto(r, "committing", End)
    BY <1>1 DEF Ensured
  <2>2. pc'[r] = "committing" /\ next'[r] = End
    BY <2>1 DEF Goto, TypeOK
  <2>3. \A i \in Baseline : i < next[r] \/ i = next[r]
    BY <1>1, SizeAssumption DEF Baseline
  <2>4. QED
    BY <1>1, <2>1, <2>2, <2>3, BaselineShape DEF Goto, TypeOK
<1>2. CASE next[r] \in Baseline /\ next[r] # Steps
  <2>1. Goto(r, "looking", next[r] + 1)
    BY <1>2 DEF Ensured
  <2>2. next[r] + 1 \in Baseline /\ \A i \in Baseline : i < next[r] + 1 => i < next[r] \/ i = next[r]
    BY <1>2, SizeAssumption DEF Baseline
  <2>3. next[r] + 1 \in 0 .. End
    BY <2>2, BaselineShape
  <2>4. pc'[r] = "looking" /\ next'[r] = next[r] + 1
    BY <2>1 DEF Goto, TypeOK
  <2>5. /\ pc' \in [Requests -> {"idle", "looking", "flushing", "inserting", "committing", "failed"}]
        /\ next' \in [Requests -> 0 .. End]
        /\ \A q \in Requests \ {r} : pc'[q] = pc[q] /\ next'[q] = next[q]
    BY <2>1, <2>3 DEF Goto, TypeOK
  <2>6. /\ next'[r] \in Baseline
        /\ \A i \in Baseline : i < next'[r] => i < next[r] \/ i = next[r]
    BY <2>2, <2>4
  <2>7. /\ next[r] \in Baseline
        /\ next'[r] \in Baseline \union {End}
        /\ \A i \in Baseline : i < next'[r] => i < next[r] \/ i = next[r]
        /\ pc'[r] = "looking" /\ next'[r] \in Baseline
    BY <1>2, <2>4, <2>6
  <2>8. QED
    BY <2>5, <2>7
<1>3. CASE next[r] \notin Baseline
  <2>1. Goto(r, "committing", next[r])
    BY <1>3 DEF Ensured
  <2>2. QED
    BY <1>3, <2>1 DEF Goto, TypeOK
<1>4. QED
  BY <1>1, <1>2, <1>3

LEMMA LookStep ==
    ASSUME StartInv, NEW r \in Requests, Look(r)
    PROVE  StartInv'
<1>1. /\ TypeOK /\ Walk(r) /\ pc[r] = "looking" /\ next[r] \in Challenges
      /\ inserted' = inserted /\ flushed' = flushed /\ who' = who /\ UNCHANGED tables
  BY DEF StartInv, Look, Walk
<1>2. CASE next[r] \in catalogue \union inserted[r]
  <2>1. Ensured(r)
    BY <1>2 DEF Look
  <2>2. TypeOK'
    BY <1>1, <2>1, EnsuredEffect DEF TypeOK, tables
  <2>3. OnlyRequest(r)
    BY <1>1, <2>1, EnsuredEffect DEF OnlyRequest
  <2>4. Walk(r)'
    <3>1. CASE next[r] \in Baseline
      <4>1. /\ next'[r] \in Baseline \union {End} /\ pc'[r] \in {"looking", "committing"}
            /\ \A i \in Baseline : i < next'[r] => i < next[r] \/ i = next[r]
            /\ \/ pc'[r] = "looking" /\ next'[r] \in Challenges
               \/ pc'[r] = "committing" /\ next'[r] = End
        BY <1>1, <2>1, <3>1, EnsuredEffect, BaselineShape
      <4>2. inserted[r] \subseteq Baseline /\ \A i \in Baseline : i < next[r] => i \in catalogue \union inserted[r]
        BY <1>1, <3>1 DEF Walk, Starting
      <4>3. \A i \in Baseline : i < next'[r] => i \in catalogue' \union inserted'[r]
        BY <1>1, <1>2, <4>1, <4>2 DEF tables
      <4>4. QED
        BY <1>1, <4>1, <4>2, <4>3, BaselineShape DEF Walk, Starting
    <3>2. CASE next[r] \notin Baseline
      <4>1. next'[r] = next[r] /\ pc'[r] = "committing"
        BY <1>1, <2>1, <3>2, EnsuredEffect
      <4>2. next[r] # End
        BY <1>1, BaselineShape
      <4>3. QED
        BY <1>1, <3>2, <4>1, <4>2 DEF Walk, Starting
    <3>3. QED
      BY <3>1, <3>2
  <2>5. QED
    BY <1>1, <2>2, <2>3, <2>4, PrivateStep DEF StartInv, InsertsAreApart
<1>3. CASE next[r] \notin catalogue \union inserted[r]
  <2>1. pc' = [pc EXCEPT ![r] = "flushing"] /\ next' = [next EXCEPT ![r] = next[r]]
    BY <1>3 DEF Look, Goto
  <2>2. TypeOK' /\ OnlyRequest(r) /\ pc'[r] = "flushing" /\ next'[r] = next[r]
    BY <1>1, <2>1 DEF TypeOK, tables, OnlyRequest
  <2>3. Starting(r) /\ next[r] # 1 => 1 \in inserted[r]
    <3>1. SUFFICES ASSUME Starting(r), next[r] # 1 PROVE 1 \in inserted[r]
      OBVIOUS
    <3>2. next[r] \in Baseline /\ 1 \in Baseline /\ 1 < next[r]
      BY <1>1, <3>1, BaselineShape DEF Starting, Baseline
    <3>3. 1 \in catalogue \union inserted[r]
      BY <1>1, <3>1, <3>2 DEF Walk
    <3>4. 1 \notin catalogue
      BY <1>3, <3>2 DEF StartInv, CatalogueIsWhole
    <3>5. QED
      BY <3>3, <3>4
  <2>4. Walk(r)'
    BY <1>1, <2>2, <2>3 DEF Walk, Starting, tables
  <2>5. QED
    BY <1>1, <2>2, <2>4, PrivateStep DEF StartInv, InsertsAreApart
<1>4. QED
  BY <1>2, <1>3

\* A flush that still has a challenge to insert finds no assignment of the learner:
\* whoever had committed one would have committed the first challenge, too.
LEMMA FlushStep ==
    ASSUME StartInv, NEW r \in Requests, Flush(r)
    PROVE  StartInv'
<1>1. /\ TypeOK /\ Walk(r) /\ pc[r] = "flushing" /\ next[r] \in Challenges
      /\ who' = who /\ UNCHANGED tables
  BY DEF StartInv, Flush, Walk
<1>2. Pending(r) \intersect assigned[who[r]] = {}
  <2>1. CASE ~Starting(r) \/ next[r] = 1
    <3>1. Pending(r) = {}
      BY <2>1, SizeAssumption DEF Pending, Baseline
    <3>2. QED
      BY <3>1
  <2>2. CASE Starting(r) /\ next[r] # 1
    <3>1. 1 \in inserted[r] /\ 1 \notin catalogue
      BY <1>1, <2>2 DEF Walk, StartInv, InsertsAreApart
    <3>2. assigned[who[r]] = {}
      BY <1>1, <3>1, BaselineShape DEF StartInv, AssignedIsWhole, TypeOK
    <3>3. QED
      BY <3>2
  <2>3. QED
    BY <2>1, <2>2
<1>3. /\ pc' = [pc EXCEPT ![r] = "inserting"] /\ next' = [next EXCEPT ![r] = next[r]]
      /\ flushed' = [flushed EXCEPT ![r] = Pending(r)] /\ inserted' = inserted
  BY <1>2 DEF Flush, Goto
<1>4. Pending(r) \subseteq Baseline
  BY DEF Pending
<1>5. TypeOK' /\ OnlyRequest(r) /\ pc'[r] = "inserting" /\ next'[r] = next[r]
  BY <1>1, <1>3, <1>4 DEF TypeOK, tables, OnlyRequest
<1>6. Walk(r)'
  BY <1>1, <1>3, <1>5 DEF Walk, Starting, tables
<1>7. QED
  BY <1>1, <1>3, <1>5, <1>6, PrivateStep DEF StartInv, InsertsAreApart

LEMMA InsertStep ==
    ASSUME StartInv, NEW r \in Requests, InsertChallenge(r)
    PROVE  StartInv'
<1>1. /\ TypeOK /\ Walk(r) /\ pc[r] = "inserting" /\ next[r] \in Challenges
      /\ Ensured(r) /\ flushed' = flushed /\ who' = who /\ UNCHANGED tables
      /\ inserted' = [inserted EXCEPT ![r] = @ \union ({next[r]} \ catalogue)]
      /\ \A q \in Requests \ {r} : next[r] \notin inserted[q]
  BY DEF StartInv, InsertChallenge, Walk
<1>2. inserted'[r] = inserted[r] \union ({next[r]} \ catalogue) /\ inserted' \in [Requests -> SUBSET Challenges]
      /\ \A q \in Requests \ {r} : inserted'[q] = inserted[q]
  BY <1>1 DEF TypeOK
<1>3. TypeOK'
  <2>1. /\ pc' \in [Requests -> {"idle", "looking", "flushing", "inserting", "committing", "failed"}]
        /\ next' \in [Requests -> 0 .. End]
        /\ pc'[r] \notin {"idle", "failed"}
        /\ \A q \in Requests \ {r} : pc'[q] = pc[q]
    BY <1>1, EnsuredEffect
  <2>2. QED
    BY <1>1, <1>2, <2>1 DEF TypeOK, tables
<1>4. OnlyRequest(r)
  BY <1>1, <1>2, EnsuredEffect DEF OnlyRequest
<1>5. /\ inserted'[r] \intersect catalogue = {}
      /\ \A q \in Requests \ {r} : inserted'[r] \intersect inserted[q] = {}
  BY <1>1, <1>2 DEF StartInv, InsertsAreApart
<1>6. Walk(r)'
  <2>1. CASE next[r] \in Baseline
    <3>1. /\ next'[r] \in Baseline \union {End} /\ pc'[r] \in {"looking", "committing"}
          /\ \A i \in Baseline : i < next'[r] => i < next[r] \/ i = next[r]
          /\ \/ pc'[r] = "looking" /\ next'[r] \in Challenges
             \/ pc'[r] = "committing" /\ next'[r] = End
      BY <1>1, <2>1, EnsuredEffect, BaselineShape
    <3>2. inserted[r] \subseteq Baseline /\ \A i \in Baseline : i < next[r] => i \in catalogue \union inserted[r]
      BY <1>1, <2>1 DEF Walk, Starting
    <3>3. inserted'[r] \subseteq Baseline
      BY <1>2, <2>1, <3>2
    <3>4. \A i \in Baseline : i < next'[r] => i \in catalogue' \union inserted'[r]
      BY <1>1, <1>2, <3>1, <3>2 DEF tables
    <3>5. QED
      BY <3>1, <3>3, <3>4, BaselineShape DEF Walk, Starting
  <2>2. CASE next[r] \notin Baseline
    <3>1. next'[r] = next[r] /\ pc'[r] = "committing"
      BY <1>1, <2>2, EnsuredEffect
    <3>2. next[r] # End
      BY <1>1, BaselineShape
    <3>3. inserted[r] \intersect Baseline = {}
      BY <1>1, <2>2, <3>2 DEF Walk, Starting
    <3>4. inserted'[r] \intersect Baseline = {}
      BY <1>2, <2>2, <3>3
    <3>5. QED
      BY <1>1, <2>2, <3>1, <3>2, <3>4 DEF Walk, Starting
  <2>3. QED
    BY <2>1, <2>2
<1>7. QED
  BY <1>1, <1>3, <1>4, <1>5, <1>6, PrivateStep

\* What a commit of request r makes visible, with its walk over the baseline behind it.
LEMMA CommitEffect ==
    ASSUME StartInv, NEW r \in Requests, Close(r, "idle"), who' = who,
           catalogue' = catalogue \union inserted[r],
           assigned' \in [Learners -> SUBSET Baseline], open' \in [Learners -> Nat],
           UNCHANGED <<trying, done>>,
           CatalogueIsWhole', AssignedIsWhole'
    PROVE  StartInv'
<1>1. TypeOK /\ flushed' = [flushed EXCEPT ![r] = {}]
  BY DEF StartInv, Close
<1>2. /\ pc' \in [Requests -> {"idle", "looking", "flushing", "inserting", "committing", "failed"}]
      /\ next' \in [Requests -> 0 .. End]
      /\ inserted' \in [Requests -> SUBSET Challenges]
      /\ flushed' \in [Requests -> SUBSET Baseline]
      /\ pc'[r] = "idle" /\ next'[r] = 0 /\ inserted'[r] = {} /\ flushed'[r] = {}
      /\ OnlyRequest(r)
  BY <1>1, CloseEffect
<1>3. TypeOK'
  BY <1>1, <1>2 DEF TypeOK, OnlyRequest
<1>4. \A q \in Requests : Walk(q)'
  <2>1. Walk(r)'
    BY <1>2 DEF Walk
  <2>2. QED
    BY <1>2, <2>1, OthersStay
<1>5. \A q \in Requests \ {r} : inserted'[q] = inserted[q]
  BY <1>2 DEF OnlyRequest
<1>6. \A q \in Requests : inserted'[q] \intersect catalogue' = {}
  BY <1>2, <1>5 DEF StartInv, InsertsAreApart
<1>7. \A p \in Requests : \A q \in Requests \ {p} : inserted'[p] \intersect inserted'[q] = {}
  BY <1>2, <1>5 DEF StartInv, InsertsAreApart
<1>8. QED
  BY <1>3, <1>4, <1>6, <1>7 DEF StartInv, InsertsAreApart

LEMMA CommitStartStep ==
    ASSUME StartInv, NEW r \in Requests, CommitStart(r)
    PROVE  StartInv'
<1>1. /\ TypeOK /\ Walk(r) /\ pc[r] = "committing" /\ Starting(r) /\ who[r] \in Learners
      /\ who' = who /\ UNCHANGED <<trying, done, open>>
  BY DEF StartInv, CommitStart, TypeOK
<1>2. CASE assigned[who[r]] # {}
  <2>1. ValidBaseline(who[r])
    BY <1>1, <1>2 DEF StartInv, AssignedIsWhole, ValidBaseline
  <2>2. Close(r, "idle") /\ UNCHANGED <<tables, who>>
    BY <1>1, <1>2, <2>1 DEF CommitStart, tables
  <2>3. QED
    BY <2>2, RollbackStep
<1>3. CASE assigned[who[r]] = {}
  <2>1. /\ catalogue' = catalogue \union inserted[r]
        /\ assigned' = [assigned EXCEPT ![who[r]] = Baseline] /\ Close(r, "idle")
    BY <1>3 DEF CommitStart
  <2>2. next[r] = End /\ \A i \in Baseline : i < End
    BY <1>1, SizeAssumption DEF Walk, Starting, Baseline, End
  <2>3. Baseline \subseteq catalogue'
    BY <1>1, <2>1, <2>2 DEF Walk
  <2>4. CatalogueIsWhole' /\ AssignedIsWhole'
    BY <1>1, <2>1, <2>3 DEF CatalogueIsWhole, StartInv, AssignedIsWhole, TypeOK
  <2>5. assigned' \in [Learners -> SUBSET Baseline] /\ open' \in [Learners -> Nat]
    BY <1>1, <2>1 DEF TypeOK
  <2>6. QED
    BY <1>1, <2>1, <2>4, <2>5, CommitEffect
<1>4. QED
  BY <1>2, <1>3

LEMMA CommitRecommendationStep ==
    ASSUME StartInv, NEW r \in Requests, CommitRecommendation(r)
    PROVE  StartInv'
<1>1. /\ TypeOK /\ Walk(r) /\ pc[r] = "committing" /\ ~Starting(r) /\ who[r] \in Learners
      /\ who' = who /\ UNCHANGED <<assigned, trying, done>> /\ Close(r, "idle")
      /\ catalogue' = catalogue \union inserted[r]
      /\ open' = [open EXCEPT ![who[r]] = @ + 1]
  BY DEF StartInv, CommitRecommendation, TypeOK
<1>2. inserted[r] \intersect Baseline = {}
  BY <1>1 DEF Walk
<1>3. CatalogueIsWhole' /\ AssignedIsWhole'
  BY <1>1, <1>2 DEF StartInv, CatalogueIsWhole, AssignedIsWhole
<1>4. assigned' \in [Learners -> SUBSET Baseline] /\ open' \in [Learners -> Nat]
  BY <1>1 DEF TypeOK
<1>5. QED
  BY <1>1, <1>3, <1>4, CommitEffect

LEMMA RecommendAnyStep ==
    ASSUME StartInv, NEW r \in Requests, RecommendAny(r)
    PROVE  StartInv'
<1>1. /\ TypeOK /\ pc[r] = "idle" /\ inserted[r] = {} /\ flushed[r] = {}
      /\ pc' = [pc EXCEPT ![r] = "committing"] /\ next' = [next EXCEPT ![r] = Steps + 1]
      /\ inserted' = inserted /\ flushed' = flushed /\ UNCHANGED tables
  BY DEF StartInv, RecommendAny, TypeOK, Goto
<1>2. PICK l \in Learners : who' = [who EXCEPT ![r] = l]
  BY DEF RecommendAny
<1>3. Steps + 1 \in 0 .. End /\ Steps + 1 \in Challenges \ Baseline /\ Steps + 1 # End
  BY BaselineShape
<1>4. TypeOK'
  BY <1>1, <1>2, <1>3 DEF TypeOK, tables
<1>5. OnlyRequest(r) /\ pc'[r] = "committing" /\ next'[r] = Steps + 1 /\ inserted'[r] = {}
  BY <1>1, <1>2 DEF OnlyRequest, TypeOK
<1>6. Walk(r)'
  BY <1>3, <1>5 DEF Walk, Starting
<1>7. QED
  BY <1>1, <1>4, <1>5, <1>6, PrivateStep

LEMMA LearnerStaysWhole ==
    ASSUME StartInv, NEW l \in Learners, LearnerStep(l)
    PROVE  StartInv'
<1>1. TypeOK /\ UNCHANGED <<catalogue, assigned, requests>>
  BY DEF StartInv, LearnerStep, BeginStep, FinishStep, AttemptFails, FinishPractice
<1>2. /\ trying' \in [Learners -> SUBSET Baseline] /\ done' \in [Learners -> SUBSET Baseline]
      /\ open' \in [Learners -> Nat]
  BY <1>1 DEF LearnerStep, BeginStep, FinishStep, AttemptFails, FinishPractice, TypeOK
<1>3. TypeOK'
  BY <1>1, <1>2 DEF TypeOK, requests
<1>4. \A r \in Requests : Walk(r)'
  BY <1>1 DEF StartInv, Walk, Starting, requests
<1>5. CatalogueIsWhole' /\ AssignedIsWhole' /\ InsertsAreApart'
  BY <1>1 DEF StartInv, CatalogueIsWhole, AssignedIsWhole, InsertsAreApart, requests
<1>6. QED
  BY <1>3, <1>4, <1>5 DEF StartInv

LEMMA NextStart == StartInv /\ [Next]_vars => StartInv'
<1> SUFFICES ASSUME StartInv, [Next]_vars PROVE StartInv'
  OBVIOUS
<1>1. ASSUME NEW r \in Requests, RequestStep(r) PROVE StartInv'
  <2>1. CASE StartBaseline(r)
    BY <2>1, ServeStep, BaselineShape DEF StartBaseline
  <2>2. CASE Recommend(r)
    BY <2>2, ServeStep DEF Recommend
  <2>3. CASE RecommendAny(r)
    BY <2>3, RecommendAnyStep
  <2>4. CASE Look(r) \/ Flush(r) \/ InsertChallenge(r)
    BY <2>4, LookStep, FlushStep, InsertStep
  <2>5. CASE CommitStart(r) \/ CommitRecommendation(r)
    BY <2>5, CommitStartStep, CommitRecommendationStep
  <2>6. CASE Abort(r)
    BY <2>6, RollbackStep DEF Abort
  <2>7. QED
    BY <1>1, <2>1, <2>2, <2>3, <2>4, <2>5, <2>6 DEF RequestStep
<1>2. ASSUME NEW l \in Learners, LearnerStep(l) PROVE StartInv'
  BY <1>2, LearnerStaysWhole
<1>3. CASE UNCHANGED vars
  <2>1. UNCHANGED <<tables, requests>>
    BY <1>3 DEF vars
  <2>2. QED
    BY <2>1 DEF tables, requests, StartInv, TypeOK, CatalogueIsWhole, AssignedIsWhole,
       InsertsAreApart, Walk, Starting
<1>4. QED
  BY <1>1, <1>2, <1>3 DEF Next

LEMMA InitStart == WholeCatalogues /\ Init => StartInv
<1> SUFFICES ASSUME WholeCatalogues, Init PROVE StartInv
  OBVIOUS
<1>1. TypeOK
  BY CatalogueAssumption, BaselineShape DEF Init, TypeOK, Challenges
<1>2. CatalogueIsWhole /\ AssignedIsWhole
  BY DEF Init, WholeCatalogues, CatalogueIsWhole, AssignedIsWhole
<1>3. InsertsAreApart
  BY DEF Init, InsertsAreApart
<1>4. \A r \in Requests : Walk(r)
  BY DEF Init, Walk
<1>5. QED
  BY <1>1, <1>2, <1>3, <1>4 DEF StartInv

\* The tables hold the baseline whole or not at all, through any concurrent starts,
\* recommendations and crashes.
THEOREM BaselineIsWhole == WholeCatalogues /\ Spec => []StartInv
<1>1. WholeCatalogues /\ Init => StartInv
  BY InitStart
<1>2. StartInv /\ [Next]_vars => StartInv'
  BY NextStart
<1>3. QED
  BY <1>1, <1>2, PTL DEF Spec

\* From a challenges table with the whole baseline, or none of it, no concurrent start
\* ends in an error or leaves a part of the sequence.
THEOREM StartsAreAnswered == WholeCatalogues /\ Spec => []StartAnswered
<1>1. StartInv => StartAnswered
  BY DEF StartInv, StartAnswered, Walk, AssignedIsWhole
<1>2. QED
  BY <1>1, BaselineIsWhole, PTL

-----------------------------------------------------------------------------
\* A step is begun, and so finished, only behind all the earlier ones.
OrderInv ==
    /\ trying \in [Learners -> SUBSET Baseline]
    /\ done \in [Learners -> SUBSET Baseline]
    /\ \A l \in Learners : \A i \in trying[l] : \A j \in Baseline : j < i => j \in done[l]
    /\ BaselineInOrder

\* Attempts fail and finish in any order, yet completed steps are a first part of the
\* baseline.
THEOREM BaselineIsInOrder == Spec => []BaselineInOrder
<1>1. Init => OrderInv
  BY DEF Init, OrderInv, BaselineInOrder
<1>2. OrderInv /\ [Next]_vars => OrderInv'
  <2> SUFFICES ASSUME OrderInv, [Next]_vars PROVE OrderInv'
    OBVIOUS
  <2>1. ASSUME NEW l \in Learners, NEW i \in Baseline, BeginStep(l, i) PROVE OrderInv'
    <3>1. \A j \in Baseline : j < i => j \in done[l]
      BY <2>1 DEF BeginStep, IsCurrent, Baseline
    <3>2. done' = done /\ trying' = [trying EXCEPT ![l] = @ \union {i}]
      BY <2>1 DEF BeginStep
    <3>3. QED
      BY <3>1, <3>2 DEF OrderInv, BaselineInOrder
  <2>2. ASSUME NEW l \in Learners, NEW i \in Baseline, FinishStep(l, i) PROVE OrderInv'
    <3>1. /\ i \in trying[l] /\ done' = [done EXCEPT ![l] = @ \union {i}]
          /\ trying' = [trying EXCEPT ![l] = @ \ {i}]
      BY <2>2 DEF FinishStep
    <3>2. QED
      BY <3>1 DEF OrderInv, BaselineInOrder
  <2>3. ASSUME NEW l \in Learners, NEW i \in Baseline, AttemptFails(l, i) PROVE OrderInv'
    BY <2>3 DEF AttemptFails, OrderInv, BaselineInOrder
  <2>4. CASE UNCHANGED <<trying, done>>
    BY <2>4 DEF OrderInv, BaselineInOrder
  <2>5. ASSUME NEW r \in Requests, RequestStep(r) PROVE UNCHANGED <<trying, done>>
    BY <2>5 DEF RequestStep, StartBaseline, Recommend, RecommendAny, Serve, Look, Flush,
       InsertChallenge, CommitStart, CommitRecommendation, Abort, tables
  <2>6. ASSUME NEW l \in Learners, FinishPractice(l) PROVE UNCHANGED <<trying, done>>
    BY <2>6 DEF FinishPractice
  <2>7. UNCHANGED vars => UNCHANGED <<trying, done>>
    BY DEF vars, tables
  <2>8. QED
    BY <2>1, <2>2, <2>3, <2>4, <2>5, <2>6, <2>7 DEF Next, LearnerStep
<1>3. OrderInv => BaselineInOrder
  BY DEF OrderInv
<1>4. QED
  BY <1>1, <1>2, <1>3, PTL DEF Spec

-----------------------------------------------------------------------------
\* The requests that are about to recommend something to a learner.
Recommending(l) ==
    {r \in Requests : who[r] = l /\ pc[r] # "idle" /\ next[r] \in Challenges \ Baseline}

LEMMA RecommendingIsFinite ==
    ASSUME NEW l \in Learners
    PROVE  IsFiniteSet(Recommending(l)) /\ Cardinality(Recommending(l)) \in Nat
  BY RequestsAssumption, FS_Subset, FS_CardinalityType DEF Recommending

\* The bound holds where nobody starts to recommend, and where nothing is open.
LEMMA BoundKept ==
    ASSUME RecommendationsBounded, TypeOK, TypeOK',
           \A l \in Learners :
               \/ Recommending(l)' \subseteq Recommending(l) /\ open'[l] <= open[l]
               \/ open'[l] = 0
    PROVE  RecommendationsBounded'
<1> SUFFICES ASSUME NEW l \in Learners
             PROVE  open'[l] + Cardinality(Recommending(l)') <= Cardinality(Requests)
  BY DEF RecommendationsBounded, Recommending
<1>1. Cardinality(Requests) \in Nat /\ open[l] \in Nat /\ open'[l] \in Nat
  BY RequestsAssumption, FS_CardinalityType DEF TypeOK
<1>2. Recommending(l)' \subseteq Requests
  BY DEF Recommending
<1>3. Cardinality(Recommending(l)') <= Cardinality(Requests) /\ Cardinality(Recommending(l)') \in Nat
  BY <1>2, RequestsAssumption, FS_Subset, FS_CardinalityType
<1>4. CASE Recommending(l)' \subseteq Recommending(l) /\ open'[l] <= open[l]
  <2>1. Cardinality(Recommending(l)') <= Cardinality(Recommending(l))
    BY <1>4, RecommendingIsFinite, FS_Subset
  <2>2. open[l] + Cardinality(Recommending(l)) <= Cardinality(Requests)
    BY DEF RecommendationsBounded, Recommending
  <2>3. QED
    BY <1>1, <1>3, <1>4, <2>1, <2>2, RecommendingIsFinite
<1>5. CASE open'[l] = 0
  BY <1>1, <1>3, <1>5
<1>6. QED
  BY <1>4, <1>5

\* A request that begins to recommend found nothing open.
LEMMA ServeKeepsBound ==
    ASSUME StartInv, StartInv', RecommendationsBounded,
           NEW r \in Requests, NEW l \in Learners, pc[r] = "idle",
           who' = [who EXCEPT ![r] = l], pc' = [pc EXCEPT ![r] = pc'[r]],
           next' = [next EXCEPT ![r] = next'[r]], open' = open,
           open[l] = 0 \/ next'[r] \in Baseline
    PROVE  RecommendationsBounded'
<1>1. \A q \in Requests \ {r} : pc'[q] = pc[q] /\ who'[q] = who[q] /\ next'[q] = next[q]
  BY DEF StartInv, TypeOK
<1>2. who'[r] = l
  BY DEF StartInv, TypeOK
<1>3. \A m \in Learners : m # l => Recommending(m)' \subseteq Recommending(m)
  BY <1>1, <1>2 DEF Recommending
<1>4. next'[r] \in Baseline => Recommending(l)' \subseteq Recommending(l)
  BY <1>1, <1>2 DEF Recommending
<1>5. \A m \in Learners : open'[m] <= open[m]
  BY DEF StartInv, TypeOK
<1>6. QED
  BY <1>3, <1>4, <1>5, BoundKept DEF StartInv

\* A committed recommendation is open, and its request no longer about to make one.
LEMMA CommitKeepsBound ==
    ASSUME StartInv, StartInv', RecommendationsBounded, NEW r \in Requests, CommitRecommendation(r)
    PROVE  RecommendationsBounded'
<1>0. PICK l \in Learners : l = who[r]
  BY DEF StartInv, TypeOK
<1>1. /\ TypeOK /\ Walk(r) /\ pc[r] = "committing" /\ ~Starting(r) /\ l \in Learners
      /\ who' = who /\ Close(r, "idle") /\ open' = [open EXCEPT ![l] = @ + 1]
  BY <1>0 DEF StartInv, CommitRecommendation, TypeOK
<1>2. r \in Recommending(l)
  BY <1>0, <1>1 DEF Walk, Starting, Recommending
<1>3. pc'[r] = "idle" /\ OnlyRequest(r)
  <2>1. flushed' = [flushed EXCEPT ![r] = {}]
    BY <1>1 DEF Close
  <2>2. QED
    BY <1>1, <2>1, CloseEffect
<1>4. Recommending(l)' = Recommending(l) \ {r}
  BY <1>0, <1>1, <1>3 DEF Recommending, OnlyRequest
<1>5. Cardinality(Recommending(l)') = Cardinality(Recommending(l)) - 1
  BY <1>1, <1>2, <1>4, RecommendingIsFinite, FS_RemoveElement
<1>6. open'[l] + Cardinality(Recommending(l)') = open[l] + Cardinality(Recommending(l))
  <2>1. open'[l] = open[l] + 1 /\ open[l] \in Nat
    BY <1>1 DEF TypeOK
  <2>2. Cardinality(Recommending(l)) \in Nat
    BY <1>1, RecommendingIsFinite
  <2>3. QED
    BY <1>5, <2>1, <2>2
<1>7. open'[l] + Cardinality(Recommending(l)') <= Cardinality(Requests)
  BY <1>1, <1>6 DEF RecommendationsBounded, Recommending
<1>8. ASSUME NEW m \in Learners, m # l
      PROVE  open'[m] + Cardinality(Recommending(m)') <= Cardinality(Requests)
  <2>1. Recommending(m)' = Recommending(m) /\ open'[m] = open[m]
    BY <1>0, <1>1, <1>3, <1>8 DEF Recommending, OnlyRequest, TypeOK
  <2>2. QED
    BY <2>1 DEF RecommendationsBounded, Recommending
<1>9. \A m \in Learners : open'[m] + Cardinality(Recommending(m)') <= Cardinality(Requests)
  BY <1>7, <1>8
<1>10. QED
  BY <1>9 DEF RecommendationsBounded, Recommending

LEMMA WalkKeepsBound ==
    ASSUME StartInv, StartInv', RecommendationsBounded, NEW r \in Requests,
           \/ Look(r) \/ Flush(r) \/ InsertChallenge(r) \/ CommitStart(r) \/ Abort(r)
    PROVE  RecommendationsBounded'
<1>1. TypeOK /\ Walk(r) /\ who' = who /\ open' = open /\ pc[r] # "idle"
  BY DEF StartInv, Look, Flush, InsertChallenge, CommitStart, Abort, tables
<1>2. \A where : Goto(r, where, next[r]) => next'[r] = next[r] /\
        \A q \in Requests \ {r} : pc'[q] = pc[q] /\ next'[q] = next[q]
  BY <1>1 DEF Goto, TypeOK
<1>3. \A where : Close(r, where) => next'[r] = 0 /\
        \A q \in Requests \ {r} : pc'[q] = pc[q] /\ next'[q] = next[q]
  BY <1>1 DEF Close, Goto, TypeOK
<1>4. Ensured(r) /\ next[r] \in Challenges =>
        /\ next'[r] \in Challenges \ Baseline => next'[r] = next[r]
        /\ \A q \in Requests \ {r} : pc'[q] = pc[q] /\ next'[q] = next[q]
  BY <1>1, EnsuredEffect, BaselineShape
<1>5. /\ next'[r] \in Challenges \ Baseline => next'[r] = next[r]
      /\ \A q \in Requests \ {r} : pc'[q] = pc[q] /\ next'[q] = next[q]
  <2>1. CASE Look(r)
    BY <1>1, <1>2, <1>4, <2>1 DEF Look, Walk
  <2>2. CASE Flush(r)
    BY <1>2, <1>3, <2>2, BaselineShape DEF Flush
  <2>3. CASE InsertChallenge(r)
    BY <1>1, <1>4, <2>3 DEF InsertChallenge, Walk
  <2>4. CASE CommitStart(r)
    BY <1>3, <2>4, BaselineShape DEF CommitStart
  <2>5. CASE Abort(r)
    BY <1>3, <2>5, BaselineShape DEF Abort
  <2>6. QED
    BY <2>1, <2>2, <2>3, <2>4, <2>5
<1>6. \A l \in Learners : Recommending(l)' \subseteq Recommending(l)
  BY <1>1, <1>5 DEF Recommending
<1>7. \A l \in Learners : open'[l] <= open[l]
  BY <1>1 DEF TypeOK
<1>8. QED
  BY <1>6, <1>7, BoundKept DEF StartInv

\* However many requests race, a learner has at most one open recommendation for each.
THEOREM RecommendationsAreBounded == WholeCatalogues /\ Spec => []RecommendationsBounded
<1>1. WholeCatalogues /\ Init => StartInv /\ RecommendationsBounded
  <2> SUFFICES ASSUME WholeCatalogues, Init PROVE StartInv /\ RecommendationsBounded
    OBVIOUS
  <2>1. \A l \in Learners : open[l] = 0 /\ Recommending(l) \subseteq Requests
    BY DEF Init, Recommending
  <2>2. \A l \in Learners : Cardinality(Recommending(l)) <= Cardinality(Requests)
                            /\ Cardinality(Recommending(l)) \in Nat
    BY <2>1, RequestsAssumption, RecommendingIsFinite, FS_Subset
  <2>3. RecommendationsBounded
    BY <2>1, <2>2 DEF RecommendationsBounded, Recommending
  <2>4. QED
    BY <2>3, InitStart
<1>2. StartInv /\ RecommendationsBounded /\ [Next]_vars => StartInv' /\ RecommendationsBounded'
  <2> SUFFICES ASSUME StartInv, RecommendationsBounded, [Next]_vars
               PROVE  StartInv' /\ RecommendationsBounded'
    OBVIOUS
  <2>1. StartInv'
    BY NextStart
  <2>2. ASSUME NEW r \in Requests, StartBaseline(r) \/ Recommend(r)
        PROVE  RecommendationsBounded'
    <3>1. PICK l \in Learners, n \in Challenges :
              Serve(r, l, n) /\ (n \in Baseline \/ open[l] = 0)
      BY <2>2, BaselineShape DEF StartBaseline, Recommend
    <3>2. /\ pc[r] = "idle" /\ who' = [who EXCEPT ![r] = l]
          /\ pc' = [pc EXCEPT ![r] = "looking"] /\ next' = [next EXCEPT ![r] = n] /\ open' = open
      BY <3>1 DEF Serve, Goto, tables
    <3>3. pc'[r] = "looking" /\ next'[r] = n
      BY <3>2 DEF StartInv, TypeOK
    <3>4. QED
      BY <2>1, <3>1, <3>2, <3>3, ServeKeepsBound
  <2>3. ASSUME NEW r \in Requests, RecommendAny(r) PROVE RecommendationsBounded'
    <3>1. PICK l \in Learners : open[l] = 0 /\ who' = [who EXCEPT ![r] = l]
      BY <2>3 DEF RecommendAny
    <3>2. /\ pc[r] = "idle" /\ pc' = [pc EXCEPT ![r] = "committing"]
          /\ next' = [next EXCEPT ![r] = Steps + 1] /\ open' = open
      BY <2>3 DEF RecommendAny, Goto, tables
    <3>3. pc'[r] = "committing" /\ next'[r] = Steps + 1
      BY <3>2 DEF StartInv, TypeOK
    <3>4. QED
      BY <2>1, <3>1, <3>2, <3>3, ServeKeepsBound
  <2>4. ASSUME NEW r \in Requests,
               \/ Look(r) \/ Flush(r) \/ InsertChallenge(r) \/ CommitStart(r) \/ Abort(r)
        PROVE  RecommendationsBounded'
    BY <2>1, <2>4, WalkKeepsBound
  <2>5. ASSUME NEW r \in Requests, CommitRecommendation(r) PROVE RecommendationsBounded'
    BY <2>1, <2>5, CommitKeepsBound
  <2>6. ASSUME NEW l \in Learners, LearnerStep(l) PROVE RecommendationsBounded'
    <3>1. \A m \in Learners : Recommending(m)' = Recommending(m)
      BY <2>6 DEF LearnerStep, BeginStep, FinishStep, AttemptFails, FinishPractice, requests, Recommending
    <3>2. \A m \in Learners : open'[m] <= open[m]
      <4>1. open \in [Learners -> Nat]
        BY DEF StartInv, TypeOK
      <4>2. open' = open \/ open' = [open EXCEPT ![l] = @ - 1]
        BY <2>6 DEF LearnerStep, BeginStep, FinishStep, AttemptFails, FinishPractice
      <4>3. QED
        BY <4>1, <4>2
    <3>3. QED
      BY <2>1, <3>1, <3>2, BoundKept DEF StartInv
  <2>7. CASE UNCHANGED vars
    <3>1. open' = open /\ who' = who /\ pc' = pc /\ next' = next
      BY <2>7 DEF vars, tables, requests
    <3>2. \A m \in Learners : Recommending(m)' = Recommending(m)
      BY <3>1 DEF Recommending
    <3>3. \A m \in Learners : open'[m] <= open[m]
      BY <3>1 DEF StartInv, TypeOK
    <3>4. QED
      BY <2>1, <3>2, <3>3, BoundKept DEF StartInv
  <2>8. QED
    BY <2>1, <2>2, <2>3, <2>4, <2>5, <2>6, <2>7 DEF Next, RequestStep
<1>3. QED
  BY <1>1, <1>2, PTL DEF Spec
=============================================================================
