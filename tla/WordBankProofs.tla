---------------------------- MODULE WordBankProofs ----------------------------
(***************************************************************************)
(* The Word Bank for any number of items, requests and analysis runs: what *)
(* a committed row refers to exists, and evidence of use stays what it is. *)
(***************************************************************************)
EXTENDS WordBank, TLAPS

\* A look-up has the pending item it will commit; a change has an item it read.
RequestHolds(r) ==
    /\ pc[r] = "asking" /\ mine[r] # 0 => item[mine[r]] = "pending"
    /\ pc[r] \in {"patching", "deleting"} => mine[r] \in Items /\ item[mine[r]] \in {"live", "gone"}
    /\ pc[r] = "failed" => mine[r] = 0
    /\ saw[r] # "absent" => entry # "absent"

RunHolds(x) ==
    /\ run[x] = "referring" => ref[x] \in Items /\ item[ref[x]] # "unused"
    /\ x \in observed => run[x] = "completed" /\ (about[x] = 0 \/ about[x] \in Live)

\* The item a look-up will commit is nobody else's.
Apart ==
    /\ \A r, q \in Requests :
         pc[r] = "asking" /\ pc[q] = "asking" /\ mine[r] # 0 /\ mine[r] = mine[q] => r = q
    /\ \A r \in Requests, x \in Runs :
         pc[r] = "asking" /\ mine[r] # 0 /\ run[x] = "referring" => mine[r] # ref[x]

LinkedHaveEntry == linked # {} => entry # "absent"

BankInv ==
    /\ TypeOK
    /\ \A r \in Requests : RequestHolds(r)
    /\ \A x \in Runs : RunHolds(x)
    /\ Apart
    /\ LinkedHaveEntry

\* Type correctness, without who owns the pending items.
Types ==
    /\ entry \in {"absent", "fresh", "stale"}
    /\ item \in [Items -> {"unused", "pending", "live", "gone"}]
    /\ linked \subseteq Items
    /\ practised \subseteq Items
    /\ observed \subseteq Runs
    /\ about \in [Runs -> Items \union {0}]
    /\ run \in [Runs -> {"open", "referring", "completed", "failed"}]
    /\ ref \in [Runs -> Items \union {0}]
    /\ pc \in [Requests -> {"idle", "asking", "patching", "deleting", "failed"}]
    /\ saw \in [Requests -> {"absent", "fresh", "stale"}]
    /\ mine \in [Requests -> Items \union {0}]

Owned ==
    \A i \in Items : item[i] = "pending" =>
        \/ \E r \in Requests : pc[r] = "asking" /\ mine[r] = i
        \/ \E x \in Runs : run[x] = "referring" /\ ref[x] = i

LEMMA TypeParts == TypeOK <=> Types /\ Owned
  BY DEF TypeOK, Types, Owned

LEMMA ZeroIsNoItem == 0 \notin Items
  BY ItemsAssumption DEF Items

LEMMA PrimedTypeParts == Types' /\ Owned' => TypeOK'
  BY DEF TypeOK, Types, Owned

\* What a request's own step leaves of the other requests.
OnlyRequest(r) ==
    \A q \in Requests \ {r} : pc'[q] = pc[q] /\ mine'[q] = mine[q]

LEMMA GotoEffect ==
    ASSUME Types, NEW r \in Requests, NEW i \in Items \union {0},
           NEW where \in {"idle", "asking", "patching", "deleting", "failed"}, Goto(r, where, i)
    PROVE  /\ pc' \in [Requests -> {"idle", "asking", "patching", "deleting", "failed"}]
           /\ mine' \in [Requests -> Items \union {0}]
           /\ pc'[r] = where /\ mine'[r] = i /\ OnlyRequest(r)
  BY DEF Goto, Types, OnlyRequest

-----------------------------------------------------------------------------
(***************************************************************************)
(* The dictionary.                                                         *)
(***************************************************************************)
LEMMA LookupKeeps ==
    ASSUME BankInv, NEW r \in Requests, Lookup(r)
    PROVE  BankInv'
<1>1. Types /\ Owned /\ Apart /\ LinkedHaveEntry
  BY TypeParts DEF BankInv
<1>2. /\ pc[r] = "idle" /\ Goto(r, "asking", 0) /\ saw' = [saw EXCEPT ![r] = entry]
      /\ entry' = entry /\ item' = item /\ linked' = linked /\ practised' = practised
      /\ observed' = observed /\ about' = about /\ run' = run /\ ref' = ref
  BY DEF Lookup, Ask, bank, evidence, analyses
<1>3. /\ pc' \in [Requests -> {"idle", "asking", "patching", "deleting", "failed"}]
      /\ mine' \in [Requests -> Items \union {0}]
      /\ pc'[r] = "asking" /\ mine'[r] = 0 /\ OnlyRequest(r)
  BY <1>1, <1>2, GotoEffect
<1>4. Types'
  BY <1>1, <1>2, <1>3 DEF Types
<1>5. Owned'
  <2>1. SUFFICES ASSUME NEW i \in Items, item[i] = "pending"
                 PROVE  \/ \E q \in Requests : pc'[q] = "asking" /\ mine'[q] = i
                        \/ \E x \in Runs : run[x] = "referring" /\ ref[x] = i
    BY <1>2 DEF Owned
  <2>2. \/ \E q \in Requests \ {r} : pc[q] = "asking" /\ mine[q] = i
        \/ \E x \in Runs : run[x] = "referring" /\ ref[x] = i
    BY <1>1, <1>2, <2>1 DEF Owned
  <2>3. QED
    BY <1>3, <2>2 DEF OnlyRequest
<1>6. \A q \in Requests : RequestHolds(q)'
  BY <1>1, <1>2, <1>3 DEF BankInv, RequestHolds, OnlyRequest, Types
<1>7. \A x \in Runs : RunHolds(x)'
  BY <1>2 DEF BankInv, RunHolds, Live
<1>8. Apart' /\ LinkedHaveEntry'
  BY <1>1, <1>2, <1>3 DEF Apart, OnlyRequest, LinkedHaveEntry
<1>9. QED
  BY <1>4, <1>5, <1>6, <1>7, <1>8, PrimedTypeParts DEF BankInv

LEMMA AddItemKeeps ==
    ASSUME BankInv, NEW r \in Requests, NEW i \in Items, AddItem(r, i)
    PROVE  BankInv'
<1>1. /\ Types /\ Owned /\ Apart /\ LinkedHaveEntry
      /\ \A q \in Requests : RequestHolds(q)
      /\ \A x \in Runs : RunHolds(x)
  BY TypeParts DEF BankInv
<1>2. /\ item[i] = "unused" /\ item' = [item EXCEPT ![i] = "live"]
      /\ linked' = linked \/ (entry = "fresh" /\ linked' = linked \union {i})
      /\ entry' = entry /\ practised' = practised /\ observed' = observed /\ about' = about
      /\ run' = run /\ ref' = ref /\ pc' = pc /\ saw' = saw /\ mine' = mine
  BY DEF AddItem, IsNew, evidence, analyses, request
<1>3. Types'
  BY <1>1, <1>2 DEF Types
<1>4. Owned'
  BY <1>1, <1>2 DEF Owned, Types
<1>5. \A q \in Requests : RequestHolds(q)'
  BY <1>1, <1>2 DEF RequestHolds, Types
<1>6. \A x \in Runs : RunHolds(x)'
  BY <1>1, <1>2 DEF RunHolds, Live, Types
<1>7. Apart' /\ LinkedHaveEntry'
  BY <1>1, <1>2 DEF Apart, LinkedHaveEntry
<1>8. QED
  BY <1>3, <1>4, <1>5, <1>6, <1>7, PrimedTypeParts DEF BankInv

LEMMA AddItemAskingKeeps ==
    ASSUME BankInv, NEW r \in Requests, NEW i \in Items, AddItemAsking(r, i)
    PROVE  BankInv'
<1>1. /\ Types /\ Owned /\ Apart /\ LinkedHaveEntry
      /\ \A q \in Requests : RequestHolds(q)
      /\ \A x \in Runs : RunHolds(x)
  BY TypeParts DEF BankInv
<1>2. /\ pc[r] = "idle" /\ item[i] = "unused" /\ item' = [item EXCEPT ![i] = "pending"]
      /\ Goto(r, "asking", i) /\ saw' = [saw EXCEPT ![r] = entry]
      /\ entry' = entry /\ linked' = linked /\ practised' = practised /\ observed' = observed
      /\ about' = about /\ run' = run /\ ref' = ref
  BY DEF AddItemAsking, IsNew, Ask, evidence, analyses
<1>3. /\ pc' \in [Requests -> {"idle", "asking", "patching", "deleting", "failed"}]
      /\ mine' \in [Requests -> Items \union {0}]
      /\ pc'[r] = "asking" /\ mine'[r] = i /\ OnlyRequest(r)
  BY <1>1, <1>2, GotoEffect
<1>4. /\ item' \in [Items -> {"unused", "pending", "live", "gone"}] /\ item'[i] = "pending"
      /\ \A j \in Items \ {i} : item'[j] = item[j]
  BY <1>1, <1>2 DEF Types
<1>5. Types'
  BY <1>1, <1>2, <1>3, <1>4 DEF Types
<1>6. Owned'
  <2>1. ASSUME NEW j \in Items \ {i}, item'[j] = "pending"
        PROVE  \/ \E q \in Requests : pc'[q] = "asking" /\ mine'[q] = j
               \/ \E x \in Runs : run'[x] = "referring" /\ ref'[x] = j
    <3>1. \/ \E q \in Requests \ {r} : pc[q] = "asking" /\ mine[q] = j
          \/ \E x \in Runs : run[x] = "referring" /\ ref[x] = j
      BY <1>1, <1>2, <1>4, <2>1 DEF Owned
    <3>2. QED
      BY <1>2, <1>3, <3>1 DEF OnlyRequest
  <2>2. QED
    BY <1>3, <2>1 DEF Owned
<1>7. ASSUME NEW q \in Requests PROVE RequestHolds(q)'
  <2>1. RequestHolds(q) /\ mine[q] \in Items \union {0}
    BY <1>1 DEF Types
  <2>2. saw'[q] # "absent" => entry' # "absent"
    BY <1>1, <1>2, <2>1 DEF RequestHolds, Types
  <2>3. CASE q = r
    BY <1>3, <1>4, <2>2, <2>3 DEF RequestHolds
  <2>4. CASE q # r
    BY <1>2, <1>3, <1>4, <2>1, <2>2, <2>4 DEF RequestHolds, OnlyRequest
  <2>5. QED
    BY <2>3, <2>4
<1>8. \A x \in Runs : RunHolds(x)'
  BY <1>1, <1>2, <1>4 DEF RunHolds, Live
<1>9. Apart'
  <2>1. \A q \in Requests \ {r} : pc[q] = "asking" => mine[q] # i
    BY <1>1, <1>2, ZeroIsNoItem DEF RequestHolds
  <2>2. \A x \in Runs : run[x] = "referring" => ref[x] # i
    BY <1>1, <1>2 DEF RunHolds
  <2>3. QED
    BY <1>1, <1>2, <1>3, <2>1, <2>2 DEF Apart, OnlyRequest
<1>10. LinkedHaveEntry'
  BY <1>1, <1>2 DEF LinkedHaveEntry
<1>11. QED
  BY <1>5, <1>6, <1>7, <1>8, <1>9, <1>10, PrimedTypeParts DEF BankInv

\* A request ends and its pending item, if it has one, gets a fate; everyone else's
\* item stays as it is.
LEMMA RequestEnds ==
    ASSUME BankInv, NEW r \in Requests, NEW where \in {"idle", "failed"}, Goto(r, where, 0),
           item' \in [Items -> {"unused", "pending", "live", "gone"}],
           \A i \in Items : item'[i] = item[i] \/ (i = mine[r] /\ item[i] = "pending" /\ pc[r] = "asking"
                                                   /\ item'[i] \in {"live", "gone"}),
           pc[r] = "asking" => \A i \in Items : i = mine[r] => item'[i] # "pending",
           entry' \in {"absent", "fresh", "stale"}, entry # "absent" => entry' # "absent",
           linked' \subseteq Items, linked' # {} => entry' # "absent",
           practised' \subseteq Items,
           UNCHANGED <<evidence, analyses, saw>>
    PROVE  BankInv'
<1>1. /\ Types /\ Owned /\ Apart
      /\ \A q \in Requests : RequestHolds(q)
      /\ \A x \in Runs : RunHolds(x)
  BY TypeParts DEF BankInv
<1>2. /\ observed' = observed /\ about' = about /\ run' = run /\ ref' = ref /\ saw' = saw
  BY DEF evidence, analyses
<1>3. /\ pc' \in [Requests -> {"idle", "asking", "patching", "deleting", "failed"}]
      /\ mine' \in [Requests -> Items \union {0}]
      /\ pc'[r] = where /\ mine'[r] = 0 /\ OnlyRequest(r)
  BY <1>1, GotoEffect
<1>4. Types'
  BY <1>1, <1>2, <1>3 DEF Types
<1>5. Owned'
  <2>1. SUFFICES ASSUME NEW i \in Items, item'[i] = "pending"
                 PROVE  \/ \E q \in Requests : pc'[q] = "asking" /\ mine'[q] = i
                        \/ \E x \in Runs : run'[x] = "referring" /\ ref'[x] = i
    BY DEF Owned
  <2>2. \/ \E q \in Requests \ {r} : pc[q] = "asking" /\ mine[q] = i
        \/ \E x \in Runs : run[x] = "referring" /\ ref[x] = i
    BY <1>1, <2>1 DEF Owned
  <2>3. QED
    BY <1>2, <1>3, <2>2 DEF OnlyRequest
<1>6. ASSUME NEW q \in Requests PROVE RequestHolds(q)'
  <2>1. RequestHolds(q) /\ mine[q] \in Items \union {0}
    BY <1>1 DEF Types
  <2>2. saw'[q] # "absent" => entry' # "absent"
    BY <1>2, <2>1 DEF RequestHolds
  <2>3. CASE q = r
    BY <1>3, <2>2, <2>3 DEF RequestHolds
  <2>4. CASE q # r
    <3>1. pc'[q] = pc[q] /\ mine'[q] = mine[q]
      BY <1>3, <2>4 DEF OnlyRequest
    <3>2. pc[q] = "asking" /\ mine[q] # 0 => item'[mine[q]] = item[mine[q]]
      BY <1>1, <2>1, <2>4 DEF Apart
    <3>3. pc[q] \in {"patching", "deleting"} => item'[mine[q]] = item[mine[q]]
      BY <2>1 DEF RequestHolds
    <3>4. QED
      BY <2>1, <2>2, <3>1, <3>2, <3>3 DEF RequestHolds
  <2>5. QED
    BY <2>3, <2>4
<1>7. \A x \in Runs : RunHolds(x)'
  BY <1>1, <1>2 DEF RunHolds, Live
<1>8. Apart'
  BY <1>1, <1>2, <1>3 DEF Apart, OnlyRequest
<1>9. LinkedHaveEntry'
  BY DEF LinkedHaveEntry
<1>10. QED
  BY <1>4, <1>5, <1>6, <1>7, <1>8, <1>9, PrimedTypeParts DEF BankInv

\* An answer commits the request's item or, when it is refused, undoes it.
LEMMA AnsweredKeeps ==
    ASSUME BankInv, NEW r \in Requests, Answered(r)
    PROVE  BankInv'
<1>1. /\ Types /\ LinkedHaveEntry /\ RequestHolds(r) /\ mine[r] \in Items \union {0}
  BY TypeParts DEF BankInv, Types
<1>2. PICK answer \in Answers :
          /\ pc[r] = "asking" /\ UNCHANGED <<practised, evidence, analyses, saw>>
          /\ IF Refused(r, answer)
             THEN /\ Goto(r, "failed", 0)
                  /\ item' = [i \in Items |-> IF i = mine[r] THEN "gone" ELSE item[i]]
                  /\ UNCHANGED <<entry, linked>>
             ELSE StoreAnswer(r, answer) /\ Goto(r, "idle", 0)
  BY DEF Answered
<1>3. \A i \in Items : i = mine[r] => item[i] = "pending"
  BY <1>1, <1>2, ZeroIsNoItem DEF RequestHolds
<1>4. PICK fate \in {"live", "gone"} :
          item' = [i \in Items |-> IF i = mine[r] THEN fate ELSE item[i]]
  BY <1>2 DEF StoreAnswer, CommitItem
<1>5. item' \in [Items -> {"unused", "pending", "live", "gone"}]
  BY <1>1, <1>4 DEF Types
<1>6. \A i \in Items : item'[i] = item[i] \/ (i = mine[r] /\ item[i] = "pending" /\ pc[r] = "asking"
                                              /\ item'[i] \in {"live", "gone"})
  BY <1>2, <1>3, <1>4
<1>7. \A i \in Items : i = mine[r] => item'[i] # "pending"
  BY <1>4
<1>8. CASE Refused(r, answer)
  <2>1. entry' = entry /\ linked' = linked /\ practised' = practised /\ Goto(r, "failed", 0)
    BY <1>2, <1>8
  <2>2. QED
    BY <1>1, <1>2, <1>5, <1>6, <1>7, <2>1, RequestEnds DEF Types, LinkedHaveEntry
<1>9. CASE ~Refused(r, answer)
  <2>1. /\ Goto(r, "idle", 0) /\ practised' = practised
        /\ entry' = IF answer = "found" THEN "fresh" ELSE entry
        /\ \/ linked' = linked
           \/ linked' = linked \union ({mine[r]} \ {0}) /\ (answer = "found" \/ saw[r] # "absent")
    BY <1>2, <1>9 DEF StoreAnswer, CommitItem
  <2>2. linked' \subseteq Items
    BY <1>1, <2>1 DEF Types
  <2>3. linked' # {} => entry' # "absent"
    BY <1>1, <2>1 DEF RequestHolds, LinkedHaveEntry
  <2>4. entry' \in {"absent", "fresh", "stale"} /\ (entry # "absent" => entry' # "absent")
    BY <1>1, <2>1 DEF Types
  <2>5. QED
    BY <1>1, <1>2, <1>5, <1>6, <1>7, <2>1, <2>2, <2>3, <2>4, RequestEnds DEF Types
<1>10. QED
  BY <1>8, <1>9

LEMMA PatchKeeps ==
    ASSUME BankInv, NEW r \in Requests, Patch(r)
    PROVE  BankInv'
<1>1. Types /\ LinkedHaveEntry
  BY TypeParts DEF BankInv
<1>2. PICK where \in {"idle", "failed"} : Goto(r, where, 0)
  BY DEF Patch
<1>3. /\ pc[r] = "patching" /\ entry' = entry /\ item' = item /\ linked' = linked
      /\ UNCHANGED <<evidence, analyses, saw>>
      /\ practised' = practised \union ({mine[r]} \intersect Live)
  BY DEF Patch
<1>4. practised' \subseteq Items
  BY <1>1, <1>3 DEF Types, Live
<1>5. QED
  BY <1>1, <1>2, <1>3, <1>4, RequestEnds DEF Types, LinkedHaveEntry

LEMMA AbortKeeps ==
    ASSUME BankInv, NEW r \in Requests, Abort(r)
    PROVE  BankInv'
<1>1. Types /\ LinkedHaveEntry /\ RequestHolds(r)
  BY TypeParts DEF BankInv
<1>2. /\ pc[r] # "idle" /\ Goto(r, "idle", 0)
      /\ item' = [i \in Items |-> IF i = mine[r] /\ item[i] = "pending" THEN "gone" ELSE item[i]]
      /\ entry' = entry /\ linked' = linked /\ practised' = practised
      /\ UNCHANGED <<evidence, analyses, saw>>
  BY DEF Abort
<1>3. \A i \in Items : i = mine[r] /\ item[i] = "pending" => pc[r] = "asking"
  BY <1>1, <1>2, ZeroIsNoItem DEF RequestHolds, Types
<1>4. item' \in [Items -> {"unused", "pending", "live", "gone"}]
  BY <1>1, <1>2 DEF Types
<1>5. \A i \in Items : item'[i] = item[i] \/ (i = mine[r] /\ item[i] = "pending" /\ pc[r] = "asking"
                                              /\ item'[i] \in {"live", "gone"})
  BY <1>2, <1>3
<1>6. \A i \in Items : i = mine[r] => item'[i] # "pending"
  BY <1>2
<1>7. QED
  BY <1>1, <1>2, <1>4, <1>5, <1>6, RequestEnds DEF Types, LinkedHaveEntry

LEMMA DeleteKeeps ==
    ASSUME BankInv, NEW r \in Requests, Delete(r)
    PROVE  BankInv'
<1>1. /\ Types /\ Owned /\ Apart /\ LinkedHaveEntry
      /\ \A q \in Requests : RequestHolds(q)
      /\ \A x \in Runs : RunHolds(x)
  BY TypeParts DEF BankInv
<1>2. PICK i \in Items : i = mine[r] /\ item[i] \in {"live", "gone"}
  BY <1>1 DEF Delete, RequestHolds
<1>3. /\ pc[r] = "deleting" /\ Goto(r, "idle", 0) /\ item' = [item EXCEPT ![i] = "gone"]
      /\ linked' = linked \ {i} /\ practised' = practised \ {i}
      /\ about' = [x \in Runs |-> IF about[x] = i THEN 0 ELSE about[x]]
      /\ entry' = entry /\ observed' = observed /\ run' = run /\ ref' = ref /\ saw' = saw
  BY <1>2 DEF Delete, analyses
<1>4. /\ pc' \in [Requests -> {"idle", "asking", "patching", "deleting", "failed"}]
      /\ mine' \in [Requests -> Items \union {0}]
      /\ pc'[r] = "idle" /\ mine'[r] = 0 /\ OnlyRequest(r)
  BY <1>1, <1>3, GotoEffect
<1>5. /\ item' \in [Items -> {"unused", "pending", "live", "gone"}] /\ item'[i] = "gone"
      /\ \A j \in Items \ {i} : item'[j] = item[j]
  BY <1>1, <1>3 DEF Types
<1>6. about' \in [Runs -> Items \union {0}]
  BY <1>1, <1>3 DEF Types
<1>7. Types'
  BY <1>1, <1>3, <1>4, <1>5, <1>6 DEF Types
<1>8. Owned'
  <2>1. SUFFICES ASSUME NEW j \in Items, item'[j] = "pending"
                 PROVE  \/ \E q \in Requests : pc'[q] = "asking" /\ mine'[q] = j
                        \/ \E x \in Runs : run'[x] = "referring" /\ ref'[x] = j
    BY DEF Owned
  <2>2. \/ \E q \in Requests \ {r} : pc[q] = "asking" /\ mine[q] = j
        \/ \E x \in Runs : run[x] = "referring" /\ ref[x] = j
    BY <1>1, <1>3, <1>5, <2>1 DEF Owned
  <2>3. QED
    BY <1>3, <1>4, <2>2 DEF OnlyRequest
<1>9. ASSUME NEW q \in Requests PROVE RequestHolds(q)'
  <2>1. RequestHolds(q) /\ mine[q] \in Items \union {0}
    BY <1>1 DEF Types
  <2>2. CASE q = r
    BY <1>3, <1>4, <2>1, <2>2 DEF RequestHolds
  <2>3. CASE q # r
    <3>1. pc'[q] = pc[q] /\ mine'[q] = mine[q]
      BY <1>4, <2>3 DEF OnlyRequest
    <3>2. pc[q] = "asking" /\ mine[q] # 0 => mine[q] # i
      BY <1>2, <2>1 DEF RequestHolds
    <3>3. QED
      BY <1>3, <1>5, <2>1, <3>1, <3>2 DEF RequestHolds
  <2>4. QED
    BY <2>2, <2>3
<1>10. ASSUME NEW x \in Runs PROVE RunHolds(x)'
  <2>1. RunHolds(x) /\ about'[x] = IF about[x] = i THEN 0 ELSE about[x]
    BY <1>1, <1>3
  <2>2. run[x] = "referring" => ref[x] \in Items /\ item'[ref[x]] # "unused"
    BY <1>5, <2>1 DEF RunHolds
  <2>3. about[x] \in Live /\ about[x] # i => about[x] \in Live'
    BY <1>5 DEF Live
  <2>4. QED
    BY <1>3, <2>1, <2>2, <2>3 DEF RunHolds
<1>11. Apart' /\ LinkedHaveEntry'
  BY <1>1, <1>3, <1>4 DEF Apart, OnlyRequest, LinkedHaveEntry
<1>12. QED
  BY <1>7, <1>8, <1>9, <1>10, <1>11, PrimedTypeParts DEF BankInv

LEMMA ReadItemKeeps ==
    ASSUME BankInv, NEW r \in Requests, NEW i \in Items, ReadItem(r, i)
    PROVE  BankInv'
<1>1. /\ Types /\ Owned /\ Apart /\ LinkedHaveEntry
      /\ \A q \in Requests : RequestHolds(q)
      /\ \A x \in Runs : RunHolds(x)
  BY TypeParts DEF BankInv
<1>2. PICK where \in {"patching", "deleting"} : Goto(r, where, i)
  BY DEF ReadItem
<1>3. /\ pc[r] = "idle" /\ item[i] = "live" /\ entry' = entry /\ item' = item /\ linked' = linked
      /\ practised' = practised /\ observed' = observed /\ about' = about /\ run' = run
      /\ ref' = ref /\ saw' = saw
  BY DEF ReadItem, Live, bank, evidence, analyses
<1>4. /\ pc' \in [Requests -> {"idle", "asking", "patching", "deleting", "failed"}]
      /\ mine' \in [Requests -> Items \union {0}]
      /\ pc'[r] = where /\ mine'[r] = i /\ OnlyRequest(r)
  BY <1>1, <1>2, GotoEffect
<1>5. Types'
  BY <1>1, <1>3, <1>4 DEF Types
<1>6. Owned'
  <2>1. SUFFICES ASSUME NEW j \in Items, item[j] = "pending"
                 PROVE  \/ \E q \in Requests : pc'[q] = "asking" /\ mine'[q] = j
                        \/ \E x \in Runs : run'[x] = "referring" /\ ref'[x] = j
    BY <1>3 DEF Owned
  <2>2. \/ \E q \in Requests \ {r} : pc[q] = "asking" /\ mine[q] = j
        \/ \E x \in Runs : run[x] = "referring" /\ ref[x] = j
    BY <1>1, <1>3, <2>1 DEF Owned
  <2>3. QED
    BY <1>3, <1>4, <2>2 DEF OnlyRequest
<1>7. \A q \in Requests : RequestHolds(q)'
  BY <1>1, <1>3, <1>4 DEF RequestHolds, OnlyRequest
<1>8. \A x \in Runs : RunHolds(x)'
  BY <1>1, <1>3 DEF RunHolds, Live
<1>9. Apart' /\ LinkedHaveEntry'
  BY <1>1, <1>3, <1>4 DEF Apart, OnlyRequest, LinkedHaveEntry
<1>10. QED
  BY <1>5, <1>6, <1>7, <1>8, <1>9, PrimedTypeParts DEF BankInv

-----------------------------------------------------------------------------
(***************************************************************************)
(* The completing transactions.                                            *)
(***************************************************************************)

\* A run moves and an item changes that no look-up holds.
LEMMA RunMoves ==
    ASSUME BankInv, NEW x \in Runs, NEW i \in Items,
           NEW where \in {"open", "referring", "completed", "failed"}, NEW j \in Items \union {0},
           run' = [run EXCEPT ![x] = where], ref' = [ref EXCEPT ![x] = j],
           item' \in [Items -> {"unused", "pending", "live", "gone"}], item'[i] # "unused",
           \A k \in Items \ {i} : item'[k] = item[k],
           \A q \in Requests : pc[q] = "asking" /\ mine[q] # 0 => mine[q] # i,
           item[i] \in {"live", "gone"} => item'[i] = item[i],
           where = "referring" => j = i,
           item'[i] = "pending" => where = "referring",
           run[x] # "referring" \/ ref[x] = i,
           observed' \subseteq Runs, about' \in [Runs -> Items \union {0}],
           \A y \in Runs \ {x} : about'[y] = about[y] /\ (y \in observed' <=> y \in observed),
           x \in observed' => where = "completed" /\ (about'[x] = 0 \/ about'[x] \in Live'),
           UNCHANGED <<entry, linked, practised, request>>
    PROVE  BankInv'
<1>1. /\ Types /\ Owned /\ Apart /\ LinkedHaveEntry
      /\ \A q \in Requests : RequestHolds(q)
      /\ \A y \in Runs : RunHolds(y)
  BY TypeParts DEF BankInv
<1>2. /\ entry' = entry /\ linked' = linked /\ practised' = practised /\ pc' = pc /\ saw' = saw
      /\ mine' = mine
  BY DEF request
<1>3. \A k \in Items \ {i} : item'[k] = item[k]
  OBVIOUS
<1>4. /\ run' \in [Runs -> {"open", "referring", "completed", "failed"}]
      /\ ref' \in [Runs -> Items \union {0}] /\ run'[x] = where /\ ref'[x] = j
      /\ \A y \in Runs \ {x} : run'[y] = run[y] /\ ref'[y] = ref[y]
  BY <1>1 DEF Types
<1>5. Types'
  BY <1>1, <1>2, <1>3, <1>4 DEF Types
<1>6. Owned'
  <2>1. SUFFICES ASSUME NEW k \in Items, item'[k] = "pending"
                 PROVE  \/ \E q \in Requests : pc[q] = "asking" /\ mine[q] = k
                        \/ \E y \in Runs : run'[y] = "referring" /\ ref'[y] = k
    BY <1>2 DEF Owned
  <2>2. CASE k # i
    <3>1. item[k] = "pending"
      BY <1>3, <2>1, <2>2
    <3>2. \/ \E q \in Requests : pc[q] = "asking" /\ mine[q] = k
          \/ \E y \in Runs \ {x} : run[y] = "referring" /\ ref[y] = k
      BY <1>1, <2>2, <3>1 DEF Owned
    <3>3. QED
      BY <1>4, <3>2
  <2>3. CASE k = i /\ where = "referring"
    BY <1>4, <2>3
  <2>4. QED
    BY <2>1, <2>2, <2>3
<1>7. ASSUME NEW q \in Requests PROVE RequestHolds(q)'
  <2>1. RequestHolds(q) /\ mine[q] \in Items \union {0}
    BY <1>1 DEF Types
  <2>2. pc[q] = "asking" /\ mine[q] # 0 => item'[mine[q]] = "pending"
    BY <1>3, <2>1 DEF RequestHolds
  <2>3. pc[q] \in {"patching", "deleting"} => item'[mine[q]] = item[mine[q]]
    BY <1>1, <1>3, <2>1 DEF RequestHolds, Types
  <2>4. QED
    BY <1>2, <2>1, <2>2, <2>3 DEF RequestHolds
<1>8. ASSUME NEW y \in Runs PROVE RunHolds(y)'
  <2>1. RunHolds(y)
    BY <1>1
  <2>2. \A k \in Items : item[k] # "unused" => item'[k] # "unused"
    BY <1>1, <1>3 DEF Types
  <2>3. Live \subseteq Live'
    BY <1>1, <1>3 DEF Live, Types
  <2>4. CASE y = x
    BY <1>4, <2>4 DEF RunHolds
  <2>5. CASE y # x
    BY <1>4, <2>1, <2>2, <2>3, <2>5 DEF RunHolds
  <2>6. QED
    BY <2>4, <2>5
<1>9. Apart' /\ LinkedHaveEntry'
  BY <1>1, <1>2, <1>4 DEF Apart, LinkedHaveEntry
<1>10. QED
  BY <1>5, <1>6, <1>7, <1>8, <1>9, PrimedTypeParts DEF BankInv

LEMMA ReferKeeps ==
    ASSUME BankInv, NEW x \in Runs, NEW i \in Items, Refer(x, i)
    PROVE  BankInv'
<1>1. /\ Types /\ \A q \in Requests : RequestHolds(q)
      /\ \A y \in Runs : RunHolds(y)
  BY TypeParts DEF BankInv
<1>2. /\ run[x] = "open" /\ run' = [run EXCEPT ![x] = "referring"] /\ ref' = [ref EXCEPT ![x] = i]
      /\ UNCHANGED <<entry, linked, practised, request>> /\ observed' = observed /\ about' = about
      /\ \/ item[i] = "live" /\ item' = item
         \/ item[i] = "unused" /\ item' = [item EXCEPT ![i] = "pending"]
  BY DEF Refer, Live, IsNew, evidence
<1>3. /\ item' \in [Items -> {"unused", "pending", "live", "gone"}]
      /\ \A k \in Items \ {i} : item'[k] = item[k]
  BY <1>1, <1>2 DEF Types
<1>4. item[i] \in {"live", "unused"} /\ (item[i] \in {"live", "gone"} => item'[i] = item[i])
  BY <1>2
<1>5. item'[i] # "unused"
  BY <1>1, <1>2 DEF Types
<1>6. \A q \in Requests : pc[q] = "asking" /\ mine[q] # 0 => mine[q] # i
  BY <1>1, <1>4 DEF RequestHolds
<1>7. x \notin observed
  BY <1>1, <1>2 DEF RunHolds
<1>8. observed' \subseteq Runs /\ about' \in [Runs -> Items \union {0}]
  BY <1>1, <1>2 DEF Types
<1>9. /\ \A y \in Runs \ {x} : about'[y] = about[y] /\ (y \in observed' <=> y \in observed)
      /\ x \notin observed'
  BY <1>2, <1>7
<1>10. QED
  BY <1>2, <1>3, <1>4, <1>5, <1>6, <1>8, <1>9, RunMoves

LEMMA CompleteRunKeeps ==
    ASSUME BankInv, NEW x \in Runs, CompleteRun(x)
    PROVE  BankInv'
<1>1. /\ Types /\ Apart /\ \A q \in Requests : RequestHolds(q)
      /\ \A y \in Runs : RunHolds(y)
  BY TypeParts DEF BankInv
<1>2. PICK i \in Items : i = ref[x] /\ item[i] # "unused" /\ run[x] = "referring"
  BY <1>1 DEF CompleteRun, RunHolds
<1>3. \A q \in Requests : pc[q] = "asking" /\ mine[q] # 0 => mine[q] # i
  BY <1>1, <1>2 DEF Apart
<1>4. x \notin observed
  BY <1>1, <1>2 DEF RunHolds
<1>5. ref' = [ref EXCEPT ![x] = 0] /\ UNCHANGED <<entry, linked, practised, request>>
  BY DEF CompleteRun
<1>6. CASE item[i] \in {"pending", "live"}
  <2>1. /\ item' = [item EXCEPT ![i] = "live"] /\ observed' = observed \union {x}
        /\ about' = [about EXCEPT ![x] = i] /\ run' = [run EXCEPT ![x] = "completed"]
    BY <1>2, <1>6 DEF CompleteRun, Refers
  <2>2. item'[i] = "live" /\ observed' \subseteq Runs /\ about' \in [Runs -> Items \union {0}]
    BY <1>1, <2>1 DEF Types
  <2>3. about'[x] \in Live'
    BY <1>1, <2>1, <2>2 DEF Types, Live
  <2>4. item[i] \in {"live", "gone"} => item'[i] = item[i]
    BY <1>6, <2>2
  <2>5. \A y \in Runs \ {x} : about'[y] = about[y] /\ (y \in observed' <=> y \in observed)
    BY <1>1, <2>1 DEF Types
  <2>6. item'[i] = "pending" => "completed" = "referring"
    BY <2>2
  <2>7. /\ item' \in [Items -> {"unused", "pending", "live", "gone"}]
        /\ \A k \in Items \ {i} : item'[k] = item[k]
    BY <1>1, <2>1 DEF Types
  <2>8. QED
    BY <1>2, <1>3, <1>5, <2>1, <2>2, <2>3, <2>4, <2>5, <2>6, <2>7, RunMoves
<1>7. CASE item[i] \notin {"pending", "live"}
  <2>1. /\ item' = item /\ observed' = observed /\ about' = about
        /\ run' = [run EXCEPT ![x] = "failed"]
    BY <1>2, <1>7 DEF CompleteRun, Refers, evidence
  <2>2. item'[i] # "pending" /\ observed' \subseteq Runs /\ about' \in [Runs -> Items \union {0}]
    BY <1>1, <1>7, <2>1 DEF Types
  <2>3. /\ \A y \in Runs \ {x} : about'[y] = about[y] /\ (y \in observed' <=> y \in observed)
        /\ x \notin observed'
    BY <1>4, <2>1
  <2>4. /\ item' \in [Items -> {"unused", "pending", "live", "gone"}] /\ item'[i] # "unused"
        /\ \A k \in Items \ {i} : item'[k] = item[k]
    BY <1>1, <1>2, <2>1 DEF Types
  <2>5. QED
    BY <1>2, <1>3, <1>5, <2>1, <2>2, <2>3, <2>4, RunMoves
<1>8. QED
  BY <1>6, <1>7

LEMMA RetryRunKeeps ==
    ASSUME BankInv, NEW x \in Runs, RetryRun(x)
    PROVE  BankInv'
<1>1. /\ Types /\ Apart /\ \A q \in Requests : RequestHolds(q)
      /\ \A y \in Runs : RunHolds(y)
  BY TypeParts DEF BankInv
<1>2. PICK i \in Items : i = ref[x] /\ item[i] # "unused" /\ run[x] = "referring"
  BY <1>1 DEF RetryRun, RunHolds
<1>3. \A q \in Requests : pc[q] = "asking" /\ mine[q] # 0 => mine[q] # i
  BY <1>1, <1>2 DEF Apart
<1>4. x \notin observed
  BY <1>1, <1>2 DEF RunHolds
<1>5. /\ ref' = [ref EXCEPT ![x] = 0] /\ run' = [run EXCEPT ![x] = "open"]
      /\ UNCHANGED <<entry, linked, practised, request>> /\ observed' = observed /\ about' = about
  BY DEF RetryRun, evidence
<1>6. PICK fate \in {"pending", "live", "gone"} :
          /\ item' = [item EXCEPT ![i] = fate]
          /\ IF item[i] = "pending" THEN fate = "gone" ELSE fate = item[i]
  BY <1>1, <1>2 DEF RetryRun, Types
<1>7. item'[i] # "pending" /\ (item[i] \in {"live", "gone"} => item'[i] = item[i])
  BY <1>1, <1>6 DEF Types
<1>8. observed' \subseteq Runs /\ about' \in [Runs -> Items \union {0}]
  BY <1>1, <1>5 DEF Types
<1>9. /\ \A y \in Runs \ {x} : about'[y] = about[y] /\ (y \in observed' <=> y \in observed)
      /\ x \notin observed'
  BY <1>4, <1>5
<1>10. /\ item' \in [Items -> {"unused", "pending", "live", "gone"}] /\ item'[i] # "unused"
       /\ \A k \in Items \ {i} : item'[k] = item[k]
  BY <1>1, <1>6 DEF Types
<1>11. item'[i] = "pending" => "open" = "referring"
  BY <1>7
<1>12. QED
  BY <1>2, <1>3, <1>5, <1>7, <1>8, <1>9, <1>10, <1>11, RunMoves

LEMMA RequeueRunKeeps ==
    ASSUME BankInv, NEW x \in Runs, RequeueRun(x)
    PROVE  BankInv'
  BY DEF BankInv, TypeOK, RequeueRun, bank, evidence, request, RequestHolds, RunHolds, Apart,
     LinkedHaveEntry, Live

LEMMA ExpiryKeeps == BankInv /\ EntryExpires => BankInv'
  BY DEF BankInv, TypeOK, EntryExpires, bank, evidence, analyses, request, RequestHolds, RunHolds, Apart,
     LinkedHaveEntry, Live

LEMMA NextBank == BankInv /\ [Next]_vars => BankInv'
<1> SUFFICES ASSUME BankInv, [Next]_vars PROVE BankInv'
  OBVIOUS
<1>1. ASSUME NEW r \in Requests, RequestStep(r) PROVE BankInv'
  BY <1>1, LookupKeeps, AnsweredKeeps, PatchKeeps, DeleteKeeps, AbortKeeps, AddItemKeeps,
     AddItemAskingKeeps, ReadItemKeeps DEF RequestStep
<1>2. ASSUME NEW x \in Runs, RunStep(x) PROVE BankInv'
  BY <1>2, ReferKeeps, CompleteRunKeeps, RetryRunKeeps, RequeueRunKeeps DEF RunStep
<1>3. CASE EntryExpires
  BY <1>3, ExpiryKeeps
<1>4. CASE UNCHANGED vars
  BY <1>4 DEF vars, BankInv, TypeOK, bank, evidence, analyses, request, RequestHolds, RunHolds, Apart,
     LinkedHaveEntry, Live
<1>5. QED
  BY <1>1, <1>2, <1>3, <1>4 DEF Next

LEMMA InitBank == Init => BankInv
<1> SUFFICES ASSUME Init PROVE BankInv
  OBVIOUS
<1>1. Types /\ Owned
  BY DEF Init, Types, Owned
<1>2. TypeOK
  BY <1>1, TypeParts
<1>3. \A r \in Requests : RequestHolds(r)
  BY DEF Init, RequestHolds
<1>4. \A x \in Runs : RunHolds(x)
  BY DEF Init, RunHolds
<1>5. Apart /\ LinkedHaveEntry
  BY DEF Init, Apart, LinkedHaveEntry
<1>6. QED
  BY <1>2, <1>3, <1>4, <1>5 DEF BankInv

\* The inductive invariant: a look-up alone holds the pending item it will commit, a
\* change holds one that was committed, and what a request saw of the cache stays true.
THEOREM BankInvariant == Spec => []BankInv
<1>1. Init => BankInv
  BY InitBank
<1>2. BankInv /\ [Next]_vars => BankInv'
  BY NextBank
<1>3. QED
  BY <1>1, <1>2, PTL DEF Spec

\* Rows and transactions keep their types, and a pending item has a transaction.
THEOREM BankTypeCorrect == Spec => []TypeOK
<1>1. BankInv => TypeOK
  BY DEF BankInv
<1>2. QED
  BY <1>1, BankInvariant, PTL

\* Every reference of a committed row resolves, whatever is deleted or rolled back.
THEOREM NothingDangles == Spec => []ReferencesResolve
<1>1. BankInv => ReferencesResolve
  BY DEF BankInv, ReferencesResolve, RunHolds, LinkedHaveEntry, TypeOK
<1>2. QED
  BY <1>1, BankInvariant, PTL

\* A run that has an observation is over, so nothing writes the observation again but
\* the deletion of its item, which only takes the reference away.
LEMMA EvidenceStays ==
    ASSUME BankInv, Next, NEW x \in observed
    PROVE  x \in observed' /\ about'[x] \in {about[x], 0}
<1>1. /\ x \in Runs /\ run[x] = "completed" /\ about \in [Runs -> Items \union {0}]
  BY DEF BankInv, TypeOK, RunHolds
<1>2. CASE observed' = observed /\ about' = about
  BY <1>2
<1>3. ASSUME NEW r \in Requests, Delete(r) PROVE x \in observed' /\ about'[x] \in {about[x], 0}
  BY <1>1, <1>3 DEF Delete
<1>4. ASSUME NEW r \in Requests, RequestStep(r), ~Delete(r)
      PROVE  x \in observed' /\ about'[x] \in {about[x], 0}
  BY <1>2, <1>4 DEF RequestStep, Lookup, Answered, Patch, Abort, AddItem, AddItemAsking, ReadItem, evidence
<1>5. ASSUME NEW y \in Runs, CompleteRun(y) PROVE x \in observed' /\ about'[x] \in {about[x], 0}
  <2>1. y # x
    BY <1>1, <1>5 DEF CompleteRun
  <2>2. \/ observed' = observed /\ about' = about
        \/ observed' = observed \union {y} /\ about' = [about EXCEPT ![y] = ref[y]]
    BY <1>5 DEF CompleteRun, evidence
  <2>3. QED
    BY <1>1, <2>1, <2>2
<1>6. ASSUME NEW y \in Runs, RunStep(y), ~CompleteRun(y)
      PROVE  x \in observed' /\ about'[x] \in {about[x], 0}
  BY <1>2, <1>6 DEF RunStep, Refer, RetryRun, RequeueRun, evidence
<1>7. CASE EntryExpires
  BY <1>2, <1>7 DEF EntryExpires, evidence
<1>8. QED
  BY <1>3, <1>4, <1>5, <1>6, <1>7 DEF Next

\* Evidence of use is never lost and never moves to another item.
THEOREM EvidenceIsKept == Spec => EvidenceIsImmutable
<1>1. BankInv /\ [Next]_vars =>
        [\A x \in observed : x \in observed' /\ about'[x] \in {about[x], 0}]_vars
  BY EvidenceStays
<1>2. QED
  BY <1>1, BankInvariant, PTL DEF Spec, EvidenceIsImmutable
=============================================================================
