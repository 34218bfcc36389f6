--------------------------- MODULE AccountsProofs ---------------------------
(***************************************************************************)
(* Activation links and sessions, for any number of requests, links,       *)
(* sign-ins and hand-off codes.                                            *)
(***************************************************************************)
EXTENDS Accounts, FiniteSetTheorems, TLAPS

\* Requests that hold the lock on the row they have selected.
Issuing == {"inserting", "mailed", "consuming"}

\* A request that has sent its link has the only row that is not committed, and the
\* link it replaces is the only active one; one that consumes a link holds it active.
RequestOK(p) ==
    /\ pc[p] = "signing_up" => old[p] = 0
    /\ pc[p] = "mailed" =>
         /\ new[p] \in Challenges /\ challenge[new[p]] = "pending" /\ new[p] \in inbox
         /\ \A c \in Challenges : Active(c) => c = old[p]
    /\ pc[p] = "consuming" => old[p] \in Challenges /\ Active(old[p])
    /\ pc[p] = "handing" => linked
    /\ pc[p] = "exchanging" => new[p] \in Codes /\ code[new[p]] # "unused"

OneUncommitted == \A p, q \in Requests : pc[p] = "mailed" /\ pc[q] = "mailed" => p = q

LocksExclude ==
    \A p, q \in Requests :
        p # q /\ pc[p] \in Issuing /\ pc[q] \in Issuing /\ old[p] = old[q] => old[p] = 0

\* A link that can still become active, or is, was not used.
FreshIsUnused ==
    /\ \A c \in Challenges : challenge[c] \in {"unused", "pending", "active"} => uses[c] = 0
    /\ LinkWorksOnce

\* Google's identity and its hand-off codes come with a verified address.
GoogleIsVerified ==
    /\ linked => account = "verified"
    /\ \A k \in Codes : code[k] # "unused" => account = "verified"

AccountInv ==
    /\ TypeOK
    /\ \A p \in Requests : RequestOK(p)
    /\ OneUncommitted
    /\ LocksExclude
    /\ FreshIsUnused
    /\ ActivationRemains
    /\ GoogleIsVerified
    /\ SessionsAreVerified

OnlyRequest(p) ==
    \A q \in Requests \ {p} : pc'[q] = pc[q] /\ new'[q] = new[q] /\ old'[q] = old[q]

RequestTypes ==
    /\ pc \in [Requests -> PCs]
    /\ new \in [Requests -> Challenges \union Codes \union {0}]
    /\ old \in [Requests -> Challenges \union {0}]

LEMMA ZeroIsNothing == 0 \notin Challenges /\ 0 \notin Codes /\ 0 \notin Flows
  BY AccountBounds DEF Challenges, Codes, Flows

LEMMA GotoEffect ==
    ASSUME RequestTypes, NEW p \in Requests, NEW where \in PCs,
           NEW n \in Challenges \union Codes \union {0}, NEW o \in Challenges \union {0},
           Goto(p, where, n, o)
    PROVE  /\ RequestTypes' /\ OnlyRequest(p)
           /\ pc'[p] = where /\ new'[p] = n /\ old'[p] = o
  BY DEF RequestTypes, Goto, OnlyRequest

\* A step of one request that changes none of the tables and does not touch a row
\* it has inserted.
LEMMA RequestOnly ==
    ASSUME AccountInv, NEW p \in Requests, OnlyRequest(p), RequestTypes',
           UNCHANGED <<account, session, links, google>>,
           pc[p] # "mailed", pc'[p] # "mailed", RequestOK(p)',
           pc'[p] \in Issuing =>
             \A q \in Requests \ {p} : pc[q] \in Issuing /\ old[q] = old'[p] => old'[p] = 0
    PROVE  AccountInv'
<1>1. /\ account' = account /\ session' = session /\ linked' = linked
      /\ challenge' = challenge /\ age' = age /\ inbox' = inbox /\ uses' = uses
      /\ code' = code /\ exchanges' = exchanges /\ terms' = terms /\ cookie' = cookie
  BY DEF links, google
<1>2. \A q \in Requests \ {p} : pc'[q] = pc[q] /\ new'[q] = new[q] /\ old'[q] = old[q]
  BY DEF OnlyRequest
<1>3. \A c \in Challenges : (\E q \in Requests : pc[q] = "mailed" /\ new[q] = c)
                            <=> (\E q \in Requests : pc'[q] = "mailed" /\ new'[q] = c)
  BY <1>2
<1>4. TypeOK'
  BY <1>1, <1>3 DEF AccountInv, TypeOK, RequestTypes
<1>5. \A q \in Requests : RequestOK(q)'
  BY <1>1, <1>2 DEF AccountInv, RequestOK, Active
<1>6. OneUncommitted'
  BY <1>2 DEF AccountInv, OneUncommitted
<1>7. LocksExclude'
  BY <1>2 DEF AccountInv, LocksExclude
<1>8. FreshIsUnused' /\ ActivationRemains' /\ GoogleIsVerified' /\ SessionsAreVerified'
  BY <1>1 DEF AccountInv, FreshIsUnused, LinkWorksOnce, ActivationRemains, Active,
     GoogleIsVerified, SessionsAreVerified
<1>9. QED
  BY <1>4, <1>5, <1>6, <1>7, <1>8 DEF AccountInv

LEMMA RequestTypesHold == AccountInv => RequestTypes
  BY DEF AccountInv, TypeOK, RequestTypes

\* Reading, waiting, being refused: a request moves on and the tables stay.
LEMMA ReadsStep ==
    ASSUME AccountInv, NEW p \in Requests,
           SignupReads(p) \/ ResendReads(p) \/ IssueRefused(p) \/ LinkRefused(p)
    PROVE  AccountInv'
<1>1. RequestTypes /\ "idle" \in PCs /\ "signing_up" \in PCs /\ "resending" \in PCs
  BY RequestTypesHold DEF PCs
<1>2. PICK where \in {"idle", "signing_up", "resending"} : Goto(p, where, 0, 0)
  BY DEF SignupReads, ResendReads, IssueRefused, LinkRefused, Respond
<1>3. where \in PCs /\ where \notin Issuing \union {"handing", "exchanging"}
  BY <1>1 DEF Issuing
<1>4. RequestTypes' /\ OnlyRequest(p) /\ pc'[p] = where /\ old'[p] = 0
  BY <1>1, <1>2, <1>3, GotoEffect
<1>5. UNCHANGED <<account, session, links, google>> /\ pc[p] # "mailed"
  BY DEF SignupReads, ResendReads, IssueRefused, LinkRefused
<1>6. RequestOK(p)'
  BY <1>3, <1>4 DEF RequestOK, Issuing
<1>7. pc'[p] \notin Issuing /\ pc'[p] # "mailed"
  BY <1>3, <1>4 DEF Issuing
<1>8. QED
  BY <1>4, <1>5, <1>6, <1>7, RequestOnly

\* A lock is taken only when nobody holds it.
LEMMA LockingStep ==
    ASSUME AccountInv, NEW p \in Requests,
           \/ SelectActive(p) \/ Unblock(p)
           \/ \E c \in Challenges : ConsumeLocks(p, c)
    PROVE  AccountInv'
<1>1. RequestTypes
  BY RequestTypesHold
<1>2. PICK where \in {"inserting", "blocked", "consuming"}, o \in Challenges \union {0} :
          /\ Goto(p, where, 0, o)
          /\ where \in Issuing /\ o # 0 => ~Locked(o)
          /\ where = "consuming" => o \in Challenges /\ Active(o)
  <2>1. CASE SelectActive(p)
    BY <2>1 DEF SelectActive, Issuing
  <2>2. CASE Unblock(p)
    <3>1. old[p] \in Challenges \union {0}
      BY <1>1 DEF RequestTypes
    <3>2. QED
      BY <2>2, <3>1 DEF Unblock
  <2>3. CASE \E c \in Challenges : ConsumeLocks(p, c)
    BY <2>3 DEF ConsumeLocks
  <2>4. QED
    BY <2>1, <2>2, <2>3
<1>3. RequestTypes' /\ OnlyRequest(p) /\ pc'[p] = where /\ old'[p] = o
  BY <1>1, <1>2, GotoEffect DEF PCs
<1>4. UNCHANGED <<account, session, links, google>> /\ pc[p] # "mailed"
  BY DEF SelectActive, Unblock, ConsumeLocks
<1>5. RequestOK(p)'
  BY <1>2, <1>3, <1>4 DEF RequestOK, Active, links
<1>6. pc'[p] \in Issuing =>
        \A q \in Requests \ {p} : pc[q] \in Issuing /\ old[q] = old'[p] => old'[p] = 0
  BY <1>2, <1>3 DEF Locked, Issuing
<1>7. pc'[p] # "mailed"
  BY <1>2, <1>3
<1>8. QED
  BY <1>3, <1>4, <1>5, <1>6, <1>7, RequestOnly

LEMMA CallbackStep ==
    ASSUME AccountInv, NEW p \in Requests,
           \/ \E f \in Flows : Callback(p, f)
           \/ \E k \in Codes : CompleteReads(p, k)
    PROVE  AccountInv'
<1>1. RequestTypes
  BY RequestTypesHold
<1>2. PICK where \in {"creating", "linking", "handing", "exchanging"}, n \in Codes \union {0} :
          /\ Goto(p, where, n, 0)
          /\ where = "handing" => linked
          /\ where = "exchanging" => n \in Codes /\ code[n] # "unused"
  <2>1. CASE \E f \in Flows : Callback(p, f)
    BY <2>1 DEF Callback
  <2>2. CASE \E k \in Codes : CompleteReads(p, k)
    BY <2>2 DEF CompleteReads
  <2>3. QED
    BY <2>1, <2>2
<1>3. RequestTypes' /\ OnlyRequest(p) /\ pc'[p] = where /\ new'[p] = n
  BY <1>1, <1>2, GotoEffect DEF PCs
<1>4. UNCHANGED <<account, session, links, google>> /\ pc[p] # "mailed"
  BY DEF Callback, CompleteReads
<1>5. RequestOK(p)'
  BY <1>2, <1>3, <1>4 DEF RequestOK, google
<1>6. pc'[p] \notin Issuing /\ pc'[p] # "mailed"
  BY <1>2, <1>3 DEF Issuing
<1>7. QED
  BY <1>3, <1>4, <1>5, <1>6, RequestOnly

-----------------------------------------------------------------------------
\* The link is inserted and sent: it is pending, and whatever is active is replaced.
LEMMA MailsStep ==
    ASSUME AccountInv, NEW p \in Requests, NEW c \in Challenges, IssueMails(p, c)
    PROVE  AccountInv'
<1>1. /\ TypeOK /\ RequestTypes /\ pc[p] \in {"signing_up", "inserting"}
      /\ challenge[c] = "unused" /\ challenge' = [challenge EXCEPT ![c] = "pending"]
      /\ inbox' = inbox \union {c} /\ Goto(p, "mailed", c, old[p])
      /\ UNCHANGED <<account, session, age, uses, google>>
      /\ \A q \in Requests \ {p} : pc[q] # "mailed"
      /\ \A d \in Challenges : Active(d) => d = old[p]
  BY RequestTypesHold DEF AccountInv, IssueMails, NextChallenge, Uncommitted, Refused
<1>2. /\ RequestTypes' /\ OnlyRequest(p)
      /\ pc'[p] = "mailed" /\ new'[p] = c /\ old'[p] = old[p]
  <2>1. "mailed" \in PCs /\ old[p] \in Challenges \union {0}
    BY <1>1 DEF PCs, RequestTypes
  <2>2. QED
    BY <1>1, <2>1, GotoEffect
<1>3. \A d \in Challenges \ {c} : challenge'[d] = challenge[d]
  BY <1>1 DEF TypeOK
<1>4. challenge'[c] = "pending" /\ challenge' \in [Challenges -> ChallengeStatuses]
  BY <1>1 DEF TypeOK, ChallengeStatuses
<1>5. \A d \in Challenges : Active(d)' <=> Active(d)
  BY <1>1, <1>3, <1>4 DEF Active
<1>6. \A d \in Challenges : challenge'[d] = "pending" <=>
          \E q \in Requests : pc'[q] = "mailed" /\ new'[q] = d
  <2>1. \A q \in Requests : pc'[q] = "mailed" <=> q = p
    BY <1>1, <1>2 DEF OnlyRequest
  <2>2. \A d \in Challenges \ {c} : challenge[d] # "pending"
    <3>1. \A q \in Requests : pc[q] # "mailed"
      BY <1>1
    <3>2. QED
      BY <1>1, <3>1 DEF TypeOK
  <2>3. QED
    BY <1>2, <1>3, <1>4, <2>1, <2>2
<1>7. TypeOK'
  BY <1>1, <1>2, <1>4, <1>6 DEF TypeOK, RequestTypes, google
<1>8. \A q \in Requests : RequestOK(q)'
  <2>1. RequestOK(p)'
    BY <1>1, <1>2, <1>4, <1>5 DEF RequestOK
  <2>2. ASSUME NEW q \in Requests \ {p} PROVE RequestOK(q)'
    <3>1. pc'[q] = pc[q] /\ new'[q] = new[q] /\ old'[q] = old[q] /\ pc[q] # "mailed"
      BY <1>1, <1>2 DEF OnlyRequest
    <3>2. QED
      BY <1>1, <1>5, <3>1 DEF AccountInv, RequestOK, google
  <2>3. QED
    BY <2>1, <2>2
<1>9. OneUncommitted'
  BY <1>1, <1>2 DEF OneUncommitted, OnlyRequest
<1>10. LocksExclude'
  <2>1. CASE pc[p] = "inserting"
    BY <1>2, <2>1 DEF AccountInv, LocksExclude, OnlyRequest, Issuing
  <2>2. CASE pc[p] = "signing_up"
    <3>1. old[p] = 0
      BY <2>2 DEF AccountInv, RequestOK
    <3>2. QED
      BY <1>2, <2>2, <3>1 DEF AccountInv, LocksExclude, OnlyRequest, Issuing
  <2>3. QED
    BY <1>1, <2>1, <2>2
<1>11. FreshIsUnused'
  BY <1>1, <1>3 DEF AccountInv, FreshIsUnused, LinkWorksOnce
<1>12. ActivationRemains'
  <2>1. inbox \subseteq Challenges /\ inbox \subseteq inbox' /\ account' = account
    BY <1>1 DEF TypeOK
  <2>2. QED
    BY <1>5, <2>1 DEF AccountInv, ActivationRemains
<1>13. GoogleIsVerified' /\ SessionsAreVerified'
  BY <1>1 DEF AccountInv, GoogleIsVerified, SessionsAreVerified, google
<1>14. QED
  BY <1>7, <1>8, <1>9, <1>10, <1>11, <1>12, <1>13 DEF AccountInv

\* A link that was not delivered leaves nothing behind.
LEMMA UndeliveredStep ==
    ASSUME AccountInv, NEW p \in Requests, NEW c \in Challenges, IssueUndelivered(p, c)
    PROVE  AccountInv'
<1>1. /\ TypeOK /\ RequestTypes /\ pc[p] # "mailed"
      /\ challenge[c] = "unused" /\ challenge' = [challenge EXCEPT ![c] = "rolled_back"]
      /\ Goto(p, "idle", 0, 0)
      /\ UNCHANGED <<account, session, age, inbox, uses, google>>
  BY RequestTypesHold DEF AccountInv, IssueUndelivered, NextChallenge, Respond
<1>2. /\ RequestTypes' /\ OnlyRequest(p)
      /\ pc'[p] = "idle" /\ new'[p] = 0 /\ old'[p] = 0
  BY <1>1, GotoEffect DEF PCs
<1>3. \A d \in Challenges \ {c} : challenge'[d] = challenge[d]
  BY <1>1 DEF TypeOK
<1>4. challenge'[c] = "rolled_back" /\ challenge' \in [Challenges -> ChallengeStatuses]
  BY <1>1 DEF TypeOK, ChallengeStatuses
<1>5. \A d \in Challenges : Active(d)' <=> Active(d)
  BY <1>1, <1>3, <1>4 DEF Active
<1>6. \A d \in Challenges : challenge'[d] = "pending" <=>
          \E q \in Requests : pc'[q] = "mailed" /\ new'[q] = d
  <2>1. \A d \in Challenges : challenge'[d] = "pending" <=> challenge[d] = "pending"
    BY <1>1, <1>3, <1>4
  <2>2. \A d \in Challenges : (\E q \in Requests : pc'[q] = "mailed" /\ new'[q] = d)
                              <=> (\E q \in Requests : pc[q] = "mailed" /\ new[q] = d)
    BY <1>1, <1>2 DEF OnlyRequest
  <2>3. QED
    BY <1>1, <2>1, <2>2 DEF TypeOK
<1>7. TypeOK'
  BY <1>1, <1>2, <1>4, <1>6 DEF TypeOK, RequestTypes, google
<1>8. \A q \in Requests : RequestOK(q)'
  <2>1. RequestOK(p)'
    BY <1>2 DEF RequestOK
  <2>2. ASSUME NEW q \in Requests \ {p} PROVE RequestOK(q)'
    <3>1. pc'[q] = pc[q] /\ new'[q] = new[q] /\ old'[q] = old[q] /\ RequestOK(q)
      BY <1>2 DEF OnlyRequest, AccountInv
    <3>2. \A d \in Challenges : challenge[d] = "pending" => challenge'[d] = "pending"
      BY <1>1, <1>3
    <3>3. QED
      BY <1>1, <1>5, <3>1, <3>2 DEF RequestOK, google
  <2>3. QED
    BY <2>1, <2>2
<1>9. OneUncommitted' /\ LocksExclude'
  BY <1>2 DEF AccountInv, OneUncommitted, LocksExclude, OnlyRequest, Issuing
<1>10. FreshIsUnused'
  BY <1>1, <1>3, <1>4 DEF AccountInv, FreshIsUnused, LinkWorksOnce
<1>11. ActivationRemains'
  <2>1. inbox \subseteq Challenges /\ inbox' = inbox /\ account' = account
    BY <1>1 DEF TypeOK
  <2>2. QED
    BY <1>5, <2>1 DEF AccountInv, ActivationRemains
<1>12. GoogleIsVerified' /\ SessionsAreVerified'
  BY <1>1 DEF AccountInv, GoogleIsVerified, SessionsAreVerified, google
<1>13. QED
  BY <1>6, <1>7, <1>8, <1>9, <1>10, <1>11, <1>12 DEF AccountInv

\* The commit replaces the one active link by one that is in the inbox.
LEMMA CommitIssueStep ==
    ASSUME AccountInv, NEW p \in Requests, CommitIssue(p)
    PROVE  AccountInv'
<1>1. /\ TypeOK /\ RequestTypes /\ pc[p] = "mailed" /\ RequestOK(p)
      /\ account' = (IF account = "absent" THEN "unverified" ELSE account)
      /\ Goto(p, "idle", 0, 0)
      /\ UNCHANGED <<session, age, inbox, uses, google>>
  BY RequestTypesHold DEF AccountInv, CommitIssue, Respond
<1>2. /\ RequestTypes' /\ OnlyRequest(p)
      /\ pc'[p] = "idle" /\ new'[p] = 0 /\ old'[p] = 0
  BY <1>1, GotoEffect DEF PCs
<1>3. /\ new[p] \in Challenges /\ challenge[new[p]] = "pending" /\ new[p] \in inbox
      /\ \A c \in Challenges : challenge[c] = "active" => c = old[p]
  BY <1>1 DEF RequestOK, Active
<1>4. /\ challenge' \in [Challenges -> ChallengeStatuses]
      /\ challenge'[new[p]] = "active"
      /\ \A c \in Challenges \ {new[p]} :
            challenge'[c] = IF c = old[p] THEN "invalidated" ELSE challenge[c]
  BY <1>1, <1>3 DEF CommitIssue, TypeOK, ChallengeStatuses
<1>5. \A c \in Challenges : challenge'[c] = "active" <=> c = new[p]
  BY <1>3, <1>4
<1>6. \A q \in Requests \ {p} : pc[q] # "mailed"
  BY <1>1 DEF AccountInv, OneUncommitted
<1>7. \A c \in Challenges : challenge[c] = "pending" <=> c = new[p]
  BY <1>1, <1>6 DEF TypeOK
<1>8. \A c \in Challenges : challenge'[c] # "pending"
  BY <1>4, <1>7
<1>9. TypeOK'
  <2>1. \A c \in Challenges : challenge'[c] = "pending" <=>
            \E q \in Requests : pc'[q] = "mailed" /\ new'[q] = c
    BY <1>2, <1>6, <1>8 DEF OnlyRequest
  <2>2. account' \in {"absent", "unverified", "verified"}
    BY <1>1 DEF TypeOK
  <2>3. QED
    BY <1>1, <1>2, <1>4, <2>1, <2>2 DEF TypeOK, RequestTypes, google
<1>10. \A q \in Requests : RequestOK(q)'
  <2>1. RequestOK(p)'
    BY <1>2 DEF RequestOK
  <2>2. ASSUME NEW q \in Requests \ {p} PROVE RequestOK(q)'
    <3>1. pc'[q] = pc[q] /\ new'[q] = new[q] /\ old'[q] = old[q] /\ RequestOK(q) /\ pc[q] # "mailed"
      BY <1>2, <1>6 DEF OnlyRequest, AccountInv
    <3>2. pc[q] # "consuming"
      <4>1. SUFFICES ASSUME pc[q] = "consuming" PROVE FALSE
        OBVIOUS
      <4>2. old[q] \in Challenges /\ old[q] = old[p]
        BY <1>3, <3>1, <4>1 DEF RequestOK, Active
      <4>3. QED
        BY <1>1, <4>1, <4>2, ZeroIsNothing DEF AccountInv, LocksExclude, Issuing
    <3>3. QED
      BY <1>1, <3>1, <3>2 DEF RequestOK, google
  <2>3. QED
    BY <2>1, <2>2
<1>11. OneUncommitted' /\ LocksExclude'
  BY <1>2 DEF AccountInv, OneUncommitted, LocksExclude, OnlyRequest, Issuing
<1>12. FreshIsUnused'
  <2>1. \A c \in Challenges : challenge'[c] \in {"unused", "pending", "active"}
            => challenge[c] \in {"unused", "pending", "active"}
    BY <1>3, <1>4
  <2>2. uses' = uses
    BY <1>1
  <2>3. QED
    BY <2>1, <2>2 DEF AccountInv, FreshIsUnused, LinkWorksOnce
<1>13. ActivationRemains'
  <2>1. new[p] \in inbox' /\ inbox' \subseteq Challenges
    BY <1>1, <1>3 DEF TypeOK
  <2>2. QED
    BY <1>5, <2>1 DEF ActivationRemains, Active
<1>14. GoogleIsVerified' /\ SessionsAreVerified'
  BY <1>1 DEF AccountInv, GoogleIsVerified, SessionsAreVerified, google
<1>15. QED
  BY <1>9, <1>10, <1>11, <1>12, <1>13, <1>14 DEF AccountInv

\* The link was active and unused while its row was locked.
LEMMA ConsumeStepKeeps ==
    ASSUME AccountInv, NEW p \in Requests, ConsumeCommits(p)
    PROVE  AccountInv'
<1>1. /\ TypeOK /\ RequestTypes /\ pc[p] = "consuming" /\ RequestOK(p)
      /\ challenge' = [challenge EXCEPT ![old[p]] = "consumed"]
      /\ uses' = [uses EXCEPT ![old[p]] = @ + 1]
      /\ account' = "verified" /\ session' = TRUE
      /\ Goto(p, "idle", 0, 0)
      /\ UNCHANGED <<age, inbox, google>>
  BY RequestTypesHold DEF AccountInv, ConsumeCommits, Respond
<1>2. /\ RequestTypes' /\ OnlyRequest(p)
      /\ pc'[p] = "idle" /\ new'[p] = 0 /\ old'[p] = 0
  BY <1>1, GotoEffect DEF PCs
<1>3. old[p] \in Challenges /\ challenge[old[p]] = "active" /\ uses[old[p]] = 0
  BY <1>1 DEF RequestOK, Active, AccountInv, FreshIsUnused
<1>4. /\ challenge' \in [Challenges -> ChallengeStatuses]
      /\ challenge'[old[p]] = "consumed"
      /\ \A c \in Challenges \ {old[p]} : challenge'[c] = challenge[c]
  BY <1>1, <1>3 DEF TypeOK, ChallengeStatuses
<1>5. /\ uses' \in [Challenges -> Nat] /\ uses'[old[p]] = 1
      /\ \A c \in Challenges \ {old[p]} : uses'[c] = uses[c]
  BY <1>1, <1>3 DEF TypeOK
<1>6. TypeOK'
  <2>1. \A c \in Challenges : challenge'[c] = "pending" <=> challenge[c] = "pending"
    BY <1>3, <1>4
  <2>2. \A c \in Challenges : (\E q \in Requests : pc'[q] = "mailed" /\ new'[q] = c)
                              <=> (\E q \in Requests : pc[q] = "mailed" /\ new[q] = c)
    BY <1>1, <1>2 DEF OnlyRequest
  <2>3. session' \in BOOLEAN
    BY <1>1
  <2>4. QED
    BY <1>1, <1>2, <1>4, <1>5, <2>1, <2>2, <2>3 DEF TypeOK, RequestTypes, google
<1>7. \A q \in Requests : RequestOK(q)'
  <2>1. RequestOK(p)'
    BY <1>2 DEF RequestOK
  <2>2. ASSUME NEW q \in Requests \ {p} PROVE RequestOK(q)'
    <3>1. pc'[q] = pc[q] /\ new'[q] = new[q] /\ old'[q] = old[q] /\ RequestOK(q)
      BY <1>2 DEF OnlyRequest, AccountInv
    <3>2. pc[q] = "consuming" => old[q] # old[p]
      BY <1>1, <1>3, ZeroIsNothing DEF AccountInv, LocksExclude, Issuing
    <3>3. pc[q] = "mailed" => challenge'[new[q]] = "pending" /\ inbox' = inbox
      BY <1>1, <1>3, <1>4, <3>1 DEF RequestOK
    <3>4. \A c \in Challenges : challenge'[c] = "active" => challenge[c] = "active"
      BY <1>4
    <3>5. pc[q] = "consuming" => challenge'[old[q]] = "active"
      BY <1>4, <3>1, <3>2 DEF RequestOK, Active
    <3>6. linked' = linked /\ code' = code
      BY <1>1 DEF google
    <3>7. QED
      BY <3>1, <3>3, <3>4, <3>5, <3>6 DEF RequestOK, Active
  <2>3. QED
    BY <2>1, <2>2
<1>8. OneUncommitted' /\ LocksExclude'
  BY <1>2 DEF AccountInv, OneUncommitted, LocksExclude, OnlyRequest, Issuing
<1>9. FreshIsUnused'
  BY <1>4, <1>5 DEF AccountInv, FreshIsUnused, LinkWorksOnce
<1>10. ActivationRemains'
  <2>1. \A c \in Challenges : challenge'[c] = "active" => challenge[c] = "active"
    BY <1>4
  <2>2. QED
    BY <1>1, <2>1 DEF AccountInv, ActivationRemains, Active
<1>11. GoogleIsVerified' /\ SessionsAreVerified'
  BY <1>1 DEF GoogleIsVerified, SessionsAreVerified
<1>12. QED
  BY <1>6, <1>7, <1>8, <1>9, <1>10, <1>11 DEF AccountInv

\* A request that dies takes its pending link along.
LEMMA DropStep ==
    ASSUME AccountInv, NEW p \in Requests, Drop(p)
    PROVE  AccountInv'
<1>1. /\ TypeOK /\ RequestTypes /\ RequestOK(p)
      /\ Goto(p, "idle", 0, 0)
      /\ UNCHANGED <<account, session, age, inbox, uses, google>>
  BY RequestTypesHold DEF AccountInv, Drop, Respond
<1>2. /\ RequestTypes' /\ OnlyRequest(p)
      /\ pc'[p] = "idle" /\ new'[p] = 0 /\ old'[p] = 0
  BY <1>1, GotoEffect DEF PCs
<1>3. /\ challenge' \in [Challenges -> ChallengeStatuses]
      /\ \A c \in Challenges : challenge'[c] =
            IF pc[p] = "mailed" /\ c = new[p] THEN "rolled_back" ELSE challenge[c]
  BY <1>1 DEF Drop, TypeOK, ChallengeStatuses
<1>4. pc[p] = "mailed" => challenge[new[p]] = "pending"
  BY <1>1 DEF RequestOK
<1>5. \A c \in Challenges : challenge'[c] = "active" <=> challenge[c] = "active"
  BY <1>3, <1>4
<1>6. \A q \in Requests \ {p} : pc[q] = "mailed" => pc[p] # "mailed"
  BY DEF AccountInv, OneUncommitted
<1>7. TypeOK'
  <2>1. \A c \in Challenges : challenge'[c] = "pending" <=>
            \E q \in Requests : pc'[q] = "mailed" /\ new'[q] = c
    <3>1. CASE pc[p] = "mailed"
      BY <1>1, <1>2, <1>3, <1>6, <3>1 DEF TypeOK, OnlyRequest
    <3>2. CASE pc[p] # "mailed"
      BY <1>1, <1>2, <1>3, <3>2 DEF TypeOK, OnlyRequest
    <3>3. QED
      BY <3>1, <3>2
  <2>2. QED
    BY <1>1, <1>2, <1>3, <2>1 DEF TypeOK, RequestTypes, google
<1>8. \A q \in Requests : RequestOK(q)'
  <2>1. RequestOK(p)'
    BY <1>2 DEF RequestOK
  <2>2. ASSUME NEW q \in Requests \ {p} PROVE RequestOK(q)'
    <3>1. pc'[q] = pc[q] /\ new'[q] = new[q] /\ old'[q] = old[q] /\ RequestOK(q)
      BY <1>2 DEF OnlyRequest, AccountInv
    <3>2. pc[q] = "mailed" => \A c \in Challenges : challenge'[c] = challenge[c]
      BY <1>3, <1>6
    <3>3. linked' = linked /\ code' = code /\ inbox' = inbox
      BY <1>1 DEF google
    <3>4. QED
      BY <1>5, <3>1, <3>2, <3>3 DEF RequestOK, Active
  <2>3. QED
    BY <2>1, <2>2
<1>9. OneUncommitted' /\ LocksExclude'
  BY <1>2 DEF AccountInv, OneUncommitted, LocksExclude, OnlyRequest, Issuing
<1>10. FreshIsUnused'
  <2>1. \A c \in Challenges : challenge'[c] \in {"unused", "pending", "active"}
            => challenge'[c] = challenge[c]
    BY <1>3
  <2>2. uses' = uses
    BY <1>1
  <2>3. QED
    BY <2>1, <2>2 DEF AccountInv, FreshIsUnused, LinkWorksOnce
<1>11. ActivationRemains'
  <2>1. inbox \subseteq Challenges /\ inbox' = inbox /\ account' = account
    BY <1>1 DEF TypeOK
  <2>2. QED
    BY <1>5, <2>1 DEF AccountInv, ActivationRemains, Active
<1>12. GoogleIsVerified' /\ SessionsAreVerified'
  BY <1>1 DEF AccountInv, GoogleIsVerified, SessionsAreVerified, google
<1>13. QED
  BY <1>7, <1>8, <1>9, <1>10, <1>11, <1>12 DEF AccountInv

-----------------------------------------------------------------------------
\* Steps that leave the links' status alone: Google's, the sign-in and the clock.
LEMMA LinksStay ==
    ASSUME AccountInv, RequestTypes',
           UNCHANGED <<challenge, inbox, uses, terms>>,
           \A q \in Requests :
               \/ pc'[q] = pc[q] /\ new'[q] = new[q] /\ old'[q] = old[q]
               \/ pc'[q] = "idle" /\ pc[q] # "mailed",
           account' \in {"absent", "unverified", "verified"},
           linked' \in BOOLEAN, session' \in BOOLEAN,
           age' \in [Challenges -> 0 .. 3],
           code' \in [Codes -> {"unused", "live", "expired", "consumed"}],
           exchanges' \in [Codes -> Nat], cookie' \in Flows \union {0},
           account' = account \/ account' = "verified",
           linked => linked',
           \A k \in Codes : code[k] # "unused" => code'[k] # "unused",
           GoogleIsVerified', SessionsAreVerified'
    PROVE  AccountInv'
<1>1. \A q \in Requests : pc'[q] # "idle" => pc'[q] = pc[q] /\ new'[q] = new[q] /\ old'[q] = old[q]
  OBVIOUS
<1>2. \A q \in Requests : pc[q] = "mailed" => pc'[q] = pc[q] /\ new'[q] = new[q]
  OBVIOUS
<1>3. \A c \in Challenges : (\E q \in Requests : pc'[q] = "mailed" /\ new'[q] = c)
                            <=> (\E q \in Requests : pc[q] = "mailed" /\ new[q] = c)
  BY <1>1, <1>2
<1>4. TypeOK'
  BY <1>3 DEF AccountInv, TypeOK, RequestTypes
<1>5. \A q \in Requests : RequestOK(q)'
  BY <1>1 DEF AccountInv, RequestOK, Active
<1>6. OneUncommitted' /\ LocksExclude'
  BY <1>1 DEF AccountInv, OneUncommitted, LocksExclude, Issuing
<1>7. FreshIsUnused'
  BY DEF AccountInv, FreshIsUnused, LinkWorksOnce
<1>8. ActivationRemains'
  BY DEF AccountInv, ActivationRemains, Active
<1>9. QED
  BY <1>4, <1>5, <1>6, <1>7, <1>8 DEF AccountInv

LEMMA GoogleKeeps ==
    ASSUME AccountInv, NEW p \in Requests, NEW k \in Codes,
           Link(p, k) \/ HandOff(p, k) \/ CompleteCommits(p)
    PROVE  AccountInv'
<1>1. /\ TypeOK /\ RequestTypes /\ RequestOK(p) /\ Goto(p, "idle", 0, 0) /\ pc[p] # "mailed"
      /\ UNCHANGED <<links, terms>>
  BY RequestTypesHold DEF AccountInv, Link, HandOff, CompleteCommits, Respond
<1>2. RequestTypes' /\ OnlyRequest(p) /\ pc'[p] = "idle"
  BY <1>1, GotoEffect DEF PCs
<1>3. \A q \in Requests :
          \/ pc'[q] = pc[q] /\ new'[q] = new[q] /\ old'[q] = old[q]
          \/ pc'[q] = "idle" /\ pc[q] # "mailed"
  BY <1>1, <1>2 DEF OnlyRequest
<1>4. challenge' = challenge /\ inbox' = inbox /\ uses' = uses /\ age' = age /\ terms' = terms
  BY <1>1 DEF links
<1>5. CASE Link(p, k)
  <2>1. /\ account' = "verified" /\ linked' = TRUE /\ code' = [code EXCEPT ![k] = "live"]
        /\ cookie' = 0 /\ session' = session /\ exchanges' = exchanges
    BY <1>5 DEF Link
  <2>2. GoogleIsVerified' /\ SessionsAreVerified'
    BY <2>1 DEF GoogleIsVerified, SessionsAreVerified
  <2>3. \A j \in Codes : code[j] # "unused" => code'[j] # "unused"
    BY <1>1, <2>1 DEF TypeOK
  <2>4. /\ code' \in [Codes -> {"unused", "live", "expired", "consumed"}]
        /\ linked' \in BOOLEAN /\ cookie' \in Flows \union {0}
    BY <1>1, <2>1 DEF TypeOK
  <2>5. session' \in BOOLEAN /\ exchanges' \in [Codes -> Nat] /\ age' \in [Challenges -> 0 .. 3]
    BY <1>1, <1>4, <2>1 DEF TypeOK
  <2>6. QED
    BY <1>2, <1>3, <1>4, <2>1, <2>2, <2>3, <2>4, <2>5, LinksStay
<1>6. CASE HandOff(p, k)
  <2>1. /\ account' = account /\ linked' = linked /\ code' = [code EXCEPT ![k] = "live"]
        /\ cookie' = 0 /\ session' = session /\ exchanges' = exchanges /\ linked
    BY <1>1, <1>6 DEF HandOff, RequestOK
  <2>2. GoogleIsVerified' /\ SessionsAreVerified'
    BY <2>1 DEF AccountInv, GoogleIsVerified, SessionsAreVerified
  <2>3. \A j \in Codes : code[j] # "unused" => code'[j] # "unused"
    BY <1>1, <2>1 DEF TypeOK
  <2>4. /\ code' \in [Codes -> {"unused", "live", "expired", "consumed"}]
        /\ cookie' \in Flows \union {0} /\ account' \in {"absent", "unverified", "verified"}
    BY <1>1, <2>1 DEF TypeOK
  <2>5. /\ linked' \in BOOLEAN /\ session' \in BOOLEAN /\ exchanges' \in [Codes -> Nat]
        /\ age' \in [Challenges -> 0 .. 3]
    BY <1>1, <1>4, <2>1 DEF TypeOK
  <2>6. QED
    BY <1>2, <1>3, <1>4, <2>1, <2>2, <2>3, <2>4, <2>5, LinksStay
<1>7. CASE CompleteCommits(p)
  <2>1. /\ account' = account /\ linked' = linked
        /\ code' = [code EXCEPT ![new[p]] = "consumed"]
        /\ exchanges' = [exchanges EXCEPT ![new[p]] = @ + 1]
        /\ cookie' = cookie /\ session' = TRUE
        /\ new[p] \in Codes /\ code[new[p]] # "unused"
    BY <1>1, <1>7 DEF CompleteCommits, RequestOK
  <2>2. account = "verified"
    BY <2>1 DEF AccountInv, GoogleIsVerified
  <2>3. GoogleIsVerified' /\ SessionsAreVerified'
    BY <2>1, <2>2 DEF GoogleIsVerified, SessionsAreVerified
  <2>4. \A j \in Codes : code[j] # "unused" => code'[j] # "unused"
    BY <1>1, <2>1 DEF TypeOK
  <2>5. /\ code' \in [Codes -> {"unused", "live", "expired", "consumed"}]
        /\ exchanges' \in [Codes -> Nat]
        /\ account' \in {"absent", "unverified", "verified"}
    BY <1>1, <2>1 DEF TypeOK
  <2>6. /\ linked' \in BOOLEAN /\ session' \in BOOLEAN /\ cookie' \in Flows \union {0}
        /\ age' \in [Challenges -> 0 .. 3]
    BY <1>1, <1>4, <2>1 DEF TypeOK
  <2>7. QED
    BY <1>2, <1>3, <1>4, <2>1, <2>3, <2>4, <2>5, <2>6, LinksStay
<1>8. QED
  BY <1>5, <1>6, <1>7

LEMMA EnvironmentKeeps ==
    ASSUME AccountInv,
           \/ \E c \in Challenges : Ages(c)
           \/ \E k \in Codes : CodeExpires(k)
           \/ \E f \in Flows : GoogleStart(f)
           \/ CookieExpires \/ Login \/ UNCHANGED vars
    PROVE  AccountInv'
<1>1. /\ UNCHANGED <<request, account, challenge, inbox, uses, terms, linked, exchanges>>
      /\ TypeOK /\ RequestTypes
  BY RequestTypesHold DEF AccountInv, Ages, CodeExpires, GoogleStart, CookieExpires, Login,
     vars, links, google
<1>2. pc' = pc /\ new' = new /\ old' = old
  BY <1>1 DEF request
<1>3. RequestTypes'
  BY <1>1, <1>2 DEF RequestTypes
<1>4. age' \in [Challenges -> 0 .. 3]
  <2>1. CASE \E c \in Challenges : Ages(c)
    <3>1. PICK c \in Challenges : Ages(c)
      BY <2>1
    <3>2. age[c] + 1 \in 0 .. 3 /\ age' = [age EXCEPT ![c] = age[c] + 1]
      BY <1>1, <3>1 DEF Ages, TypeOK
    <3>3. QED
      BY <1>1, <3>2 DEF TypeOK
  <2>2. CASE UNCHANGED age
    BY <1>1, <2>2 DEF TypeOK
  <2>3. QED
    BY <2>1, <2>2 DEF CodeExpires, GoogleStart, CookieExpires, Login, vars, links
<1>5. /\ code' \in [Codes -> {"unused", "live", "expired", "consumed"}]
      /\ \A k \in Codes : code[k] # "unused" <=> code'[k] # "unused"
  <2>1. CASE \E k \in Codes : CodeExpires(k)
    BY <1>1, <2>1 DEF CodeExpires, TypeOK
  <2>2. CASE UNCHANGED code
    BY <1>1, <2>2 DEF TypeOK
  <2>3. QED
    BY <2>1, <2>2 DEF Ages, GoogleStart, CookieExpires, Login, vars, google
<1>6. cookie' \in Flows \union {0}
  BY <1>1 DEF Ages, CodeExpires, GoogleStart, CookieExpires, Login, vars, google, TypeOK
<1>7. session' \in BOOLEAN /\ SessionsAreVerified'
  <2>1. CASE Login
    BY <2>1 DEF Login, SessionsAreVerified
  <2>2. CASE session' = session
    <3>1. session \in BOOLEAN
      BY <1>1 DEF TypeOK
    <3>2. account' = account
      BY <1>1
    <3>3. QED
      BY <2>2, <3>1, <3>2 DEF AccountInv, SessionsAreVerified
  <2>3. QED
    BY <2>1, <2>2 DEF Ages, CodeExpires, GoogleStart, CookieExpires, vars
<1>8. GoogleIsVerified'
  BY <1>1, <1>5 DEF AccountInv, GoogleIsVerified
<1>9. \A q \in Requests :
          \/ pc'[q] = pc[q] /\ new'[q] = new[q] /\ old'[q] = old[q]
          \/ pc'[q] = "idle" /\ pc[q] # "mailed"
  BY <1>2
<1>10. /\ account' \in {"absent", "unverified", "verified"} /\ linked' \in BOOLEAN
       /\ exchanges' \in [Codes -> Nat]
  BY <1>1 DEF TypeOK
<1>11. /\ challenge' = challenge /\ inbox' = inbox /\ uses' = uses /\ terms' = terms
       /\ account' = account /\ (linked => linked')
  BY <1>1
<1>12. QED
  BY <1>3, <1>4, <1>5, <1>6, <1>7, <1>8, <1>9, <1>10, <1>11, LinksStay

-----------------------------------------------------------------------------
LEMMA InitAccount == Init => AccountInv
<1> SUFFICES ASSUME Init PROVE AccountInv
  OBVIOUS
<1>1. TypeOK
  <2>1. /\ linked = FALSE /\ session = FALSE /\ account = "absent" /\ cookie = 0 /\ inbox = {}
    BY DEF Init
  <2>2. linked \in BOOLEAN /\ session \in BOOLEAN
    BY <2>1
  <2>3. /\ challenge \in [Challenges -> ChallengeStatuses] /\ age \in [Challenges -> 0 .. 3]
        /\ uses \in [Challenges -> Nat] /\ exchanges \in [Codes -> Nat]
        /\ code \in [Codes -> {"unused", "live", "expired", "consumed"}]
        /\ terms \in [Flows -> BOOLEAN]
    BY DEF Init, ChallengeStatuses
  <2>4. RequestTypes
    BY DEF Init, RequestTypes, PCs
  <2>5. \A c \in Challenges : challenge[c] = "pending" <=>
          \E p \in Requests : pc[p] = "mailed" /\ new[p] = c
    BY DEF Init
  <2>6. QED
    BY <2>1, <2>2, <2>3, <2>4, <2>5 DEF TypeOK, RequestTypes
<1>2. \A p \in Requests : RequestOK(p)
  BY DEF Init, RequestOK
<1>3. OneUncommitted /\ LocksExclude
  BY DEF Init, OneUncommitted, LocksExclude, Issuing
<1>4. FreshIsUnused /\ ActivationRemains
  BY DEF Init, FreshIsUnused, LinkWorksOnce, ActivationRemains, Active
<1>5. GoogleIsVerified /\ SessionsAreVerified
  BY DEF Init, GoogleIsVerified, SessionsAreVerified
<1>6. QED
  BY <1>1, <1>2, <1>3, <1>4, <1>5 DEF AccountInv

LEMMA NextAccount == AccountInv /\ [Next]_vars => AccountInv'
<1> SUFFICES ASSUME AccountInv, [Next]_vars PROVE AccountInv'
  OBVIOUS
<1>1. ASSUME NEW p \in Requests, IssueStep(p) PROVE AccountInv'
  <2>1. CASE SignupReads(p) \/ ResendReads(p) \/ IssueRefused(p)
    BY <2>1, ReadsStep
  <2>2. CASE SelectActive(p) \/ Unblock(p)
    BY <2>2, LockingStep
  <2>3. ASSUME NEW c \in Challenges, IssueMails(p, c) \/ IssueUndelivered(p, c)
        PROVE  AccountInv'
    BY <2>3, MailsStep, UndeliveredStep
  <2>4. CASE CommitIssue(p)
    BY <2>4, CommitIssueStep
  <2>5. QED
    BY <1>1, <2>1, <2>2, <2>3, <2>4 DEF IssueStep
<1>2. ASSUME NEW p \in Requests, ConsumeStep(p) PROVE AccountInv'
  BY <1>2, LockingStep, ConsumeStepKeeps DEF ConsumeStep
<1>3. ASSUME NEW p \in Requests, GoogleStep(p) PROVE AccountInv'
  <2>1. CASE (\E f \in Flows : Callback(p, f)) \/ (\E k \in Codes : CompleteReads(p, k))
    BY <2>1, CallbackStep
  <2>2. CASE LinkRefused(p)
    BY <2>2, ReadsStep
  <2>3. CASE \E k \in Codes : Link(p, k) \/ HandOff(p, k)
    BY <2>3, GoogleKeeps
  <2>4. CASE CompleteCommits(p)
    <3>1. new[p] \in Codes
      BY <2>4 DEF CompleteCommits, AccountInv, RequestOK
    <3>2. QED
      BY <2>4, <3>1, GoogleKeeps
  <2>5. QED
    BY <1>3, <2>1, <2>2, <2>3, <2>4 DEF GoogleStep
<1>4. ASSUME NEW p \in Requests, Drop(p) PROVE AccountInv'
  BY <1>4, DropStep
<1>5. CASE \/ \E c \in Challenges : Ages(c)
           \/ \E k \in Codes : CodeExpires(k)
           \/ \E f \in Flows : GoogleStart(f)
           \/ CookieExpires \/ Login \/ UNCHANGED vars
  BY <1>5, EnvironmentKeeps
<1>6. QED
  BY <1>1, <1>2, <1>3, <1>4, <1>5 DEF Next

\* The types, and all of the above, through any interleaving of sign-ups, resends,
\* activations, Google sign-ins, lost requests and expiries.
THEOREM AccountInvariant == Spec => []AccountInv
<1>1. Init => AccountInv
  BY InitAccount
<1>2. AccountInv /\ [Next]_vars => AccountInv'
  BY NextAccount
<1>3. QED
  BY <1>1, <1>2, PTL DEF Spec

\* The state of accounts, links, codes and requests keeps its types.
THEOREM AccountsTypeCorrect == Spec => []TypeOK
<1>1. AccountInv => TypeOK
  BY DEF AccountInv
<1>2. QED
  BY <1>1, AccountInvariant, PTL

\* An account that is not yet verified always has one active link that was sent.
THEOREM AccountsCanBeActivated == Spec => []ActivationRemains
<1>1. AccountInv => ActivationRemains
  BY DEF AccountInv
<1>2. QED
  BY <1>1, AccountInvariant, PTL

\* The row lock of consume makes a link good for one session.
THEOREM LinksWorkOnce == Spec => []LinkWorksOnce
<1>1. AccountInv => LinkWorksOnce
  BY DEF AccountInv, FreshIsUnused
<1>2. QED
  BY <1>1, AccountInvariant, PTL

\* Nobody has a session before the address is verified, by link or by Google.
THEOREM SessionsNeedVerification == Spec => []SessionsAreVerified
<1>1. AccountInv => SessionsAreVerified
  BY DEF AccountInv
<1>2. QED
  BY <1>1, AccountInvariant, PTL

-----------------------------------------------------------------------------
(***************************************************************************)
(* The limit of the hour                                                   *)
(***************************************************************************)

\* Challenges that a statement can see once they are committed.
Visible == {"active", "invalidated", "consumed"}

\* A resend that may_resend let pass, up to its insert; one that has selected the row
\* it replaces; and every request whose link may still be committed.
Resending == {"resending", "blocked", "inserting"}
Holding == {"blocked", "inserting", "mailed"}
Gate == {"resending", "blocked", "inserting", "mailed"}
Passed == {p \in Requests : pc[p] \in Gate}

\* Before the account exists there is neither a link nor a resend.
AbsentIsFresh ==
    account = "absent" =>
        /\ \A c \in Challenges : challenge[c] \notin Visible
        /\ \A p \in Requests : pc[p] \notin Resending

\* The link that a request replaces was committed.
HeldIsVisible ==
    \A p \in Requests : pc[p] \in Holding /\ old[p] # 0 => challenge[old[p]] \in Visible

\* Links of the hour and links that may still be committed: the last request to pass
\* the limit saw fewer links than the limit, and the others are at most all of them.
RoomLeft == Cardinality(Recent) + Cardinality(Passed) < MaxPerHour + Cardinality(Requests)

ResendInv == AbsentIsFresh /\ HeldIsVisible /\ RoomLeft

LEMMA CountsAreFinite ==
    /\ IsFiniteSet(Challenges) /\ IsFiniteSet(Recent) /\ IsFiniteSet(Passed)
    /\ Cardinality(Recent) \in Nat /\ Cardinality(Passed) \in Nat
    /\ Cardinality(Requests) \in Nat /\ Cardinality(Passed) <= Cardinality(Requests)
<1>1. IsFiniteSet(Challenges)
  BY AccountBounds, FS_Interval DEF Challenges
<1>2. IsFiniteSet(Recent)
  BY <1>1, FS_Subset DEF Recent
<1>3. IsFiniteSet(Passed) /\ Cardinality(Passed) <= Cardinality(Requests)
  BY RequestsAssumption, FS_Subset DEF Passed
<1>4. QED
  BY <1>1, <1>2, <1>3, RequestsAssumption, FS_CardinalityType

\* A request does not pass the limit, and what it holds is committed.
PassesNothing(p) ==
    /\ pc'[p] \in Gate => pc[p] \in Gate
    /\ pc'[p] \in Resending => pc[p] \in Resending
    /\ pc'[p] \in Holding /\ old'[p] # 0 => challenge[old'[p]] \in Visible

\* Neither a link becomes visible, or younger, nor a request passes the limit.
LEMMA QuietStep ==
    ASSUME AccountInv, ResendInv, AccountInv',
           \A c \in Challenges : challenge'[c] \in Visible <=> challenge[c] \in Visible,
           \A c \in Challenges : age'[c] >= age[c],
           account' = "absent" => account = "absent",
           \A q \in Requests : PassesNothing(q)
    PROVE  ResendInv'
<1>1. /\ age \in [Challenges -> 0 .. 3] /\ age' \in [Challenges -> 0 .. 3]
      /\ old' \in [Requests -> Challenges \union {0}]
  BY DEF AccountInv, TypeOK
<1>2. AbsentIsFresh'
  BY DEF ResendInv, AbsentIsFresh, PassesNothing
<1>3. HeldIsVisible'
  BY <1>1 DEF HeldIsVisible, PassesNothing
<1>4. Recent' \subseteq Recent
  BY <1>1 DEF Recent, Visible
<1>5. Passed' \subseteq Passed
  BY DEF Passed, PassesNothing
<1>6. /\ Cardinality(Recent') <= Cardinality(Recent) /\ Cardinality(Recent') \in Nat
      /\ Cardinality(Passed') <= Cardinality(Passed) /\ Cardinality(Passed') \in Nat
  BY <1>4, <1>5, CountsAreFinite, FS_Subset, FS_CardinalityType
<1>7. Cardinality(Recent)' + Cardinality(Passed)' < MaxPerHour + Cardinality(Requests)
  BY <1>6, CountsAreFinite, LimitAssumption DEF ResendInv, RoomLeft
<1>8. QED
  BY <1>2, <1>3, <1>7 DEF ResendInv, RoomLeft

\* The same, when one request moves.
LEMMA OneMoves ==
    ASSUME AccountInv, ResendInv, AccountInv', NEW p \in Requests, OnlyRequest(p),
           \A c \in Challenges : challenge'[c] \in Visible <=> challenge[c] \in Visible,
           age' = age, account' = "absent" => account = "absent", PassesNothing(p)
    PROVE  ResendInv'
<1>1. \A q \in Requests \ {p} : PassesNothing(q)
  BY DEF OnlyRequest, PassesNothing, ResendInv, HeldIsVisible
<1>2. \A c \in Challenges : age'[c] >= age[c]
  BY DEF AccountInv, TypeOK
<1>3. QED
  BY <1>1, <1>2, QuietStep

\* A resend that passes the limit has seen fewer links than the limit.
LEMMA GateStep ==
    ASSUME AccountInv, ResendInv, AccountInv', NEW p \in Requests, ResendReads(p)
    PROVE  ResendInv'
<1>1. /\ account = "unverified" /\ Cardinality(Recent) < MaxPerHour
      /\ account' = account /\ challenge' = challenge /\ age' = age
      /\ Goto(p, "resending", 0, 0)
  BY DEF ResendReads, MayResend, links
<1>2. OnlyRequest(p) /\ pc'[p] = "resending"
  BY <1>1, RequestTypesHold, GotoEffect DEF PCs
<1>3. AbsentIsFresh'
  BY <1>1 DEF AbsentIsFresh
<1>4. HeldIsVisible'
  BY <1>1, <1>2 DEF ResendInv, HeldIsVisible, OnlyRequest, Holding
<1>5. Recent' = Recent
  BY <1>1 DEF Recent
<1>6. IsFiniteSet(Requests) /\ Passed' \subseteq Requests
  BY RequestsAssumption DEF Passed
<1>7. Cardinality(Passed') \in Nat /\ Cardinality(Passed') <= Cardinality(Requests)
  BY <1>6, FS_Subset, FS_CardinalityType
<1>8. Cardinality(Recent') + Cardinality(Passed') < MaxPerHour + Cardinality(Requests)
  BY <1>1, <1>5, <1>7, CountsAreFinite, LimitAssumption
<1>9. QED
  BY <1>3, <1>4, <1>8 DEF ResendInv, RoomLeft

\* The link of a sign-up is the first: the account does not exist yet.
LEMMA SignupMails ==
    ASSUME AccountInv, ResendInv, AccountInv', NEW p \in Requests, NEW c \in Challenges,
           IssueMails(p, c), pc[p] = "signing_up"
    PROVE  ResendInv'
<1>1. /\ challenge[c] = "unused" /\ challenge' = [challenge EXCEPT ![c] = "pending"]
      /\ Goto(p, "mailed", c, old[p]) /\ account' = account /\ age' = age
      /\ \A q \in Requests \ {p} : pc[q] # "mailed"
      /\ account = "absent" /\ old[p] = 0
  BY DEF AccountInv, RequestOK, IssueMails, NextChallenge, Uncommitted, Refused
<1>2. /\ OnlyRequest(p) /\ pc'[p] = "mailed" /\ old'[p] = 0
  <2>1. RequestTypes /\ "mailed" \in PCs /\ old[p] \in Challenges \union {0}
    BY RequestTypesHold DEF PCs, RequestTypes
  <2>2. QED
    BY <1>1, <2>1, GotoEffect
<1>3. /\ \A b \in Challenges : challenge[b] \notin Visible
      /\ \A q \in Requests : pc[q] \notin Resending
  BY <1>1 DEF ResendInv, AbsentIsFresh
<1>4. \A b \in Challenges : challenge'[b] \notin Visible
  BY <1>1, <1>3 DEF AccountInv, TypeOK, Visible
<1>5. AbsentIsFresh'
  BY <1>2, <1>3, <1>4 DEF AbsentIsFresh, OnlyRequest, Resending
<1>6. HeldIsVisible'
  BY <1>1, <1>2, <1>3 DEF HeldIsVisible, OnlyRequest, Holding, Resending
<1>7. Recent' = {}
  BY <1>4 DEF Recent, Visible
<1>8. Passed' = {p}
  BY <1>1, <1>2, <1>3 DEF Passed, OnlyRequest, Gate, Resending
<1>9. Cardinality(Recent') = 0 /\ Cardinality(Passed') = 1
  BY <1>7, <1>8, FS_EmptySet, FS_Singleton
<1>10. Cardinality(Requests) > 0
  BY RequestsAssumption, FS_EmptySet, CountsAreFinite
<1>11. Cardinality(Recent') + Cardinality(Passed') < MaxPerHour + Cardinality(Requests)
  BY <1>9, <1>10, CountsAreFinite, LimitAssumption
<1>12. QED
  BY <1>5, <1>6, <1>11 DEF ResendInv, RoomLeft

\* A commit makes one link visible, and one request done.
LEMMA CommitCounts ==
    ASSUME AccountInv, ResendInv, AccountInv', NEW p \in Requests, CommitIssue(p)
    PROVE  ResendInv'
<1>1. /\ pc[p] = "mailed" /\ new[p] \in Challenges /\ account' # "absent" /\ age' = age
      /\ Goto(p, "idle", 0, 0)
      /\ \A c \in Challenges :
            challenge'[c] = IF c = new[p] THEN "active"
                            ELSE IF c = old[p] THEN "invalidated" ELSE challenge[c]
  BY DEF CommitIssue, Respond, AccountInv, RequestOK, TypeOK
<1>2. OnlyRequest(p) /\ pc'[p] = "idle" /\ old'[p] = 0
  BY <1>1, RequestTypesHold, GotoEffect DEF PCs
<1>3. AbsentIsFresh'
  BY <1>1 DEF AbsentIsFresh
<1>4. \A c \in Challenges : challenge[c] \in Visible => challenge'[c] \in Visible
  BY <1>1 DEF Visible
<1>5. HeldIsVisible'
  BY <1>2, <1>4 DEF ResendInv, HeldIsVisible, OnlyRequest, Holding, AccountInv, TypeOK
<1>6. Recent' \subseteq Recent \union {new[p]}
  <2>1. old[p] # 0 => challenge[old[p]] \in Visible
    BY <1>1 DEF ResendInv, HeldIsVisible, Holding
  <2>2. 0 \notin Challenges
    BY ZeroIsNothing
  <2>3. QED
    BY <1>1, <2>1, <2>2 DEF Recent, Visible
<1>7. Passed' = Passed \ {p} /\ p \in Passed
  BY <1>1, <1>2 DEF Passed, OnlyRequest, Gate
<1>8. Cardinality(Recent') \in Nat /\ Cardinality(Recent') <= Cardinality(Recent) + 1
  <2>1. /\ IsFiniteSet(Recent \union {new[p]})
        /\ Cardinality(Recent \union {new[p]}) <= Cardinality(Recent) + 1
    <3>1. IsFiniteSet(Recent) /\ Cardinality(Recent) \in Nat
      BY CountsAreFinite
    <3>2. CASE new[p] \in Recent
      <4>1. Recent \union {new[p]} = Recent
        BY <3>2
      <4>2. QED
        BY <3>1, <4>1
    <3>3. CASE new[p] \notin Recent
      <4>1. /\ IsFiniteSet(Recent \union {new[p]})
            /\ Cardinality(Recent \union {new[p]}) = Cardinality(Recent) + 1
        BY <3>1, <3>3, FS_AddElement
      <4>2. QED
        BY <3>1, <4>1
    <3>4. QED
      BY <3>2, <3>3
  <2>2. IsFiniteSet(Recent') /\ Cardinality(Recent') <= Cardinality(Recent \union {new[p]})
    BY <1>6, <2>1, FS_Subset
  <2>3. Cardinality(Recent') \in Nat /\ Cardinality(Recent \union {new[p]}) \in Nat
    BY <2>1, <2>2, FS_CardinalityType
  <2>4. QED
    BY <2>1, <2>2, <2>3, CountsAreFinite
<1>9. Cardinality(Passed') = Cardinality(Passed) - 1
  BY <1>7, CountsAreFinite, FS_RemoveElement
<1>10. Cardinality(Recent') + Cardinality(Passed') < MaxPerHour + Cardinality(Requests)
  BY <1>8, <1>9, CountsAreFinite, LimitAssumption DEF ResendInv, RoomLeft
<1>11. QED
  BY <1>3, <1>5, <1>10 DEF ResendInv, RoomLeft

\* Inserting, giving up and dropping a link.
LEMMA IssueCounts ==
    ASSUME AccountInv, ResendInv, AccountInv', NEW p \in Requests,
           \/ Drop(p)
           \/ \E c \in Challenges : \/ IssueMails(p, c) /\ pc[p] = "inserting"
                                    \/ IssueUndelivered(p, c)
    PROVE  ResendInv'
<1>1. /\ RequestTypes /\ account' = account /\ age' = age
  BY RequestTypesHold DEF Drop, IssueMails, IssueUndelivered
<1>2. \A c \in Challenges : challenge'[c] \in Visible <=> challenge[c] \in Visible
  <2>1. CASE Drop(p)
    <3>1. pc[p] = "mailed" => challenge[new[p]] = "pending"
      BY DEF AccountInv, RequestOK
    <3>2. QED
      BY <2>1, <3>1 DEF Drop, Visible
  <2>2. ASSUME NEW c \in Challenges, IssueMails(p, c) \/ IssueUndelivered(p, c),
               NEW d \in Challenges
        PROVE  challenge'[d] \in Visible <=> challenge[d] \in Visible
    <3>1. /\ challenge[c] = "unused" /\ challenge \in [Challenges -> ChallengeStatuses]
          /\ \/ challenge' = [challenge EXCEPT ![c] = "pending"]
             \/ challenge' = [challenge EXCEPT ![c] = "rolled_back"]
      BY <2>2 DEF IssueMails, IssueUndelivered, NextChallenge, AccountInv, TypeOK
    <3>2. QED
      BY <3>1 DEF Visible
  <2>3. QED
    BY <2>1, <2>2
<1>3. OnlyRequest(p) /\ PassesNothing(p)
  <2>1. CASE Drop(p) \/ \E c \in Challenges : IssueUndelivered(p, c)
    <3>1. Goto(p, "idle", 0, 0)
      BY <2>1 DEF Drop, IssueUndelivered, Respond
    <3>2. OnlyRequest(p) /\ pc'[p] = "idle" /\ old'[p] = 0
      BY <1>1, <3>1, GotoEffect DEF PCs
    <3>3. QED
      BY <3>2 DEF PassesNothing, Gate, Resending, Holding
  <2>2. ASSUME NEW c \in Challenges, IssueMails(p, c), pc[p] = "inserting"
        PROVE  OnlyRequest(p) /\ PassesNothing(p)
    <3>1. Goto(p, "mailed", c, old[p]) /\ "mailed" \in PCs /\ old[p] \in Challenges \union {0}
      BY <1>1, <2>2 DEF IssueMails, PCs, RequestTypes
    <3>2. OnlyRequest(p) /\ pc'[p] = "mailed" /\ old'[p] = old[p]
      BY <1>1, <3>1, GotoEffect
    <3>3. old[p] # 0 => challenge[old[p]] \in Visible
      BY <2>2 DEF ResendInv, HeldIsVisible, Holding
    <3>4. QED
      BY <2>2, <3>2, <3>3 DEF PassesNothing, Gate, Resending
  <2>3. QED
    BY <2>1, <2>2
<1>4. QED
  BY <1>1, <1>2, <1>3, OneMoves

\* A request that only reads: sign-up, the row it replaces, or a refusal.
LEMMA ReadsCount ==
    ASSUME AccountInv, ResendInv, AccountInv', NEW p \in Requests,
           \/ SignupReads(p) \/ SelectActive(p) \/ Unblock(p) \/ IssueRefused(p)
           \/ LinkRefused(p) \/ \E c \in Challenges : ConsumeLocks(p, c)
    PROVE  ResendInv'
<1>1. /\ RequestTypes /\ account' = account /\ challenge' = challenge /\ age' = age
  BY RequestTypesHold
     DEF SignupReads, SelectActive, Unblock, IssueRefused, LinkRefused, ConsumeLocks, links
<1>2. OnlyRequest(p) /\ PassesNothing(p)
  <2>1. PICK where \in PCs, o \in Challenges \union {0} :
          /\ Goto(p, where, 0, o)
          /\ where \in Gate => pc[p] \in Gate
          /\ where \in Resending => pc[p] \in Resending
          /\ where \in Holding /\ o # 0 => challenge[o] \in Visible
    <3>1. CASE SignupReads(p) \/ IssueRefused(p) \/ LinkRefused(p)
      <4>1. Goto(p, "signing_up", 0, 0) \/ Goto(p, "idle", 0, 0)
        BY <3>1 DEF SignupReads, IssueRefused, LinkRefused, Respond
      <4>2. /\ "signing_up" \in PCs /\ "idle" \in PCs
            /\ "signing_up" \notin Gate \union Resending \union Holding
            /\ "idle" \notin Gate \union Resending \union Holding
        BY DEF PCs, Gate, Resending, Holding
      <4>3. QED
        BY <4>1, <4>2
    <3>2. CASE SelectActive(p)
      BY <3>2 DEF SelectActive, Active, PCs, Gate, Resending, Holding, Visible
    <3>3. CASE Unblock(p)
      <4>1. old[p] \in Challenges \union {0}
        BY <1>1 DEF RequestTypes
      <4>2. QED
        BY <3>3, <4>1 DEF Unblock, Active, PCs, Gate, Resending, Holding, Visible
    <3>4. CASE \E c \in Challenges : ConsumeLocks(p, c)
      BY <3>4 DEF ConsumeLocks, PCs, Gate, Resending, Holding
    <3>5. QED
      BY <3>1, <3>2, <3>3, <3>4
  <2>2. OnlyRequest(p) /\ pc'[p] = where /\ old'[p] = o
    BY <1>1, <2>1, GotoEffect
  <2>3. QED
    BY <2>1, <2>2 DEF PassesNothing
<1>3. QED
  BY <1>1, <1>2, OneMoves

\* Using a link, and Google sign-in: neither passes the limit.
LEMMA OthersCount ==
    ASSUME AccountInv, ResendInv, AccountInv', NEW p \in Requests,
           ConsumeCommits(p) \/ (GoogleStep(p) /\ ~LinkRefused(p))
    PROVE  ResendInv'
<1>1. RequestTypes /\ age' = age
  BY RequestTypesHold DEF ConsumeCommits, GoogleStep, Callback, Link, HandOff, CompleteReads,
     CompleteCommits, links
<1>2. account' = "absent" => account = "absent"
  BY DEF ConsumeCommits, GoogleStep, Callback, Link, HandOff, CompleteReads, CompleteCommits
<1>3. \A c \in Challenges : challenge'[c] \in Visible <=> challenge[c] \in Visible
  <2>1. CASE ConsumeCommits(p)
    <3>1. old[p] \in Challenges /\ challenge[old[p]] = "active"
      BY <2>1 DEF ConsumeCommits, AccountInv, RequestOK, Active
    <3>2. challenge \in [Challenges -> ChallengeStatuses]
      BY DEF AccountInv, TypeOK
    <3>3. QED
      BY <2>1, <3>1, <3>2 DEF ConsumeCommits, Visible
  <2>2. CASE GoogleStep(p) /\ ~LinkRefused(p)
    <3>1. challenge' = challenge
      BY <2>2 DEF GoogleStep, Callback, Link, HandOff, CompleteReads, CompleteCommits, links
    <3>2. QED
      BY <3>1
  <2>3. QED
    BY <2>1, <2>2
<1>4. OnlyRequest(p) /\ PassesNothing(p)
  <2>1. PICK where \in {"idle", "creating", "linking", "handing", "exchanging"},
             n \in Codes \union {0} : Goto(p, where, n, 0)
    BY DEF ConsumeCommits, GoogleStep, Callback, Link, HandOff, CompleteReads,
           CompleteCommits, Respond
  <2>2. where \in PCs /\ where \notin Gate \union Resending \union Holding
    BY DEF PCs, Gate, Resending, Holding
  <2>3. OnlyRequest(p) /\ pc'[p] = where
    BY <1>1, <2>1, <2>2, GotoEffect
  <2>4. QED
    BY <2>2, <2>3 DEF PassesNothing
<1>5. QED
  BY <1>1, <1>2, <1>3, <1>4, OneMoves

\* Time only takes links out of the hour.
LEMMA EnvironmentCounts ==
    ASSUME AccountInv, ResendInv, AccountInv',
           \/ \E c \in Challenges : Ages(c)
           \/ \E k \in Codes : CodeExpires(k)
           \/ \E f \in Flows : GoogleStart(f)
           \/ CookieExpires \/ Login \/ UNCHANGED vars
    PROVE  ResendInv'
<1>1. /\ pc' = pc /\ old' = old /\ account' = account /\ challenge' = challenge
  BY DEF Ages, CodeExpires, GoogleStart, CookieExpires, Login, vars, request, links
<1>2. \A c \in Challenges : age'[c] >= age[c]
  <2>1. age \in [Challenges -> 0 .. 3]
    BY DEF AccountInv, TypeOK
  <2>2. CASE \E c \in Challenges : Ages(c)
    BY <2>1, <2>2 DEF Ages
  <2>3. CASE age' = age
    BY <2>1, <2>3
  <2>4. QED
    BY <2>2, <2>3 DEF CodeExpires, GoogleStart, CookieExpires, Login, vars, links
<1>3. \A q \in Requests : PassesNothing(q)
  BY <1>1 DEF PassesNothing, ResendInv, HeldIsVisible
<1>4. QED
  BY <1>1, <1>2, <1>3, QuietStep

\* Every step keeps room under the limit and its slack.
LEMMA ResendStep == AccountInv /\ ResendInv /\ [Next]_vars => ResendInv'
<1> SUFFICES ASSUME AccountInv, ResendInv, [Next]_vars PROVE ResendInv'
  OBVIOUS
<1>0. AccountInv'
  BY NextAccount
<1>1. ASSUME NEW p \in Requests, IssueStep(p) PROVE ResendInv'
  <2>1. CASE SignupReads(p) \/ SelectActive(p) \/ Unblock(p) \/ IssueRefused(p)
    BY <1>0, <2>1, ReadsCount
  <2>2. CASE ResendReads(p)
    BY <1>0, <2>2, GateStep
  <2>3. ASSUME NEW c \in Challenges, IssueMails(p, c) PROVE ResendInv'
    <3>1. pc[p] \in {"signing_up", "inserting"}
      BY <2>3 DEF IssueMails
    <3>2. QED
      BY <1>0, <2>3, <3>1, SignupMails, IssueCounts
  <2>4. ASSUME NEW c \in Challenges, IssueUndelivered(p, c) PROVE ResendInv'
    BY <1>0, <2>4, IssueCounts
  <2>5. CASE CommitIssue(p)
    BY <1>0, <2>5, CommitCounts
  <2>6. QED
    BY <1>1, <2>1, <2>2, <2>3, <2>4, <2>5 DEF IssueStep
<1>2. ASSUME NEW p \in Requests, ConsumeStep(p) PROVE ResendInv'
  BY <1>0, <1>2, ReadsCount, OthersCount DEF ConsumeStep
<1>3. ASSUME NEW p \in Requests, GoogleStep(p) PROVE ResendInv'
  BY <1>0, <1>3, ReadsCount, OthersCount
<1>4. ASSUME NEW p \in Requests, Drop(p) PROVE ResendInv'
  BY <1>0, <1>4, IssueCounts
<1>5. CASE \/ \E c \in Challenges : Ages(c)
           \/ \E k \in Codes : CodeExpires(k)
           \/ \E f \in Flows : GoogleStart(f)
           \/ CookieExpires \/ Login \/ UNCHANGED vars
  BY <1>0, <1>5, EnvironmentCounts
<1>6. QED
  BY <1>1, <1>2, <1>3, <1>4, <1>5 DEF Next

\* However many resends pass the unlocked count together, the links of an hour exceed
\* the limit by fewer than there are requests.
THEOREM ResendsLimited == Spec => []ResendLimit
<1>1. Init => ResendInv
  <2> SUFFICES ASSUME Init PROVE ResendInv
    OBVIOUS
  <2>1. AbsentIsFresh /\ HeldIsVisible
    BY DEF Init, AbsentIsFresh, HeldIsVisible, Visible, Resending, Holding
  <2>2. Recent = {} /\ Passed = {}
    BY DEF Init, Recent, Passed, Gate
  <2>3. Cardinality(Recent) = 0 /\ Cardinality(Passed) = 0
    BY <2>2, FS_EmptySet
  <2>4. Cardinality(Recent) + Cardinality(Passed) < MaxPerHour + Cardinality(Requests)
    BY <2>3, CountsAreFinite, LimitAssumption
  <2>5. QED
    BY <2>1, <2>4 DEF ResendInv, RoomLeft
<1>2. ResendInv => ResendLimit
  BY CountsAreFinite, LimitAssumption DEF ResendInv, RoomLeft, ResendLimit
<1>3. QED
  BY <1>1, <1>2, ResendStep, AccountInvariant, PTL DEF Spec
=============================================================================
