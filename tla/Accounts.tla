------------------------------- MODULE Accounts -------------------------------
(***************************************************************************)
(* How one e-mail address becomes a verified account with a session: the   *)
(* activation link of ActivationService (app/services.py), Google sign-in  *)
(* with its one-time hand-off code (app/identity.py) and the routes of     *)
(* app/main.py around them.                                                *)
(*                                                                         *)
(* A request is a thread with a transaction of its own at READ COMMITTED.  *)
(* Rows of an open transaction live in "new" and "old" of its request; an  *)
(* insert that meets another uncommitted row of the same key waits for it. *)
(***************************************************************************)
EXTENDS Integers, FiniteSets

CONSTANTS
    Requests,       \* API threads
    MaxPerHour,     \* activation_resend_max_per_hour
    MaxChallenges,  \* bound: activation links issued
    MaxCodes,       \* bound: hand-off codes issued
    MaxFlows        \* bound: Google sign-ins begun in the learner's browser

ASSUME RequestsAssumption == IsFiniteSet(Requests)
ASSUME LimitAssumption == MaxPerHour \in Nat \ {0}   \* Settings refuses a limit of 0
ASSUME AccountBounds == MaxChallenges \in Nat /\ MaxCodes \in Nat /\ MaxFlows \in Nat

Challenges == 1 .. MaxChallenges
Codes == 1 .. MaxCodes
Flows == 1 .. MaxFlows

VARIABLES
    account,    \* the users row of the address
    linked,     \* external_identities has Google's subject for it
    challenge,  \* email_verification_challenges, in the order of created_at
    age,        \* of each challenge: 0 within the resend pause, 1 within the hour, 2, 3 expired
    inbox,      \* challenges whose link the e-mail provider accepted
    uses,       \* sessions each link was good for
    code,       \* oauth_login_codes
    exchanges,  \* sessions each hand-off code was good for
    terms,      \* whether each Google sign-in acknowledged the terms
    cookie,     \* the sign-in the browser's state cookie is about, or 0
    session,    \* a session was handed out
    pc,         \* where each request stands
    new,        \* the challenge or code a request works on
    old         \* the challenge row a request has locked, or waits for

request == <<pc, new, old>>
links == <<challenge, age, inbox, uses>>
google == <<linked, code, exchanges, terms, cookie>>
vars == <<account, session, links, google, request>>

ChallengeStatuses == {"unused", "pending", "active", "invalidated", "consumed", "rolled_back"}
PCs == {"idle", "signing_up", "resending", "blocked", "inserting", "mailed", "consuming",
        "creating", "linking", "handing", "exchanging"}

TypeOK ==
    /\ account \in {"absent", "unverified", "verified"}
    /\ linked \in BOOLEAN
    /\ challenge \in [Challenges -> ChallengeStatuses]
    /\ age \in [Challenges -> 0 .. 3]
    /\ inbox \subseteq Challenges
    /\ uses \in [Challenges -> Nat]
    /\ code \in [Codes -> {"unused", "live", "expired", "consumed"}]
    /\ exchanges \in [Codes -> Nat]
    /\ terms \in [Flows -> BOOLEAN]
    /\ cookie \in Flows \union {0}
    /\ session \in BOOLEAN
    /\ pc \in [Requests -> PCs]
    /\ new \in [Requests -> Challenges \union Codes \union {0}]
    /\ old \in [Requests -> Challenges \union {0}]
    /\ \A c \in Challenges : challenge[c] = "pending" <=>
         \E p \in Requests : pc[p] = "mailed" /\ new[p] = c

Init ==
    /\ account = "absent"
    /\ linked = FALSE
    /\ challenge = [c \in Challenges |-> "unused"]
    /\ age = [c \in Challenges |-> 0]
    /\ inbox = {}
    /\ uses = [c \in Challenges |-> 0]
    /\ code = [k \in Codes |-> "unused"]
    /\ exchanges = [k \in Codes |-> 0]
    /\ terms \in [Flows -> BOOLEAN]
    /\ cookie = 0
    /\ session = FALSE
    /\ pc = [p \in Requests |-> "idle"]
    /\ new = [p \in Requests |-> 0]
    /\ old = [p \in Requests |-> 0]

Goto(p, where, n, o) ==
    /\ pc' = [pc EXCEPT ![p] = where]
    /\ new' = [new EXCEPT ![p] = n]
    /\ old' = [old EXCEPT ![p] = o]

Respond(p) == Goto(p, "idle", 0, 0)

-----------------------------------------------------------------------------
(***************************************************************************)
(* Issuing an activation link: sign-up and resend                          *)
(***************************************************************************)

\* The link a SELECT of the active challenge would return.
Active(c) == challenge[c] = "active"

\* Slip: the rows are read without FOR UPDATE.
LockedNever(c) == FALSE

\* A row some transaction has selected FOR UPDATE.
Locked(c) == \E q \in Requests : pc[q] \in {"inserting", "mailed", "consuming"} /\ old[q] = c

\* signup found no user with this e-mail (409 otherwise) and acknowledged terms.
SignupReads(p) ==
    /\ pc[p] = "idle"
    /\ account = "absent"
    /\ Goto(p, "signing_up", 0, 0)
    /\ UNCHANGED <<account, session, links, google>>

\* Challenges of the last hour that a statement can see.
Recent == {c \in Challenges :
             challenge[c] \in {"active", "invalidated", "consumed"} /\ age[c] <= 1}

\* Slip: the newest challenge is compared, and the hour is not counted.
PauseOnly == \A c \in Recent : age[c] > 0

\* may_resend: a limit for the hour and a pause after the newest; nothing is locked.
MayResend ==
    /\ Cardinality(Recent) < MaxPerHour
    /\ \A c \in Recent : age[c] > 0

\* resend_activation of an unverified user; anything else is accepted and ignored.
ResendReads(p) ==
    /\ pc[p] = "idle"
    /\ account = "unverified"
    /\ MayResend
    /\ Goto(p, "resending", 0, 0)
    /\ UNCHANGED <<account, session, links, google>>

\* issue selects the active challenge FOR UPDATE: it finds none, gets it, or waits.
SelectActive(p) ==
    /\ pc[p] = "resending"
    /\ \/ /\ \A c \in Challenges : ~Active(c)
          /\ Goto(p, "inserting", 0, 0)
       \/ \E c \in Challenges :
            /\ Active(c)
            /\ Goto(p, IF Locked(c) THEN "blocked" ELSE "inserting", 0, c)
    /\ UNCHANGED <<account, session, links, google>>

\* The lock is free: the row is checked again, and a newer one is not looked for.
Unblock(p) ==
    /\ pc[p] = "blocked"
    /\ ~Locked(old[p])
    /\ Goto(p, "inserting", 0, IF Active(old[p]) THEN old[p] ELSE 0)
    /\ UNCHANGED <<account, session, links, google>>

\* Rows of this address that another transaction has inserted and not committed.
Uncommitted(p) == \E q \in Requests \ {p} : pc[q] = "mailed"

\* The unique e-mail, and the unique index on active challenges of a user.
Refused(p) ==
    \/ pc[p] = "signing_up" /\ account # "absent"
    \/ \E c \in Challenges : Active(c) /\ c # old[p]

\* An unhandled IntegrityError: 500, and the transaction is gone.
IssueRefused(p) ==
    /\ pc[p] \in {"signing_up", "inserting"}
    /\ ~Uncommitted(p)
    /\ Refused(p)
    /\ Respond(p)
    /\ UNCHANGED <<account, session, links, google>>

NextChallenge(c) == challenge[c] = "unused" /\ \A b \in Challenges : b < c => challenge[b] # "unused"

\* issue flushes the rows and sends the link, before any commit.
IssueMails(p, c) ==
    /\ pc[p] \in {"signing_up", "inserting"}
    /\ ~Uncommitted(p) /\ ~Refused(p)
    /\ NextChallenge(c)
    /\ challenge' = [challenge EXCEPT ![c] = "pending"]
    /\ inbox' = inbox \union {c}
    /\ Goto(p, "mailed", c, old[p])
    /\ UNCHANGED <<account, session, age, uses, google>>

\* Slip: the failed delivery is logged, and the request goes on to its commit.
UndeliveredIsKept(p, c) ==
    /\ pc[p] \in {"signing_up", "inserting"}
    /\ ~Uncommitted(p) /\ ~Refused(p)
    /\ NextChallenge(c)
    /\ challenge' = [challenge EXCEPT ![c] = "pending"]
    /\ Goto(p, "mailed", c, old[p])
    /\ UNCHANGED <<account, session, age, inbox, uses, google>>

\* The provider does not take the e-mail: both routes roll back.
IssueUndelivered(p, c) ==
    /\ pc[p] \in {"signing_up", "inserting"}
    /\ ~Uncommitted(p) /\ ~Refused(p)
    /\ NextChallenge(c)
    /\ challenge' = [challenge EXCEPT ![c] = "rolled_back"]
    /\ Respond(p)
    /\ UNCHANGED <<account, session, age, inbox, uses, google>>

\* The commit of signup or resend_activation: the user, the new link, the old one's end.
CommitIssue(p) ==
    /\ pc[p] = "mailed"
    /\ challenge' = [c \in Challenges |->
                       IF c = new[p] THEN "active"
                       ELSE IF c = old[p] THEN "invalidated" ELSE challenge[c]]
    /\ account' = IF account = "absent" THEN "unverified" ELSE account
    /\ Respond(p)
    /\ UNCHANGED <<session, age, inbox, uses, google>>

-----------------------------------------------------------------------------
(***************************************************************************)
(* Using the link                                                          *)
(***************************************************************************)

\* consume: by digest, FOR UPDATE, unless it was used, replaced or is too old (400).
ConsumeLocks(p, c) ==
    /\ pc[p] = "idle"
    /\ c \in inbox
    /\ ~Locked(c)
    /\ Active(c) /\ age[c] < 3
    /\ Goto(p, "consuming", 0, c)
    /\ UNCHANGED <<account, session, links, google>>

ConsumeCommits(p) ==
    /\ pc[p] = "consuming"
    /\ challenge' = [challenge EXCEPT ![old[p]] = "consumed"]
    /\ uses' = [uses EXCEPT ![old[p]] = @ + 1]
    /\ account' = "verified"
    /\ session' = TRUE
    /\ Respond(p)
    /\ UNCHANGED <<age, inbox, google>>

\* sign-in with the password, which the holder of the address set at sign-up.
Login ==
    /\ account = "verified"
    /\ session' = TRUE
    /\ UNCHANGED <<account, links, google, request>>

-----------------------------------------------------------------------------
(***************************************************************************)
(* Google sign-in                                                          *)
(***************************************************************************)

\* google_start: a state cookie replaces that of an earlier sign-in of the browser.
GoogleStart(f) ==
    /\ cookie < f
    /\ cookie' = f
    /\ UNCHANGED <<account, session, links, linked, code, exchanges, terms, request>>

CookieExpires ==
    /\ cookie # 0
    /\ cookie' = 0
    /\ UNCHANGED <<account, session, links, linked, code, exchanges, terms, request>>

\* read_state_cookie: the state Google returns is the one in the cookie.
StateMatches(f) == cookie = f

\* google_callback verifies the profile and reads what is known of it: the identity,
\* else the user.  Every other outcome (cancelled, unverified, no terms) changes nothing.
Callback(p, f) ==
    /\ pc[p] = "idle"
    /\ StateMatches(f)
    /\ \/ linked /\ Goto(p, "handing", 0, 0)
       \/ ~linked /\ account # "absent" /\ Goto(p, "linking", 0, 0)
       \/ ~linked /\ account = "absent" /\ terms[f] /\ Goto(p, "creating", 0, 0)
    /\ UNCHANGED <<account, session, links, google>>

NextCode(k) == code[k] = "unused" /\ \A j \in Codes : j < k => code[j] # "unused"

\* Slip: an unverified account stays so when the Google identity is added.
LinkUnverified(p, k) ==
    /\ pc[p] \in {"creating", "linking"}
    /\ ~Uncommitted(p)
    /\ ~linked /\ (pc[p] = "creating" => account = "absent")
    /\ NextCode(k)
    /\ account' = IF pc[p] = "creating" THEN "verified" ELSE account
    /\ linked' = TRUE
    /\ code' = [code EXCEPT ![k] = "live"]
    /\ cookie' = 0
    /\ Respond(p)
    /\ UNCHANGED <<session, links, exchanges, terms>>

\* The user when there was none, the identity, the code; the address is verified.
Link(p, k) ==
    /\ pc[p] \in {"creating", "linking"}
    /\ ~Uncommitted(p)
    /\ ~linked /\ (pc[p] = "creating" => account = "absent")
    /\ NextCode(k)
    /\ account' = "verified"
    /\ linked' = TRUE
    /\ code' = [code EXCEPT ![k] = "live"]
    /\ cookie' = 0
    /\ Respond(p)
    /\ UNCHANGED <<session, links, exchanges, terms>>

\* Another request was first: an IntegrityError, google_sign_in_failed.
LinkRefused(p) ==
    /\ pc[p] \in {"creating", "linking"}
    /\ ~Uncommitted(p)
    /\ linked \/ (pc[p] = "creating" /\ account # "absent")
    /\ Respond(p)
    /\ UNCHANGED <<account, session, links, google>>

HandOff(p, k) ==
    /\ pc[p] = "handing"
    /\ NextCode(k)
    /\ code' = [code EXCEPT ![k] = "live"]
    /\ cookie' = 0
    /\ Respond(p)
    /\ UNCHANGED <<account, session, links, linked, exchanges, terms>>

\* google_complete reads the code, and refuses a used or expired one (400) ...
CompleteReads(p, k) ==
    /\ pc[p] = "idle"
    /\ code[k] = "live"
    /\ Goto(p, "exchanging", k, 0)
    /\ UNCHANGED <<account, session, links, google>>

\* ... and marks it by primary key, whatever it has become.
CompleteCommits(p) ==
    /\ pc[p] = "exchanging"
    /\ code' = [code EXCEPT ![new[p]] = "consumed"]
    /\ exchanges' = [exchanges EXCEPT ![new[p]] = @ + 1]
    /\ session' = TRUE
    /\ Respond(p)
    /\ UNCHANGED <<account, links, linked, terms, cookie>>

-----------------------------------------------------------------------------

\* Slip: the link was inserted in a transaction of its own.
DropKeepsLink(p) ==
    /\ pc[p] # "idle"
    /\ Respond(p)
    /\ UNCHANGED <<account, session, links, google>>

\* A request dies or its commit fails: the database forgets it, the e-mail does not.
Drop(p) ==
    /\ pc[p] # "idle"
    /\ challenge' = [c \in Challenges |->
                       IF pc[p] = "mailed" /\ c = new[p] THEN "rolled_back" ELSE challenge[c]]
    /\ Respond(p)
    /\ UNCHANGED <<account, session, age, inbox, uses, google>>

\* Time passes; an earlier challenge is never younger than a later one.
Ages(c) ==
    /\ challenge[c] # "unused" /\ age[c] < 3
    /\ \A b \in Challenges : b < c => age[b] > age[c]
    /\ age' = [age EXCEPT ![c] = @ + 1]
    /\ UNCHANGED <<account, session, challenge, inbox, uses, google, request>>

CodeExpires(k) ==
    /\ code[k] = "live"
    /\ code' = [code EXCEPT ![k] = "expired"]
    /\ UNCHANGED <<account, session, links, linked, exchanges, terms, cookie, request>>

IssueStep(p) ==
    \/ SignupReads(p) \/ ResendReads(p) \/ SelectActive(p) \/ Unblock(p)
    \/ \E c \in Challenges : IssueMails(p, c) \/ IssueUndelivered(p, c)
    \/ IssueRefused(p) \/ CommitIssue(p)

ConsumeStep(p) == (\E c \in Challenges : ConsumeLocks(p, c)) \/ ConsumeCommits(p)

GoogleStep(p) ==
    \/ \E f \in Flows : Callback(p, f)
    \/ \E k \in Codes : Link(p, k) \/ HandOff(p, k) \/ CompleteReads(p, k)
    \/ LinkRefused(p) \/ CompleteCommits(p)

Next ==
    \/ \E p \in Requests : IssueStep(p) \/ ConsumeStep(p) \/ GoogleStep(p) \/ Drop(p)
    \/ \E c \in Challenges : Ages(c)
    \/ \E k \in Codes : CodeExpires(k)
    \/ \E f \in Flows : GoogleStart(f)
    \/ CookieExpires \/ Login

Spec == Init /\ [][Next]_vars

-----------------------------------------------------------------------------

\* At most one link is active, and an unverified account has one that reached the inbox:
\* no interleaving of resends, failed deliveries or crashes leaves "an account that
\* cannot be activated" (issue).
ActivationRemains ==
    /\ \A b, c \in Challenges : Active(b) /\ Active(c) => b = c
    /\ account = "unverified" => \E c \in inbox : Active(c)

\* A link is good for one session, also when it is opened twice at once or while a
\* resend is replacing it (consume locks its row).
LinkWorksOnce == \A c \in Challenges : uses[c] <= 1

\* Nobody has a session before the address is verified, by link or by Google:
\* google_complete relies on the callback for it and asks nothing itself.
SessionsAreVerified == session => account = "verified"

\* may_resend counts without a lock, so concurrent resends can pass it together: the
\* hour's links exceed the limit by at most the other requests.
ResendLimit == Cardinality(Recent) < MaxPerHour + Cardinality(Requests)

\* "The opaque handoff code ... may be consumed once" (docs/api-contracts.md).
HandoffOnce == \A k \in Codes : exchanges[k] <= 1

=============================================================================
