-------------------------------- MODULE Users --------------------------------
(***************************************************************************)
(* Registration, login and account status of the user service, statement   *)
(* by statement: none of the calls uses a transaction.                     *)
(*                                                                         *)
(*   none - inserting - funding - ok                                       *)
(*                    - refused, which may leave the user's row behind     *)
(*                                                                         *)
(* A registration stands for the user it makes, whose id is new.           *)
(***************************************************************************)
EXTENDS Integers, FiniteSets

CONSTANTS
    Registrants, \* calls of RegisterUser
    EmailOf,     \* EmailOf[r]: the e-mail of call r
    TokenLifetime, \* jwtExpiry
    MaxClock,    \* bound
    MaxLogins    \* bound: logins that are under way or have succeeded

ASSUME UsersAssumption == TokenLifetime \in Nat \ {0} /\ MaxClock \in Nat /\ MaxLogins \in Nat

VARIABLES
    production,
    user,       \* user[r]: "none" or the status of the row of table users
    funded,     \* users with rows in table accounts
    registering, \* registering[r]: the statement that registration r is at
    lastActive, \* lastActive[r]: when the user was made other than active
    logins,     \* [user, seen]: logins that have read an active status at `seen`
    tokens,     \* [user, seen, exp]: tokens issued
    clock

userVars == <<production, user, funded, registering, lastActive, logins, tokens, clock>>

\* A frozen user is treated as a suspended one.
Statuses == {"active", "suspended"}

UsersInit ==
    /\ production \in BOOLEAN
    /\ user = [r \in Registrants |-> "none"]
    /\ funded = {}
    /\ registering = [r \in Registrants |-> "none"]
    /\ lastActive = [r \in Registrants |-> 0]
    /\ logins = {} /\ tokens = {}
    /\ clock = 0

Continue(r, step) == registering' = [registering EXCEPT ![r] = step]
Taken(r) == \E q \in Registrants : user[q] # "none" /\ EmailOf[q] = EmailOf[r]

\* The query may fail.
CheckEmail(r) ==
    /\ registering[r] = "none"
    /\ Continue(r, "refused") \/ (~Taken(r) /\ Continue(r, "inserting"))
    /\ UNCHANGED <<production, user, funded, lastActive, logins, tokens, clock>>

\* users.email is UNIQUE; the statement may also fail for itself, and an answer
\* lost with the caller's context leaves the row.
InsertUser(r) ==
    /\ registering[r] = "inserting"
    /\ \/ Continue(r, "refused") /\ UNCHANGED user
       \/ /\ ~Taken(r)
          /\ user' = [user EXCEPT ![r] = "active"]
          /\ Continue(r, IF production THEN "ok" ELSE "funding") \/ Continue(r, "refused")
    /\ UNCHANGED <<production, funded, lastActive, logins, tokens, clock>>

\* Outside production: both rows or none.
InsertAccounts(r) ==
    /\ registering[r] = "funding"
    /\ \/ funded' = funded \cup {r} /\ (Continue(r, "ok") \/ Continue(r, "refused"))
       \/ Continue(r, "refused") /\ UNCHANGED funded
    /\ UNCHANGED <<production, user, lastActive, logins, tokens, clock>>

\* Row and status are read in one statement, before the password's slow check.
LoginRead(u) ==
    /\ user[u] = "active" /\ Cardinality(logins \cup tokens) < MaxLogins
    /\ logins' = logins \cup {[user |-> u, seen |-> clock]}
    /\ UNCHANGED <<production, user, funded, registering, lastActive, tokens, clock>>

\* GenerateJWT.
Issued(l) == [user |-> l.user, seen |-> l.seen, exp |-> clock + TokenLifetime]

\* Or the password was wrong.
LoginAnswer(l) ==
    /\ l \in logins
    /\ logins' = logins \ {l}
    /\ \/ tokens' = tokens \cup {Issued(l)}
       \/ UNCHANGED tokens
    /\ UNCHANGED <<production, user, funded, registering, lastActive, clock>>

\* VerifyJWT: the subject of a token that is signed and has not expired.
Verified(t) == t \in tokens /\ clock < t.exp

\* Whether a row was changed is not asked.
UpdateStatus(u, status) ==
    /\ user' = [user EXCEPT ![u] = IF @ = "none" THEN @ ELSE status]
    /\ lastActive' = [lastActive EXCEPT ![u] = IF user[u] = "active" THEN clock ELSE @]
    /\ UNCHANGED <<production, funded, registering, logins, tokens, clock>>

\* The RPC changes the status and leaves the KYC level alone.
UpdateKYC(u) == UpdateStatus(u, "active")

Elapse ==
    /\ clock < MaxClock
    /\ clock' = clock + 1
    /\ UNCHANGED <<production, user, funded, registering, lastActive, logins, tokens>>

UsersNext ==
    \/ \E r \in Registrants :
          \/ CheckEmail(r) \/ InsertUser(r) \/ InsertAccounts(r)
          \/ LoginRead(r) \/ UpdateKYC(r)
          \/ \E status \in Statuses : UpdateStatus(r, status)
    \/ \E l \in logins : LoginAnswer(l)
    \/ Elapse
=============================================================================
