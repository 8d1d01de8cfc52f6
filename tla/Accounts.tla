------------------------------ MODULE Accounts ------------------------------
(***************************************************************************)
(* The PostgreSQL tables that hold money, and the transactions over them,  *)
(* as the services use them (READ COMMITTED, the server's default).        *)
(*                                                                         *)
(* writes[c] holds the rows that the open transaction of call c has locked *)
(* or written, with their new values: a row is locked by c exactly while   *)
(* it is in DOMAIN writes[c].  A statement that needs a row locked by      *)
(* another transaction waits until that one has ended.                     *)
(***************************************************************************)
EXTENDS Integers, FiniteSets

CONSTANTS
    Calls,      \* calls of the services, each made once
    Job,        \* Job[c]: what call c asks for
    Users,
    FeeAccount, \* the user id that settlement collects fees for
    Currencies,
    Deposits,   \* pairs of a transaction hash and an address
    Opening,    \* Opening[a]: balance and frozen balance of account a at first
    Deadlines   \* calls whose context may end before they return

Accts == (Users \cup {FeeAccount}) \X Currencies

\* Rows of accounts and of deposits; row c is what call c inserts (a withdrawal).
Rows == Accts \cup Deposits \cup Calls

VARIABLES
    row,        \* the committed value of each row
    writes,     \* writes[c]: rows of the transaction of c
    registered, \* ids in table users
    pc,         \* the statement call c is at
    ended,      \* ended[c]: the context of c has ended
    result      \* result[c]: what c returned

NoWithdrawal == [amount |-> 0, fee |-> 0, wallet |-> "none"]

Account(b, f) == [here |-> TRUE, balance |-> b, frozen |-> f, version |-> 1]
NoAccount == [here |-> FALSE, balance |-> 0, frozen |-> 0, version |-> 0]

(***************************************************************************)
(* Statements.                                                             *)
(***************************************************************************)
Free(c, k) == \A d \in Calls \ {c} : k \notin DOMAIN writes[d]

\* Row k as the transaction of c sees it.
Seen(c, k) == IF k \in DOMAIN writes[c] THEN writes[c][k] ELSE row[k]

\* w with row k written.
With(w, k, v) == [x \in DOMAIN w \cup {k} |-> IF x = k THEN v ELSE w[x]]

Put(c, k, v) ==
    /\ writes' = [writes EXCEPT ![c] = With(@, k, v)]
    /\ UNCHANGED row

Continue(c, step) ==
    /\ pc' = [pc EXCEPT ![c] = step]
    /\ UNCHANGED result

Return(c, what) ==
    /\ pc' = [pc EXCEPT ![c] = "returned"]
    /\ result' = [result EXCEPT ![c] = what]

Rollback(c) ==
    /\ writes' = [writes EXCEPT ![c] = << >>]
    /\ UNCHANGED row

\* Mutant: an early return leaves the transaction open.
FailOpen(c) == Return(c, "error") /\ UNCHANGED <<row, writes>>

\* A statement fails or a check refuses: the call returns and its deferred
\* Rollback undoes the transaction.  Where the context has ended the
\* connection is closed instead, which has the same effect.
Fail(c) == Rollback(c) /\ Return(c, "error")

\* A statement in progress when the context ends may have been carried out
\* although it reports an error.
Commit(c) ==
    /\ pc[c] = "committing"
    /\ row' = [k \in Rows |-> Seen(c, k)]
    /\ writes' = [writes EXCEPT ![c] = << >>]
    /\ Return(c, IF ended[c] THEN "error" ELSE "ok")
    /\ UNCHANGED <<registered, ended>>

\* No statement is started under a context that has ended.
GiveUp(c) ==
    /\ ended[c] /\ pc[c] # "returned"
    /\ Fail(c)
    /\ UNCHANGED <<registered, ended>>

Expire(c) ==
    /\ c \in Deadlines /\ ~ended[c] /\ pc[c] # "returned"
    /\ ended' = [ended EXCEPT ![c] = TRUE]
    /\ UNCHANGED <<row, writes, registered, pc, result>>

(***************************************************************************)
(* FreezeBalance and UnfreezeBalance of the order service: one conditional *)
(* UPDATE each, committed by itself.                                       *)
(***************************************************************************)
Shift(c) ==
    LET k == Job[c].account
        x == Job[c].amount
    IN  /\ pc[c] = "shifting" /\ Free(c, k)
        /\ IF x <= (IF Job[c].op = "freeze" THEN row[k].balance ELSE row[k].frozen)
           THEN /\ row' = IF Job[c].op = "freeze"
                          THEN [row EXCEPT ![k].balance = @ - x, ![k].frozen = @ + x]
                          ELSE [row EXCEPT ![k].balance = @ + x, ![k].frozen = @ - x]
                /\ Return(c, IF ended[c] THEN "error" ELSE "ok")
           ELSE /\ Return(c, "error")
                /\ UNCHANGED row
        /\ UNCHANGED <<writes, registered, ended>>
=============================================================================
