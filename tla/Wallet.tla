------------------------------- MODULE Wallet -------------------------------
(***************************************************************************)
(* RequestWithdrawal and ProcessDeposit of the wallet service.             *)
(*                                                                         *)
(*   RequestWithdrawal: reading - debiting - recording - committing        *)
(*   ProcessDeposit:    finding - inserting - returned                     *)
(*                                inserting - marking - crediting -        *)
(*                                committing                               *)
(*                                                                         *)
(* Several calls of ProcessDeposit may be about one deposit: the monitor   *)
(* reports a transaction more than once and the bus delivers again.        *)
(***************************************************************************)
EXTENDS Accounts

CONSTANTS
    Owner,      \* Owner[d]: whom the address of d was given to, or FeeAccount (nobody)
    Amount,     \* Amount[d]: what was deposited
    Cap         \* what the hot wallet pays at most

(***************************************************************************)
(* RequestWithdrawal.                                                      *)
(***************************************************************************)
Total(c) == Job[c].amount + Job[c].fee

\* Mutant: SELECT without FOR UPDATE.
ReadUnlocked(c) ==
    /\ pc[c] = "reading" /\ ~ended[c]
    /\ IF Seen(c, Job[c].account).balance < Total(c)
       THEN Fail(c)
       ELSE Continue(c, "debiting") /\ UNCHANGED <<row, writes>>
    /\ UNCHANGED <<registered, ended>>

\* SELECT balance ... FOR UPDATE, and the check of the balance.  Where there
\* is no account there is no row to lock.
Read(c) ==
    LET k == Job[c].account
    IN  /\ pc[c] = "reading" /\ ~ended[c] /\ Free(c, k)
        /\ IF ~row[k].here \/ row[k].balance < Total(c)
           THEN Fail(c)
           ELSE Put(c, k, row[k]) /\ Continue(c, "debiting")
        /\ UNCHANGED <<registered, ended>>

Debit(c) ==
    LET k == Job[c].account
    IN  /\ pc[c] = "debiting" /\ ~ended[c] /\ Free(c, k)
        /\ Put(c, k, [Seen(c, k) EXCEPT !.balance = @ - Total(c)])
        /\ Continue(c, "recording")
        /\ UNCHANGED <<registered, ended>>

Record(c) ==
    /\ pc[c] = "recording" /\ ~ended[c]
    /\ Put(c, c, [amount |-> Job[c].amount, fee |-> Job[c].fee,
                  wallet |-> IF Job[c].amount > Cap THEN "cold" ELSE "hot"])
    /\ Continue(c, "committing")
    /\ UNCHANGED <<registered, ended>>

(***************************************************************************)
(* ProcessDeposit.                                                         *)
(***************************************************************************)
Find(c) ==
    /\ pc[c] = "finding" /\ ~ended[c]
    /\ IF Owner[Job[c].deposit] \in Users
       THEN Continue(c, "inserting") /\ UNCHANGED <<row, writes>>
       ELSE Fail(c)
    /\ UNCHANGED <<registered, ended>>

\* INSERT ... ON CONFLICT DO NOTHING, committed by itself.
Insert(c) ==
    LET d == Job[c].deposit
    IN  /\ pc[c] = "inserting"
        /\ row' = [row EXCEPT ![d] = IF @ = "none" THEN "pending" ELSE @]
        /\ IF ended[c] THEN Return(c, "error")
           ELSE IF Job[c].deep THEN Continue(c, "marking") ELSE Return(c, "ok")
        /\ UNCHANGED <<writes, registered, ended>>

\* Mutant: whatever its status.
MarkAgain(c) ==
    /\ pc[c] = "marking" /\ ~ended[c] /\ Free(c, Job[c].deposit)
    /\ Put(c, Job[c].deposit, "confirmed")
    /\ Continue(c, "crediting")
    /\ UNCHANGED <<registered, ended>>

\* Mutant: a row that another transaction is changing is skipped.
MarkSkipping(c) ==
    LET d == Job[c].deposit
    IN  /\ pc[c] = "marking" /\ ~ended[c]
        /\ IF row[d] = "pending" /\ Free(c, d)
           THEN Put(c, d, "confirmed") /\ Continue(c, "crediting")
           ELSE Return(c, "ok") /\ Rollback(c)
        /\ UNCHANGED <<registered, ended>>

\* UPDATE deposits ... WHERE status = 'pending'; no row updated is success.
Mark(c) ==
    LET d == Job[c].deposit
    IN  /\ pc[c] = "marking" /\ ~ended[c] /\ Free(c, d)
        /\ IF row[d] = "pending"
           THEN Put(c, d, "confirmed") /\ Continue(c, "crediting")
           ELSE Return(c, "ok") /\ Rollback(c)
        /\ UNCHANGED <<registered, ended>>

\* The account is created by its first deposit.
Credit(c) ==
    LET d == Job[c].deposit
        k == <<Owner[d], Job[c].currency>>
    IN  /\ pc[c] = "crediting" /\ ~ended[c] /\ Free(c, k)
        /\ Put(c, k, IF Seen(c, k).here
                     THEN [Seen(c, k) EXCEPT !.balance = @ + Amount[d]]
                     ELSE Account(Amount[d], 0))
        /\ Continue(c, "committing")
        /\ UNCHANGED <<registered, ended>>
=============================================================================
