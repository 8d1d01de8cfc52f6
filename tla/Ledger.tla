------------------------------- MODULE Ledger -------------------------------
(***************************************************************************)
(* Wallet service, settlement service and the order service's freezing     *)
(* over one accounts table: three processes whose transactions lock each   *)
(* other's rows.                                                           *)
(***************************************************************************)
EXTENDS Wallet, Settlement, FiniteSetsExt

vars == <<row, writes, registered, pc, ended, result, leg>>

Of(op) == {c \in Calls : Job[c].op = op}

ASSUME LedgerAssumption ==
    /\ FeeAccount \notin Users /\ Base \in Currencies /\ Quote \in Currencies /\ Base # Quote
    /\ Opening \in [Users \X Currencies -> [balance: Nat, frozen: Nat]]
    /\ Owner \in [Deposits -> Users \cup {FeeAccount}]
    /\ Amount \in [Deposits -> Nat \ {0}]
    /\ Deadlines \subseteq Calls
    /\ IsFiniteSet(Users) /\ IsFiniteSet(Calls) /\ IsFiniteSet(Deposits)
    /\ Accts \cap (Deposits \cup Calls) = {} /\ Deposits \cap Calls = {}  \* rows of three tables
    /\ \A c \in Calls : Job[c].op \in {"withdraw", "deposit", "settle", "freeze", "unfreeze"}
    /\ \A c \in Of("withdraw") :  \* nobody looks at the sign of the amount
          Job[c].account \in Accts /\ Job[c].amount \in Int /\ Job[c].fee \in Nat
    /\ \A c \in Of("freeze") \cup Of("unfreeze") :
          Job[c].account \in Accts /\ Job[c].amount \in Nat
    /\ \A c \in Of("deposit") : Job[c].deposit \in Deposits /\ Job[c].currency \in Currencies
    /\ \A c, d \in Of("deposit") :  \* a deposit is of one currency, as of one amount
          Job[c].deposit = Job[d].deposit => Job[c].currency = Job[d].currency
    /\ \A c \in Of("settle") :
          /\ Job[c].taker \in Users /\ Job[c].maker \in Users
          /\ Job[c].qty \in Nat /\ Job[c].quoteQty \in Nat

FirstStep(op) ==
    CASE op = "withdraw" -> "reading" [] op = "deposit" -> "finding"
      [] op = "settle" -> "settling" [] OTHER -> "shifting"

\* No migration puts the fee account's id into table users; someone may have.
Init ==
    /\ row = [k \in Rows |->
                IF k \in Deposits THEN "none"
                ELSE IF k \in Calls THEN NoWithdrawal
                ELSE IF k \in DOMAIN Opening THEN Account(Opening[k].balance, Opening[k].frozen)
                ELSE NoAccount]
    /\ writes = [c \in Calls |-> << >>]
    /\ registered \in {Users, Users \cup {FeeAccount}}
    /\ pc = [c \in Calls |-> FirstStep(Job[c].op)]
    /\ ended = [c \in Calls |-> FALSE]
    /\ result = [c \in Calls |-> "none"]
    /\ leg = [c \in Calls |-> 1]

(***************************************************************************)
(* Deadlock detection.                                                     *)
(***************************************************************************)
\* The row that the next statement of c locks.
Wanted(c) ==
    CASE pc[c] \in {"reading", "debiting", "shifting"} -> {Job[c].account}
      [] pc[c] = "marking" -> {Job[c].deposit}
      [] pc[c] = "crediting" -> {<<Owner[Job[c].deposit], Job[c].currency>>}
      [] pc[c] = "settling" -> {LegAccount(c)}
      [] OTHER -> {}

WaitsFor(c, d) == c # d /\ Wanted(c) \cap DOMAIN writes[d] # {}

\* Every member of a cycle waits for one member and is waited for by one.
InCycle(c) ==
    LET Stuck == {x \in Calls : writes[x] # << >> /\ \E y \in Calls : WaitsFor(x, y)}
    IN  \E D \in SUBSET Stuck :
            /\ c \in D
            /\ \A x \in D : (\E y \in D : WaitsFor(x, y)) /\ (\E y \in D : WaitsFor(y, x))

\* The server aborts one of the transactions that wait for each other.
Abort(c) ==
    /\ InCycle(c)
    /\ Fail(c)
    /\ UNCHANGED <<registered, ended, leg>>

(***************************************************************************)
(* The specification.                                                      *)
(***************************************************************************)
WalletStep(c) ==
    /\ \/ Read(c) \/ Debit(c) \/ Record(c)
       \/ Find(c) \/ Insert(c) \/ Mark(c) \/ Credit(c)
       \/ Commit(c) \/ Shift(c) \/ GiveUp(c)
    /\ UNCHANGED leg

Step(c) == WalletStep(c) \/ UpdateBalance(c) \/ InsertTrade(c)

Next == \E c \in Calls : Step(c) \/ Abort(c) \/ (Expire(c) /\ UNCHANGED leg)

Spec == Init /\ [][Next]_vars

\* As long as some statement can go on, or the server can break a deadlock,
\* something does: every call has finitely many steps, so no more is needed.
FairSpec == Spec /\ WF_vars(\E c \in Calls : Step(c) \/ Abort(c))

(***************************************************************************)
(* Properties.                                                             *)
(***************************************************************************)
TypeOK ==
    /\ \A k \in Accts : row[k] \in [here: BOOLEAN, balance: Int, frozen: Int, version: Nat]
    /\ \A d \in Deposits : row[d] \in {"none", "pending", "confirmed"}
    /\ \A c \in Calls : row[c] \in [amount: Int, fee: Nat, wallet: {"none", "hot", "cold"}]
    /\ \A c \in Calls : DOMAIN writes[c] \subseteq Rows
    /\ result \in [Calls -> {"none", "ok", "error"}]
    /\ leg \in [Calls -> 1 .. 6]

\* No account is ever negative, although withdrawals check and debit in two
\* statements, orders freeze in one and the table has no constraint.
NoOverdraft == \A k \in Accts : row[k].balance >= 0 /\ row[k].frozen >= 0

Worth(account) == account.balance + account.frozen

\* What each user holds of a currency, and held at first; what each withdrawal
\* took, with its fee, and each deposit brought.
HeldIn(cur) == [u \in Users \cup {FeeAccount} |-> Worth(row[<<u, cur>>])]
OpenedIn(cur) == [u \in Users |-> Worth(Opening[<<u, cur>>])]
WithdrawnIn(cur) ==
    [c \in {c \in Of("withdraw") : Job[c].account[2] = cur} |-> row[c].amount + row[c].fee]
CreditedIn(cur) ==
    [d \in {Job[c].deposit : c \in {e \in Of("deposit") : Job[e].currency = cur}} |->
        IF row[d] = "confirmed" THEN Amount[d] ELSE 0]

SumOf(f) == MapThenSumSet(LAMBDA x : f[x], DOMAIN f)

\* What users hold in a currency and what was withdrawn of it is what they
\* held at first and what confirmed deposits brought: each deposit is credited
\* once whatever events there are, each recorded withdrawal is debited, and a
\* settlement, whose transaction always fails, leaves no trace.  A withdrawal of a
\* negative amount is recorded as such, and its user has more afterwards.
MoneyAccounted ==
    \A cur \in Currencies :
        SumOf(HeldIn(cur)) + SumOf(WithdrawnIn(cur)) = SumOf(OpenedIn(cur)) + SumOf(CreditedIn(cur))

\* A call that returned without an error did what it was asked for: the
\* withdrawal is recorded, the deposit is in its table and, once it is deep
\* enough, confirmed, also where another call was busy with it.
OkIsDone ==
    \A c \in Calls : result[c] = "ok" =>
        /\ c \in Of("withdraw") => row[c] # NoWithdrawal
        /\ c \in Of("deposit") =>
             row[Job[c].deposit] \in {"confirmed"} \cup (IF Job[c].deep THEN {} ELSE {"pending"})

\* Every call returns, also those that wait for rows of each other: no return
\* path leaves a transaction open, and the server breaks cycles of settlements
\* that lock the accounts of taker and maker in opposite orders.
CallsEnd == <>(\A c \in Calls : pc[c] = "returned")

\* "Settlement Service -> PostgreSQL (balance update)" (README.md:106): a trade
\* that taker and maker can pay for does not fail for another reason, at least
\* where fees can be booked.
PaidTradesSettle ==
    \A c \in Of("settle") :
        /\ result[c] = "error" /\ FeeAccount \in registered
        => \E i \in 1 .. 4 : LET step == Legs(Job[c])[i]
                            IN  row[step[1]].balance + step[2] < 0
=============================================================================
