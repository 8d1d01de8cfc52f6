------------------------------ MODULE MCLedger ------------------------------
(***************************************************************************)
(* Calls, accounts and deposits for checking Ledger with TLC.              *)
(***************************************************************************)
EXTENDS Ledger

CONSTANTS alice, bob, fees, s1, s2, w1, w2, f1, d1, d2, known

Trade(taker, maker) ==
    [op |-> "settle", taker |-> taker, maker |-> maker, takerSide |-> "buy",
     qty |-> 1, quoteQty |-> 1000]

Detected(d, deep) == [op |-> "deposit", deposit |-> d, currency |-> "quote", deep |-> deep]

OnQuote(op, user, amount) ==
    [op |-> op, account |-> <<user, "quote">>, amount |-> amount, fee |-> 1]

\* Two trades between the same users in opposite roles; a withdrawal and a
\* freeze that the account of alice can pay one of; a withdrawal of less than
\* nothing by bob; two events of a deposit.
Jobs ==
    [c \in Calls |->
       CASE c = s1 -> Trade(alice, bob)
         [] c = s2 -> Trade(bob, alice)
         [] c = w1 -> OnQuote("withdraw", alice, 1499)
         [] c = w2 -> OnQuote("withdraw", bob, -500)
         [] c = f1 -> OnQuote("freeze", alice, 1200)
         [] OTHER -> Detected(known, TRUE)]

Users2 == {alice, bob}
Pair == {"base", "quote"}
Opened ==
    [a \in Users2 \X Pair |->
        IF a[2] = "base" THEN [balance |-> 1, frozen |-> 0]
        ELSE IF a[1] = alice THEN [balance |-> 2100, frozen |-> 300]
        ELSE [balance |-> 1001, frozen |-> 0]]

Owners == [d \in Deposits |-> alice]
Amounts == [d \in Deposits |-> 500]

AllCalls == {s1, s2, w1, w2, f1, d1, d2}
OneTrade == {s1}
Late == {d2}
NoCalls == {}
=============================================================================
