----------------------------- MODULE Settlement -----------------------------
(***************************************************************************)
(* SettleTrade: one transaction over the accounts of taker and maker and   *)
(* of the fee account, which locks their rows in the order of the roles.   *)
(*                                                                         *)
(*   settling (five legs) - inserting_trade - returned                     *)
(*                                                                         *)
(* INSERT INTO trades is written with ON CONFLICT before VALUES, a syntax  *)
(* error: the transaction is always rolled back there and what follows it  *)
(* (commit, events) is never reached.                                      *)
(***************************************************************************)
EXTENDS Accounts

CONSTANTS Base, Quote     \* the currencies of the pair

VARIABLE leg    \* leg[c]: which balance of trade c is updated next

\* The rate of the lowest tier, 0.0010 for maker and taker; getTier knows no other.
RatePerMille == 1
Fee(volume) == (volume * RatePerMille) \div 1000

\* The accounts that a trade changes, in the order of the code, and by how much.
Legs(t) ==
    LET fee == Fee(t.quoteQty)
        bought == IF t.takerSide = "buy" THEN t.qty ELSE -t.qty
        Paid(buys) == IF buys THEN -(t.quoteQty + fee) ELSE t.quoteQty - fee
    IN  << <<<<t.taker, Base>>, bought>>, <<<<t.taker, Quote>>, Paid(t.takerSide = "buy")>>,
           <<<<t.maker, Base>>, -bought>>, <<<<t.maker, Quote>>, Paid(t.takerSide # "buy")>>,
           <<<<FeeAccount, Quote>>, 2 * fee>> >>

LegAccount(c) == Legs(Job[c])[leg[c]][1]

\* INSERT ... ON CONFLICT DO NOTHING, SELECT ... FOR UPDATE, UPDATE ... WHERE
\* version = the one read, and the audit row.  From the SELECT on the row is
\* locked, so the version is still the one read and the statements are one step.
UpdateBalance(c) ==
    LET k == LegAccount(c)
        delta == Legs(Job[c])[leg[c]][2]
        old == IF Seen(c, k).here THEN Seen(c, k) ELSE Account(0, 0)
        floor == old.frozen + (IF delta < 0 THEN delta ELSE 0)
    IN  /\ pc[c] = "settling" /\ ~ended[c] /\ Free(c, k)
        /\ IF \/ ~Seen(c, k).here /\ k[1] \notin registered  \* accounts.user_id REFERENCES users
              \/ old.balance + delta < 0
           THEN Fail(c) /\ UNCHANGED leg
           ELSE /\ Put(c, k, [old EXCEPT !.balance = @ + delta, !.version = @ + 1,
                                         !.frozen = IF floor < 0 THEN 0 ELSE floor])
                /\ leg' = [leg EXCEPT ![c] = @ + 1]
                /\ Continue(c, IF leg[c] = 5 THEN "inserting_trade" ELSE "settling")
        /\ UNCHANGED <<registered, ended>>

InsertTrade(c) ==
    /\ pc[c] = "inserting_trade" /\ ~ended[c]
    /\ Fail(c)
    /\ UNCHANGED <<registered, ended, leg>>
=============================================================================
