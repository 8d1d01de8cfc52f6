-------------------------- MODULE MCMatchingEngine --------------------------
(***************************************************************************)
(* Calls, shards and pairs for checking MatchingEngine with TLC.           *)
(***************************************************************************)
EXTENDS MatchingEngine, TLC

CONSTANTS place1, place2, cancel1, cancel2, sh1, sh2, ETH, BTC

TwoOrders == {place1, place2}
OneOrder == {place1}
OneCancel == {cancel1}
TwoCancels == {cancel1, cancel2}
OneShard == {sh1}
TwoShards == {sh1, sh2}
OneSymbol == {ETH}
TwoSymbols == {ETH, BTC}

\* Every cancellation names the first order.
CancelFirst == [c \in Cancels |-> place1]

\* All calls on one pair.
SameSymbol == [c \in Calls |-> ETH]

SymmetryShards == Permutations(Shards)
=============================================================================
