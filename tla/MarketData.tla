----------------------------- MODULE MarketData -----------------------------
(***************************************************************************)
(* The recent trades of one symbol: a Redis list, newest first, that every *)
(* process with an event bus adds to and cuts, in one pipeline of two      *)
(* commands, and that every gateway reads.                                 *)
(***************************************************************************)
EXTENDS Integers, Sequences, SequencesExt

CONSTANTS
    Recorders,  \* processes that record trades
    MaxTrades,  \* bound
    Kept,       \* 1000
    Limits      \* what requests ask for

ASSUME MarketDataAssumption ==
    MaxTrades \in Nat /\ Kept \in Nat \ {0} /\ Limits \subseteq Int

VARIABLES
    history,    \* every trade pushed, newest first
    list,       \* trades:<symbol>
    trimming,   \* recorders between the two commands
    recent      \* to the last request: [limit, trades]

marketVars == <<history, list, trimming, recent>>

MarketInit ==
    /\ history = << >> /\ list = << >>
    /\ trimming = {}
    /\ recent = [limit |-> 0, trades |-> << >>]

Push(p) ==
    LET trade == Len(history) + 1
    IN  /\ p \notin trimming /\ trade <= MaxTrades
        /\ history' = <<trade>> \o history
        /\ list' = <<trade>> \o list
        /\ trimming' = trimming \cup {p}
        /\ UNCHANGED recent

\* Mutant: LTRIM counts its last index as the first one to go.
TrimShort(p) ==
    /\ p \in trimming
    /\ list' = SubSeq(list, 1, IF Len(list) < Kept THEN Len(list) ELSE Kept - 1)
    /\ trimming' = trimming \ {p}
    /\ UNCHANGED <<history, recent>>

Trim(p) ==
    /\ p \in trimming
    /\ list' = SubSeq(list, 1, IF Len(list) < Kept THEN Len(list) ELSE Kept)
    /\ trimming' = trimming \ {p}
    /\ UNCHANGED <<history, recent>>

\* The connection breaks between the two commands; the error is logged.
Break(p) ==
    /\ p \in trimming
    /\ trimming' = trimming \ {p}
    /\ UNCHANGED <<history, list, recent>>

\* LRANGE 0 limit-1, where a negative last index counts from the end: a limit
\* of 0, which is also what a limit that is no number becomes, is everything.
LastIndex(limit) ==
    LET n == IF limit > 0 THEN limit ELSE Len(list) + limit
    IN  IF n > Len(list) THEN Len(list) ELSE n

GetRecentTrades(limit) ==
    /\ recent' = [limit |-> limit, trades |-> SubSeq(list, 1, LastIndex(limit))]
    /\ UNCHANGED <<history, list, trimming>>

MarketNext ==
    \/ \E p \in Recorders : Push(p) \/ Trim(p) \/ Break(p)
    \/ \E limit \in Limits : GetRecentTrades(limit)

MarketSpec == MarketInit /\ [][MarketNext]_marketVars

(***************************************************************************)
(* Properties.                                                             *)
(***************************************************************************)
\* The list is the newest trades without a gap, as many of them as there are
\* to be kept at least, however the pipelines of several recorders mix and
\* break.  A request's answer is the newest ones of its moment in order, and
\* all that were asked for if the list keeps that many.
TradesRecent ==
    /\ IsPrefix(list, history)
    /\ Len(list) >= (IF Len(history) < Kept THEN Len(history) ELSE Kept)
    /\ recent.trades # << >> =>
         LET newest == recent.trades[1]
             n == Len(recent.trades)
         IN  /\ \A i \in 1 .. n : recent.trades[i] = newest - i + 1
             /\ recent.limit \in 1 .. Kept =>
                  n = IF newest < recent.limit THEN newest ELSE recent.limit
=============================================================================
