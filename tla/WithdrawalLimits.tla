-------------------------- MODULE WithdrawalLimits --------------------------
(***************************************************************************)
(* The limits on withdrawals of one currency.  Validate runs under a lock; *)
(* what it has let through counts whether the withdrawal succeeds or not.  *)
(***************************************************************************)
EXTENDS Clock, FiniteSetsExt

CONSTANTS
    Withdrawers,
    Asked,      \* what is asked for
    MinAmount, MaxSingle, MaxDaily,
    Day        \* 24 hours

ASSUME LimitsAssumption ==
    /\ Asked \subseteq Nat \ {0} /\ MaxDaily \in Nat /\ MaxSingle \in Nat /\ MinAmount \in Nat
    /\ Day \in Nat \ {0}

VARIABLES
    lastReset,
    dailyTracker,
    granted     \* granted[u][t]: what user u was let through for at time t

limitVars == <<lastReset, dailyTracker, granted>>

LimitsInit ==
    /\ now = 0 /\ lastReset = 0
    /\ dailyTracker = [u \in Withdrawers |-> 0]
    /\ granted = [u \in Withdrawers |-> [t \in 0 .. MaxTime |-> 0]]

\* Mutant: the tracker is emptied twice a day.
DayOverEarly == now - lastReset >= Day \div 2

DayOver == now - lastReset > Day

\* The tracker is emptied for all users by the first request after a day, also
\* by one that is refused.
Validate(u, amount) ==
    LET tracker == IF DayOver THEN [v \in Withdrawers |-> 0] ELSE dailyTracker
        total == tracker[u] + amount
    IN  /\ lastReset' = IF DayOver THEN now ELSE lastReset
        /\ IF amount < MinAmount \/ amount > MaxSingle \/ total > MaxDaily
           THEN dailyTracker' = tracker /\ UNCHANGED granted
           ELSE /\ dailyTracker' = [tracker EXCEPT ![u] = total]
                /\ granted' = [granted EXCEPT ![u][now] = @ + amount]
        /\ UNCHANGED now

LimitsNext ==
    \/ Tick /\ UNCHANGED limitVars
    \/ \E u \in Withdrawers, amount \in Asked : Validate(u, amount)

LimitsSpec == LimitsInit /\ [][LimitsNext]_<<now, limitVars>>

(***************************************************************************)
(* Properties.                                                             *)
(***************************************************************************)
\* In any stretch of a day a user is let through for at most twice the daily
\* limit, although the day of the tracker begins whenever a request comes and
\* is that of all users: no stretch touches more than two of them.
DayBound ==
    \A u \in Withdrawers, t \in 0 .. now :
        MapThenSumSet(LAMBDA s : granted[u][s], {s \in t .. now : s <= t + Day}) <= 2 * MaxDaily
=============================================================================
