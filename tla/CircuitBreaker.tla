--------------------------- MODULE CircuitBreaker ---------------------------
(***************************************************************************)
(* The circuit breaker of one symbol.  Each of its methods runs under its  *)
(* lock.  Whatever threshold it is made with, it is a tenth.               *)
(***************************************************************************)
EXTENDS Clock

CONSTANTS
    Quotes,
    HaltDuration

ASSUME BreakerAssumption == Quotes \subseteq Nat /\ HaltDuration \in Nat

VARIABLES
    lastPrice,  \* 0 for none
    lastCheckTime,
    halted,
    haltedUntil

breakerVars == <<lastPrice, lastCheckTime, halted, haltedUntil>>

BreakerInit ==
    /\ now = 0 /\ lastPrice = 0 /\ lastCheckTime = 0
    /\ halted = FALSE /\ haltedUntil = 0

Far(old, new) ==
    old # 0 /\ 10 * (IF new > old THEN new - old ELSE old - new) >= old

Accept(price) == lastPrice' = price /\ lastCheckTime' = now

\* CheckPrice, of a symbol that is halted: once the halt is over the price
\* that asks is accepted, whatever it is.
CheckHalted(price) ==
    /\ halted /\ now >= haltedUntil
    /\ halted' = FALSE
    /\ Accept(price)
    /\ UNCHANGED <<now, haltedUntil>>

\* CheckPrice, of one that is not.
CheckOpen(price) ==
    /\ ~halted
    /\ IF Far(lastPrice, price)
       THEN /\ halted' = TRUE /\ haltedUntil' = now + HaltDuration
            /\ UNCHANGED <<lastPrice, lastCheckTime>>
       ELSE Accept(price) /\ UNCHANGED <<halted, haltedUntil>>
    /\ UNCHANGED now

\* Mutant: the halt is made to end now.
ResumeByTime ==
    /\ haltedUntil' = now
    /\ UNCHANGED <<now, lastPrice, lastCheckTime, halted>>

\* The next price is compared with the one before the halt.
Resume ==
    /\ halted' = FALSE
    /\ UNCHANGED <<now, lastPrice, lastCheckTime, haltedUntil>>

BreakerNext ==
    \/ Tick /\ UNCHANGED breakerVars
    \/ Resume
    \/ \E p \in Quotes : CheckHalted(p) \/ CheckOpen(p)

BreakerSpec == BreakerInit /\ [][BreakerNext]_<<now, breakerVars>>

(***************************************************************************)
(* Properties.                                                             *)
(***************************************************************************)
\* Two prices accepted one after the other are less than a tenth apart, or the
\* time of a halt lies between them, however often trading is resumed by hand:
\* the same move then halts it again.
AcceptedMoves ==
    [][Far(lastPrice, lastPrice') => lastCheckTime' >= lastCheckTime + HaltDuration]_breakerVars
=============================================================================
