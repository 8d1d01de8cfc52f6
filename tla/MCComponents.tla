---------------------------- MODULE MCComponents ----------------------------
(***************************************************************************)
(* The components that share no state with one another or with the order   *)
(* path, in one state space: a behaviour is one component's, which `part`  *)
(* names, and the others rest in their first state.                        *)
(***************************************************************************)
EXTENDS DepositAddresses, Scanner, EventBus, RateLimiter, Amounts, CircuitBreaker,
        WithdrawalLimits, MultiSig, Margin, MarketData, UserAccess

VARIABLE part

Parts == {"addresses", "scanner", "bus", "limiter", "amounts", "breaker",
          "limits", "signing", "margin", "market", "kyc", "access"}

\* Two users, and two currencies of one chain; both users' ids hash to one account.
Asker == {"a1", "a2", "a3"}
MCUser == [a \in Asker |-> IF a = "a3" THEN "u2" ELSE "u1"]
MCAsset == [a \in Asker |-> IF a = "a2" THEN "usdt" ELSE "eth"]
MCProcess == [a \in Asker |-> IF a = "a1" THEN "wallet-service" ELSE "api-gateway"]
MCChainOf == [c \in {"eth", "usdt"} |-> "ethereum"]
MCAccountOf == [u \in {"u1", "u2"} |-> "account"]

MCTexts == [negative : BOOLEAN, int : {0, 1}, frac : UNION {[1 .. n -> {0, 4, 5, 9}] : n \in 0 .. 3}]
MCFactors == {50, -30, 101, 0}

MCLimits == -1 .. 3

\* Two registrations of one e-mail.
MCEmailOf == [r \in {"r1", "r2"} |-> "e"]

\* The choices of the first state are those of the part that runs.
Init ==
    /\ part \in Parts
    /\ AddressesInit /\ (part = "addresses" \/ seeded = {})
    /\ BusInit /\ (part = "bus" \/ transport = "memory")
    /\ AmountsInit /\ (part = "amounts" \/ text = Format(0))
    /\ GatewayInit /\ (part = "access" \/ production)
    /\ ScannerInit /\ LimiterInit /\ BreakerInit /\ LimitsInit
    /\ SigningInit /\ MarginInit /\ MarketInit /\ KycInit

OnlyMoves(p) ==
    /\ part = p /\ UNCHANGED part
    /\ IF p = "addresses" THEN TRUE ELSE UNCHANGED addressVars
    /\ IF p = "scanner" THEN TRUE ELSE UNCHANGED scannerVars
    /\ IF p = "bus" THEN TRUE ELSE UNCHANGED busVars
    /\ IF p = "limiter" THEN TRUE ELSE UNCHANGED limiterVars
    /\ IF p = "amounts" THEN TRUE ELSE UNCHANGED amountVars
    /\ IF p = "breaker" THEN TRUE ELSE UNCHANGED breakerVars
    /\ IF p = "limits" THEN TRUE ELSE UNCHANGED limitVars
    /\ IF p = "signing" THEN TRUE ELSE UNCHANGED signingVars
    /\ IF p = "margin" THEN TRUE ELSE UNCHANGED marginVars
    /\ IF p = "market" THEN TRUE ELSE UNCHANGED marketVars
    /\ IF p = "kyc" THEN TRUE ELSE UNCHANGED kycVars
    /\ IF p = "access" THEN TRUE ELSE UNCHANGED accessVars
    /\ IF p \in {"limiter", "breaker", "limits", "signing"} THEN TRUE ELSE UNCHANGED now

Addresses == OnlyMoves("addresses") /\ AddressesNext
Scanning == OnlyMoves("scanner") /\ ScannerNext
Delivery == OnlyMoves("bus") /\ BusNext
Limiting == OnlyMoves("limiter") /\ LimiterNext
Calculation == OnlyMoves("amounts") /\ AmountsNext
Breaking == OnlyMoves("breaker") /\ BreakerNext
Withdrawing == OnlyMoves("limits") /\ LimitsNext
Signing == OnlyMoves("signing") /\ SigningNext
Trading == OnlyMoves("margin") /\ MarginNext
Reporting == OnlyMoves("market") /\ MarketNext
Verifying == OnlyMoves("kyc") /\ KycNext
Access == OnlyMoves("access") /\ GatewayNext

Next ==
    \/ Addresses \/ Scanning \/ Delivery \/ Limiting \/ Calculation \/ Breaking
    \/ Withdrawing \/ Signing \/ Trading \/ Reporting \/ Verifying \/ Access

\* The fairness of AddressesSpec and of BusSpec.
Fairness ==
    /\ \A a \in Askers : WF_addressVars(part = "addresses" /\ Ask(a))
    /\ WF_busVars(part = "bus" /\ Consume)

Spec == Init /\ [][Next]_<<part, now, addressVars, scannerVars, busVars, limiterVars, amountVars,
                           breakerVars, limitVars, signingVars, marginVars, marketVars,
                           kycVars, accessVars>> /\ Fairness
=============================================================================
