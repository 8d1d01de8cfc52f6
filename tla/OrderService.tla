---------------------------- MODULE OrderService ----------------------------
(***************************************************************************)
(* PlaceOrder and CancelOrder of the order service                         *)
(* (internal/order/service.go) over the accounts and orders tables and the *)
(* matching engine.  A call runs in the goroutine of its HTTP request; its *)
(* steps are cut at every SQL statement, at the engine's channels and at   *)
(* every read of the order record that it shares with the shard.           *)
(*                                                                         *)
(*   PlaceOrder:  new - sizing - freezing - creating - sending - waiting   *)
(*                - counting - judging - releasing - saving - returned     *)
(*                creating - undoing - returned                            *)
(*                sending, waiting - refunding - rejecting - returned      *)
(*   CancelOrder: new - asking - waiting - releasing - saving - returned   *)
(*                                                                         *)
(* Every statement of a call is under the context of its request.  Once    *)
(* that context has ended no statement is carried out any more, and the    *)
(* one in progress may or may not have been.                               *)
(*                                                                         *)
(* The pair is one market.  Nothing here settles a trade: the gateway's    *)
(* trade events do not leave its process.                                  *)
(***************************************************************************)
EXTENDS Integers, FiniteSets, FiniteSetsExt

CONSTANTS
    OrderIds,   \* calls of PlaceOrder; each is named by its order's id
    Cancels,    \* calls of CancelOrder
    Target,     \* Target[c]: the order that call c of CancelOrder names
    Users,
    Sender,     \* Sender[c]: the user who makes call c
    Requests,   \* what users send: side, type, tif, price, qty
    Deposited,  \* Deposited[a]: what account a holds at the start
    Deadlines   \* calls whose context may end before they return

Calls == OrderIds \cup Cancels
Accounts == Users \X {"base", "quote"}
Statuses == {"created", "open", "partially_filled", "filled", "cancelled", "rejected"}
IsFinal(status) == status \in {"filled", "cancelled", "rejected"}

\* The lifecycle that lifecycle.go defines ("expired" is never used).
orderTransitions ==
    [created |-> {"open", "partially_filled", "rejected", "cancelled", "filled"},
     open |-> {"partially_filled", "filled", "cancelled"},
     partially_filled |-> {"partially_filled", "filled", "cancelled"}]

CanTransition(current, next) ==
    current \in DOMAIN orderTransitions /\ next \in orderTransitions[current]

ASSUME OrderServiceAssumption ==
    /\ IsFiniteSet(OrderIds)
    /\ OrderIds \cap Cancels = {}
    /\ Target \in [Cancels -> OrderIds]
    /\ Sender \in [Calls -> Users]
    /\ Deposited \in [Accounts -> Nat]
    /\ Deadlines \subseteq Calls
    /\ Requests \subseteq [side: {"buy", "sell"},
                           type: {"limit", "market", "stop_loss", "stop_limit"},
                           tif: {"GTC", "IOC", "FOK"}, price: Nat, qty: Nat \ {0}]

VARIABLES
    balance, frozen,    \* the accounts table
    stored,             \* stored[p]: status and filled_qty in the orders table
    life,               \* life[p]: the order in the engine (OrderLife)
    queue,              \* calls the engine has yet to process
    reply,              \* reply[c]: what the answer to PlaceOrder c had filled,
                        \* or 1 if CancelOrder c found its order; -1 before it
    pc,                 \* where each call is
    request,            \* request[p]: what p was sent with
    amount,             \* amount[p]: freezeAmount
    counted,            \* counted[p]: filledQty
    verdict,            \* verdict[p]: status
    snapshot,           \* snapshot[c]: the row that c read
    expired,            \* expired[c]: the context of c has ended
    result,             \* result[c]: what c returned
    held                \* held[p]: frozen for p and not released (history)

funds == <<balance, frozen, held>>
engine == <<life, queue, reply>>
locals == <<request, amount, counted, verdict, snapshot>>
vars == <<funds, stored, engine, pc, locals, expired, result>>

Engine == INSTANCE OrderLife

(***************************************************************************)
(* Accounts.                                                               *)
(***************************************************************************)
\* What q of an order sent with req costs, in the currency it is paid in.
Cost(req, q) == IF req.side = "buy" THEN req.price * q ELSE q

\* The account that order p is paid from.
Own(p) == <<Sender[p], IF request[p].side = "buy" THEN "quote" ELSE "base">>

\* x moves from the balance to the frozen balance, for order p.
Move(p, x) ==
    /\ balance' = [balance EXCEPT ![Own(p)] = @ - x]
    /\ frozen' = [frozen EXCEPT ![Own(p)] = @ + x]
    /\ held' = [held EXCEPT ![p] = @ + x]

\* Call c releases x of order p.  Failures are logged only.
Unfreeze(c, p, x) ==
    IF ~expired[c] /\ frozen[Own(p)] >= x THEN Move(p, -x) ELSE UNCHANGED funds

Return(c, what) ==
    /\ pc' = [pc EXCEPT ![c] = "returned"]
    /\ result' = [result EXCEPT ![c] = what]

Continue(c, step) ==
    /\ pc' = [pc EXCEPT ![c] = step]
    /\ UNCHANGED result

(***************************************************************************)
(* PlaceOrder.                                                             *)
(***************************************************************************)
Affordable(p) ==
    IF request[p].side = "buy" /\ request[p].type = "market"
    THEN balance[Own(p)] # 0
    ELSE balance[Own(p)] >= Cost(request[p], request[p].qty)

\* Validate may refuse an order for many more reasons than its cost.
Validate(p) ==
    /\ pc[p] = "new"
    /\ \/ /\ Affordable(p) /\ ~expired[p]
          /\ Continue(p, "sizing")
       \/ Return(p, "error")
    /\ UNCHANGED <<funds, stored, engine, locals, expired>>

\* A market buy freezes the whole balance, a stop-loss buy nothing.
Size(p) ==
    LET req == request[p]
    IN  /\ pc[p] = "sizing"
        /\ amount' = [amount EXCEPT ![p] =
             IF req.side = "sell" \/ req.type \in {"limit", "stop_limit"}
             THEN Cost(req, req.qty)
             ELSE IF req.type = "market" /\ ~expired[p] THEN balance[Own(p)]
             ELSE 0]
        /\ Continue(p, "freezing")
        /\ UNCHANGED <<funds, stored, engine, request, counted, verdict, snapshot, expired>>

\* Mutant: FreezeBalance relies on the balance that Validate has seen.
FreezeUnchecked(p) ==
    /\ pc[p] = "freezing"
    /\ Move(p, amount[p])
    /\ Continue(p, "creating")
    /\ UNCHANGED <<stored, engine, locals, expired>>

Freeze(p) ==
    /\ pc[p] = "freezing"
    /\ \/ /\ amount[p] = 0
          /\ Continue(p, "creating")
          /\ UNCHANGED <<funds, expired>>
       \/ /\ amount[p] # 0 /\ ~expired[p] /\ balance[Own(p)] >= amount[p]
          /\ Move(p, amount[p])
          /\ \/ Continue(p, "creating") /\ UNCHANGED expired
             \/ /\ p \in Deadlines
                /\ expired' = [expired EXCEPT ![p] = TRUE]
                /\ Return(p, "error")
       \/ /\ amount[p] # 0 /\ (expired[p] \/ balance[Own(p)] < amount[p])
          /\ Return(p, "error")
          /\ UNCHANGED <<funds, expired>>
    /\ UNCHANGED <<stored, engine, locals>>

\* The insertion may also fail by itself, on a field that is too long.
Create(p) ==
    /\ pc[p] = "creating"
    /\ \/ /\ ~expired[p]
          /\ stored' = [stored EXCEPT ![p] = [status |-> "created", filled |-> 0]]
          /\ \/ Continue(p, "sending") /\ UNCHANGED expired
             \/ /\ p \in Deadlines
                /\ expired' = [expired EXCEPT ![p] = TRUE]
                /\ Continue(p, "undoing")
       \/ Continue(p, "undoing") /\ UNCHANGED <<stored, expired>>
    /\ UNCHANGED <<funds, engine, locals>>

Undo(p) ==
    /\ pc[p] = "undoing"
    /\ Unfreeze(p, p, amount[p])
    /\ Return(p, "error")
    /\ UNCHANGED <<stored, engine, locals, expired>>

\* The engine has no shard for the pair, or the context ends while ordersIn is
\* full.
Send(p) ==
    /\ pc[p] = "sending"
    /\ \/ queue' = queue \cup {p} /\ Continue(p, "waiting")
       \/ Continue(p, "refunding") /\ UNCHANGED queue
    /\ UNCHANGED <<funds, stored, life, reply, locals, expired>>

\* reply is nil, or says how much was filled at once.
TakeReply(p) ==
    /\ pc[p] = "waiting" /\ reply[p] >= 0
    /\ IF reply[p] = request[p].qty
       THEN /\ counted' = [counted EXCEPT ![p] = request[p].qty]
            /\ verdict' = [verdict EXCEPT ![p] = "filled"]
            /\ Continue(p, "releasing")
       ELSE /\ Continue(p, IF reply[p] > 0 THEN "counting" ELSE "judging")
            /\ UNCHANGED <<counted, verdict>>
    /\ UNCHANGED <<funds, stored, engine, request, amount, snapshot, expired>>

\* The order may have been queued, and processed, all the same.
GiveUp(p) ==
    /\ pc[p] = "waiting" /\ expired[p]
    /\ Continue(p, "refunding")
    /\ UNCHANGED <<funds, stored, engine, locals, expired>>

\* The order that the engine returned is the one in the book: another goroutine
\* fills it and cancels it while PlaceOrder reads it.
Count(p) ==
    /\ pc[p] = "counting"
    /\ counted' = [counted EXCEPT ![p] = life[p].filled]
    /\ Continue(p, "judging")
    /\ UNCHANGED <<funds, stored, engine, request, amount, verdict, snapshot, expired>>

\* Mutant: an order that has traded is filled.
JudgeByMatches(p) ==
    /\ pc[p] = "judging"
    /\ verdict' = [verdict EXCEPT ![p] =
         IF life[p].status \in {"cancelled", "rejected"} THEN life[p].status
         ELSE IF reply[p] = 0 THEN "open" ELSE "filled"]
    /\ Continue(p, "releasing")
    /\ UNCHANGED <<funds, stored, engine, request, amount, counted, snapshot, expired>>

\* Its status is read twice; a change in between shows as if both saw it.
Judge(p) ==
    /\ pc[p] = "judging"
    /\ verdict' = [verdict EXCEPT ![p] =
         IF life[p].status \in {"cancelled", "rejected"} THEN life[p].status
         ELSE IF reply[p] = 0 THEN "open"
         ELSE IF life[p].status = "filled" THEN "filled" ELSE "partially_filled"]
    /\ Continue(p, "releasing")
    /\ UNCHANGED <<funds, stored, engine, request, amount, counted, snapshot, expired>>

\* Mutant: an order that has traded gets back all that was frozen.
ReleasableAll(p) == IF verdict[p] = "open" THEN 0 ELSE amount[p]

\* What PlaceOrder releases: the part that was filled, or all of an order that
\* ended without a trade.
Releasable(p) ==
    IF amount[p] # 0 /\ counted[p] # 0 THEN Cost(request[p], counted[p])
    ELSE IF verdict[p] \in {"cancelled", "rejected"} THEN amount[p]
    ELSE 0

Release(p) ==
    /\ pc[p] = "releasing"
    /\ Unfreeze(p, p, Releasable(p))
    /\ Continue(p, "saving")
    /\ UNCHANGED <<stored, engine, locals, expired>>

Save(p) ==
    /\ pc[p] = "saving"
    /\ stored' = IF expired[p] THEN stored
                 ELSE [stored EXCEPT ![p] =
                         [status |-> verdict[p], filled |-> counted[p]]]
    /\ Return(p, "ok")
    /\ UNCHANGED <<funds, engine, locals, expired>>

Refund(p) ==
    /\ pc[p] = "refunding"
    /\ Unfreeze(p, p, amount[p])
    /\ Continue(p, "rejecting")
    /\ UNCHANGED <<stored, engine, locals, expired>>

\* Mutant: the status is written under a context of its own.
RejectAnyway(p) ==
    /\ pc[p] = "rejecting"
    /\ stored' = [stored EXCEPT ![p] = [status |-> "rejected", filled |-> 0]]
    /\ Return(p, "error")
    /\ UNCHANGED <<funds, engine, locals, expired>>

Reject(p) ==
    /\ pc[p] = "rejecting"
    /\ stored' = IF expired[p] THEN stored
                 ELSE [stored EXCEPT ![p] = [status |-> "rejected", filled |-> 0]]
    /\ Return(p, "error")
    /\ UNCHANGED <<funds, engine, locals, expired>>

(***************************************************************************)
(* CancelOrder.                                                            *)
(***************************************************************************)
\* Mutant: an order is listed as open while PlaceOrder still works on it.
KnownOnceStored(p) == stored[p].status \in {"created", "open", "partially_filled"}

\* A user learns an order's id from the response to PlaceOrder or from the list
\* of open orders.
Known(p) ==
    result[p] = "ok" \/ stored[p].status \in {"open", "partially_filled"}

GetByID(c) ==
    /\ pc[c] = "new" /\ Known(Target[c])
    /\ \/ /\ ~expired[c]
          /\ Sender[c] = Sender[Target[c]]
          /\ CanTransition(stored[Target[c]].status, "cancelled")
          /\ snapshot' = [snapshot EXCEPT ![c] = stored[Target[c]]]
          /\ Continue(c, "asking")
       \/ /\ \/ expired[c]
             \/ Sender[c] # Sender[Target[c]]
             \/ ~CanTransition(stored[Target[c]].status, "cancelled")
          /\ Return(c, "error")
          /\ UNCHANGED snapshot
    /\ UNCHANGED <<funds, stored, engine, request, amount, counted, verdict, expired>>

AskEngine(c) ==
    /\ pc[c] = "asking"
    /\ \/ queue' = queue \cup {c} /\ Continue(c, "waiting")
       \/ Return(c, "error") /\ UNCHANGED queue
    /\ UNCHANGED <<funds, stored, life, reply, locals, expired>>

TakeCancelReply(c) ==
    /\ pc[c] = "waiting"
    /\ \/ reply[c] = 1 /\ Continue(c, "releasing")
       \/ (reply[c] = 0 \/ expired[c]) /\ Return(c, "error")
    /\ UNCHANGED <<funds, stored, engine, locals, expired>>

\* Mutant: the filled part is released, and not the rest.
UnfilledSwapped(c) == Cost(request[Target[c]], snapshot[c].filled)

\* What unfreezeCancelOrder takes for unfilled: by the row read at the start.
Unfilled(c) ==
    LET req == request[Target[c]]
    IN  IF req.side = "buy" /\ req.type = "market" THEN 0
        ELSE Cost(req, req.qty) - Cost(req, snapshot[c].filled)

UnfreezeCancelOrder(c) ==
    /\ pc[c] = "releasing"
    /\ Unfreeze(c, Target[c], Unfilled(c))
    /\ Continue(c, "saving")
    /\ UNCHANGED <<stored, engine, locals, expired>>

SaveCancelled(c) ==
    /\ pc[c] = "saving"
    /\ \/ /\ ~expired[c]
          /\ stored' = [stored EXCEPT ![Target[c]] =
                           [status |-> "cancelled", filled |-> 0]]
          /\ \/ Return(c, "ok") /\ UNCHANGED expired
             \/ /\ c \in Deadlines
                /\ expired' = [expired EXCEPT ![c] = TRUE]
                /\ Return(c, "error")
       \/ expired[c] /\ Return(c, "error") /\ UNCHANGED <<stored, expired>>
    /\ UNCHANGED <<funds, engine, locals>>

(***************************************************************************)
(* The engine, and contexts that end.                                      *)
(***************************************************************************)
EngineAnswers(p) ==
    /\ p \in queue
    /\ Engine!Answer(p, request[p])
    /\ reply' = [reply EXCEPT ![p] = life'[p].filled]
    /\ queue' = queue \ {p}
    /\ UNCHANGED <<funds, stored, pc, locals, expired, result>>

EngineTrades(p) ==
    /\ Engine!TradeAsMaker(p)
    /\ UNCHANGED <<funds, stored, queue, reply, pc, locals, expired, result>>

EngineCancels(c) ==
    /\ c \in queue
    /\ \/ Engine!Withdraw(Target[c]) /\ reply' = [reply EXCEPT ![c] = 1]
       \/ /\ life[Target[c]].status # "open"
          /\ reply' = [reply EXCEPT ![c] = 0]
          /\ UNCHANGED life
    /\ queue' = queue \ {c}
    /\ UNCHANGED <<funds, stored, pc, locals, expired, result>>

Expire(c) ==
    /\ c \in Deadlines /\ ~expired[c] /\ pc[c] # "returned"
    /\ expired' = [expired EXCEPT ![c] = TRUE]
    /\ UNCHANGED <<funds, stored, engine, pc, locals, result>>

(***************************************************************************)
(* The specification.                                                      *)
(***************************************************************************)
Init ==
    /\ balance = Deposited
    /\ frozen = [a \in Accounts |-> 0]
    /\ stored = [p \in OrderIds |-> [status |-> "none", filled |-> 0]]
    /\ Engine!Init
    /\ queue = {}
    /\ reply = [c \in Calls |-> -1]
    /\ pc = [c \in Calls |-> "new"]
    /\ request \in [OrderIds -> Requests]
    /\ amount = [p \in OrderIds |-> 0]
    /\ counted = [p \in OrderIds |-> 0]
    /\ verdict = [p \in OrderIds |-> "none"]
    /\ snapshot = [c \in Cancels |-> [status |-> "none", filled |-> 0]]
    /\ expired = [c \in Calls |-> FALSE]
    /\ result = [c \in Calls |-> "none"]
    /\ held = [p \in OrderIds |-> 0]

Place(p) ==
    \/ Validate(p) \/ Size(p) \/ Freeze(p) \/ Create(p) \/ Undo(p)
    \/ Send(p) \/ TakeReply(p) \/ GiveUp(p) \/ Count(p) \/ Judge(p)
    \/ Release(p) \/ Save(p) \/ Refund(p) \/ Reject(p)

Cancel(c) ==
    \/ GetByID(c) \/ AskEngine(c) \/ TakeCancelReply(c)
    \/ UnfreezeCancelOrder(c) \/ SaveCancelled(c)

Next ==
    \/ \E p \in OrderIds : Place(p) \/ EngineAnswers(p) \/ EngineTrades(p)
    \/ \E c \in Cancels : Cancel(c) \/ EngineCancels(c)
    \/ \E c \in Calls : Expire(c)

Spec == Init /\ [][Next]_vars

(***************************************************************************)
(* Invariants.                                                             *)
(***************************************************************************)
Steps == {"new", "sizing", "freezing", "creating", "undoing", "sending",
          "waiting", "counting", "judging", "releasing", "saving",
          "refunding", "rejecting", "asking", "returned"}

Row == [status: Statuses \cup {"none"}, filled: Nat]

TypeOK ==
    /\ balance \in [Accounts -> Nat]
    /\ frozen \in [Accounts -> Nat]
    /\ stored \in [OrderIds -> Row]
    /\ \A p \in OrderIds :
          life[p] \in {Engine!Unknown}
              \cup Engine!Standing(request[p], Nat, Statuses \ {"created", "partially_filled"})
    /\ queue \subseteq Calls
    /\ reply \in [Calls -> Nat \cup {-1}]
    /\ pc \in [Calls -> Steps]
    /\ request \in [OrderIds -> Requests]
    /\ amount \in [OrderIds -> Nat]
    /\ counted \in [OrderIds -> Nat]
    /\ verdict \in [OrderIds -> Statuses \cup {"none"}]
    /\ snapshot \in [Cancels -> Row]
    /\ expired \in [Calls -> BOOLEAN]
    /\ result \in [Calls -> {"none", "ok", "error"}]
    /\ held \in [OrderIds -> Int]

OrdersOn(a) == { p \in OrderIds : Own(p) = a }

\* What order p may still have to pay: it waits in the engine, or rests there.
\* Nothing is ever frozen for stop-loss buys, and for market buys no sum is
\* known in advance.
Owed(p) ==
    LET req == request[p]
    IN  IF req.side = "buy" /\ req.type \in {"market", "stop_loss"} THEN 0
        ELSE IF p \in queue THEN Cost(req, req.qty)
        ELSE IF life[p].status = "open" THEN Cost(req, req.qty - life[p].filled)
        ELSE 0

\* An order in the engine holds at least what it may still have to pay: neither
\* its own PlaceOrder nor a cancellation, which read the shared order and the
\* orders table at different moments, released too much of it.
HoldsWhatItOwes == \A p \in OrderIds : held[p] >= Owed(p) /\ held[p] >= 0

Owes == [p \in OrderIds |-> Owed(p)]

\* service.go:56: "Freeze balance to prevent overselling from concurrent orders":
\* the orders a user has in the engine never owe more than is frozen.
NoOverselling ==
    \A a \in Accounts :
        MapThenSumSet(LAMBDA p : Owes[p], OrdersOn(a)) <= frozen[a]

\* And what is frozen is no more than what the user brought.  Validate compares the
\* balance with one order alone, other orders of the user freeze and release
\* between that and FreezeBalance, and all that they release can be frozen again.
OrdersCovered ==
    NoOverselling /\ \A a \in Accounts : frozen[a] <= Deposited[a]

\* A PlaceOrder that returns an error holds nothing, and neither does one that
\* tells its user that the order ended without a trade.
RefusedRefunded ==
    \A p \in OrderIds :
        \/ result[p] = "error"
        \/ /\ result[p] = "ok" /\ counted[p] = 0
           /\ verdict[p] \in {"cancelled", "rejected"}
        => held[p] = 0

\* service.go:219: "Unfilled stays frozen until cancelled": once CancelOrder has
\* succeeded the order holds no more than the price of what it traded, whatever
\* of it PlaceOrder and whatever the cancellation released.  For the traded part
\* nothing is demanded.  Market buys are left out: CancelOrder releases nothing
\* of what they froze.
CancelledRefunded ==
    \A c \in Cancels :
        LET p   == Target[c]
            req == request[p]
        IN  result[c] = "ok" /\ ~(req.side = "buy" /\ req.type = "market")
                => held[p] <= Cost(req, life[p].filled)

\* The two together: what an order froze and did not trade is given back when its
\* call fails, when it ends without a trade and when it is cancelled.  (Nothing
\* is said of the rest of an immediate-or-cancel order that traded in part:
\* PlaceOrder keeps it frozen.)
EndedRefunded == RefusedRefunded /\ CancelledRefunded

\* A final status in the orders table is final in the engine too: an order that
\* is shown as rejected or cancelled cannot trade any more, however its calls
\* ended.
FinalIsTrue ==
    \A p \in OrderIds : IsFinal(stored[p].status) =>
        /\ p \notin queue
        /\ life[p].status \in {"none", stored[p].status}
        /\ life[p].status = "none" => stored[p].status = "rejected"

\* No call writes a status that the lifecycle forbids after the one in the table:
\* CancelOrder looks at the row long before it writes it, and other calls of the
\* same order write in between.
LifecycleRespected ==
    [][\A p \in OrderIds :
          stored'[p] # stored[p] /\ stored[p].status # "none"
              => CanTransition(stored[p].status, stored'[p].status)]_vars

\* service.go:296: "GetOpenOrders returns all open orders for a user": once its
\* PlaceOrder is over, an order that can trade is listed.
OpenIsListed ==
    \A p \in OrderIds :
        pc[p] = "returned" /\ (p \in queue \/ life[p].status = "open")
            => stored[p].status \in {"open", "partially_filled"}

\* service.go:272: "Unfreeze only the unfilled portion": when a cancellation
\* releases money, it is what the order has not traded.
OnlyUnfilledReleased ==
    \A c \in Cancels :
        pc[c] = "releasing" =>
            Unfilled(c) <= Cost(request[Target[c]],
                                life[Target[c]].qty - life[Target[c]].filled)
=============================================================================
