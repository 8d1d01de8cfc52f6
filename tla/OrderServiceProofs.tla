------------------------- MODULE OrderServiceProofs -------------------------
(***************************************************************************)
(* Proofs about OrderService, for any finite set of orders and any number  *)
(* of cancellations, users and requests: what the orders table says is     *)
(* final is final, whatever contexts end; and where no context ends,       *)
(* orders hold what they owe, what an order froze and did not trade is     *)
(* given back when its call fails or it is cancelled, and orders that can  *)
(* trade are listed.                                                       *)
(***************************************************************************)
EXTENDS OrderService, SumTheorems

(***************************************************************************)
(* The inductive invariant of the control flow, whatever contexts end.     *)
(***************************************************************************)
\* How an order stands that the engine has answered for.
Standings == {"open", "filled", "cancelled", "rejected"}

\* The engine keeps the quantity of an order sent with req, and never fills more.
OrderOK(o, req) ==
    \/ o = Engine!Unknown
    \/ /\ o \in Engine!Standing(req, 0 .. req.qty, Standings)
       /\ o.status = "filled" <=> o.filled = req.qty

LifeOK(p) == OrderOK(life[p], request[p])

PlaceSteps == Steps \ {"asking"}
CancelSteps == {"new", "asking", "waiting", "releasing", "saving", "returned"}

Verdicts == {"open", "partially_filled", "filled", "cancelled", "rejected"}

\* PlaceOrder has read how its order stands, and is going to save that.
Judged(p) == pc[p] \in {"releasing", "saving"} \/ result[p] = "ok"

\* Where PlaceOrder p is, and what its reply, its order and its row say.
PlaceOK(p) ==
    /\ pc[p] \in PlaceSteps
    /\ result[p] # "none" <=> pc[p] = "returned"
    /\ reply[p] = -1 <=> life[p].status = "none"
    /\ reply[p] = request[p].qty => life[p].status = "filled"
    /\ p \in queue => /\ life[p].status = "none"
                      /\ pc[p] \in {"waiting", "refunding", "rejecting", "returned"}
    /\ pc[p] \in {"new", "sizing", "freezing", "creating", "undoing", "sending"}
          => life[p].status = "none"
    /\ pc[p] \in {"counting", "judging"} => reply[p] >= 0
    /\ pc[p] \in {"refunding", "rejecting"}
          => expired[p] \/ (life[p].status = "none" /\ p \notin queue)
    /\ Judged(p) => /\ reply[p] >= 0
                    /\ verdict[p] \in Verdicts
                    /\ IsFinal(verdict[p]) => life[p].status = verdict[p]

\* The row of p before PlaceOrder is over, and once it is final.
RowOK(p) ==
    /\ pc[p] \in {"new", "sizing", "freezing", "creating"} => stored[p].status = "none"
    /\ pc[p] # "returned" => stored[p].status \in {"none", "created"}
    /\ IsFinal(stored[p].status) =>
          \/ life[p].status = stored[p].status
          \/ /\ stored[p].status = "rejected" /\ life[p].status = "none"
             /\ pc[p] = "returned" /\ p \notin queue

\* Cancellation c took order p out of the book.
TookOut(c, p) == Target[c] = p /\ reply[c] = 1

\* Where CancelOrder c is, and what its reply says of its order.
CancelOK(c) ==
    /\ pc[c] \in CancelSteps
    /\ reply[c] \in {-1, 0, 1}
    /\ pc[c] # "new" => pc[Target[c]] = "returned"
    /\ pc[c] \in {"new", "asking"} => reply[c] = -1 /\ c \notin queue
    /\ c \in queue => reply[c] = -1
    /\ pc[c] \in {"releasing", "saving"} => reply[c] = 1
    /\ reply[c] = 1 => life[Target[c]].status = "cancelled"
    /\ \A d \in Cancels : TookOut(c, Target[d]) /\ reply[d] = 1 => c = d

\* While c is under way its order's row is made final by another cancellation only.
Undisturbed(c) ==
    pc[c] \in {"asking", "waiting", "releasing", "saving"}
            /\ IsFinal(stored[Target[c]].status)
        => \E d \in Cancels : TookOut(d, Target[c]) /\ pc[d] = "returned"

\* No more is counted as filled than was ordered.
CountOK(p) ==
    /\ counted[p] <= request[p].qty /\ stored[p].filled <= request[p].qty
    /\ \A c \in Cancels : Target[c] = p => snapshot[c].filled <= request[p].qty

FlowInv ==
    /\ \A p \in OrderIds : LifeOK(p) /\ PlaceOK(p) /\ RowOK(p) /\ CountOK(p)
    /\ \A c \in Cancels : CancelOK(c) /\ Undisturbed(c)

(***************************************************************************)
(* What is held where no context ends.                                     *)
(***************************************************************************)
\* Only limit and stop-limit buys have a price.
BuysPriced ==
    \A r \in Requests :
        r.side = "buy" /\ r.type \in {"market", "stop_loss"} => r.price = 0

MarketBuy(p) == request[p].side = "buy" /\ request[p].type = "market"

\* The cancellation c has released what its order held.
Released(c) == reply[c] = 1 /\ pc[c] \in {"saving", "returned"}

\* What p holds is what it froze, less what PlaceOrder released, until it is cancelled.
HeldOK(p) ==
    /\ held[p] >= 0
    /\ counted[p] <= life[p].filled
    /\ pc[p] \notin {"new", "sizing"} /\ ~MarketBuy(p)
          => amount[p] = Cost(request[p], request[p].qty) \/ result[p] = "error"
    /\ pc[p] \in {"new", "sizing", "freezing", "rejecting"} => held[p] = 0
    /\ result[p] = "error" => /\ held[p] = 0
                              /\ life[p].status = "none" /\ p \notin queue
                              /\ stored[p].status \notin {"open", "partially_filled"}
    /\ pc[p] \in {"creating", "undoing", "sending", "waiting", "counting", "judging",
                  "releasing", "refunding"} => held[p] = amount[p]
    /\ pc[p] = "saving" => held[p] = amount[p] - Releasable(p)
    /\ result[p] = "ok" /\ (\A c \in Cancels : Target[c] = p => ~Released(c))
          => held[p] = amount[p] - Releasable(p)
    /\ result[p] = "ok" /\ (\A c \in Cancels : TookOut(c, p) => pc[c] # "returned")
          => stored[p] = [status |-> verdict[p], filled |-> counted[p]]

CancelHeldOK(c) ==
    /\ pc[c] \in {"asking", "waiting", "releasing", "saving"}
          => /\ result[Target[c]] = "ok"
             /\ snapshot[c].filled = counted[Target[c]]
    /\ c \in queue => pc[c] = "waiting"
    /\ result[c] = "ok" => reply[c] = 1 /\ pc[c] = "returned"
    /\ reply[c] = 1 => ~IsFinal(verdict[Target[c]])
    /\ Released(c) /\ ~MarketBuy(Target[c]) => held[Target[c]] = 0
    /\ reply[c] = 1 /\ pc[c] = "returned" => stored[Target[c]].status = "cancelled"

NoneExpired == \A c \in Calls : ~expired[c]

HeldInv ==
    /\ NoneExpired
    /\ \A p \in OrderIds : HeldOK(p)
    /\ \A c \in Cancels : CancelHeldOK(c)

(***************************************************************************)
(* Types, and what a step leaves alone.                                    *)
(***************************************************************************)
FundTypes ==
    /\ balance \in [Accounts -> Nat]
    /\ frozen \in [Accounts -> Nat]
    /\ held \in [OrderIds -> Int]

CallTypes ==
    /\ pc \in [Calls -> Steps]
    /\ result \in [Calls -> {"none", "ok", "error"}]
    /\ expired \in [Calls -> BOOLEAN]
    /\ queue \subseteq Calls
    /\ reply \in [Calls -> Nat \cup {-1}]
    /\ life = [p \in OrderIds |-> life[p]]

LocalTypes ==
    /\ request \in [OrderIds -> Requests]
    /\ amount \in [OrderIds -> Nat]
    /\ counted \in [OrderIds -> Nat]
    /\ verdict \in [OrderIds -> Statuses \cup {"none"}]
    /\ stored \in [OrderIds -> Row]
    /\ snapshot \in [Cancels -> Row]

\* Call c goes on with step, or returns.
Goes(c, step) == pc'[c] = step /\ result'[c] = result[c]
Ends(c, what) == pc'[c] = "returned" /\ result'[c] = what

\* A call is one of PlaceOrder or of CancelOrder.
LEMMA TwoKinds ==
    /\ \A p \in OrderIds : p \in Calls /\ p \notin Cancels
    /\ \A c \in Cancels : c \in Calls /\ c \notin OrderIds /\ Target[c] \in OrderIds
    /\ \A c \in Calls : c \in OrderIds \/ c \in Cancels
BY OrderServiceAssumption DEF Calls

LEMMA Goings ==
    ASSUME CallTypes, NEW c \in Calls
    PROVE  /\ \A step : Continue(c, step) =>
                 Goes(c, step) /\ \A d \in Calls \ {c} : Goes(d, pc[d])
           /\ \A what : Return(c, what) =>
                 Ends(c, what) /\ \A d \in Calls \ {c} : Goes(d, pc[d])
BY DEF CallTypes, Continue, Return, Goes, Ends

\* Nothing of call d, or of order q, moves.
Idle(d) ==
    /\ Goes(d, pc[d])
    /\ expired'[d] = expired[d]
    /\ d \in queue' <=> d \in queue

Kept(q) ==
    /\ stored'[q] = stored[q]
    /\ amount'[q] = amount[q] /\ counted'[q] = counted[q] /\ verdict'[q] = verdict[q]

\* What the steps of PlaceOrder p leave alone.
PlaceFrame(p) ==
    /\ pc[p] # "returned"
    /\ UNCHANGED <<request, life, reply, snapshot>>
    /\ \A d \in Calls \ {p} : Idle(d)
    /\ \A q \in OrderIds \ {p} : Kept(q)

\* Its context and its place in the queue stay as they are.
Waits(p) == expired'[p] = expired[p] /\ (p \in queue' <=> p \in queue)

LEMMA ValidateEffect ==
    ASSUME CallTypes, LocalTypes, NEW p \in OrderIds, Validate(p)
    PROVE  /\ PlaceFrame(p) /\ Kept(p) /\ Waits(p)
           /\ pc[p] = "new"
           /\ Goes(p, "sizing") \/ Ends(p, "error")
           /\ UNCHANGED funds
BY TwoKinds, Goings
DEF Validate, PlaceFrame, Idle, Kept, Waits, Goes, locals, engine

LEMMA SizeEffect ==
    ASSUME CallTypes, LocalTypes, NEW p \in OrderIds, Size(p)
    PROVE  /\ PlaceFrame(p) /\ Waits(p)
           /\ pc[p] = "sizing" /\ Goes(p, "freezing")
           /\ stored'[p] = stored[p] /\ counted'[p] = counted[p] /\ verdict'[p] = verdict[p]
           /\ amount'[p] =
                 IF request[p].side = "sell" \/ request[p].type \in {"limit", "stop_limit"}
                 THEN Cost(request[p], request[p].qty)
                 ELSE IF request[p].type = "market" /\ ~expired[p] THEN balance[Own(p)]
                 ELSE 0
           /\ UNCHANGED funds
BY TwoKinds, Goings
DEF Size, PlaceFrame, Idle, Kept, Waits, Goes, engine, LocalTypes

LEMMA FreezeEffect ==
    ASSUME CallTypes, LocalTypes, NEW p \in OrderIds, Freeze(p)
    PROVE  /\ PlaceFrame(p) /\ Kept(p)
           /\ p \in queue' <=> p \in queue
           /\ pc[p] = "freezing"
           /\ \/ Goes(p, "creating") /\ expired'[p] = expired[p]
              \/ Ends(p, "error")
           /\ expired'[p] # expired[p] => p \in Deadlines
           /\ \/ amount[p] = 0 /\ UNCHANGED funds /\ Goes(p, "creating")
              \/ /\ balance[Own(p)] >= amount[p] /\ Move(p, amount[p])
                 /\ Goes(p, "creating") \/ p \in Deadlines
              \/ UNCHANGED funds /\ Ends(p, "error")
BY TwoKinds, Goings
DEF Freeze, PlaceFrame, Idle, Kept, Waits, Goes, engine, locals, CallTypes

LEMMA CreateEffect ==
    ASSUME CallTypes, LocalTypes, NEW p \in OrderIds, Create(p)
    PROVE  /\ PlaceFrame(p)
           /\ amount'[p] = amount[p] /\ counted'[p] = counted[p] /\ verdict'[p] = verdict[p]
           /\ p \in queue' <=> p \in queue
           /\ pc[p] = "creating"
           /\ Goes(p, "sending") \/ Goes(p, "undoing")
           /\ stored'[p] \in {stored[p], [status |-> "created", filled |-> 0]}
           /\ expired'[p] # expired[p] => p \in Deadlines
           /\ UNCHANGED funds
BY TwoKinds, Goings
DEF Create, PlaceFrame, Idle, Kept, Waits, Goes, engine, locals, CallTypes, LocalTypes

LEMMA UndoEffect ==
    ASSUME CallTypes, LocalTypes, NEW p \in OrderIds, Undo(p)
    PROVE  /\ PlaceFrame(p) /\ Kept(p) /\ Waits(p)
           /\ pc[p] = "undoing" /\ Ends(p, "error")
           /\ Unfreeze(p, p, amount[p])
BY TwoKinds, Goings
DEF Undo, PlaceFrame, Idle, Kept, Waits, Goes, engine, locals

LEMMA SendEffect ==
    ASSUME CallTypes, LocalTypes, NEW p \in OrderIds, Send(p)
    PROVE  /\ PlaceFrame(p) /\ Kept(p)
           /\ expired'[p] = expired[p]
           /\ pc[p] = "sending"
           /\ \/ Goes(p, "waiting") /\ p \in queue'
              \/ Goes(p, "refunding") /\ (p \in queue' <=> p \in queue)
           /\ UNCHANGED funds
BY TwoKinds, Goings
DEF Send, PlaceFrame, Idle, Kept, Waits, Goes, locals

LEMMA TakeReplyEffect ==
    ASSUME CallTypes, LocalTypes, NEW p \in OrderIds, TakeReply(p)
    PROVE  /\ PlaceFrame(p) /\ Waits(p)
           /\ stored'[p] = stored[p] /\ amount'[p] = amount[p]
           /\ pc[p] = "waiting" /\ reply[p] >= 0
           /\ \/ /\ reply[p] = request[p].qty
                 /\ counted'[p] = request[p].qty /\ verdict'[p] = "filled"
                 /\ Goes(p, "releasing")
              \/ /\ counted'[p] = counted[p] /\ verdict'[p] = verdict[p]
                 /\ \/ reply[p] > 0 /\ Goes(p, "counting")
                    \/ reply[p] = 0 /\ Goes(p, "judging")
           /\ UNCHANGED funds
<1>1. reply[p] \in Int
  BY TwoKinds DEF CallTypes
<1> QED
  BY <1>1, TwoKinds, Goings
  DEF TakeReply, PlaceFrame, Idle, Kept, Waits, Goes, engine, LocalTypes

LEMMA GiveUpEffect ==
    ASSUME CallTypes, LocalTypes, NEW p \in OrderIds, GiveUp(p)
    PROVE  /\ PlaceFrame(p) /\ Kept(p) /\ Waits(p)
           /\ pc[p] = "waiting" /\ expired[p] /\ Goes(p, "refunding")
           /\ UNCHANGED funds
BY TwoKinds, Goings
DEF GiveUp, PlaceFrame, Idle, Kept, Waits, Goes, engine, locals

LEMMA CountEffect ==
    ASSUME CallTypes, LocalTypes, NEW p \in OrderIds, Count(p)
    PROVE  /\ PlaceFrame(p) /\ Waits(p)
           /\ stored'[p] = stored[p] /\ amount'[p] = amount[p] /\ verdict'[p] = verdict[p]
           /\ pc[p] = "counting" /\ Goes(p, "judging")
           /\ counted'[p] = life[p].filled
           /\ UNCHANGED funds
BY TwoKinds, Goings
DEF Count, PlaceFrame, Idle, Kept, Waits, Goes, engine, LocalTypes

LEMMA JudgeEffect ==
    ASSUME CallTypes, LocalTypes, NEW p \in OrderIds, Judge(p)
    PROVE  /\ PlaceFrame(p) /\ Waits(p)
           /\ stored'[p] = stored[p] /\ amount'[p] = amount[p] /\ counted'[p] = counted[p]
           /\ pc[p] = "judging" /\ Goes(p, "releasing")
           /\ verdict'[p] = IF life[p].status \in {"cancelled", "rejected"}
                            THEN life[p].status
                            ELSE IF reply[p] = 0 THEN "open"
                            ELSE IF life[p].status = "filled" THEN "filled"
                            ELSE "partially_filled"
           /\ UNCHANGED funds
BY TwoKinds, Goings
DEF Judge, PlaceFrame, Idle, Kept, Waits, Goes, engine, LocalTypes

LEMMA ReleaseEffect ==
    ASSUME CallTypes, LocalTypes, NEW p \in OrderIds, Release(p)
    PROVE  /\ PlaceFrame(p) /\ Kept(p) /\ Waits(p)
           /\ pc[p] = "releasing" /\ Goes(p, "saving")
           /\ Unfreeze(p, p, Releasable(p))
BY TwoKinds, Goings
DEF Release, PlaceFrame, Idle, Kept, Waits, Goes, engine, locals

LEMMA SaveEffect ==
    ASSUME CallTypes, LocalTypes, NEW p \in OrderIds, Save(p)
    PROVE  /\ PlaceFrame(p) /\ Waits(p)
           /\ amount'[p] = amount[p] /\ counted'[p] = counted[p] /\ verdict'[p] = verdict[p]
           /\ pc[p] = "saving" /\ Ends(p, "ok")
           /\ stored'[p] = IF expired[p] THEN stored[p]
                           ELSE [status |-> verdict[p], filled |-> counted[p]]
           /\ UNCHANGED funds
BY TwoKinds, Goings
DEF Save, PlaceFrame, Idle, Kept, Waits, Goes, engine, locals, LocalTypes

LEMMA RefundEffect ==
    ASSUME CallTypes, LocalTypes, NEW p \in OrderIds, Refund(p)
    PROVE  /\ PlaceFrame(p) /\ Kept(p) /\ Waits(p)
           /\ pc[p] = "refunding" /\ Goes(p, "rejecting")
           /\ Unfreeze(p, p, amount[p])
BY TwoKinds, Goings
DEF Refund, PlaceFrame, Idle, Kept, Waits, Goes, engine, locals

LEMMA RejectEffect ==
    ASSUME CallTypes, LocalTypes, NEW p \in OrderIds, Reject(p)
    PROVE  /\ PlaceFrame(p) /\ Waits(p)
           /\ amount'[p] = amount[p] /\ counted'[p] = counted[p] /\ verdict'[p] = verdict[p]
           /\ pc[p] = "rejecting" /\ Ends(p, "error")
           /\ stored'[p] = IF expired[p] THEN stored[p]
                           ELSE [status |-> "rejected", filled |-> 0]
           /\ UNCHANGED funds
BY TwoKinds, Goings
DEF Reject, PlaceFrame, Idle, Kept, Waits, Goes, engine, locals, LocalTypes
\* What the steps of CancelOrder c leave alone.
CancelFrame(c) ==
    /\ pc[c] # "returned"
    /\ UNCHANGED <<request, life, reply, amount, counted, verdict>>
    /\ \A d \in Calls \ {c} : Idle(d)
    /\ \A d \in Cancels \ {c} : snapshot'[d] = snapshot[d]
    /\ \A q \in OrderIds \ {Target[c]} : stored'[q] = stored[q]

LEMMA GetByIDEffect ==
    ASSUME CallTypes, LocalTypes, NEW c \in Cancels, GetByID(c)
    PROVE  /\ CancelFrame(c) /\ Known(Target[c])
           /\ UNCHANGED <<funds, stored, queue>>
           /\ pc[c] = "new"
           /\ \/ /\ CanTransition(stored[Target[c]].status, "cancelled")
                 /\ snapshot'[c] = stored[Target[c]] /\ Goes(c, "asking")
              \/ snapshot'[c] = snapshot[c] /\ Ends(c, "error")
BY TwoKinds, Goings
DEF GetByID, CancelFrame, Idle, Goes, engine, LocalTypes

LEMMA AskEngineEffect ==
    ASSUME CallTypes, LocalTypes, NEW c \in Cancels, AskEngine(c)
    PROVE  /\ CancelFrame(c)
           /\ UNCHANGED <<funds, stored, snapshot>>
           /\ pc[c] = "asking"
           /\ \/ Goes(c, "waiting")
              \/ Ends(c, "error") /\ (c \in queue' <=> c \in queue)
BY TwoKinds, Goings
DEF AskEngine, CancelFrame, Idle, Goes, locals, LocalTypes

LEMMA TakeCancelReplyEffect ==
    ASSUME CallTypes, LocalTypes, NEW c \in Cancels, TakeCancelReply(c)
    PROVE  /\ CancelFrame(c)
           /\ UNCHANGED <<funds, stored, snapshot, queue>>
           /\ pc[c] = "waiting"
           /\ \/ reply[c] = 1 /\ Goes(c, "releasing")
              \/ (reply[c] = 0 \/ expired[c]) /\ Ends(c, "error")
BY TwoKinds, Goings
DEF TakeCancelReply, CancelFrame, Idle, Goes, engine, locals

LEMMA UnfreezeCancelOrderEffect ==
    ASSUME CallTypes, LocalTypes, NEW c \in Cancels, UnfreezeCancelOrder(c)
    PROVE  /\ CancelFrame(c)
           /\ UNCHANGED <<stored, snapshot, queue>>
           /\ pc[c] = "releasing" /\ Goes(c, "saving")
           /\ Unfreeze(c, Target[c], Unfilled(c))
BY TwoKinds, Goings
DEF UnfreezeCancelOrder, CancelFrame, Idle, Goes, engine, locals

LEMMA SaveCancelledEffect ==
    ASSUME CallTypes, LocalTypes, NEW c \in Cancels, SaveCancelled(c)
    PROVE  /\ CancelFrame(c)
           /\ UNCHANGED <<funds, snapshot, queue>>
           /\ pc[c] = "saving"
           /\ \/ expired[c] /\ Ends(c, "error") /\ UNCHANGED stored
              \/ /\ ~expired[c]
                 /\ Ends(c, "ok") \/ (Ends(c, "error") /\ expired'[c])
                 /\ stored'[Target[c]] = [status |-> "cancelled", filled |-> 0]
BY TwoKinds, Goings
DEF SaveCancelled, CancelFrame, Idle, Goes, engine, locals, CallTypes, LocalTypes

\* What the engine leaves alone.
EngineFrame == UNCHANGED <<funds, stored, pc, locals, expired, result>>

\* The engine answers nobody but c, and d is still in its queue.
Serves(c) ==
    \A d \in Calls \ {c} : reply'[d] = reply[d] /\ (d \in queue' <=> d \in queue)

\* No order but p moves in the engine.
Alone(p) == \A q \in OrderIds \ {p} : life'[q] = life[q]

LEMMA EngineAnswersEffect ==
    ASSUME CallTypes, NEW p \in OrderIds, EngineAnswers(p)
    PROVE  /\ EngineFrame /\ Serves(p) /\ Alone(p)
           /\ p \in queue /\ p \notin queue'
           /\ life[p].status = "none" /\ life'[p] \in Engine!Answers(request[p])
           /\ reply'[p] = life'[p].filled
BY TwoKinds
DEF EngineAnswers, EngineFrame, Serves, Alone, CallTypes, Engine!Answer

\* Order o, with q more of it filled.
Traded(o, q) ==
    [o EXCEPT !.filled = @ + q,
              !.status = IF o.filled + q = o.qty THEN "filled" ELSE "open"]

LEMMA EngineTradesEffect ==
    ASSUME CallTypes, NEW p \in OrderIds, EngineTrades(p)
    PROVE  /\ EngineFrame /\ Alone(p)
           /\ UNCHANGED <<queue, reply>>
           /\ life[p].status = "open"
           /\ \E q \in 1 .. life[p].qty - life[p].filled : life'[p] = Traded(life[p], q)
<1>1. PICK q \in 1 .. life[p].qty - life[p].filled :
         life' = [life EXCEPT
                    ![p].filled = @ + q,
                    ![p].status = IF life[p].filled + q = life[p].qty
                                  THEN "filled" ELSE "open"]
  BY DEF EngineTrades, Engine!TradeAsMaker
<1>2. life'[p] = Traded(life[p], q)
  BY <1>1 DEF CallTypes, Traded
<1>3. Alone(p)
  BY <1>1 DEF CallTypes, Alone
<1> QED
  BY <1>2, <1>3 DEF EngineTrades, EngineFrame, Engine!TradeAsMaker

LEMMA EngineCancelsEffect ==
    ASSUME CallTypes, NEW c \in Cancels, EngineCancels(c)
    PROVE  /\ EngineFrame /\ Serves(c) /\ Alone(Target[c])
           /\ c \in queue /\ c \notin queue'
           /\ \/ /\ life[Target[c]].status = "open" /\ reply'[c] = 1
                 /\ life'[Target[c]] = [life[Target[c]] EXCEPT !.status = "cancelled"]
              \/ reply'[c] = 0 /\ UNCHANGED life
BY TwoKinds
DEF EngineCancels, EngineFrame, Serves, Alone, CallTypes, Engine!Withdraw

LEMMA ExpireEffect ==
    ASSUME CallTypes, NEW c \in Calls, Expire(c)
    PROVE  /\ UNCHANGED <<funds, stored, engine, pc, locals, result>>
           /\ c \in Deadlines /\ expired'[c] = TRUE
           /\ \A d \in Calls \ {c} : expired'[d] = expired[d]
BY DEF Expire, CallTypes
(***************************************************************************)
(* Types.                                                                  *)
(***************************************************************************)
\* A quantity costs a natural number, and less of it costs no more.
LEMMA CostNatural ==
    ASSUME NEW req \in Requests, NEW q \in Nat
    PROVE  Cost(req, q) \in Nat
BY OrderServiceAssumption DEF Cost

LEMMA CostMonotone ==
    ASSUME NEW req \in Requests, NEW a \in Nat, NEW b \in Nat, a <= b
    PROVE  Cost(req, a) <= Cost(req, b)
<1>1. req.price \in Nat
  BY OrderServiceAssumption
<1> DEFINE x == req.price
<1> HIDE DEF x
<1>2. x * b = x * a + x * (b - a) /\ x * (b - a) \in Nat /\ x * a \in Nat
  BY <1>1 DEF x
<1>3. x * a <= x * b
  BY <1>2
<1> QED
  BY <1>3 DEF Cost, x

\* The account an order is paid from.
LEMMA OwnAccount ==
    ASSUME NEW p \in OrderIds
    PROVE  Own(p) \in Accounts
BY OrderServiceAssumption DEF Own, Accounts, Calls

LEMMA CallTypesInit == Init => CallTypes
BY DEF Init, CallTypes, Engine!Init, Steps

LEMMA LocalTypesInit == Init => LocalTypes
BY DEF Init, LocalTypes, Row

LEMMA FundTypesInit == Init => FundTypes
BY OrderServiceAssumption DEF Init, FundTypes

LEMMA PlaceCallTypes ==
    ASSUME CallTypes, NEW p \in OrderIds, Place(p)
    PROVE  CallTypes'
<1>1. UNCHANGED <<life, reply>>
  BY DEF Place, Validate, Size, Freeze, Create, Undo, Send, TakeReply, GiveUp, Count,
         Judge, Release, Save, Refund, Reject, engine
<1>2. queue' \subseteq Calls
  BY TwoKinds
  DEF Place, Validate, Size, Freeze, Create, Undo, Send, TakeReply, GiveUp, Count,
      Judge, Release, Save, Refund, Reject, engine, CallTypes
<1>3. expired' \in [Calls -> BOOLEAN]
  BY DEF Place, Validate, Size, Freeze, Create, Undo, Send, TakeReply, GiveUp, Count,
         Judge, Release, Save, Refund, Reject, engine, CallTypes
<1>4. \/ \E step \in Steps : Continue(p, step)
      \/ \E what \in {"ok", "error"} : Return(p, what)
  BY DEF Place, Validate, Size, Freeze, Create, Undo, Send, TakeReply, GiveUp, Count,
         Judge, Release, Save, Refund, Reject, Steps
<1>5. pc' \in [Calls -> Steps] /\ result' \in [Calls -> {"none", "ok", "error"}]
  BY <1>4 DEF Continue, Return, CallTypes, Steps
<1> QED
  BY <1>1, <1>2, <1>3, <1>5 DEF CallTypes

LEMMA CancelCallTypes ==
    ASSUME CallTypes, NEW c \in Cancels, Cancel(c)
    PROVE  CallTypes'
<1>1. expired' \in [Calls -> BOOLEAN]
  BY TwoKinds
  DEF Cancel, GetByID, AskEngine, TakeCancelReply, UnfreezeCancelOrder, SaveCancelled,
      CallTypes
<1>2. pc' \in [Calls -> Steps] /\ result' \in [Calls -> {"none", "ok", "error"}]
  BY TwoKinds
  DEF Cancel, GetByID, AskEngine, TakeCancelReply, UnfreezeCancelOrder, SaveCancelled,
      Return, Continue, CallTypes, Steps
<1> QED
  BY <1>1, <1>2, TwoKinds
  DEF Cancel, GetByID, AskEngine, TakeCancelReply, UnfreezeCancelOrder, SaveCancelled,
      CallTypes, engine

LEMMA PlaceLocalTypes ==
    ASSUME FundTypes, CallTypes, LocalTypes, NEW p \in OrderIds, Place(p),
           life[p].filled \in Nat, life[p].status \in Statuses \cup {"none"}
    PROVE  LocalTypes'
<1>1. UNCHANGED <<request, snapshot>>
  BY DEF Place, Validate, Size, Freeze, Create, Undo, Send, TakeReply, GiveUp, Count,
         Judge, Release, Save, Refund, Reject, locals
<1>2. /\ request[p] \in Requests /\ request[p].qty \in Nat
      /\ Cost(request[p], request[p].qty) \in Nat
      /\ balance[Own(p)] \in Nat
  BY OrderServiceAssumption, CostNatural, OwnAccount DEF LocalTypes, FundTypes
<1>3. amount' \in [OrderIds -> Nat]
  BY <1>2
  DEF Place, Validate, Size, Freeze, Create, Undo, Send, TakeReply, GiveUp, Count,
      Judge, Release, Save, Refund, Reject, locals, LocalTypes
<1>4. counted' \in [OrderIds -> Nat]
  BY <1>2
  DEF Place, Validate, Size, Freeze, Create, Undo, Send, TakeReply, GiveUp, Count,
      Judge, Release, Save, Refund, Reject, locals, LocalTypes
<1>5. verdict' \in [OrderIds -> Statuses \cup {"none"}]
  BY DEF Place, Validate, Size, Freeze, Create, Undo, Send, TakeReply, GiveUp, Count,
         Judge, Release, Save, Refund, Reject, locals, LocalTypes, Statuses
<1>6. verdict[p] \in Statuses \cup {"none"} /\ counted[p] \in Nat
  BY DEF LocalTypes
<1>7. /\ [status |-> verdict[p], filled |-> counted[p]] \in Row
      /\ [status |-> "created", filled |-> 0] \in Row
      /\ [status |-> "rejected", filled |-> 0] \in Row
  BY <1>6 DEF Row, Statuses
<1>8. stored' \in [OrderIds -> Row]
  BY <1>7
  DEF Place, Validate, Size, Freeze, Create, Undo, Send, TakeReply, GiveUp, Count,
      Judge, Release, Save, Refund, Reject, LocalTypes
<1> QED
  BY <1>1, <1>3, <1>4, <1>5, <1>8 DEF LocalTypes

LEMMA CancelLocalTypes ==
    ASSUME LocalTypes, NEW c \in Cancels, Cancel(c)
    PROVE  LocalTypes'
<1>1. UNCHANGED <<request, amount, counted, verdict>>
  BY DEF Cancel, GetByID, AskEngine, TakeCancelReply, UnfreezeCancelOrder, SaveCancelled,
         locals
<1>2. snapshot' \in [Cancels -> Row]
  BY TwoKinds
  DEF Cancel, GetByID, AskEngine, TakeCancelReply, UnfreezeCancelOrder, SaveCancelled,
      locals, LocalTypes
<1>3. [status |-> "cancelled", filled |-> 0] \in Row
  BY DEF Row, Statuses
<1>4. stored' \in [OrderIds -> Row]
  BY <1>3
  DEF Cancel, GetByID, AskEngine, TakeCancelReply, UnfreezeCancelOrder, SaveCancelled,
      LocalTypes
<1> QED
  BY <1>1, <1>2, <1>4 DEF LocalTypes

(***************************************************************************)
(* The orders in the engine.                                               *)
(***************************************************************************)
\* However the engine answers, it fills no more than was ordered.
LEMMA AnswerOK ==
    ASSUME NEW req \in Requests, NEW o \in Engine!Answers(req)
    PROVE  OrderOK(o, req) /\ o.status \in Standings /\ o.filled \in Nat
BY OrderServiceAssumption
DEF Engine!Answers, Engine!Standing, OrderOK, Standings

\* What an order's record may be.
LEMMA OrderFields ==
    ASSUME NEW req \in Requests, NEW o, OrderOK(o, req)
    PROVE  /\ o.status = "none" \/ o.status \in Standings
           /\ o.filled \in Nat /\ o.filled <= req.qty
           /\ o.status # "none" => /\ o = [type |-> req.type, tif |-> req.tif, qty |-> req.qty,
                                           filled |-> o.filled, status |-> o.status]
                                   /\ o.status = "filled" <=> o.filled = req.qty
           /\ o.status = "none" => o = Engine!Unknown /\ o.filled = 0
BY OrderServiceAssumption DEF OrderOK, Engine!Standing, Engine!Unknown, Standings

\* A trade fills an open order further.
LEMMA TradeOK ==
    ASSUME NEW req \in Requests, NEW o, OrderOK(o, req), o.status = "open",
           NEW q \in 1 .. o.qty - o.filled, NEW new, new = Traded(o, q)
    PROVE  /\ OrderOK(new, req)
           /\ new.status \in {"open", "filled"} /\ new.filled >= o.filled
           /\ new.filled \in Nat /\ new.qty = o.qty
<1>1. /\ o = [type |-> req.type, tif |-> req.tif, qty |-> req.qty,
              filled |-> o.filled, status |-> o.status]
      /\ o.filled \in Nat /\ o.qty = req.qty
  BY OrderFields
<1> DEFINE f == o.filled + q
           s == IF f = req.qty THEN "filled" ELSE "open"
<1>2. new = [type |-> req.type, tif |-> req.tif, qty |-> req.qty, filled |-> f, status |-> s]
  <2> DEFINE a == [o EXCEPT !.filled = f]
  <2>1. new = [a EXCEPT !.status = s]
    BY <1>1 DEF Traded
  <2> HIDE DEF f, s
  <2>2. a = [type |-> req.type, tif |-> req.tif, qty |-> req.qty,
             filled |-> f, status |-> o.status]
    BY <1>1
  <2> HIDE DEF a
  <2> QED
    BY <2>1, <2>2
<1>3. req.qty \in Nat
  BY OrderServiceAssumption
<1>4. f \in 0 .. req.qty /\ f >= o.filled /\ f \in Nat
  <2> DEFINE a == o.filled
             b == req.qty
  <2>1. a \in Nat /\ b \in Nat /\ q \in 1 .. b - a /\ f = a + q
    BY <1>1, <1>3
  <2> HIDE DEF a, b, f
  <2>2. f \in 0 .. b /\ f >= a /\ f \in Nat
    BY <2>1
  <2> QED
    BY <2>2 DEF a, b
<1>5. s \in Standings /\ s \in {"open", "filled"} /\ (s = "filled" <=> f = req.qty)
  BY DEF Standings
<1> HIDE DEF f, s
<1>6. new \in Engine!Standing(req, 0 .. req.qty, Standings)
  BY <1>2, <1>4, <1>5 DEF Engine!Standing
<1> QED
  BY <1>1, <1>2, <1>4, <1>5, <1>6 DEF OrderOK

\* A cancellation leaves an open order as filled as it was.
LEMMA WithdrawOK ==
    ASSUME NEW req \in Requests, NEW o, OrderOK(o, req), o.status = "open", NEW new,
           new = [o EXCEPT !.status = "cancelled"]
    PROVE  /\ OrderOK(new, req)
           /\ new.status = "cancelled" /\ new.filled = o.filled
<1>1. /\ o = [type |-> req.type, tif |-> req.tif, qty |-> req.qty,
              filled |-> o.filled, status |-> o.status]
      /\ o.filled \in Nat /\ o.filled <= req.qty /\ o.filled # req.qty
  BY OrderFields
<1>2. new = [type |-> req.type, tif |-> req.tif, qty |-> req.qty,
             filled |-> o.filled, status |-> "cancelled"]
  BY <1>1
<1>3. req.qty \in Nat
  BY OrderServiceAssumption
<1>4. new \in Engine!Standing(req, 0 .. req.qty, Standings)
  BY <1>1, <1>2, <1>3 DEF Engine!Standing, Standings
<1> QED
  BY <1>1, <1>2, <1>4 DEF OrderOK
\* What is known of an order where the control flow is right.
LEMMA OrderFacts ==
    ASSUME LocalTypes, FlowInv, NEW p \in OrderIds
    PROVE  /\ request[p] \in Requests /\ request[p].qty \in Nat /\ request[p].qty > 0
           /\ life[p].status = "none" \/ life[p].status \in Standings
           /\ life[p].filled \in Nat /\ life[p].filled <= request[p].qty
           /\ life[p].status # "none" =>
                 /\ life[p].qty = request[p].qty
                 /\ life[p].status = "filled" <=> life[p].filled = request[p].qty
<1>1. request[p] \in Requests
  BY DEF LocalTypes
<1>2. request[p].qty \in Nat \ {0}
  BY <1>1, OrderServiceAssumption
<1>3. OrderOK(life[p], request[p])
  BY DEF FlowInv, LifeOK
<1> QED
  BY <1>1, <1>2, <1>3, OrderFields

\* The invariant for an order depends on that order and its calls only.
LEMMA PlaceFlow ==
    ASSUME CallTypes, LocalTypes, FlowInv, NEW p \in OrderIds, PlaceFrame(p),
           PlaceOK(p)', RowOK(p)', CountOK(p)'
    PROVE  FlowInv'
<1>1. ASSUME NEW q \in OrderIds
      PROVE  (LifeOK(q) /\ PlaceOK(q) /\ RowOK(q) /\ CountOK(q))'
  <2>1. LifeOK(q)'
    BY DEF FlowInv, LifeOK, PlaceFrame
  <2>2. CASE q = p
    BY <2>1, <2>2
  <2>3. CASE q # p
    <3>1. Idle(q) /\ Kept(q)
      BY <2>3, TwoKinds DEF PlaceFrame
    <3>2. PlaceOK(q)'
      BY <3>1 DEF FlowInv, PlaceOK, Judged, PlaceFrame, Idle, Kept, Goes
    <3>3. RowOK(q)'
      BY <3>1 DEF FlowInv, RowOK, PlaceFrame, Idle, Kept, Goes
    <3>4. CountOK(q)'
      BY <3>1 DEF FlowInv, CountOK, PlaceFrame, Idle, Kept, Goes
    <3> QED
      BY <2>1, <3>2, <3>3, <3>4
  <2> QED
    BY <2>2, <2>3
<1>2. ASSUME NEW c \in Cancels
      PROVE  CancelOK(c)' /\ Undisturbed(c)'
  <2>1. Idle(c) /\ Target[c] \in OrderIds
    BY TwoKinds DEF PlaceFrame
  <2>2. CancelOK(c) /\ Undisturbed(c)
    BY DEF FlowInv
  <2>3. CASE Target[c] = p
    <3>1. pc[c] = "new" /\ pc'[c] = "new"
      BY <2>1, <2>2, <2>3 DEF CancelOK, PlaceFrame, Idle, Goes
    <3> QED
      BY <2>1, <2>2, <3>1 DEF CancelOK, Undisturbed, TookOut, PlaceFrame, Idle, Goes
  <2>4. CASE Target[c] # p
    <3>1. Idle(Target[c]) /\ Kept(Target[c])
      BY <2>1, <2>4, TwoKinds DEF PlaceFrame
    <3>2. CancelOK(c)'
      BY <2>1, <2>2, <3>1 DEF CancelOK, TookOut, PlaceFrame, Idle, Goes
    <3>3. Undisturbed(c)'
      BY <2>1, <2>2, <3>1, TwoKinds DEF Undisturbed, TookOut, PlaceFrame, Idle, Kept, Goes
    <3> QED
      BY <3>2, <3>3
  <2> QED
    BY <2>3, <2>4
<1> QED
  BY <1>1, <1>2 DEF FlowInv

LEMMA ValidateFlow ==
    ASSUME CallTypes, LocalTypes, FlowInv, NEW p \in OrderIds, Validate(p)
    PROVE  FlowInv'
<1>1. PlaceOK(p) /\ RowOK(p) /\ CountOK(p)
  BY DEF FlowInv
<1>2. PlaceOK(p)'
  BY <1>1, ValidateEffect, OrderFacts
  DEF PlaceOK, Judged, PlaceSteps, Steps, IsFinal, Verdicts, Standings,
      PlaceFrame, Kept, Waits, Goes, Ends
<1>3. RowOK(p)'
  BY <1>1, ValidateEffect
  DEF PlaceOK, RowOK, Judged, IsFinal, PlaceFrame, Kept, Waits, Goes, Ends
<1>4. CountOK(p)'
  BY <1>1, ValidateEffect, OrderFacts DEF CountOK, PlaceFrame, Kept
<1> QED
  BY <1>2, <1>3, <1>4, ValidateEffect, PlaceFlow

LEMMA SizeFlow ==
    ASSUME CallTypes, LocalTypes, FlowInv, NEW p \in OrderIds, Size(p)
    PROVE  FlowInv'
<1>1. PlaceOK(p) /\ RowOK(p) /\ CountOK(p)
  BY DEF FlowInv
<1>2. PlaceOK(p)'
  BY <1>1, SizeEffect, OrderFacts
  DEF PlaceOK, Judged, PlaceSteps, Steps, IsFinal, Verdicts, Standings,
      PlaceFrame, Kept, Waits, Goes, Ends
<1>3. RowOK(p)'
  BY <1>1, SizeEffect
  DEF PlaceOK, RowOK, Judged, IsFinal, PlaceFrame, Kept, Waits, Goes, Ends
<1>4. CountOK(p)'
  BY <1>1, SizeEffect, OrderFacts DEF CountOK, PlaceFrame, Kept
<1> QED
  BY <1>2, <1>3, <1>4, SizeEffect, PlaceFlow

LEMMA FreezeFlow ==
    ASSUME CallTypes, LocalTypes, FlowInv, NEW p \in OrderIds, Freeze(p)
    PROVE  FlowInv'
<1>1. PlaceOK(p) /\ RowOK(p) /\ CountOK(p)
  BY DEF FlowInv
<1>2. PlaceOK(p)'
  BY <1>1, FreezeEffect, OrderFacts
  DEF PlaceOK, Judged, PlaceSteps, Steps, IsFinal, Verdicts, Standings,
      PlaceFrame, Kept, Waits, Goes, Ends
<1>3. RowOK(p)'
  BY <1>1, FreezeEffect
  DEF PlaceOK, RowOK, Judged, IsFinal, PlaceFrame, Kept, Waits, Goes, Ends
<1>4. CountOK(p)'
  BY <1>1, FreezeEffect, OrderFacts DEF CountOK, PlaceFrame, Kept
<1> QED
  BY <1>2, <1>3, <1>4, FreezeEffect, PlaceFlow

LEMMA CreateFlow ==
    ASSUME CallTypes, LocalTypes, FlowInv, NEW p \in OrderIds, Create(p)
    PROVE  FlowInv'
<1>1. PlaceOK(p) /\ RowOK(p) /\ CountOK(p)
  BY DEF FlowInv
<1>2. PlaceOK(p)'
  BY <1>1, CreateEffect, OrderFacts
  DEF PlaceOK, Judged, PlaceSteps, Steps, IsFinal, Verdicts, Standings,
      PlaceFrame, Kept, Waits, Goes, Ends
<1>3. RowOK(p)'
  BY <1>1, CreateEffect
  DEF PlaceOK, RowOK, Judged, IsFinal, PlaceFrame, Kept, Waits, Goes, Ends
<1>4. CountOK(p)'
  BY <1>1, CreateEffect, OrderFacts DEF CountOK, PlaceFrame, Kept
<1> QED
  BY <1>2, <1>3, <1>4, CreateEffect, PlaceFlow

LEMMA UndoFlow ==
    ASSUME CallTypes, LocalTypes, FlowInv, NEW p \in OrderIds, Undo(p)
    PROVE  FlowInv'
<1>1. PlaceOK(p) /\ RowOK(p) /\ CountOK(p)
  BY DEF FlowInv
<1>2. PlaceOK(p)'
  BY <1>1, UndoEffect, OrderFacts
  DEF PlaceOK, Judged, PlaceSteps, Steps, IsFinal, Verdicts, Standings,
      PlaceFrame, Kept, Waits, Goes, Ends
<1>3. RowOK(p)'
  BY <1>1, UndoEffect
  DEF PlaceOK, RowOK, Judged, IsFinal, PlaceFrame, Kept, Waits, Goes, Ends
<1>4. CountOK(p)'
  BY <1>1, UndoEffect, OrderFacts DEF CountOK, PlaceFrame, Kept
<1> QED
  BY <1>2, <1>3, <1>4, UndoEffect, PlaceFlow

LEMMA SendFlow ==
    ASSUME CallTypes, LocalTypes, FlowInv, NEW p \in OrderIds, Send(p)
    PROVE  FlowInv'
<1>1. PlaceOK(p) /\ RowOK(p) /\ CountOK(p)
  BY DEF FlowInv
<1>2. PlaceOK(p)'
  BY <1>1, SendEffect, OrderFacts
  DEF PlaceOK, Judged, PlaceSteps, Steps, IsFinal, Verdicts, Standings,
      PlaceFrame, Kept, Waits, Goes, Ends
<1>3. RowOK(p)'
  BY <1>1, SendEffect
  DEF PlaceOK, RowOK, Judged, IsFinal, PlaceFrame, Kept, Waits, Goes, Ends
<1>4. CountOK(p)'
  BY <1>1, SendEffect, OrderFacts DEF CountOK, PlaceFrame, Kept
<1> QED
  BY <1>2, <1>3, <1>4, SendEffect, PlaceFlow

LEMMA TakeReplyFlow ==
    ASSUME CallTypes, LocalTypes, FlowInv, NEW p \in OrderIds, TakeReply(p)
    PROVE  FlowInv'
<1>1. PlaceOK(p) /\ RowOK(p) /\ CountOK(p)
  BY DEF FlowInv
<1>2. PlaceOK(p)'
  BY <1>1, TakeReplyEffect, OrderFacts
  DEF PlaceOK, Judged, PlaceSteps, Steps, IsFinal, Verdicts, Standings,
      PlaceFrame, Kept, Waits, Goes, Ends
<1>3. RowOK(p)'
  BY <1>1, TakeReplyEffect
  DEF PlaceOK, RowOK, Judged, IsFinal, PlaceFrame, Kept, Waits, Goes, Ends
<1>4. CountOK(p)'
  BY <1>1, TakeReplyEffect, OrderFacts DEF CountOK, PlaceFrame, Kept
<1> QED
  BY <1>2, <1>3, <1>4, TakeReplyEffect, PlaceFlow

LEMMA GiveUpFlow ==
    ASSUME CallTypes, LocalTypes, FlowInv, NEW p \in OrderIds, GiveUp(p)
    PROVE  FlowInv'
<1>1. PlaceOK(p) /\ RowOK(p) /\ CountOK(p)
  BY DEF FlowInv
<1>2. PlaceOK(p)'
  BY <1>1, GiveUpEffect, OrderFacts
  DEF PlaceOK, Judged, PlaceSteps, Steps, IsFinal, Verdicts, Standings,
      PlaceFrame, Kept, Waits, Goes, Ends
<1>3. RowOK(p)'
  BY <1>1, GiveUpEffect
  DEF PlaceOK, RowOK, Judged, IsFinal, PlaceFrame, Kept, Waits, Goes, Ends
<1>4. CountOK(p)'
  BY <1>1, GiveUpEffect, OrderFacts DEF CountOK, PlaceFrame, Kept
<1> QED
  BY <1>2, <1>3, <1>4, GiveUpEffect, PlaceFlow

LEMMA CountFlow ==
    ASSUME CallTypes, LocalTypes, FlowInv, NEW p \in OrderIds, Count(p)
    PROVE  FlowInv'
<1>1. PlaceOK(p) /\ RowOK(p) /\ CountOK(p)
  BY DEF FlowInv
<1>2. PlaceOK(p)'
  BY <1>1, CountEffect, OrderFacts
  DEF PlaceOK, Judged, PlaceSteps, Steps, IsFinal, Verdicts, Standings,
      PlaceFrame, Kept, Waits, Goes, Ends
<1>3. RowOK(p)'
  BY <1>1, CountEffect
  DEF PlaceOK, RowOK, Judged, IsFinal, PlaceFrame, Kept, Waits, Goes, Ends
<1>4. CountOK(p)'
  BY <1>1, CountEffect, OrderFacts DEF CountOK, PlaceFrame, Kept
<1> QED
  BY <1>2, <1>3, <1>4, CountEffect, PlaceFlow

LEMMA JudgeFlow ==
    ASSUME CallTypes, LocalTypes, FlowInv, NEW p \in OrderIds, Judge(p)
    PROVE  FlowInv'
<1>1. PlaceOK(p) /\ RowOK(p) /\ CountOK(p)
  BY DEF FlowInv
<1>2. PlaceOK(p)'
  BY <1>1, JudgeEffect, OrderFacts
  DEF PlaceOK, Judged, PlaceSteps, Steps, IsFinal, Verdicts, Standings,
      PlaceFrame, Kept, Waits, Goes, Ends
<1>3. RowOK(p)'
  BY <1>1, JudgeEffect
  DEF PlaceOK, RowOK, Judged, IsFinal, PlaceFrame, Kept, Waits, Goes, Ends
<1>4. CountOK(p)'
  BY <1>1, JudgeEffect, OrderFacts DEF CountOK, PlaceFrame, Kept
<1> QED
  BY <1>2, <1>3, <1>4, JudgeEffect, PlaceFlow

LEMMA ReleaseFlow ==
    ASSUME CallTypes, LocalTypes, FlowInv, NEW p \in OrderIds, Release(p)
    PROVE  FlowInv'
<1>1. PlaceOK(p) /\ RowOK(p) /\ CountOK(p)
  BY DEF FlowInv
<1>2. PlaceOK(p)'
  BY <1>1, ReleaseEffect, OrderFacts
  DEF PlaceOK, Judged, PlaceSteps, Steps, IsFinal, Verdicts, Standings,
      PlaceFrame, Kept, Waits, Goes, Ends
<1>3. RowOK(p)'
  BY <1>1, ReleaseEffect
  DEF PlaceOK, RowOK, Judged, IsFinal, PlaceFrame, Kept, Waits, Goes, Ends
<1>4. CountOK(p)'
  BY <1>1, ReleaseEffect, OrderFacts DEF CountOK, PlaceFrame, Kept
<1> QED
  BY <1>2, <1>3, <1>4, ReleaseEffect, PlaceFlow

LEMMA SaveFlow ==
    ASSUME CallTypes, LocalTypes, FlowInv, NEW p \in OrderIds, Save(p)
    PROVE  FlowInv'
<1>1. PlaceOK(p) /\ RowOK(p) /\ CountOK(p)
  BY DEF FlowInv
<1>2. PlaceOK(p)'
  BY <1>1, SaveEffect, OrderFacts
  DEF PlaceOK, Judged, PlaceSteps, Steps, IsFinal, Verdicts, Standings,
      PlaceFrame, Kept, Waits, Goes, Ends
<1>3. \/ stored'[p] = stored[p]
      \/ stored'[p].status = verdict[p] /\ stored'[p].filled = counted[p]
  <2> DEFINE row == [status |-> verdict[p], filled |-> counted[p]]
  <2>1. row.status = verdict[p] /\ row.filled = counted[p]
    OBVIOUS
  <2>2. stored'[p] = stored[p] \/ stored'[p] = row
    BY SaveEffect
  <2> HIDE DEF row
  <2> QED
    BY <2>1, <2>2
<1>4. RowOK(p)'
  <2>1. pc[p] = "saving" /\ pc'[p] = "returned" /\ life' = life
    BY SaveEffect DEF PlaceFrame, Ends
  <2> QED
    BY <1>1, <1>3, <2>1 DEF PlaceOK, RowOK, Judged, IsFinal
<1>5. CountOK(p)'
  <2>1. counted'[p] = counted[p] /\ request' = request /\ snapshot' = snapshot
    BY SaveEffect DEF PlaceFrame
  <2> QED
    BY <1>1, <1>3, <2>1 DEF CountOK
<1> QED
  BY <1>2, <1>4, <1>5, SaveEffect, PlaceFlow

LEMMA RefundFlow ==
    ASSUME CallTypes, LocalTypes, FlowInv, NEW p \in OrderIds, Refund(p)
    PROVE  FlowInv'
<1>1. PlaceOK(p) /\ RowOK(p) /\ CountOK(p)
  BY DEF FlowInv
<1>2. PlaceOK(p)'
  BY <1>1, RefundEffect, OrderFacts
  DEF PlaceOK, Judged, PlaceSteps, Steps, IsFinal, Verdicts, Standings,
      PlaceFrame, Kept, Waits, Goes, Ends
<1>3. RowOK(p)'
  BY <1>1, RefundEffect
  DEF PlaceOK, RowOK, Judged, IsFinal, PlaceFrame, Kept, Waits, Goes, Ends
<1>4. CountOK(p)'
  BY <1>1, RefundEffect, OrderFacts DEF CountOK, PlaceFrame, Kept
<1> QED
  BY <1>2, <1>3, <1>4, RefundEffect, PlaceFlow

LEMMA RejectFlow ==
    ASSUME CallTypes, LocalTypes, FlowInv, NEW p \in OrderIds, Reject(p)
    PROVE  FlowInv'
<1>1. PlaceOK(p) /\ RowOK(p) /\ CountOK(p)
  BY DEF FlowInv
<1>2. PlaceOK(p)'
  BY <1>1, RejectEffect, OrderFacts
  DEF PlaceOK, Judged, PlaceSteps, Steps, IsFinal, Verdicts, Standings,
      PlaceFrame, Kept, Waits, Goes, Ends
<1>3. RowOK(p)'
  BY <1>1, RejectEffect
  DEF PlaceOK, RowOK, Judged, IsFinal, PlaceFrame, Kept, Waits, Goes, Ends
<1>4. CountOK(p)'
  BY <1>1, RejectEffect, OrderFacts DEF CountOK, PlaceFrame, Kept
<1> QED
  BY <1>2, <1>3, <1>4, RejectEffect, PlaceFlow

\* The same for a step of CancelOrder c.
LEMMA CancelFlow ==
    ASSUME CallTypes, LocalTypes, FlowInv, NEW c \in Cancels, CancelFrame(c), CancelOK(c)',
           \A q \in OrderIds : RowOK(q)' /\ CountOK(q)',
           \A d \in Cancels : Undisturbed(d)'
    PROVE  FlowInv'
<1>1. ASSUME NEW q \in OrderIds
      PROVE  (LifeOK(q) /\ PlaceOK(q))'
  <2>1. LifeOK(q)'
    BY DEF FlowInv, LifeOK, CancelFrame
  <2>2. Idle(q)
    BY TwoKinds DEF CancelFrame
  <2>3. PlaceOK(q)'
    BY <2>2 DEF FlowInv, PlaceOK, Judged, CancelFrame, Idle, Goes
  <2> QED
    BY <2>1, <2>3
<1>2. ASSUME NEW d \in Cancels, d # c
      PROVE  CancelOK(d)'
  <2>1. Idle(d) /\ Idle(Target[d])
    BY <1>2, TwoKinds DEF CancelFrame
  <2> QED
    BY <2>1 DEF FlowInv, CancelOK, TookOut, CancelFrame, Idle, Goes
<1> QED
  BY <1>1, <1>2 DEF FlowInv

\* A cancellation under way stays undisturbed while the orders table does not change.
LEMMA StaysUndisturbed ==
    ASSUME CallTypes, LocalTypes, FlowInv, NEW c \in Cancels, CancelFrame(c),
           UNCHANGED stored, NEW d \in Cancels,
           d = c => pc[c] \in {"asking", "waiting", "releasing", "saving"}
    PROVE  Undisturbed(d)'
<1>1. Undisturbed(d)
  BY DEF FlowInv
<1>2. pc'[d] \in {"asking", "waiting", "releasing", "saving"}
         => pc[d] \in {"asking", "waiting", "releasing", "saving"}
  BY TwoKinds DEF CancelFrame, Idle, Goes
<1>3. \A e \in Cancels : pc[e] = "returned" => pc'[e] = "returned"
  BY TwoKinds DEF CancelFrame, Idle, Goes
<1> QED
  BY <1>1, <1>2, <1>3 DEF Undisturbed, TookOut, CancelFrame

\* Rows and quantities stay right while neither rows nor snapshots change.
LEMMA RowsStay ==
    ASSUME CallTypes, LocalTypes, FlowInv, NEW c \in Cancels, CancelFrame(c),
           UNCHANGED stored, NEW q \in OrderIds
    PROVE  /\ RowOK(q)'
           /\ UNCHANGED snapshot => CountOK(q)'
<1>1. Idle(q)
  BY TwoKinds DEF CancelFrame
<1>2. RowOK(q) /\ CountOK(q)
  BY DEF FlowInv
<1> QED
  BY <1>1, <1>2 DEF RowOK, CountOK, CancelFrame, Idle, Goes

LEMMA GetByIDFlow ==
    ASSUME CallTypes, LocalTypes, FlowInv, NEW c \in Cancels, GetByID(c)
    PROVE  FlowInv'
<1>1. CancelFrame(c) /\ pc[c] = "new" /\ UNCHANGED <<stored, queue>>
  BY GetByIDEffect
<1> DEFINE p == Target[c]
<1>2. p \in OrderIds /\ p # c /\ p \in Calls /\ Idle(p)
  BY <1>1, TwoKinds DEF CancelFrame
<1>3. CancelOK(c) /\ PlaceOK(p) /\ RowOK(p) /\ CountOK(p)
  BY <1>2 DEF FlowInv
<1>4. pc[p] = "returned"
  BY <1>2, <1>3, GetByIDEffect DEF Known, PlaceOK, RowOK
<1>5. CancelOK(c)'
  BY <1>1, <1>2, <1>3, <1>4, GetByIDEffect
  DEF CancelOK, CancelSteps, TookOut, CancelFrame, Idle, Goes, Ends
<1>6. ASSUME NEW q \in OrderIds
      PROVE  RowOK(q)' /\ CountOK(q)'
  <2>1. RowOK(q)'
    BY <1>1, RowsStay
  <2>2. CountOK(q)
    BY DEF FlowInv
  <2>3. \A d \in Cancels : d # c => snapshot'[d] = snapshot[d]
    BY <1>1 DEF CancelFrame
  <2>4. snapshot'[c] = stored[p] \/ snapshot'[c] = snapshot[c]
    BY GetByIDEffect
  <2>5. \A d \in Cancels : Target[d] = q => snapshot'[d].filled <= request[q].qty
    BY <1>3, <2>2, <2>3, <2>4 DEF CountOK
  <2>6. CountOK(q)'
    BY <1>1, <2>2, <2>5 DEF CountOK, CancelFrame
  <2> QED
    BY <2>1, <2>6
<1>7. ASSUME NEW d \in Cancels
      PROVE  Undisturbed(d)'
  <2>1. CASE d # c
    BY <1>1, <2>1, StaysUndisturbed
  <2>2. CASE d = c
    <3>1. Ends(c, "error") \/ ~IsFinal(stored[p].status)
      BY GetByIDEffect DEF CanTransition, orderTransitions, IsFinal
    <3> QED
      BY <1>1, <2>2, <3>1 DEF Undisturbed, Ends
  <2> QED
    BY <2>1, <2>2
<1> QED
  BY <1>1, <1>5, <1>6, <1>7, CancelFlow

LEMMA AskEngineFlow ==
    ASSUME CallTypes, LocalTypes, FlowInv, NEW c \in Cancels, AskEngine(c)
    PROVE  FlowInv'
<1>1. /\ CancelFrame(c) /\ UNCHANGED <<stored, snapshot>>
      /\ pc[c] \in {"asking", "waiting", "releasing", "saving"}
  BY AskEngineEffect
<1>2. CancelOK(c) /\ Target[c] \in Calls \ {c}
  BY TwoKinds DEF FlowInv
<1>3. CancelOK(c)'
  BY <1>1, <1>2, AskEngineEffect
  DEF CancelOK, CancelSteps, TookOut, CancelFrame, Idle, Goes, Ends
<1> QED
  BY <1>1, <1>3, RowsStay, StaysUndisturbed, CancelFlow

LEMMA TakeCancelReplyFlow ==
    ASSUME CallTypes, LocalTypes, FlowInv, NEW c \in Cancels, TakeCancelReply(c)
    PROVE  FlowInv'
<1>1. /\ CancelFrame(c) /\ UNCHANGED <<stored, snapshot>>
      /\ pc[c] \in {"asking", "waiting", "releasing", "saving"}
  BY TakeCancelReplyEffect
<1>2. CancelOK(c) /\ Target[c] \in Calls \ {c}
  BY TwoKinds DEF FlowInv
<1>3. CancelOK(c)'
  BY <1>1, <1>2, TakeCancelReplyEffect
  DEF CancelOK, CancelSteps, TookOut, CancelFrame, Idle, Goes, Ends
<1> QED
  BY <1>1, <1>3, RowsStay, StaysUndisturbed, CancelFlow

LEMMA UnfreezeCancelOrderFlow ==
    ASSUME CallTypes, LocalTypes, FlowInv, NEW c \in Cancels, UnfreezeCancelOrder(c)
    PROVE  FlowInv'
<1>1. /\ CancelFrame(c) /\ UNCHANGED <<stored, snapshot>>
      /\ pc[c] \in {"asking", "waiting", "releasing", "saving"}
  BY UnfreezeCancelOrderEffect
<1>2. CancelOK(c) /\ Target[c] \in Calls \ {c}
  BY TwoKinds DEF FlowInv
<1>3. CancelOK(c)'
  BY <1>1, <1>2, UnfreezeCancelOrderEffect
  DEF CancelOK, CancelSteps, TookOut, CancelFrame, Idle, Goes, Ends
<1> QED
  BY <1>1, <1>3, RowsStay, StaysUndisturbed, CancelFlow

LEMMA SaveCancelledFlow ==
    ASSUME CallTypes, LocalTypes, FlowInv, NEW c \in Cancels, SaveCancelled(c)
    PROVE  FlowInv'
<1>1. /\ CancelFrame(c) /\ UNCHANGED snapshot
      /\ pc[c] = "saving" /\ pc'[c] = "returned"
  BY SaveCancelledEffect DEF Ends
<1> DEFINE p == Target[c]
<1>2. CancelOK(c) /\ p \in Calls \ {c} /\ p \in OrderIds
  BY TwoKinds DEF FlowInv
<1>3. CancelOK(c)'
  BY <1>1, <1>2, SaveCancelledEffect
  DEF CancelOK, CancelSteps, TookOut, CancelFrame, Idle, Goes, Ends
<1>4. CASE UNCHANGED stored
  BY <1>1, <1>3, <1>4, RowsStay, StaysUndisturbed, CancelFlow
<1>5. CASE stored'[p] = [status |-> "cancelled", filled |-> 0]
  <2>1. stored'[p].status = "cancelled" /\ stored'[p].filled = 0
    BY <1>5
  <2>2. ASSUME NEW q \in OrderIds
        PROVE  RowOK(q)' /\ CountOK(q)'
    <3>1. RowOK(q) /\ CountOK(q) /\ Idle(q) /\ (q # p => stored'[q] = stored[q])
      BY <1>1, TwoKinds DEF FlowInv, CancelFrame
    <3>2. reply[c] = 1 /\ life[p].status = "cancelled" /\ pc[p] = "returned"
      BY <1>1, <1>2 DEF CancelOK
    <3>3. RowOK(q)'
      BY <1>1, <2>1, <3>1, <3>2 DEF RowOK, CancelFrame, Idle, Goes
    <3>4. request[q].qty \in Nat
      BY OrderFacts
    <3>5. CountOK(q)'
      BY <1>1, <2>1, <3>1, <3>4 DEF CountOK, CancelFrame
    <3> QED
      BY <3>3, <3>5
  <2>3. ASSUME NEW d \in Cancels
        PROVE  Undisturbed(d)'
    <3>1. reply'[c] = 1
      BY <1>1, <1>2 DEF CancelOK, CancelFrame
    <3>2. CASE Target[d] = p
      BY <1>1, <3>1, <3>2 DEF Undisturbed, TookOut
    <3>3. CASE Target[d] # p
      <4>1. stored'[Target[d]] = stored[Target[d]] /\ d # c /\ Idle(d) /\ Undisturbed(d)
        BY <1>1, <3>3, TwoKinds DEF CancelFrame, FlowInv
      <4>2. \A e \in Cancels : pc[e] = "returned" => pc'[e] = "returned"
        BY <1>1, TwoKinds DEF CancelFrame, Idle, Goes
      <4> QED
        BY <1>1, <4>1, <4>2 DEF Undisturbed, TookOut, CancelFrame, Idle, Goes
    <3> QED
      BY <3>2, <3>3
  <2> QED
    BY <1>1, <1>3, <2>2, <2>3, CancelFlow
<1> QED
  BY <1>4, <1>5, SaveCancelledEffect
LEMMA EngineAnswersFlow ==
    ASSUME CallTypes, LocalTypes, FlowInv, NEW p \in OrderIds, EngineAnswers(p)
    PROVE  FlowInv' /\ reply'[p] \in Nat
<1>1. /\ EngineFrame /\ Serves(p) /\ Alone(p)
      /\ p \in queue /\ p \notin queue' /\ life[p].status = "none"
  BY EngineAnswersEffect
<1>2. request[p] \in Requests
  BY DEF LocalTypes
<1>3. /\ OrderOK(life'[p], request[p])
      /\ life'[p].status \in Standings /\ life'[p].filled \in Nat
  BY <1>2, EngineAnswersEffect, AnswerOK
<1>4. /\ life'[p].status # "none"
      /\ life'[p].status = "filled" <=> life'[p].filled = request[p].qty
  <2>1. life'[p].status # "none"
    BY <1>3 DEF Standings
  <2> QED
    BY <1>2, <1>3, <2>1, OrderFields
<1>5. reply'[p] = life'[p].filled
  BY EngineAnswersEffect
<1>6. PlaceOK(p) /\ RowOK(p) /\ CountOK(p)
  BY DEF FlowInv
<1>7. PlaceOK(p)'
  <2>1. ~Judged(p) /\ pc[p] \notin {"counting", "judging"}
    BY <1>1, <1>6 DEF PlaceOK
  <2> QED
    BY <1>1, <1>3, <1>4, <1>5, <1>6, <2>1 DEF PlaceOK, Judged, EngineFrame, locals
<1>8. RowOK(p)'
  BY <1>1, <1>6 DEF RowOK, EngineFrame, IsFinal
<1>9. ASSUME NEW q \in OrderIds
      PROVE  (LifeOK(q) /\ PlaceOK(q) /\ RowOK(q) /\ CountOK(q))'
  <2>1. LifeOK(q) /\ PlaceOK(q) /\ RowOK(q) /\ CountOK(q)
    BY DEF FlowInv
  <2>2. CountOK(q)'
    BY <1>1, <2>1 DEF CountOK, EngineFrame, locals
  <2>3. CASE q = p
    <3>1. LifeOK(p)'
      BY <1>1, <1>3 DEF LifeOK, EngineFrame, locals
    <3> QED
      BY <1>7, <1>8, <2>2, <2>3, <3>1
  <2>4. CASE q # p
    <3>1. life'[q] = life[q] /\ reply'[q] = reply[q] /\ (q \in queue' <=> q \in queue)
      BY <1>1, <2>4, TwoKinds DEF Serves, Alone
    <3> QED
      BY <1>1, <2>1, <2>2, <3>1
      DEF LifeOK, PlaceOK, RowOK, Judged, EngineFrame, locals
  <2> QED
    BY <2>3, <2>4
<1>10. ASSUME NEW c \in Cancels
       PROVE  CancelOK(c)' /\ Undisturbed(c)'
  <2>1. \A d \in Cancels : reply'[d] = reply[d] /\ (d \in queue' <=> d \in queue)
    BY <1>1, TwoKinds DEF Serves
  <2>2. reply[c] = 1 => life'[Target[c]] = life[Target[c]]
    BY <1>1, TwoKinds DEF FlowInv, CancelOK, Alone
  <2> QED
    BY <1>1, <2>1, <2>2 DEF FlowInv, CancelOK, Undisturbed, TookOut, EngineFrame
<1> QED
  BY <1>3, <1>5, <1>9, <1>10 DEF FlowInv

\* An order in the book is no longer queued, and nothing final is said of it.
LEMMA OpenOrder ==
    ASSUME CallTypes, FlowInv, NEW p \in OrderIds, life[p].status = "open"
    PROVE  /\ p \notin queue /\ reply[p] # -1
           /\ reply[p] # request[p].qty
           /\ pc[p] \notin {"new", "sizing", "freezing", "creating", "undoing", "sending"}
           /\ pc[p] \in {"refunding", "rejecting"} => expired[p]
           /\ Judged(p) => ~IsFinal(verdict[p])
           /\ ~IsFinal(stored[p].status)
           /\ \A c \in Cancels : Target[c] = p => reply[c] # 1
<1>1. PlaceOK(p) /\ RowOK(p)
  BY DEF FlowInv
<1>2. \A c \in Cancels : Target[c] = p => reply[c] # 1
  BY DEF FlowInv, CancelOK
<1> QED
  BY <1>1, <1>2 DEF PlaceOK, RowOK, IsFinal

\* The invariant survives a step of the engine on an order in the book.
LEMMA BookFlow ==
    ASSUME CallTypes, LocalTypes, FlowInv, NEW p \in OrderIds, life[p].status = "open",
           EngineFrame, Alone(p),
           \A q \in OrderIds : reply'[q] = reply[q] /\ (q \in queue' <=> q \in queue),
           OrderOK(life'[p], request[p]), life'[p].status # "none"
    PROVE  \A q \in OrderIds : (LifeOK(q) /\ PlaceOK(q) /\ RowOK(q) /\ CountOK(q))'
<1> SUFFICES ASSUME NEW q \in OrderIds
             PROVE  (LifeOK(q) /\ PlaceOK(q) /\ RowOK(q) /\ CountOK(q))'
  OBVIOUS
<1>1. LifeOK(q) /\ PlaceOK(q) /\ RowOK(q) /\ CountOK(q)
  BY DEF FlowInv
<1>2. CountOK(q)'
  BY <1>1 DEF CountOK, EngineFrame, locals
<1>3. CASE q # p
  BY <1>1, <1>2, <1>3 DEF Alone, LifeOK, PlaceOK, RowOK, Judged, EngineFrame, locals
<1>4. CASE q = p
  <2>1. LifeOK(p)'
    BY DEF LifeOK, EngineFrame, locals
  <2>2. PlaceOK(p)'
    BY <1>1, <1>4, OpenOrder DEF PlaceOK, Judged, EngineFrame, locals
  <2>3. RowOK(p)'
    BY <1>1, <1>4, OpenOrder DEF RowOK, EngineFrame
  <2> QED
    BY <1>2, <1>4, <2>1, <2>2, <2>3
<1> QED
  BY <1>3, <1>4

LEMMA EngineTradesFlow ==
    ASSUME CallTypes, LocalTypes, FlowInv, NEW p \in OrderIds, EngineTrades(p)
    PROVE  /\ FlowInv'
           /\ life'[p].status \in {"open", "filled"} /\ life'[p].filled >= life[p].filled
           /\ life'[p].qty = life[p].qty /\ life'[p].filled \in Nat
<1>1. /\ EngineFrame /\ Alone(p) /\ UNCHANGED <<queue, reply>> /\ life[p].status = "open"
  BY EngineTradesEffect
<1>2. request[p] \in Requests /\ OrderOK(life[p], request[p])
  BY DEF LocalTypes, FlowInv, LifeOK
<1>3. /\ OrderOK(life'[p], request[p])
      /\ life'[p].status \in {"open", "filled"} /\ life'[p].filled >= life[p].filled
      /\ life'[p].qty = life[p].qty /\ life'[p].filled \in Nat
  <2> DEFINE o == life[p]
             new == life'[p]
  <2>1. PICK q \in 1 .. o.qty - o.filled : new = Traded(o, q)
    BY EngineTradesEffect
  <2>2. OrderOK(o, request[p]) /\ o.status = "open"
    BY <1>1, <1>2
  <2> HIDE DEF o, new
  <2>3. /\ OrderOK(new, request[p])
        /\ new.status \in {"open", "filled"} /\ new.filled >= o.filled
        /\ new.filled \in Nat /\ new.qty = o.qty
    BY <1>2, <2>1, <2>2, TradeOK
  <2> QED
    BY <2>3 DEF o, new
<1>4. \A q \in OrderIds : (LifeOK(q) /\ PlaceOK(q) /\ RowOK(q) /\ CountOK(q))'
  BY <1>1, <1>3, BookFlow
<1>5. ASSUME NEW c \in Cancels
      PROVE  CancelOK(c)' /\ Undisturbed(c)'
  <2>1. reply[c] = 1 => life'[Target[c]] = life[Target[c]]
    BY <1>1, OpenOrder, TwoKinds DEF Alone
  <2> QED
    BY <1>1, <2>1 DEF FlowInv, CancelOK, Undisturbed, TookOut, EngineFrame
<1> QED
  BY <1>3, <1>4, <1>5 DEF FlowInv

LEMMA EngineCancelsFlow ==
    ASSUME CallTypes, LocalTypes, FlowInv, NEW c \in Cancels, EngineCancels(c)
    PROVE  /\ FlowInv'
           /\ life'[Target[c]].filled = life[Target[c]].filled
           /\ reply'[c] = 1 => life'[Target[c]].status = "cancelled"
<1> DEFINE p == Target[c]
<1>1. /\ EngineFrame /\ Serves(c) /\ Alone(p) /\ c \in queue /\ c \notin queue'
      /\ p \in OrderIds
  BY EngineCancelsEffect, TwoKinds
<1>2. CancelOK(c) /\ reply[c] = -1 /\ pc[c] \notin {"new", "asking", "releasing", "saving"}
  BY <1>1 DEF FlowInv, CancelOK
<1>3. \A q \in OrderIds : reply'[q] = reply[q] /\ (q \in queue' <=> q \in queue)
  BY <1>1, TwoKinds DEF Serves
<1>4. \A d \in Cancels : d # c => reply'[d] = reply[d] /\ (d \in queue' <=> d \in queue)
  BY <1>1, TwoKinds DEF Serves
<1>5. ASSUME NEW d \in Cancels
      PROVE  Undisturbed(d)'
  <2>1. \A e \in Cancels : reply[e] = 1 => reply'[e] = 1
    BY <1>2, <1>4
  <2> QED
    BY <1>1, <2>1 DEF FlowInv, Undisturbed, TookOut, EngineFrame
<1>6. CASE UNCHANGED life /\ reply'[c] = 0
  <2>1. ASSUME NEW q \in OrderIds
        PROVE  (LifeOK(q) /\ PlaceOK(q) /\ RowOK(q) /\ CountOK(q))'
    BY <1>1, <1>3, <1>6
    DEF FlowInv, LifeOK, PlaceOK, RowOK, CountOK, Judged, EngineFrame, locals
  <2>2. ASSUME NEW d \in Cancels
        PROVE  CancelOK(d)'
    <3>1. CancelOK(d) /\ CancelOK(c)
      BY DEF FlowInv
    <3>2. CASE d = c
      BY <1>1, <1>2, <1>6, <3>1, <3>2 DEF CancelOK, TookOut, EngineFrame
    <3>3. CASE d # c
      BY <1>1, <1>4, <1>6, <3>1, <3>3 DEF CancelOK, TookOut, EngineFrame
    <3> QED
      BY <3>2, <3>3
  <2> QED
    BY <1>5, <1>6, <2>1, <2>2 DEF FlowInv
<1>7. CASE /\ life[p].status = "open" /\ reply'[c] = 1
           /\ life'[p] = [life[p] EXCEPT !.status = "cancelled"]
  <2>1. request[p] \in Requests /\ OrderOK(life[p], request[p])
    BY <1>1 DEF LocalTypes, FlowInv, LifeOK
  <2>2. /\ OrderOK(life'[p], request[p])
        /\ life'[p].status = "cancelled" /\ life'[p].filled = life[p].filled
    BY <1>7, <2>1, WithdrawOK
  <2>3. \A q \in OrderIds : (LifeOK(q) /\ PlaceOK(q) /\ RowOK(q) /\ CountOK(q))'
    BY <1>1, <1>3, <1>7, <2>2, BookFlow
  <2>4. \A d \in Cancels : Target[d] = p => reply[d] # 1
    BY <1>1, <1>7, OpenOrder
  <2>5. ASSUME NEW d \in Cancels
        PROVE  CancelOK(d)'
    <3>1. CancelOK(d) /\ \A e \in Cancels : reply'[e] = 1 /\ e # c => Target[e] # p
      BY <1>4, <2>4 DEF FlowInv
    <3>2. CASE d = c
      BY <1>1, <1>2, <1>7, <2>2, <3>1, <3>2 DEF CancelOK, TookOut, EngineFrame
    <3>3. CASE d # c
      <4>1. reply[d] = 1 => life'[Target[d]] = life[Target[d]]
        BY <1>1, <2>4, TwoKinds DEF Alone
      <4>2. \A e \in Cancels : TookOut(d, Target[e])' /\ reply'[e] = 1 => d = e
        <5>1. SUFFICES ASSUME NEW e \in Cancels, Target[d] = Target[e], reply'[d] = 1,
                              reply'[e] = 1
                       PROVE  d = e
          BY DEF TookOut
        <5>2. e # c /\ reply[e] = 1 /\ reply[d] = 1
          BY <1>4, <3>1, <3>3, <5>1
        <5> QED
          BY <3>1, <5>1, <5>2 DEF CancelOK, TookOut
      <4>3. reply'[d] = reply[d] /\ (d \in queue' <=> d \in queue) /\ pc' = pc
        BY <1>1, <1>4, <3>3 DEF EngineFrame
      <4> QED
        BY <3>1, <4>1, <4>2, <4>3 DEF CancelOK
    <3> QED
      BY <3>2, <3>3
  <2> QED
    BY <1>5, <2>2, <2>3, <2>5 DEF FlowInv
<1> QED
  BY <1>6, <1>7, EngineCancelsEffect

LEMMA ExpireFlow ==
    ASSUME CallTypes, FlowInv, NEW c \in Calls, Expire(c)
    PROVE  FlowInv'
<1>1. /\ UNCHANGED <<stored, engine, pc, locals, result>>
      /\ \A d \in Calls : expired[d] => expired'[d]
  BY ExpireEffect
<1>2. ASSUME NEW q \in OrderIds
      PROVE  (LifeOK(q) /\ PlaceOK(q) /\ RowOK(q) /\ CountOK(q))'
  BY <1>1, TwoKinds DEF FlowInv, LifeOK, PlaceOK, RowOK, CountOK, Judged, engine, locals
<1>3. ASSUME NEW d \in Cancels
      PROVE  (CancelOK(d) /\ Undisturbed(d))'
  BY <1>1 DEF FlowInv, CancelOK, Undisturbed, TookOut, engine, locals
<1> QED
  BY <1>2, <1>3 DEF FlowInv
(***************************************************************************)
(* Funds.                                                                  *)
(***************************************************************************)
\* A step leaves the accounts alone, or moves money within one of them.
FundsMove ==
    \/ UNCHANGED funds
    \/ \E p \in OrderIds : \E x \in Int :
          Move(p, x) /\ x <= balance[Own(p)] /\ -x <= frozen[Own(p)]

\* What PlaceOrder releases, and what CancelOrder does.
LEMMA ReleasesNatural ==
    ASSUME CallTypes, LocalTypes, FlowInv
    PROVE  /\ \A p \in OrderIds : Releasable(p) \in Nat
           /\ \A c \in Cancels : Unfilled(c) \in Nat
<1>1. ASSUME NEW p \in OrderIds
      PROVE  Releasable(p) \in Nat
  <2>1. amount[p] \in Nat /\ Cost(request[p], counted[p]) \in Nat
    BY CostNatural DEF LocalTypes
  <2> QED
    BY <2>1 DEF Releasable
<1>2. ASSUME NEW c \in Cancels
      PROVE  Unfilled(c) \in Nat
  <2> DEFINE req == request[Target[c]]
  <2>1. Target[c] \in OrderIds
    BY TwoKinds
  <2>2. req \in Requests /\ req.qty \in Nat /\ snapshot[c].filled \in Nat
    BY <2>1, OrderServiceAssumption DEF LocalTypes, Row
  <2>3. snapshot[c].filled <= req.qty
    BY <2>1 DEF FlowInv, CountOK
  <2>4. /\ Cost(req, req.qty) \in Nat /\ Cost(req, snapshot[c].filled) \in Nat
        /\ Cost(req, snapshot[c].filled) <= Cost(req, req.qty)
    BY <2>2, <2>3, CostNatural, CostMonotone
  <2>5. Cost(req, req.qty) - Cost(req, snapshot[c].filled) \in Nat
    BY <2>4
  <2> QED
    BY <2>5 DEF Unfilled
<1> QED
  BY <1>1, <1>2

LEMMA UnfreezeMoves ==
    ASSUME FundTypes, NEW c, NEW p \in OrderIds, NEW x \in Nat, Unfreeze(c, p, x)
    PROVE  FundsMove
<1>1. CASE UNCHANGED funds
  BY <1>1 DEF FundsMove
<1>2. CASE frozen[Own(p)] >= x /\ Move(p, -x)
  <2>1. balance[Own(p)] \in Nat /\ frozen[Own(p)] \in Nat
    BY OwnAccount DEF FundTypes
  <2>2. -x \in Int /\ -x <= balance[Own(p)] /\ -(-x) <= frozen[Own(p)]
    BY <1>2, <2>1
  <2> QED
    BY <1>2, <2>2 DEF FundsMove
<1> QED
  BY <1>1, <1>2 DEF Unfreeze

LEMMA FreezeMoves ==
    ASSUME FundTypes, LocalTypes, NEW p \in OrderIds, balance[Own(p)] >= amount[p],
           Move(p, amount[p])
    PROVE  FundsMove
<1>1. balance[Own(p)] \in Nat /\ frozen[Own(p)] \in Nat /\ amount[p] \in Nat
  BY OwnAccount DEF FundTypes, LocalTypes
<1>2. amount[p] \in Int /\ amount[p] <= balance[Own(p)] /\ -amount[p] <= frozen[Own(p)]
  BY <1>1
<1> QED
  BY <1>2 DEF FundsMove

LEMMA PlaceMoves ==
    ASSUME FundTypes, CallTypes, LocalTypes, FlowInv, NEW p \in OrderIds, Place(p)
    PROVE  FundsMove
<1>1. \/ UNCHANGED funds
      \/ Unfreeze(p, p, amount[p])
      \/ Unfreeze(p, p, Releasable(p))
      \/ balance[Own(p)] >= amount[p] /\ Move(p, amount[p])
  BY DEF Place, Validate, Size, Freeze, Create, Undo, Send, TakeReply, GiveUp, Count,
         Judge, Release, Save, Refund, Reject
<1>2. amount[p] \in Nat /\ Releasable(p) \in Nat
  BY ReleasesNatural DEF LocalTypes
<1> QED
  BY <1>1, <1>2, UnfreezeMoves, FreezeMoves DEF FundsMove

LEMMA CancelMoves ==
    ASSUME FundTypes, CallTypes, LocalTypes, FlowInv, NEW c \in Cancels, Cancel(c)
    PROVE  FundsMove
<1>1. UNCHANGED funds \/ Unfreeze(c, Target[c], Unfilled(c))
  BY DEF Cancel, GetByID, AskEngine, TakeCancelReply, UnfreezeCancelOrder, SaveCancelled
<1> QED
  BY <1>1, ReleasesNatural, UnfreezeMoves, TwoKinds DEF FundsMove

LEMMA StepMoves ==
    ASSUME FundTypes, CallTypes, LocalTypes, FlowInv, [Next]_vars
    PROVE  FundsMove
<1>1. ASSUME NEW p \in OrderIds, EngineAnswers(p) \/ EngineTrades(p)
      PROVE  UNCHANGED funds
  BY <1>1 DEF EngineAnswers, EngineTrades
<1>2. ASSUME NEW c \in Cancels, EngineCancels(c)
      PROVE  UNCHANGED funds
  BY <1>2 DEF EngineCancels
<1>3. ASSUME NEW c \in Calls, Expire(c)
      PROVE  UNCHANGED funds
  BY <1>3 DEF Expire
<1>4. CASE UNCHANGED vars
  BY <1>4 DEF vars, FundsMove
<1> QED
  BY <1>1, <1>2, <1>3, <1>4, PlaceMoves, CancelMoves DEF Next, FundsMove

\* Money that moves within an account stays natural, and leaves the others alone.
LEMMA MoveEffect ==
    ASSUME FundTypes, NEW p \in OrderIds, NEW x \in Int, Move(p, x)
    PROVE  /\ balance'[Own(p)] = balance[Own(p)] - x
           /\ frozen'[Own(p)] = frozen[Own(p)] + x
           /\ held'[p] = held[p] + x
           /\ \A a \in Accounts : a # Own(p) => balance'[a] = balance[a] /\ frozen'[a] = frozen[a]
           /\ \A q \in OrderIds : q # p => held'[q] = held[q]
BY OwnAccount DEF Move, FundTypes

LEMMA FundTypesStep ==
    ASSUME FundTypes, FundsMove
    PROVE  FundTypes'
<1>1. CASE UNCHANGED funds
  BY <1>1 DEF funds, FundTypes
<1>2. ASSUME NEW p \in OrderIds, NEW x \in Int,
             Move(p, x), x <= balance[Own(p)], -x <= frozen[Own(p)]
      PROVE  FundTypes'
  <2> DEFINE a == Own(p)
             b == balance[a] - x
             f == frozen[a] + x
             h == held[p] + x
  <2>1. a \in Accounts /\ balance[a] \in Nat /\ frozen[a] \in Nat /\ held[p] \in Int
    BY OwnAccount DEF FundTypes
  <2>2. b \in Nat /\ f \in Nat /\ h \in Int
    <3> DEFINE ba == balance[a]
               fa == frozen[a]
    <3>1. ba \in Nat /\ fa \in Nat /\ x <= ba /\ -x <= fa /\ held[p] \in Int
      BY <1>2, <2>1
    <3> HIDE DEF ba, fa, a
    <3>2. ba - x \in Nat /\ fa + x \in Nat /\ held[p] + x \in Int
      BY <3>1
    <3> QED
      BY <3>2 DEF ba, fa
  <2>3. /\ balance' = [balance EXCEPT ![a] = b]
        /\ frozen' = [frozen EXCEPT ![a] = f]
        /\ held' = [held EXCEPT ![p] = h]
    BY <1>2 DEF Move
  <2> HIDE DEF a, b, f, h
  <2> QED
    BY <2>1, <2>2, <2>3 DEF FundTypes
<1> QED
  BY <1>1, <1>2 DEF FundsMove
(***************************************************************************)
(* The invariant of the control flow.                                      *)
(***************************************************************************)
LEMMA EngineCallTypes ==
    ASSUME CallTypes, LocalTypes, FlowInv
    PROVE  /\ \A p \in OrderIds : EngineAnswers(p) \/ EngineTrades(p) => CallTypes'
           /\ \A c \in Cancels : EngineCancels(c) => CallTypes'
<1>1. ASSUME NEW p \in OrderIds, EngineAnswers(p)
      PROVE  CallTypes'
  <2>1. reply' \in [Calls -> Nat \cup {-1}]
    <3>1. reply'[p] \in Nat
      BY <1>1, EngineAnswersFlow
    <3> QED
      BY <1>1, <3>1, TwoKinds DEF EngineAnswers, CallTypes
  <2>2. life' = [q \in OrderIds |-> life'[q]]
    BY <1>1 DEF EngineAnswers, CallTypes, Engine!Answer
  <2> QED
    BY <1>1, <2>1, <2>2 DEF EngineAnswers, CallTypes
<1>2. ASSUME NEW p \in OrderIds, EngineTrades(p)
      PROVE  CallTypes'
  <2>1. life' = [q \in OrderIds |-> life'[q]]
    <3>1. PICK o : life' = [life EXCEPT ![p] = o]
      BY <1>2 DEF EngineTrades, Engine!TradeAsMaker
    <3> QED
      BY <3>1 DEF CallTypes
  <2> QED
    BY <1>2, <2>1 DEF EngineTrades, CallTypes
<1>3. ASSUME NEW c \in Cancels, EngineCancels(c)
      PROVE  CallTypes'
  <2>1. life' = [q \in OrderIds |-> life'[q]]
    BY <1>3 DEF EngineCancels, CallTypes, Engine!Withdraw
  <2>2. reply' \in [Calls -> Nat \cup {-1}] /\ queue' \subseteq Calls
    BY <1>3, TwoKinds DEF EngineCancels, CallTypes
  <2> QED
    BY <1>3, <2>1, <2>2 DEF EngineCancels, CallTypes
<1> QED
  BY <1>1, <1>2, <1>3

\* What holds of calls, orders and rows in every state.
CallInv == FundTypes /\ CallTypes /\ LocalTypes /\ FlowInv

LEMMA FlowInit == Init => FlowInv
<1> SUFFICES ASSUME Init PROVE FlowInv
  OBVIOUS
<1>1. ASSUME NEW p \in OrderIds
      PROVE  LifeOK(p) /\ PlaceOK(p) /\ RowOK(p) /\ CountOK(p)
  <2>1. request[p] \in Requests /\ request[p].qty \in Nat /\ request[p].qty > 0
    BY OrderServiceAssumption DEF Init
  <2>2. /\ pc[p] = "new" /\ result[p] = "none" /\ reply[p] = -1 /\ queue = {}
        /\ life[p] = Engine!Unknown /\ life[p].status = "none"
        /\ stored[p].status = "none" /\ stored[p].filled = 0 /\ counted[p] = 0
        /\ \A c \in Cancels : snapshot[c].filled = 0
    BY TwoKinds DEF Init, Engine!Init, Engine!Unknown
  <2>3. LifeOK(p)
    BY <2>2 DEF LifeOK, OrderOK
  <2>4. PlaceOK(p)
    BY <2>1, <2>2 DEF PlaceOK, Judged, PlaceSteps, Steps
  <2>5. RowOK(p) /\ CountOK(p)
    BY <2>1, <2>2 DEF RowOK, CountOK, IsFinal
  <2> QED
    BY <2>3, <2>4, <2>5
<1>2. ASSUME NEW c \in Cancels
      PROVE  CancelOK(c) /\ Undisturbed(c)
  BY TwoKinds DEF Init, CancelOK, CancelSteps, Undisturbed, TookOut
<1> QED
  BY <1>1, <1>2 DEF FlowInv

LEMMA CallInvInit == Init => CallInv
BY FundTypesInit, CallTypesInit, LocalTypesInit, FlowInit DEF CallInv

LEMMA CallInvStep == CallInv /\ [Next]_vars => CallInv'
<1> SUFFICES ASSUME CallInv, [Next]_vars
             PROVE  CallInv'
  OBVIOUS
<1> USE DEF CallInv
<1>1. FundTypes'
  BY StepMoves, FundTypesStep
<1>2. ASSUME NEW p \in OrderIds, Place(p)
      PROVE  (CallTypes /\ LocalTypes /\ FlowInv)'
  <2>1. life[p].filled \in Nat /\ life[p].status \in Statuses \cup {"none"}
    BY OrderFacts DEF Statuses, Standings
  <2>2. CallTypes' /\ LocalTypes'
    BY <1>2, <2>1, PlaceCallTypes, PlaceLocalTypes
  <2>3. FlowInv'
    BY <1>2, ValidateFlow, SizeFlow, FreezeFlow, CreateFlow, UndoFlow, SendFlow,
       TakeReplyFlow, GiveUpFlow, CountFlow, JudgeFlow, ReleaseFlow, SaveFlow, RefundFlow,
       RejectFlow
    DEF Place
  <2> QED
    BY <2>2, <2>3
<1>3. ASSUME NEW c \in Cancels, Cancel(c)
      PROVE  (CallTypes /\ LocalTypes /\ FlowInv)'
  BY <1>3, CancelCallTypes, CancelLocalTypes, GetByIDFlow, AskEngineFlow,
     TakeCancelReplyFlow, UnfreezeCancelOrderFlow, SaveCancelledFlow
  DEF Cancel
<1>4. ASSUME NEW p \in OrderIds, EngineAnswers(p) \/ EngineTrades(p)
      PROVE  (CallTypes /\ LocalTypes /\ FlowInv)'
  <2>1. UNCHANGED <<stored, locals>>
    BY <1>4 DEF EngineAnswers, EngineTrades
  <2>2. LocalTypes'
    BY <2>1 DEF LocalTypes, locals
  <2> QED
    BY <1>4, <2>2, EngineCallTypes, EngineAnswersFlow, EngineTradesFlow
<1>5. ASSUME NEW c \in Cancels, EngineCancels(c)
      PROVE  (CallTypes /\ LocalTypes /\ FlowInv)'
  <2>1. UNCHANGED <<stored, locals>>
    BY <1>5 DEF EngineCancels
  <2>2. LocalTypes'
    BY <2>1 DEF LocalTypes, locals
  <2> QED
    BY <1>5, <2>2, EngineCallTypes, EngineCancelsFlow
<1>6. ASSUME NEW c \in Calls, Expire(c)
      PROVE  (CallTypes /\ LocalTypes /\ FlowInv)'
  <2>1. CallTypes' /\ LocalTypes'
    BY <1>6 DEF Expire, CallTypes, LocalTypes, engine, locals
  <2> QED
    BY <1>6, <2>1, ExpireFlow
<1>7. CASE UNCHANGED vars
  <2>1. CallTypes' /\ LocalTypes'
    BY <1>7 DEF vars, CallTypes, LocalTypes, engine, locals
  <2>2. ASSUME NEW q \in OrderIds
        PROVE  (LifeOK(q) /\ PlaceOK(q) /\ RowOK(q) /\ CountOK(q))'
    BY <1>7 DEF FlowInv, LifeOK, PlaceOK, RowOK, CountOK, Judged, vars, engine, locals
  <2>3. ASSUME NEW d \in Cancels
        PROVE  (CancelOK(d) /\ Undisturbed(d))'
    BY <1>7 DEF FlowInv, CancelOK, Undisturbed, TookOut, vars, engine, locals
  <2>4. FlowInv'
    BY <2>2, <2>3 DEF FlowInv
  <2> QED
    BY <1>1, <2>1, <2>4
<1> QED
  BY <1>1, <1>2, <1>3, <1>4, <1>5, <1>6, <1>7 DEF Next

\* Wherever calls, the engine and ending contexts leave each other, the calls, the
\* orders and the rows agree as FlowInv says.
THEOREM CallInvariant == Spec => []CallInv
BY CallInvInit, CallInvStep, PTL DEF Spec

\* Every variable keeps its type: no balance, no frozen sum is ever negative.
THEOREM OrderServiceTypes == Spec => []TypeOK
<1>1. ASSUME CallInv
      PROVE  TypeOK
  <2>1. ASSUME NEW p \in OrderIds
        PROVE  life[p] \in {Engine!Unknown}
                 \cup Engine!Standing(request[p], Nat, Statuses \ {"created", "partially_filled"})
    <3>1. OrderOK(life[p], request[p]) /\ request[p] \in Requests
      BY <1>1 DEF CallInv, FlowInv, LifeOK, LocalTypes
    <3>2. request[p].qty \in Nat
      BY <3>1, OrderServiceAssumption
    <3> QED
      BY <3>1, <3>2 DEF OrderOK, Engine!Standing, Standings, Statuses
  <2> QED
    BY <1>1, <2>1 DEF CallInv, FundTypes, CallTypes, LocalTypes, TypeOK
<1> QED
  BY <1>1, CallInvariant, PTL

\* An order that the orders table shows as filled, cancelled or rejected can never
\* trade again, whatever contexts ended on the way there.
THEOREM FinalStatusIsTrue == Spec => []FinalIsTrue
<1>1. ASSUME CallInv
      PROVE  FinalIsTrue
  <2>1. ASSUME NEW p \in OrderIds, IsFinal(stored[p].status)
        PROVE  /\ p \notin queue
               /\ life[p].status \in {"none", stored[p].status}
               /\ life[p].status = "none" => stored[p].status = "rejected"
    <3>1. PlaceOK(p) /\ RowOK(p)
      BY <1>1 DEF CallInv, FlowInv
    <3> QED
      BY <2>1, <3>1 DEF PlaceOK, RowOK, IsFinal
  <2> QED
    BY <2>1 DEF FinalIsTrue
<1> QED
  BY <1>1, CallInvariant, PTL
\* What a step does to the row of an order.
LEMMA RowMoves ==
    ASSUME CallInv, NEW p \in OrderIds, [Next]_vars,
           stored'[p] # stored[p], stored[p].status # "none"
    PROVE  CanTransition(stored[p].status, stored'[p].status)
<1> USE DEF CallInv
<1>1. stored[p].status \in Statuses
  BY DEF LocalTypes, Row
<1>2. ASSUME NEW q \in OrderIds, Place(q)
      PROVE  CanTransition(stored[p].status, stored'[p].status)
  <2>1. PlaceOK(q) /\ RowOK(q)
    BY DEF FlowInv
  <2>2. CASE q # p
    BY <1>2, <2>2
    DEF Place, Validate, Size, Freeze, Create, Undo, Send, TakeReply, GiveUp, Count,
        Judge, Release, Save, Refund, Reject, LocalTypes
  <2>3. CASE q = p
    <3>1. pc[p] # "creating"
      BY <2>1, <2>3 DEF RowOK
    <3>2. Save(p) \/ Reject(p)
      BY <1>2, <2>3, <3>1
      DEF Place, Validate, Size, Freeze, Create, Undo, Send, TakeReply, GiveUp, Count,
          Judge, Release, Refund
    <3>3. stored[p].status = "created"
      BY <2>1, <2>3, <3>2 DEF RowOK, Save, Reject
    <3>4. stored'[p].status \in Verdicts
      <4>1. CASE Save(p)
        <5> DEFINE row == [status |-> verdict[p], filled |-> counted[p]]
        <5>1. row.status = verdict[p]
          OBVIOUS
        <5>2. stored'[p] = row /\ pc[p] = "saving"
          BY <4>1, SaveEffect
        <5> HIDE DEF row
        <5> QED
          BY <2>1, <2>3, <5>1, <5>2 DEF PlaceOK, Judged
      <4>2. CASE Reject(p)
        <5>1. stored'[p] = [status |-> "rejected", filled |-> 0]
          BY <4>2, RejectEffect
        <5> QED
          BY <5>1 DEF Verdicts
      <4> QED
        BY <3>2, <4>1, <4>2
    <3> QED
      BY <3>3, <3>4 DEF CanTransition, orderTransitions, Verdicts
  <2> QED
    BY <2>2, <2>3
<1>3. ASSUME NEW c \in Cancels, Cancel(c)
      PROVE  CanTransition(stored[p].status, stored'[p].status)
  <2>1. SaveCancelled(c)
    BY <1>3, GetByIDEffect, AskEngineEffect, TakeCancelReplyEffect, UnfreezeCancelOrderEffect
    DEF Cancel
  <2>2. Target[c] = p
    BY <2>1, SaveCancelledEffect DEF CancelFrame
  <2>3. stored'[p] = [status |-> "cancelled", filled |-> 0] /\ pc[c] = "saving"
    BY <2>1, <2>2, SaveCancelledEffect
  <2>4. stored'[p].status = "cancelled"
    BY <2>3
  <2>5. CancelOK(c) /\ Undisturbed(c)
    BY DEF FlowInv
  <2>6. ASSUME IsFinal(stored[p].status) PROVE FALSE
    <3>1. PICK d \in Cancels : TookOut(d, p) /\ pc[d] = "returned"
      BY <2>2, <2>3, <2>5, <2>6 DEF Undisturbed
    <3>2. CancelOK(d) /\ reply[c] = 1 /\ reply[d] = 1 /\ Target[d] = p
      BY <2>3, <2>5, <3>1 DEF FlowInv, CancelOK, TookOut
    <3>3. c = d
      BY <2>2, <2>5, <3>2 DEF CancelOK, TookOut
    <3> QED
      BY <2>3, <3>1, <3>3
  <2> QED
    BY <1>1, <2>4, <2>6 DEF Statuses, IsFinal, CanTransition, orderTransitions
<1>4. ASSUME NEW q \in OrderIds, EngineAnswers(q) \/ EngineTrades(q)
      PROVE  FALSE
  BY <1>4 DEF EngineAnswers, EngineTrades
<1>5. ASSUME NEW c \in Cancels, EngineCancels(c)
      PROVE  FALSE
  BY <1>5 DEF EngineCancels
<1>6. ASSUME NEW c \in Calls, Expire(c)
      PROVE  FALSE
  BY <1>6 DEF Expire
<1>7. CASE UNCHANGED vars
  BY <1>7 DEF vars
<1> QED
  BY <1>2, <1>3, <1>4, <1>5, <1>6, <1>7 DEF Next

\* No call ever writes a status that the lifecycle forbids after the one in the row:
\* CancelOrder writes the row it read long before, and yet only over a status that
\* may be cancelled, since the engine lets one cancellation only take an order out.
THEOREM LifecycleIsRespected == Spec => LifecycleRespected
<1>1. CallInv /\ [Next]_vars
        => [\A p \in OrderIds :
               stored'[p] # stored[p] /\ stored[p].status # "none"
                   => CanTransition(stored[p].status, stored'[p].status)]_vars
  BY RowMoves
<1> QED
  BY <1>1, CallInvariant, PTL DEF Spec, LifecycleRespected

(***************************************************************************)
(* The ledger.                                                             *)
(***************************************************************************)
\* The money of account a is where it was deposited or in what its orders hold.
Balanced(a) ==
    /\ balance[a] + frozen[a] = Deposited[a]
    /\ frozen[a] = SumOver(held, OrdersOn(a))

LEMMA OrdersFinite ==
    ASSUME NEW a
    PROVE  IsFiniteSet(OrdersOn(a)) /\ OrdersOn(a) \subseteq OrderIds
BY OrderServiceAssumption, FS_Subset DEF OrdersOn

\* No step changes what was ordered, nor whose account it is paid from.
LEMMA RequestsStay ==
    ASSUME [Next]_vars
    PROVE  /\ UNCHANGED request
           /\ \A p : Own(p)' = Own(p)
           /\ \A a : OrdersOn(a)' = OrdersOn(a)
<1>1. UNCHANGED request
  BY DEF Next, Place, Validate, Size, Freeze, Create, Undo, Send, TakeReply, GiveUp, Count,
         Judge, Release, Save, Refund, Reject, Cancel, GetByID, AskEngine, TakeCancelReply,
         UnfreezeCancelOrder, SaveCancelled, EngineAnswers, EngineTrades, EngineCancels,
         Expire, vars, locals
<1> QED
  BY <1>1 DEF Own, OrdersOn

LEMMA BalancedInit == Init => \A a \in Accounts : Balanced(a)
<1> SUFFICES ASSUME Init, NEW a \in Accounts
             PROVE  Balanced(a)
  OBVIOUS
<1>1. Deposited[a] \in Nat /\ balance[a] = Deposited[a] /\ frozen[a] = 0
  BY OrderServiceAssumption DEF Init
<1>2. \A q \in OrdersOn(a) : held[q] = 0
  BY DEF Init, OrdersOn
<1>3. SumOver(held, OrdersOn(a)) = 0
  BY <1>2, OrdersFinite, SumZero
<1> QED
  BY <1>1, <1>3 DEF Balanced

LEMMA BalancedStep ==
    ASSUME FundTypes, FundsMove, [Next]_vars, \A a \in Accounts : Balanced(a)
    PROVE  \A a \in Accounts : Balanced(a)'
<1>1. SUFFICES ASSUME NEW a \in Accounts
               PROVE  Balanced(a)'
  OBVIOUS
<1> DEFINE S == OrdersOn(a)
<1>2. S' = S /\ IsFiniteSet(S) /\ S \subseteq OrderIds
  BY RequestsStay, OrdersFinite
<1>3. Balanced(a) /\ balance[a] \in Nat /\ frozen[a] \in Nat
  BY DEF FundTypes
<1>4. \A q \in S : held[q] \in Int
  BY <1>2 DEF FundTypes
<1>5. CASE UNCHANGED funds
  BY <1>2, <1>3, <1>5 DEF Balanced, funds
<1>6. ASSUME NEW p \in OrderIds, NEW x \in Int, Move(p, x)
      PROVE  Balanced(a)'
  <2>1. CASE Own(p) = a
    <3>1. p \in S
      BY <2>1 DEF OrdersOn
    <3>2. /\ balance'[a] = balance[a] - x /\ frozen'[a] = frozen[a] + x
          /\ held'[p] = held[p] + x /\ \A q \in S : q # p => held'[q] = held[q]
      BY <1>2, <1>6, <2>1, MoveEffect
    <3>3. held[p] \in Int
      BY DEF FundTypes
    <3>4. \A q \in S : held'[q] \in Int
      BY <1>4, <3>2, <3>3
    <3> DEFINE new == held'
    <3> HIDE DEF S, new
    <3>5. /\ SumOver(held, S) \in Int
          /\ SumOver(new, S) = SumOver(held, S) + (new[p] - held[p])
      BY <1>2, <1>4, <3>1, <3>2, <3>4, SumChange DEF new
    <3>6. SumOver(new, S) = frozen[a] + x
      <4> DEFINE sum == SumOver(held, S)
                 n == new[p]
                 total == SumOver(new, S)
      <4>1. sum = frozen[a] /\ n = held[p] + x /\ total = sum + (n - held[p]) /\ sum \in Int
        BY <1>3, <3>2, <3>5 DEF Balanced, new, S
      <4> HIDE DEF sum, n, total
      <4>2. total = frozen[a] + x
        BY <3>3, <4>1
      <4> QED
        BY <4>2 DEF total
    <3>7. balance'[a] + frozen'[a] = Deposited[a]
      <4> DEFINE b == balance'[a]
                 f == frozen'[a]
      <4>1. b = balance[a] - x /\ f = frozen[a] + x /\ balance[a] + frozen[a] = Deposited[a]
        BY <1>3, <3>2 DEF Balanced
      <4> HIDE DEF b, f
      <4>2. b + f = Deposited[a]
        BY <1>3, <4>1
      <4> QED
        BY <4>2 DEF b, f
    <3>8. frozen'[a] = SumOver(held', S')
      BY <1>2, <3>2, <3>6 DEF new
    <3> QED
      BY <3>7, <3>8 DEF Balanced, S
  <2>2. CASE Own(p) # a
    <3>1. balance'[a] = balance[a] /\ frozen'[a] = frozen[a]
      BY <1>6, <2>2, MoveEffect
    <3>2. \A q \in S : held'[q] = held[q]
      BY <1>2, <1>6, <2>2, MoveEffect DEF OrdersOn
    <3> DEFINE new == held'
    <3> HIDE DEF S, new
    <3>3. SumOver(held, S) = SumOver(new, S)
      BY <1>2, <3>2, SumSame DEF new
    <3>4. frozen'[a] = SumOver(held', S')
      BY <1>2, <1>3, <3>1, <3>3 DEF Balanced, S, new
    <3> QED
      BY <1>3, <3>1, <3>4 DEF Balanced, S
  <2> QED
    BY <2>1, <2>2
<1> QED
  BY <1>5, <1>6 DEF FundsMove

(***************************************************************************)
(* What orders hold, where no context ends.                                *)
(***************************************************************************)
\* What is known while no context ends.
HoldingInv == CallInv /\ (\A a \in Accounts : Balanced(a)) /\ HeldInv

\* What an order holds is frozen, so that as much can be released.
LEMMA HeldIsFrozen ==
    ASSUME HoldingInv, NEW p \in OrderIds
    PROVE  held[p] \in Nat /\ frozen[Own(p)] \in Nat /\ held[p] <= frozen[Own(p)]
<1> DEFINE S == OrdersOn(Own(p))
<1>1. \A q \in S : held[q] \in Nat
  <2>1. \A q \in OrderIds : held[q] \in Int /\ HeldOK(q)
    BY DEF HoldingInv, HeldInv, CallInv, FundTypes
  <2>2. \A q \in OrderIds : held[q] \in Int /\ held[q] >= 0
    BY <2>1 DEF HeldOK
  <2> QED
    BY <2>2 DEF OrdersOn
<1>2. p \in S /\ IsFiniteSet(S)
  BY OrdersFinite DEF OrdersOn
<1>3. frozen[Own(p)] = SumOver(held, S)
  BY OwnAccount DEF HoldingInv, Balanced
<1> HIDE DEF S
<1>4. held[p] <= SumOver(held, S) /\ SumOver(held, S) \in Nat
  BY <1>1, <1>2, SumNatural
<1> QED
  BY <1>1, <1>2, <1>3, <1>4

LEMMA UnfreezeSucceeds ==
    ASSUME HoldingInv, NEW c \in Calls, NEW p \in OrderIds, NEW x \in Nat, x <= held[p],
           Unfreeze(c, p, x)
    PROVE  /\ held'[p] = held[p] - x /\ held'[p] \in Nat
           /\ \A q \in OrderIds : q # p => held'[q] = held[q]
<1>1. held[p] \in Nat /\ frozen[Own(p)] \in Nat /\ held[p] <= frozen[Own(p)]
  BY HeldIsFrozen
<1>2. ~expired[c] /\ frozen[Own(p)] >= x
  BY <1>1 DEF HoldingInv, HeldInv, NoneExpired
<1>3. Move(p, -x) /\ -x \in Int
  BY <1>2 DEF Unfreeze
<1>4. /\ held'[p] = held[p] + (-x)
      /\ \A q \in OrderIds : q # p => held'[q] = held[q]
  BY <1>3, MoveEffect DEF HoldingInv, CallInv
<1>5. held[p] + (-x) = held[p] - x /\ held[p] - x \in Nat
  BY <1>1
<1> QED
  BY <1>4, <1>5

\* Nobody cancels an order while its PlaceOrder is under way.
LEMMA NotCancelledYet ==
    ASSUME CallInv, NEW p \in OrderIds, pc[p] # "returned", NEW c \in Cancels, Target[c] = p
    PROVE  pc[c] = "new" /\ reply[c] = -1 /\ ~Released(c) /\ c \notin queue
BY DEF CallInv, FlowInv, CancelOK, Released

LEMMA ReleasableStays ==
    ASSUME NEW p \in OrderIds, UNCHANGED request, amount'[p] = amount[p],
           counted'[p] = counted[p], verdict'[p] = verdict[p]
    PROVE  Releasable(p)' = Releasable(p)
BY DEF Releasable

\* What orders and cancellations hold depends on those calls only.
LEMMA PlaceHeld ==
    ASSUME HoldingInv, NoneExpired', NEW p \in OrderIds, PlaceFrame(p), HeldOK(p)',
           \A q \in OrderIds : q # p => held'[q] = held[q]
    PROVE  HeldInv'
<1>1. \A c \in Cancels : Idle(c) /\ reply'[c] = reply[c] /\ snapshot'[c] = snapshot[c]
  BY TwoKinds DEF PlaceFrame
<1>2. ASSUME NEW q \in OrderIds, q # p
      PROVE  HeldOK(q)'
  <2>1. Idle(q) /\ Kept(q) /\ held'[q] = held[q] /\ HeldOK(q)
    BY <1>2, TwoKinds DEF PlaceFrame, HoldingInv, HeldInv
  <2>2. Releasable(q)' = Releasable(q)
    BY <2>1, ReleasableStays DEF PlaceFrame, Kept
  <2> QED
    BY <1>1, <2>1, <2>2
    DEF HeldOK, MarketBuy, Released, TookOut, PlaceFrame, Idle, Kept, Goes
<1>3. ASSUME NEW c \in Cancels
      PROVE  CancelHeldOK(c)'
  <2>1. CancelHeldOK(c) /\ Idle(c) /\ Target[c] \in OrderIds
    BY <1>1, TwoKinds DEF HoldingInv, HeldInv
  <2>2. CASE Target[c] = p
    <3>1. pc[c] = "new" /\ reply[c] = -1 /\ ~Released(c) /\ c \notin queue
      BY <2>2, NotCancelledYet DEF HoldingInv, PlaceFrame
    <3> QED
      BY <1>1, <2>1, <3>1 DEF CancelHeldOK, Released, Idle, Goes
  <2>3. CASE Target[c] # p
    <3>1. Idle(Target[c]) /\ Kept(Target[c]) /\ held'[Target[c]] = held[Target[c]]
      BY <2>1, <2>3, TwoKinds DEF PlaceFrame
    <3> QED
      BY <1>1, <2>1, <3>1
      DEF CancelHeldOK, MarketBuy, Released, PlaceFrame, Idle, Kept, Goes
  <2> QED
    BY <2>2, <2>3
<1> QED
  BY <1>2, <1>3 DEF HeldInv

\* Where no context may end, none ends.
LEMMA NobodyExpires ==
    ASSUME CallInv, HeldInv, Deadlines = {}, [Next]_vars
    PROVE  NoneExpired'
<1>1. \A c \in Calls : expired[c] = FALSE
  BY DEF CallInv, CallTypes, HeldInv, NoneExpired
<1>2. \/ UNCHANGED expired
      \/ \E p \in Deadlines : expired' = [expired EXCEPT ![p] = TRUE]
  BY DEF Next, Place, Validate, Size, Freeze, Create, Undo, Send, TakeReply, GiveUp, Count,
         Judge, Release, Save, Refund, Reject, Cancel, GetByID, AskEngine, TakeCancelReply,
         UnfreezeCancelOrder, SaveCancelled, EngineAnswers, EngineTrades, EngineCancels,
         Expire, vars
<1> QED
  BY <1>1, <1>2 DEF NoneExpired

\* What PlaceOrder releases is no more than what it froze.
LEMMA ReleasableHeld ==
    ASSUME HoldingInv, BuysPriced, NEW p \in OrderIds, pc[p] \notin {"new", "sizing"},
           result[p] # "error"
    PROVE  Releasable(p) <= amount[p]
<1> DEFINE req == request[p]
<1>1. /\ req \in Requests /\ req.qty \in Nat /\ req.price \in Nat
      /\ counted[p] \in Nat /\ counted[p] <= req.qty /\ amount[p] \in Nat
  BY OrderServiceAssumption
  DEF HoldingInv, CallInv, LocalTypes, FlowInv, CountOK
<1>2. Cost(req, counted[p]) \in Nat /\ Cost(req, req.qty) \in Nat
  BY <1>1, CostNatural
<1>3. Cost(req, counted[p]) <= amount[p]
  <2>1. CASE MarketBuy(p)
    <3>1. req.side = "buy" /\ req.price = 0
      BY <1>1, <2>1 DEF MarketBuy, BuysPriced
    <3>2. Cost(req, counted[p]) = 0
      BY <1>1, <3>1 DEF Cost
    <3> QED
      BY <1>1, <3>2
  <2>2. CASE ~MarketBuy(p)
    <3>1. HeldOK(p)
      BY DEF HoldingInv, HeldInv
    <3>2. amount[p] = Cost(req, req.qty)
      BY <2>2, <3>1 DEF HeldOK
    <3> QED
      BY <1>1, <3>2, CostMonotone
  <2> QED
    BY <2>1, <2>2
<1> QED
  BY <1>1, <1>2, <1>3 DEF Releasable
LEMMA ValidateHeld ==
    ASSUME HoldingInv, BuysPriced, Deadlines = {}, NoneExpired', NEW p \in OrderIds, Validate(p)
    PROVE  HeldInv'
<1>1. /\ HeldOK(p) /\ PlaceOK(p) /\ RowOK(p) /\ CallTypes /\ LocalTypes /\ FundTypes
      /\ CallInv
  BY DEF HoldingInv, HeldInv, CallInv, FlowInv
<1>2. PlaceFrame(p) /\ \A c \in Cancels : Target[c] = p => reply'[c] = -1 /\ ~Released(c)'
  BY <1>1, ValidateEffect, NotCancelledYet, TwoKinds DEF PlaceFrame, Released
<1>3. UNCHANGED funds
  BY <1>1, ValidateEffect
<1>4. HeldOK(p)'
  BY <1>1, <1>2, <1>3, ValidateEffect
  DEF HeldOK, PlaceOK, RowOK, Judged, MarketBuy, TookOut, funds, PlaceFrame, Kept, Waits, Goes,
      Ends
<1> QED
  BY <1>1, <1>2, <1>3, <1>4, PlaceHeld DEF funds

LEMMA CreateHeld ==
    ASSUME HoldingInv, BuysPriced, Deadlines = {}, NoneExpired', NEW p \in OrderIds, Create(p)
    PROVE  HeldInv'
<1>1. /\ HeldOK(p) /\ PlaceOK(p) /\ RowOK(p) /\ CallTypes /\ LocalTypes /\ FundTypes
      /\ CallInv
  BY DEF HoldingInv, HeldInv, CallInv, FlowInv
<1>2. PlaceFrame(p) /\ \A c \in Cancels : Target[c] = p => reply'[c] = -1 /\ ~Released(c)'
  BY <1>1, CreateEffect, NotCancelledYet, TwoKinds DEF PlaceFrame, Released
<1>3. UNCHANGED funds
  BY <1>1, CreateEffect
<1>4. HeldOK(p)'
  BY <1>1, <1>2, <1>3, CreateEffect
  DEF HeldOK, PlaceOK, RowOK, Judged, MarketBuy, TookOut, funds, PlaceFrame, Kept, Waits, Goes,
      Ends
<1> QED
  BY <1>1, <1>2, <1>3, <1>4, PlaceHeld DEF funds

LEMMA SendHeld ==
    ASSUME HoldingInv, BuysPriced, Deadlines = {}, NoneExpired', NEW p \in OrderIds, Send(p)
    PROVE  HeldInv'
<1>1. /\ HeldOK(p) /\ PlaceOK(p) /\ RowOK(p) /\ CallTypes /\ LocalTypes /\ FundTypes
      /\ CallInv
  BY DEF HoldingInv, HeldInv, CallInv, FlowInv
<1>2. PlaceFrame(p) /\ \A c \in Cancels : Target[c] = p => reply'[c] = -1 /\ ~Released(c)'
  BY <1>1, SendEffect, NotCancelledYet, TwoKinds DEF PlaceFrame, Released
<1>3. UNCHANGED funds
  BY <1>1, SendEffect
<1>4. HeldOK(p)'
  BY <1>1, <1>2, <1>3, SendEffect
  DEF HeldOK, PlaceOK, RowOK, Judged, MarketBuy, TookOut, funds, PlaceFrame, Kept, Waits, Goes,
      Ends
<1> QED
  BY <1>1, <1>2, <1>3, <1>4, PlaceHeld DEF funds

LEMMA JudgeHeld ==
    ASSUME HoldingInv, BuysPriced, Deadlines = {}, NoneExpired', NEW p \in OrderIds, Judge(p)
    PROVE  HeldInv'
<1>1. /\ HeldOK(p) /\ PlaceOK(p) /\ RowOK(p) /\ CallTypes /\ LocalTypes /\ FundTypes
      /\ CallInv
  BY DEF HoldingInv, HeldInv, CallInv, FlowInv
<1>2. PlaceFrame(p) /\ \A c \in Cancels : Target[c] = p => reply'[c] = -1 /\ ~Released(c)'
  BY <1>1, JudgeEffect, NotCancelledYet, TwoKinds DEF PlaceFrame, Released
<1>3. UNCHANGED funds
  BY <1>1, JudgeEffect
<1>4. HeldOK(p)'
  BY <1>1, <1>2, <1>3, JudgeEffect
  DEF HeldOK, PlaceOK, RowOK, Judged, MarketBuy, TookOut, funds, PlaceFrame, Kept, Waits, Goes,
      Ends
<1> QED
  BY <1>1, <1>2, <1>3, <1>4, PlaceHeld DEF funds

LEMMA CountHeld ==
    ASSUME HoldingInv, BuysPriced, Deadlines = {}, NoneExpired', NEW p \in OrderIds, Count(p)
    PROVE  HeldInv'
<1>1. /\ HeldOK(p) /\ PlaceOK(p) /\ RowOK(p) /\ CallTypes /\ LocalTypes /\ FundTypes
      /\ CallInv
  BY DEF HoldingInv, HeldInv, CallInv, FlowInv
<1>2. PlaceFrame(p) /\ \A c \in Cancels : Target[c] = p => reply'[c] = -1 /\ ~Released(c)'
  BY <1>1, CountEffect, NotCancelledYet, TwoKinds DEF PlaceFrame, Released
<1>3. UNCHANGED funds
  BY <1>1, CountEffect
<1>4. HeldOK(p)'
  <2>1. life[p].filled \in Nat /\ counted'[p] = life[p].filled /\ life'[p].filled = life[p].filled
    BY <1>1, CountEffect, OrderFacts DEF CallInv, PlaceFrame
  <2>2. counted'[p] <= life'[p].filled
    BY <2>1
  <2> QED
    BY <1>1, <1>2, <1>3, <2>2, CountEffect
    DEF HeldOK, PlaceOK, RowOK, Judged, MarketBuy, TookOut, funds, PlaceFrame, Kept, Waits, Goes,
        Ends
<1> QED
  BY <1>1, <1>2, <1>3, <1>4, PlaceHeld DEF funds

LEMMA TakeReplyHeld ==
    ASSUME HoldingInv, BuysPriced, Deadlines = {}, NoneExpired', NEW p \in OrderIds, TakeReply(p)
    PROVE  HeldInv'
<1>1. /\ HeldOK(p) /\ PlaceOK(p) /\ RowOK(p) /\ CallTypes /\ LocalTypes /\ FundTypes
      /\ CallInv
  BY DEF HoldingInv, HeldInv, CallInv, FlowInv
<1>2. PlaceFrame(p) /\ \A c \in Cancels : Target[c] = p => reply'[c] = -1 /\ ~Released(c)'
  BY <1>1, TakeReplyEffect, NotCancelledYet, TwoKinds DEF PlaceFrame, Released
<1>3. UNCHANGED funds
  BY <1>1, TakeReplyEffect
<1>4. HeldOK(p)'
  <2>1. counted'[p] <= life'[p].filled
    <3>1. CASE counted'[p] = counted[p]
      BY <1>1, <1>2, <3>1 DEF HeldOK, PlaceFrame
    <3>2. CASE reply[p] = request[p].qty /\ counted'[p] = request[p].qty
      <4>1. /\ life[p].status = "filled" /\ life'[p].filled = life[p].filled
            /\ life[p].filled \in Nat
        BY <1>1, <1>2, <3>2, OrderFacts DEF PlaceOK, PlaceFrame, CallInv
      <4>2. life[p].filled = request[p].qty
        BY <1>1, <4>1, OrderFacts DEF CallInv
      <4> QED
        BY <3>2, <4>1, <4>2
    <3> QED
      BY <1>1, <3>1, <3>2, TakeReplyEffect
  <2> QED
    BY <1>1, <1>2, <1>3, <2>1, TakeReplyEffect
    DEF HeldOK, PlaceOK, RowOK, Judged, MarketBuy, TookOut, funds, PlaceFrame, Kept, Waits, Goes,
        Ends
<1> QED
  BY <1>1, <1>2, <1>3, <1>4, PlaceHeld DEF funds

LEMMA RejectHeld ==
    ASSUME HoldingInv, BuysPriced, Deadlines = {}, NoneExpired', NEW p \in OrderIds, Reject(p)
    PROVE  HeldInv'
<1>1. /\ HeldOK(p) /\ PlaceOK(p) /\ RowOK(p) /\ CallTypes /\ LocalTypes /\ FundTypes
      /\ CallInv
  BY DEF HoldingInv, HeldInv, CallInv, FlowInv
<1>2. PlaceFrame(p) /\ \A c \in Cancels : Target[c] = p => reply'[c] = -1 /\ ~Released(c)'
  BY <1>1, RejectEffect, NotCancelledYet, TwoKinds DEF PlaceFrame, Released
<1>3. UNCHANGED funds
  BY <1>1, RejectEffect
<1>4. HeldOK(p)'
  <2>1. ~expired[p]
    BY TwoKinds DEF HoldingInv, HeldInv, NoneExpired
  <2>2. stored'[p] = [status |-> "rejected", filled |-> 0]
    BY <1>1, <2>1, RejectEffect
  <2>3. stored'[p].status = "rejected"
    BY <2>2
  <2>4. p \in queue' <=> p \in queue
    BY <1>1, RejectEffect DEF Waits
  <2>5. /\ pc[p] = "rejecting" /\ pc'[p] = "returned" /\ result'[p] = "error"
        /\ amount'[p] = amount[p] /\ counted'[p] = counted[p]
    BY <1>1, RejectEffect DEF Ends
  <2> QED
    BY <1>1, <1>2, <1>3, <2>1, <2>3, <2>4, <2>5
    DEF HeldOK, PlaceOK, funds, PlaceFrame
<1> QED
  BY <1>1, <1>2, <1>3, <1>4, PlaceHeld DEF funds

LEMMA SizeHeld ==
    ASSUME HoldingInv, BuysPriced, Deadlines = {}, NoneExpired', NEW p \in OrderIds, Size(p)
    PROVE  HeldInv'
<1>1. /\ HeldOK(p) /\ PlaceOK(p) /\ RowOK(p) /\ CallTypes /\ LocalTypes /\ FundTypes
      /\ CallInv
  BY DEF HoldingInv, HeldInv, CallInv, FlowInv
<1>2. PlaceFrame(p) /\ \A c \in Cancels : Target[c] = p => reply'[c] = -1 /\ ~Released(c)'
  BY <1>1, SizeEffect, NotCancelledYet, TwoKinds DEF PlaceFrame, Released
<1>3. UNCHANGED funds
  BY <1>1, SizeEffect
<1> DEFINE req == request[p]
<1>4. /\ req \in Requests /\ req.qty \in Nat /\ req.price \in Nat /\ ~expired[p]
      /\ req.side \in {"buy", "sell"}
      /\ req.type \in {"limit", "market", "stop_loss", "stop_limit"}
  BY <1>1, OrderServiceAssumption, TwoKinds DEF LocalTypes, HoldingInv, HeldInv, NoneExpired
<1>5. ~MarketBuy(p) => amount'[p] = Cost(req, req.qty)
  <2>1. CASE req.side = "buy" /\ req.type = "stop_loss"
    <3>1. req.price = 0
      BY <1>4, <2>1 DEF BuysPriced
    <3>2. Cost(req, req.qty) = 0
      BY <1>4, <2>1, <3>1 DEF Cost
    <3>3. amount'[p] = 0
      BY <1>1, <2>1, SizeEffect
    <3> QED
      BY <3>2, <3>3
  <2>2. CASE ~(req.side = "buy" /\ req.type = "stop_loss")
    BY <1>1, <1>4, <2>2, SizeEffect DEF MarketBuy
  <2> QED
    BY <2>1, <2>2
<1>6. HeldOK(p)'
  <2> HIDE DEF req
  <2>1. /\ pc[p] = "sizing" /\ pc'[p] = "freezing" /\ result'[p] = result[p]
        /\ counted'[p] = counted[p] /\ result[p] = "none"
    BY <1>1, SizeEffect DEF Goes, PlaceOK, CallTypes
  <2>2. MarketBuy(p)' = MarketBuy(p) /\ request'[p] = req
    BY <1>2 DEF MarketBuy, PlaceFrame, req
  <2> QED
    BY <1>1, <1>2, <1>3, <1>5, <2>1, <2>2 DEF HeldOK, PlaceFrame, funds
<1> QED
  BY <1>1, <1>2, <1>3, <1>6, PlaceHeld DEF funds

LEMMA GiveUpHeld ==
    ASSUME HoldingInv, BuysPriced, Deadlines = {}, NoneExpired', NEW p \in OrderIds, GiveUp(p)
    PROVE  HeldInv'
<1>1. /\ HeldOK(p) /\ PlaceOK(p) /\ RowOK(p) /\ CallTypes /\ LocalTypes /\ FundTypes
      /\ CallInv
  BY DEF HoldingInv, HeldInv, CallInv, FlowInv
<1>2. PlaceFrame(p) /\ \A c \in Cancels : Target[c] = p => reply'[c] = -1 /\ ~Released(c)'
  BY <1>1, GiveUpEffect, NotCancelledYet, TwoKinds DEF PlaceFrame, Released
<1> QED
  BY <1>1, GiveUpEffect, TwoKinds DEF HoldingInv, HeldInv, NoneExpired

LEMMA FreezeHeld ==
    ASSUME HoldingInv, BuysPriced, Deadlines = {}, NoneExpired', NEW p \in OrderIds, Freeze(p)
    PROVE  HeldInv'
<1>1. /\ HeldOK(p) /\ PlaceOK(p) /\ RowOK(p) /\ CallTypes /\ LocalTypes /\ FundTypes
      /\ CallInv
  BY DEF HoldingInv, HeldInv, CallInv, FlowInv
<1>2. PlaceFrame(p) /\ \A c \in Cancels : Target[c] = p => reply'[c] = -1 /\ ~Released(c)'
  BY <1>1, FreezeEffect, NotCancelledYet, TwoKinds DEF PlaceFrame, Released
<1>3. /\ pc[p] = "freezing" /\ held[p] = 0 /\ p \notin queue' /\ result[p] = "none"
      /\ life'[p] = life[p] /\ life[p].status = "none" /\ stored'[p] = stored[p]
      /\ stored[p].status = "none" /\ amount[p] \in Nat /\ UNCHANGED request
      /\ amount'[p] = amount[p] /\ counted'[p] = counted[p]
  BY <1>1, <1>2, FreezeEffect DEF HeldOK, PlaceOK, RowOK, CallTypes, LocalTypes, PlaceFrame, Kept
<1>4. CASE /\ UNCHANGED funds
           /\ \/ amount[p] = 0 /\ Goes(p, "creating")
              \/ Ends(p, "error")
  <2>1. held' = held
    BY <1>4 DEF funds
  <2>2. HeldOK(p)'
    BY <1>1, <1>2, <1>3, <1>4, <2>1 DEF HeldOK, MarketBuy, Goes, Ends
  <2> QED
    BY <1>1, <1>2, <2>1, <2>2, PlaceHeld
<1>5. CASE Move(p, amount[p]) /\ Goes(p, "creating")
  <2>1. /\ held'[p] = held[p] + amount[p]
        /\ \A q \in OrderIds : q # p => held'[q] = held[q]
    BY <1>1, <1>3, <1>5, MoveEffect
  <2>2. held'[p] = amount[p] /\ held'[p] >= 0
    BY <1>3, <2>1
  <2>3. HeldOK(p)'
    BY <1>1, <1>2, <1>3, <1>5, <2>2 DEF HeldOK, MarketBuy, Goes
  <2> QED
    BY <1>1, <1>2, <2>1, <2>3, PlaceHeld
<1> QED
  BY <1>1, <1>4, <1>5, FreezeEffect

LEMMA UndoHeld ==
    ASSUME HoldingInv, BuysPriced, Deadlines = {}, NoneExpired', NEW p \in OrderIds, Undo(p)
    PROVE  HeldInv'
<1>1. /\ HeldOK(p) /\ PlaceOK(p) /\ RowOK(p) /\ CallTypes /\ LocalTypes /\ FundTypes
      /\ CallInv
  BY DEF HoldingInv, HeldInv, CallInv, FlowInv
<1>2. PlaceFrame(p) /\ \A c \in Cancels : Target[c] = p => reply'[c] = -1 /\ ~Released(c)'
  BY <1>1, UndoEffect, NotCancelledYet, TwoKinds DEF PlaceFrame, Released
<1>3. amount[p] \in Nat /\ held[p] = amount[p] /\ amount[p] <= held[p]
  BY <1>1, UndoEffect DEF HeldOK, LocalTypes
<1>4. /\ held'[p] = held[p] - amount[p] /\ held'[p] \in Nat
      /\ \A q \in OrderIds : q # p => held'[q] = held[q]
  BY <1>1, <1>3, UndoEffect, UnfreezeSucceeds, TwoKinds
<1>5. held'[p] = 0
  BY <1>3, <1>4
<1>6. HeldOK(p)'
  BY <1>1, <1>2, <1>5, UndoEffect
  DEF HeldOK, PlaceOK, RowOK, MarketBuy, PlaceFrame, Kept, Waits, Goes, Ends
<1> QED
  BY <1>1, <1>2, <1>4, <1>6, PlaceHeld

LEMMA RefundHeld ==
    ASSUME HoldingInv, BuysPriced, Deadlines = {}, NoneExpired', NEW p \in OrderIds, Refund(p)
    PROVE  HeldInv'
<1>1. /\ HeldOK(p) /\ PlaceOK(p) /\ RowOK(p) /\ CallTypes /\ LocalTypes /\ FundTypes
      /\ CallInv
  BY DEF HoldingInv, HeldInv, CallInv, FlowInv
<1>2. PlaceFrame(p) /\ \A c \in Cancels : Target[c] = p => reply'[c] = -1 /\ ~Released(c)'
  BY <1>1, RefundEffect, NotCancelledYet, TwoKinds DEF PlaceFrame, Released
<1>3. amount[p] \in Nat /\ held[p] = amount[p] /\ amount[p] <= held[p]
  BY <1>1, RefundEffect DEF HeldOK, LocalTypes
<1>4. /\ held'[p] = held[p] - amount[p] /\ held'[p] \in Nat
      /\ \A q \in OrderIds : q # p => held'[q] = held[q]
  BY <1>1, <1>3, RefundEffect, UnfreezeSucceeds, TwoKinds
<1>5. held'[p] = 0
  BY <1>3, <1>4
<1>6. HeldOK(p)'
  BY <1>1, <1>2, <1>5, RefundEffect
  DEF HeldOK, PlaceOK, RowOK, MarketBuy, PlaceFrame, Kept, Waits, Goes, Ends
<1> QED
  BY <1>1, <1>2, <1>4, <1>6, PlaceHeld

LEMMA ReleaseHeld ==
    ASSUME HoldingInv, BuysPriced, Deadlines = {}, NoneExpired', NEW p \in OrderIds, Release(p)
    PROVE  HeldInv'
<1>1. /\ HeldOK(p) /\ PlaceOK(p) /\ RowOK(p) /\ CallTypes /\ LocalTypes /\ FundTypes
      /\ CallInv
  BY DEF HoldingInv, HeldInv, CallInv, FlowInv
<1>2. PlaceFrame(p) /\ \A c \in Cancels : Target[c] = p => reply'[c] = -1 /\ ~Released(c)'
  BY <1>1, ReleaseEffect, NotCancelledYet, TwoKinds DEF PlaceFrame, Released
<1>3. /\ pc[p] = "releasing" /\ pc'[p] = "saving" /\ result'[p] = result[p]
      /\ result[p] = "none" /\ UNCHANGED <<request, life>>
      /\ amount'[p] = amount[p] /\ counted'[p] = counted[p] /\ verdict'[p] = verdict[p]
  BY <1>1, ReleaseEffect DEF PlaceOK, CallTypes, PlaceFrame, Kept, Goes
<1>4. amount[p] \in Nat /\ held[p] = amount[p] /\ Releasable(p) \in Nat
      /\ Releasable(p) <= held[p]
  BY <1>1, <1>3, ReleasesNatural, ReleasableHeld DEF HeldOK, LocalTypes, CallInv
<1>5. /\ held'[p] = held[p] - Releasable(p) /\ held'[p] \in Nat
      /\ \A q \in OrderIds : q # p => held'[q] = held[q]
  BY <1>1, <1>4, ReleaseEffect, UnfreezeSucceeds, TwoKinds
<1>6. Releasable(p)' = Releasable(p) /\ MarketBuy(p)' = MarketBuy(p)
  BY <1>3, ReleasableStays DEF MarketBuy
<1>7. HeldOK(p)'
  <2>1. held'[p] = amount'[p] - Releasable(p)' /\ held'[p] >= 0
    BY <1>3, <1>4, <1>5, <1>6
  <2> QED
    BY <1>1, <1>3, <1>6, <2>1 DEF HeldOK
<1> QED
  BY <1>1, <1>2, <1>5, <1>7, PlaceHeld

LEMMA SaveHeld ==
    ASSUME HoldingInv, BuysPriced, Deadlines = {}, NoneExpired', NEW p \in OrderIds, Save(p)
    PROVE  HeldInv'
<1>1. /\ HeldOK(p) /\ PlaceOK(p) /\ RowOK(p) /\ CallTypes /\ LocalTypes /\ FundTypes
      /\ CallInv
  BY DEF HoldingInv, HeldInv, CallInv, FlowInv
<1>2. PlaceFrame(p) /\ \A c \in Cancels : Target[c] = p => reply'[c] = -1 /\ ~Released(c)'
  <2>1. PlaceFrame(p) /\ pc[p] # "returned"
    BY <1>1, SaveEffect DEF PlaceFrame
  <2>2. \A c \in Cancels : reply'[c] = reply[c] /\ pc'[c] = pc[c]
    BY <2>1, TwoKinds DEF PlaceFrame, Idle, Goes
  <2> QED
    BY <1>1, <2>1, <2>2, NotCancelledYet DEF Released
<1>3. /\ pc[p] = "saving" /\ pc'[p] = "returned" /\ result'[p] = "ok"
      /\ UNCHANGED <<request, life, funds>>
      /\ amount'[p] = amount[p] /\ counted'[p] = counted[p] /\ verdict'[p] = verdict[p]
  BY <1>1, SaveEffect DEF PlaceFrame, Ends
<1>4. Releasable(p)' = Releasable(p) /\ MarketBuy(p)' = MarketBuy(p) /\ held' = held
  BY <1>3, ReleasableStays DEF MarketBuy, funds
<1>5. ~expired[p]
  BY TwoKinds DEF HoldingInv, HeldInv, NoneExpired
<1>6. stored'[p] = [status |-> verdict'[p], filled |-> counted'[p]]
  BY <1>1, <1>3, <1>5, SaveEffect
<1>7. held'[p] = amount'[p] - Releasable(p)'
  BY <1>1, <1>3, <1>4 DEF HeldOK
<1>8. HeldOK(p)'
  BY <1>1, <1>3, <1>4, <1>6, <1>7 DEF HeldOK, PlaceOK
<1> QED
  BY <1>1, <1>2, <1>4, <1>8, PlaceHeld
\* The same for a step of CancelOrder c that releases and saves nothing.
LEMMA CancelHeld ==
    ASSUME HoldingInv, NoneExpired', NEW c \in Cancels, CancelFrame(c), CancelHeldOK(c)',
           UNCHANGED <<funds, stored>>,
           reply[c] = 1 => pc[c] # "saving" /\ pc'[c] \notin {"saving", "returned"}
    PROVE  HeldInv'
<1>1. \A d \in Cancels : /\ Released(d)' = Released(d)
                         /\ reply[d] = 1 => (pc'[d] = "returned" <=> pc[d] = "returned")
  BY TwoKinds DEF CancelFrame, Idle, Goes, Released
<1>2. UNCHANGED <<amount, counted, verdict, request, reply, life, held>>
  BY DEF CancelFrame, funds
<1>3. ASSUME NEW q \in OrderIds
      PROVE  HeldOK(q)'
  <2>1. HeldOK(q) /\ Idle(q)
    BY TwoKinds DEF HoldingInv, HeldInv, CancelFrame
  <2>2. Releasable(q)' = Releasable(q) /\ MarketBuy(q)' = MarketBuy(q)
    BY <1>2 DEF Releasable, MarketBuy
  <2> QED
    BY <1>1, <1>2, <2>1, <2>2 DEF HeldOK, TookOut, Idle, Goes
<1>4. ASSUME NEW d \in Cancels, d # c
      PROVE  CancelHeldOK(d)'
  <2>1. CancelHeldOK(d) /\ Idle(d) /\ Idle(Target[d]) /\ snapshot'[d] = snapshot[d]
    BY <1>4, TwoKinds DEF HoldingInv, HeldInv, CancelFrame
  <2> QED
    BY <1>1, <1>2, <2>1 DEF CancelHeldOK, MarketBuy, Idle, Goes
<1> QED
  BY <1>3, <1>4 DEF HeldInv

LEMMA GetByIDHeld ==
    ASSUME HoldingInv, NoneExpired', NEW c \in Cancels, GetByID(c)
    PROVE  HeldInv'
<1> DEFINE p == Target[c]
<1>1. /\ CallTypes /\ LocalTypes /\ p \in OrderIds /\ p \in Calls \ {c}
      /\ HeldOK(p) /\ PlaceOK(p) /\ RowOK(p) /\ CancelOK(c) /\ CancelHeldOK(c)
  BY TwoKinds DEF HoldingInv, HeldInv, CallInv, FlowInv
<1>2. /\ CancelFrame(c) /\ Known(p) /\ UNCHANGED <<funds, stored, queue>> /\ pc[c] = "new"
      /\ reply[c] = -1 /\ c \notin queue
  BY <1>1, GetByIDEffect DEF CancelOK
<1>3. CASE Ends(c, "error")
  <2>1. CancelHeldOK(c)'
    BY <1>1, <1>2, <1>3 DEF CancelHeldOK, Released, Ends, CancelFrame
  <2> QED
    BY <1>2, <2>1, CancelHeld
<1>4. CASE /\ CanTransition(stored[p].status, "cancelled")
           /\ snapshot'[c] = stored[p] /\ Goes(c, "asking")
  <2>1. pc[p] = "returned" /\ result[p] = "ok"
    <3>1. pc[p] = "returned"
      BY <1>1, <1>2 DEF Known, PlaceOK, RowOK
    <3>2. result[p] # "error"
      BY <1>1, <1>2 DEF Known, HeldOK
    <3> QED
      BY <1>1, <3>1, <3>2 DEF PlaceOK, CallTypes
  <2>2. ASSUME NEW d \in Cancels, TookOut(d, p), pc[d] = "returned"
        PROVE  FALSE
    <3>1. CancelHeldOK(d) /\ Target[d] = p /\ reply[d] = 1
      BY <2>2 DEF HoldingInv, HeldInv, TookOut
    <3>2. stored[p].status = "cancelled"
      BY <2>2, <3>1 DEF CancelHeldOK
    <3> QED
      BY <1>4, <3>2 DEF CanTransition, orderTransitions
  <2>3. stored[p] = [status |-> verdict[p], filled |-> counted[p]]
    BY <1>1, <2>1, <2>2 DEF HeldOK
  <2>4. snapshot'[c].filled = counted[p]
    BY <1>4, <2>3
  <2>5. CancelHeldOK(c)'
    BY <1>1, <1>2, <1>4, <2>1, <2>4 DEF CancelHeldOK, Released, Goes, CancelFrame, Idle
  <2> QED
    BY <1>2, <1>4, <2>5, CancelHeld
<1> QED
  BY <1>1, <1>3, <1>4, GetByIDEffect

LEMMA AskEngineHeld ==
    ASSUME HoldingInv, NoneExpired', NEW c \in Cancels, AskEngine(c)
    PROVE  HeldInv'
<1>1. /\ CallTypes /\ LocalTypes /\ Target[c] \in Calls \ {c}
      /\ CancelOK(c) /\ CancelHeldOK(c)
  BY TwoKinds DEF HoldingInv, HeldInv, CallInv, FlowInv
<1>2. /\ CancelFrame(c) /\ UNCHANGED <<funds, stored, snapshot>> /\ pc[c] = "asking"
      /\ reply[c] = -1 /\ c \notin queue
  BY <1>1, AskEngineEffect DEF CancelOK
<1>3. CancelHeldOK(c)'
  BY <1>1, <1>2, AskEngineEffect
  DEF CancelHeldOK, Released, Goes, Ends, CancelFrame, Idle
<1> QED
  BY <1>2, <1>3, CancelHeld

LEMMA TakeCancelReplyHeld ==
    ASSUME HoldingInv, NoneExpired', NEW c \in Cancels, TakeCancelReply(c)
    PROVE  HeldInv'
<1>1. /\ CallTypes /\ LocalTypes /\ Target[c] \in Calls \ {c} /\ ~expired[c]
      /\ CancelOK(c) /\ CancelHeldOK(c)
  BY TwoKinds DEF HoldingInv, HeldInv, CallInv, FlowInv, NoneExpired
<1>2. /\ CancelFrame(c) /\ UNCHANGED <<funds, stored, snapshot, queue>> /\ pc[c] = "waiting"
      /\ \/ reply[c] = 1 /\ Goes(c, "releasing")
         \/ reply[c] = 0 /\ Ends(c, "error")
  BY <1>1, TakeCancelReplyEffect
<1>3. c \notin queue
  BY <1>1, <1>2 DEF CancelOK
<1>4. CancelHeldOK(c)'
  BY <1>1, <1>2, <1>3 DEF CancelHeldOK, Released, Goes, Ends, CancelFrame, Idle
<1> QED
  BY <1>2, <1>4, CancelHeld DEF Goes, Ends

\* Before a cancellation releases it, an order holds exactly what it will release.
LEMMA HoldsUnfilled ==
    ASSUME HoldingInv, NEW c \in Cancels, pc[c] = "releasing"
    PROVE  /\ Unfilled(c) \in Nat /\ Unfilled(c) <= held[Target[c]]
           /\ ~MarketBuy(Target[c]) => held[Target[c]] = Unfilled(c)
<1> DEFINE p == Target[c]
           req == request[p]
           k == counted[p]
<1>1. /\ p \in OrderIds /\ CallInv /\ HeldOK(p) /\ CancelOK(c) /\ CancelHeldOK(c)
      /\ PlaceOK(p)
  BY TwoKinds DEF HoldingInv, HeldInv, CallInv, FlowInv
<1>2. /\ reply[c] = 1 /\ result[p] = "ok" /\ snapshot[c].filled = k /\ pc[p] = "returned"
      /\ ~IsFinal(verdict[p]) /\ ~Released(c)
  BY <1>1 DEF CancelOK, CancelHeldOK, Released
<1>3. \A d \in Cancels : Target[d] = p => ~Released(d)
  BY <1>1, <1>2 DEF CancelOK, TookOut, Released
<1>4. held[p] = amount[p] - Releasable(p)
  BY <1>1, <1>2, <1>3 DEF HeldOK
<1>5. /\ req \in Requests /\ req.qty \in Nat /\ k \in Nat /\ k <= req.qty
      /\ amount[p] \in Nat /\ Unfilled(c) \in Nat /\ held[p] \in Nat
  BY <1>1, OrderServiceAssumption, HeldIsFrozen, ReleasesNatural
  DEF CallInv, LocalTypes, FlowInv, CountOK
<1>6. CASE MarketBuy(p)
  <2>1. Unfilled(c) = 0
    BY <1>6 DEF MarketBuy, Unfilled
  <2> QED
    BY <1>5, <1>6, <2>1
<1>7. CASE ~MarketBuy(p)
  <2> DEFINE all == Cost(req, req.qty)
             paid == Cost(req, k)
  <2>1. amount[p] = all
    BY <1>1, <1>2, <1>7 DEF HeldOK
  <2>2. Unfilled(c) = all - paid
    BY <1>2, <1>7 DEF MarketBuy, Unfilled
  <2>3. all \in Nat /\ paid \in Nat /\ paid <= all
    BY <1>5, CostNatural, CostMonotone
  <2>4. k = 0 => paid = 0
    BY <1>5, OrderServiceAssumption DEF Cost
  <2>5. Releasable(p) = IF all # 0 /\ k # 0 THEN paid ELSE 0
    BY <1>2, <2>1 DEF Releasable, IsFinal
  <2> HIDE DEF all, paid
  <2>6. all - Releasable(p) = all - paid
    BY <2>3, <2>4, <2>5
  <2>7. held[p] = Unfilled(c)
    BY <1>4, <2>1, <2>2, <2>6
  <2> QED
    BY <1>5, <2>7
<1> QED
  BY <1>6, <1>7

LEMMA UnfreezeCancelOrderHeld ==
    ASSUME HoldingInv, NoneExpired', NEW c \in Cancels, UnfreezeCancelOrder(c)
    PROVE  HeldInv'
<1> DEFINE p == Target[c]
<1>1. /\ CallTypes /\ LocalTypes /\ p \in OrderIds /\ p \in Calls \ {c} /\ c \in Calls
      /\ CancelOK(c) /\ CancelHeldOK(c)
  BY TwoKinds DEF HoldingInv, HeldInv, CallInv, FlowInv
<1>2. /\ CancelFrame(c) /\ UNCHANGED <<stored, snapshot, queue>> /\ pc[c] = "releasing"
      /\ Goes(c, "saving") /\ Unfreeze(c, p, Unfilled(c)) /\ reply[c] = 1
  BY <1>1, UnfreezeCancelOrderEffect DEF CancelOK
<1>3. /\ held'[p] = held[p] - Unfilled(c) /\ held'[p] \in Nat
      /\ \A q \in OrderIds : q # p => held'[q] = held[q]
  BY <1>1, <1>2, HoldsUnfilled, UnfreezeSucceeds
<1>4. ~MarketBuy(p) => held'[p] = 0
  BY <1>2, <1>3, HoldsUnfilled
<1>5. UNCHANGED <<amount, counted, verdict, request, reply, life, stored, snapshot, queue>>
  BY <1>2 DEF CancelFrame
<1>6. \A d \in Cancels : /\ d # c => Released(d)' = Released(d)
                         /\ pc'[d] = "returned" <=> pc[d] = "returned"
  BY <1>2, TwoKinds DEF CancelFrame, Idle, Goes, Released
<1>7. Released(c)'
  BY <1>2, <1>5 DEF Released, Goes
<1>8. ASSUME NEW q \in OrderIds
      PROVE  HeldOK(q)'
  <2>1. HeldOK(q) /\ Idle(q) /\ PlaceOK(q)
    BY <1>2, TwoKinds DEF HoldingInv, HeldInv, CallInv, FlowInv, CancelFrame
  <2>2. Releasable(q)' = Releasable(q) /\ MarketBuy(q)' = MarketBuy(q)
    BY <1>5 DEF Releasable, MarketBuy
  <2>3. CASE q # p
    <3>1. held'[q] = held[q]
      BY <1>3, <2>3
    <3>2. \A d \in Cancels : Target[d] = q => Released(d)' = Released(d)
      BY <1>6, <2>3
    <3> QED
      BY <1>5, <1>6, <2>1, <2>2, <3>1, <3>2 DEF HeldOK, TookOut, Idle, Goes
  <2>4. CASE q = p
    <3>1. held'[p] >= 0
      BY <1>3
    <3>2. pc[p] = "returned" /\ result[p] = "ok"
      BY <1>1, <1>2 DEF CancelOK, CancelHeldOK
    <3>3. pc'[p] = "returned" /\ result'[p] = "ok"
      BY <2>1, <2>4, <3>2 DEF Idle, Goes
    <3> QED
      BY <1>5, <1>6, <1>7, <2>1, <2>2, <2>4, <3>1, <3>2, <3>3 DEF HeldOK, TookOut
  <2> QED
    BY <2>3, <2>4
<1>9. ASSUME NEW d \in Cancels
      PROVE  CancelHeldOK(d)'
  <2>1. CancelHeldOK(d) /\ CancelOK(d) /\ Idle(Target[d]) /\ Target[d] \in OrderIds
    BY <1>2, TwoKinds DEF HoldingInv, HeldInv, CallInv, FlowInv, CancelFrame
  <2>2. MarketBuy(Target[d])' = MarketBuy(Target[d])
    BY <1>5 DEF MarketBuy
  <2>3. CASE d = c
    BY <1>1, <1>2, <1>4, <1>5, <2>1, <2>2, <2>3 DEF CancelHeldOK, Idle, Goes
  <2>4. CASE d # c
    <3>1. Idle(d)
      BY <1>2, <2>4, TwoKinds DEF CancelFrame
    <3>2. Released(d) => Target[d] # p
      BY <1>1, <1>2, <2>4 DEF Released, CancelOK, TookOut
    <3>3. Released(d) => held'[Target[d]] = held[Target[d]]
      BY <1>3, <2>1, <3>2
    <3> QED
      BY <1>5, <1>6, <2>1, <2>2, <2>4, <3>1, <3>3 DEF CancelHeldOK, Idle, Goes
  <2> QED
    BY <2>3, <2>4
<1> QED
  BY <1>8, <1>9 DEF HeldInv

LEMMA SaveCancelledHeld ==
    ASSUME HoldingInv, NoneExpired', NEW c \in Cancels, SaveCancelled(c)
    PROVE  HeldInv'
<1> DEFINE p == Target[c]
<1>1. /\ CallTypes /\ LocalTypes /\ p \in OrderIds /\ p \in Calls \ {c} /\ ~expired[c]
      /\ CancelOK(c) /\ CancelHeldOK(c)
  BY TwoKinds DEF HoldingInv, HeldInv, CallInv, FlowInv, NoneExpired
<1>2. /\ CancelFrame(c) /\ UNCHANGED <<funds, snapshot, queue>> /\ pc[c] = "saving"
      /\ Ends(c, "ok") /\ stored'[p] = [status |-> "cancelled", filled |-> 0]
      /\ reply[c] = 1
  <2>1. ~expired'[c]
    BY TwoKinds DEF NoneExpired
  <2> QED
    BY <1>1, <2>1, SaveCancelledEffect DEF CancelOK
<1>3. stored'[p].status = "cancelled"
  BY <1>2
<1>4. UNCHANGED <<amount, counted, verdict, request, reply, life, snapshot, queue, held>>
  BY <1>2 DEF CancelFrame, funds
<1>5. \A d \in Cancels : /\ Released(d)' = Released(d)
                         /\ d # c => (pc'[d] = "returned" <=> pc[d] = "returned")
  BY <1>2, TwoKinds DEF CancelFrame, Idle, Goes, Ends, Released
<1>6. pc'[c] = "returned" /\ result'[c] = "ok"
  BY <1>2 DEF Ends
<1>7. ASSUME NEW q \in OrderIds
      PROVE  HeldOK(q)'
  <2>1. HeldOK(q) /\ Idle(q)
    BY <1>2, TwoKinds DEF HoldingInv, HeldInv, CancelFrame
  <2>2. Releasable(q)' = Releasable(q) /\ MarketBuy(q)' = MarketBuy(q)
    BY <1>4 DEF Releasable, MarketBuy
  <2>3. CASE q # p
    <3>1. stored'[q] = stored[q]
      BY <1>2, <2>3 DEF CancelFrame
    <3>2. \A d \in Cancels : TookOut(d, q) => d # c
      BY <2>3 DEF TookOut
    <3> QED
      BY <1>4, <1>5, <2>1, <2>2, <3>1, <3>2 DEF HeldOK, TookOut, Idle, Goes
  <2>4. CASE q = p
    <3>1. TookOut(c, p)' /\ pc'[c] = "returned"
      BY <1>2, <1>4, <1>6 DEF TookOut
    <3> QED
      BY <1>3, <1>4, <1>5, <2>1, <2>2, <2>4, <3>1 DEF HeldOK, Idle, Goes
  <2> QED
    BY <2>3, <2>4
<1>8. ASSUME NEW d \in Cancels
      PROVE  CancelHeldOK(d)'
  <2>1. /\ CancelHeldOK(d) /\ CancelOK(d) /\ Idle(Target[d])
        /\ stored'[Target[d]] = stored[Target[d]] \/ stored'[Target[d]].status = "cancelled"
    BY <1>2, <1>3, TwoKinds DEF HoldingInv, HeldInv, CallInv, FlowInv, CancelFrame
  <2>2. MarketBuy(Target[d])' = MarketBuy(Target[d])
    BY <1>4 DEF MarketBuy
  <2>3. CASE d = c
    BY <1>1, <1>2, <1>3, <1>4, <1>5, <1>6, <2>1, <2>2, <2>3 DEF CancelHeldOK, CancelOK
  <2>4. CASE d # c
    <3>1. Idle(d)
      BY <1>2, <2>4, TwoKinds DEF CancelFrame
    <3> QED
      BY <1>4, <1>5, <2>1, <2>2, <2>4, <3>1 DEF CancelHeldOK, Idle, Goes
  <2> QED
    BY <2>3, <2>4
<1> QED
  BY <1>7, <1>8 DEF HeldInv
\* What orders hold survives a step of the engine on order p.
LEMMA EngineHeld ==
    ASSUME HoldingInv, NoneExpired', NEW p \in OrderIds, EngineFrame, Alone(p),
           \A q \in OrderIds : q \in queue' => q \in queue,
           result[p] # "error", counted[p] <= life'[p].filled,
           \A d \in Cancels : Released(d)' = Released(d),
           \A d \in Cancels : pc[d] = "returned" => reply'[d] = reply[d],
           \A d \in Cancels : CancelHeldOK(d)'
    PROVE  HeldInv'
<1>1. UNCHANGED <<held, pc, result, stored, request, amount, counted, verdict>>
  BY DEF EngineFrame, funds, locals
<1>2. ASSUME NEW q \in OrderIds
      PROVE  HeldOK(q)'
  <2>1. HeldOK(q)
    BY DEF HoldingInv, HeldInv
  <2>2. Releasable(q)' = Releasable(q) /\ MarketBuy(q)' = MarketBuy(q)
    BY <1>1 DEF Releasable, MarketBuy
  <2>3. counted'[q] <= life'[q].filled
    BY <1>1, <2>1 DEF Alone, HeldOK
  <2>4. result[q] = "error" => life'[q] = life[q]
    BY DEF Alone
  <2>5. (\A d \in Cancels : TookOut(d, q)' => pc'[d] # "returned")
           => \A d \in Cancels : TookOut(d, q) => pc[d] # "returned"
    BY <1>1 DEF TookOut
  <2> QED
    BY <1>1, <2>1, <2>2, <2>3, <2>4, <2>5 DEF HeldOK
<1> QED
  BY <1>2 DEF HeldInv

LEMMA EngineAnswersHeld ==
    ASSUME HoldingInv, NoneExpired', NEW p \in OrderIds, EngineAnswers(p)
    PROVE  HeldInv'
<1>1. /\ CallTypes /\ LocalTypes /\ FlowInv /\ HeldOK(p) /\ LifeOK(p)
  BY DEF HoldingInv, HeldInv, CallInv, FlowInv
<1>2. /\ EngineFrame /\ Serves(p) /\ Alone(p)
      /\ p \in queue /\ p \notin queue' /\ life[p].status = "none"
      /\ life'[p] \in Engine!Answers(request[p])
  BY <1>1, EngineAnswersEffect
<1>3. result[p] # "error"
  BY <1>1, <1>2 DEF HeldOK
<1>4. counted[p] <= life'[p].filled
  <2>1. request[p] \in Requests /\ counted[p] \in Nat
    BY <1>1 DEF LocalTypes
  <2>2. life'[p].filled \in Nat
    BY <1>2, <2>1, AnswerOK
  <2>3. life[p].filled = 0
    BY <1>1, <1>2, <2>1, OrderFields DEF LifeOK
  <2> QED
    BY <1>1, <2>1, <2>2, <2>3 DEF HeldOK
<1>5. \A d \in Cancels : reply'[d] = reply[d] /\ (d \in queue' <=> d \in queue)
  BY <1>2, TwoKinds DEF Serves
<1>6. UNCHANGED <<held, pc, result, stored, request, counted, verdict, snapshot>>
  BY <1>2 DEF EngineFrame, funds, locals
<1>7. \A d \in Cancels : Released(d)' = Released(d)
  BY <1>5, <1>6 DEF Released
<1>8. \A d \in Cancels : CancelHeldOK(d)'
  BY <1>5, <1>6, <1>7 DEF HoldingInv, HeldInv, CancelHeldOK, MarketBuy
<1> QED
  BY <1>2, <1>3, <1>4, <1>5, <1>7, <1>8, TwoKinds, EngineHeld DEF Serves

LEMMA EngineTradesHeld ==
    ASSUME HoldingInv, NoneExpired', NEW p \in OrderIds, EngineTrades(p)
    PROVE  HeldInv'
<1>1. CallTypes /\ LocalTypes /\ FlowInv /\ HeldOK(p)
  BY DEF HoldingInv, HeldInv, CallInv
<1>2. EngineFrame /\ Alone(p) /\ UNCHANGED <<queue, reply>> /\ life[p].status = "open"
  BY <1>1, EngineTradesEffect
<1>3. result[p] # "error"
  BY <1>1, <1>2 DEF HeldOK
<1>4. counted[p] <= life'[p].filled
  <2>1. counted[p] \in Nat /\ life[p].filled \in Nat /\ life'[p].filled \in Nat
    BY <1>1, OrderFacts, EngineTradesFlow DEF LocalTypes
  <2>2. counted[p] <= life[p].filled /\ life'[p].filled >= life[p].filled
    BY <1>1, EngineTradesFlow DEF HeldOK
  <2> QED
    BY <2>1, <2>2
<1>5. UNCHANGED <<held, pc, result, stored, request, counted, verdict, snapshot>>
  BY <1>2 DEF EngineFrame, funds, locals
<1>6. \A d \in Cancels : Released(d)' = Released(d)
  BY <1>2, <1>5 DEF Released
<1>7. \A d \in Cancels : CancelHeldOK(d)'
  BY <1>2, <1>5, <1>6 DEF HoldingInv, HeldInv, CancelHeldOK, MarketBuy
<1> QED
  BY <1>2, <1>3, <1>4, <1>6, <1>7, EngineHeld

LEMMA EngineCancelsHeld ==
    ASSUME HoldingInv, NoneExpired', NEW c \in Cancels, EngineCancels(c)
    PROVE  HeldInv'
<1> DEFINE p == Target[c]
<1>1. /\ CallTypes /\ LocalTypes /\ FlowInv /\ p \in OrderIds /\ HeldOK(p) /\ PlaceOK(p)
      /\ CancelOK(c) /\ CancelHeldOK(c)
  BY TwoKinds DEF HoldingInv, HeldInv, CallInv, FlowInv
<1>2. /\ EngineFrame /\ Serves(c) /\ Alone(p) /\ c \in queue /\ c \notin queue'
      /\ life'[p].filled = life[p].filled
  BY <1>1, EngineCancelsEffect, EngineCancelsFlow
<1>3. pc[c] = "waiting" /\ reply[c] = -1 /\ result[p] = "ok" /\ result[c] # "ok"
  BY <1>1, <1>2 DEF CancelHeldOK, CancelOK
<1>4. \A d \in Cancels : d # c => reply'[d] = reply[d] /\ (d \in queue' <=> d \in queue)
  BY <1>2, TwoKinds DEF Serves
<1>5. UNCHANGED <<held, pc, result, stored, request, counted, verdict, snapshot>>
  BY <1>2 DEF EngineFrame, funds, locals
<1>6. \A d \in Cancels : Released(d)' = Released(d)
  <2>1. Released(c)' = Released(c)
    <3>1. pc[c] = "waiting" /\ pc'[c] = "waiting"
      BY <1>3, <1>5
    <3> QED
      BY <3>1 DEF Released
  <2>2. \A d \in Cancels : d # c => Released(d)' = Released(d)
    BY <1>4, <1>5 DEF Released
  <2> QED
    BY <2>1, <2>2
<1>7. reply'[c] = 1 => ~IsFinal(verdict[p])
  <2>1. reply'[c] = 1 => life[p].status = "open"
    BY <1>1, TwoKinds DEF EngineCancels, Engine!Withdraw, CallTypes
  <2>2. Judged(p)
    BY <1>3 DEF Judged
  <2> QED
    BY <1>1, <2>1, <2>2, OpenOrder
<1>8. ASSUME NEW d \in Cancels
      PROVE  CancelHeldOK(d)'
  <2>1. CancelHeldOK(d) /\ MarketBuy(Target[d])' = MarketBuy(Target[d])
    BY <1>5 DEF HoldingInv, HeldInv, MarketBuy
  <2>2. CASE d = c
    BY <1>1, <1>2, <1>3, <1>5, <1>6, <1>7, <2>1, <2>2 DEF CancelHeldOK
  <2>3. CASE d # c
    BY <1>4, <1>5, <1>6, <2>1, <2>3 DEF CancelHeldOK
  <2> QED
    BY <2>2, <2>3
<1>9. counted[p] <= life'[p].filled
  BY <1>1, <1>2 DEF HeldOK
<1> QED
  BY <1>1, <1>2, <1>3, <1>4, <1>6, <1>8, <1>9, TwoKinds, EngineHeld DEF Serves

LEMMA HeldInit == Init => HeldInv
<1> SUFFICES ASSUME Init PROVE HeldInv
  OBVIOUS
<1>1. NoneExpired
  BY DEF Init, NoneExpired
<1>2. ASSUME NEW p \in OrderIds
      PROVE  HeldOK(p)
  <2>1. /\ pc[p] = "new" /\ result[p] = "none" /\ held[p] = 0 /\ counted[p] = 0
        /\ life[p].filled = 0
    BY TwoKinds DEF Init, Engine!Init, Engine!Unknown
  <2> QED
    BY <2>1 DEF HeldOK
<1>3. ASSUME NEW c \in Cancels
      PROVE  CancelHeldOK(c)
  BY TwoKinds DEF Init, CancelHeldOK, Released
<1> QED
  BY <1>1, <1>2, <1>3 DEF HeldInv

LEMMA HeldStep ==
    ASSUME HoldingInv, BuysPriced, Deadlines = {}, [Next]_vars
    PROVE  HeldInv'
<1>1. NoneExpired'
  BY NobodyExpires DEF HoldingInv
<1>2. ASSUME NEW p \in OrderIds, Place(p)
      PROVE  HeldInv'
  BY <1>1, <1>2, ValidateHeld, SizeHeld, FreezeHeld, CreateHeld, UndoHeld, SendHeld,
     TakeReplyHeld, GiveUpHeld, CountHeld, JudgeHeld, ReleaseHeld, SaveHeld, RefundHeld,
     RejectHeld
  DEF Place
<1>3. ASSUME NEW c \in Cancels, Cancel(c)
      PROVE  HeldInv'
  BY <1>1, <1>3, GetByIDHeld, AskEngineHeld, TakeCancelReplyHeld, UnfreezeCancelOrderHeld,
     SaveCancelledHeld
  DEF Cancel
<1>4. ASSUME NEW c \in Calls, Expire(c)
      PROVE  FALSE
  BY <1>4 DEF Expire
<1>5. CASE UNCHANGED vars
  <2>1. UNCHANGED <<held, stored, life, queue, reply, pc, request, amount, counted, verdict,
                    snapshot, expired, result>>
    BY <1>5 DEF vars, funds, engine, locals
  <2>2. ASSUME NEW p \in OrderIds
        PROVE  HeldOK(p)'
    BY <2>1 DEF HoldingInv, HeldInv, HeldOK, MarketBuy, Releasable, Released, TookOut
  <2>3. ASSUME NEW c \in Cancels
        PROVE  CancelHeldOK(c)'
    BY <2>1 DEF HoldingInv, HeldInv, CancelHeldOK, MarketBuy, Released
  <2> QED
    BY <1>1, <2>2, <2>3 DEF HeldInv
<1> QED
  BY <1>1, <1>2, <1>3, <1>4, <1>5, EngineAnswersHeld, EngineTradesHeld, EngineCancelsHeld
  DEF Next

\* Where no context ends and only limit and stop-limit buys have a price, what every
\* call holds, has released and will release agrees as HeldInv says.
THEOREM HoldingInvariant ==
    ASSUME Deadlines = {}, BuysPriced
    PROVE  Spec => []HoldingInv
<1>1. Init => HoldingInv
  BY CallInvInit, BalancedInit, HeldInit DEF HoldingInv
<1>2. HoldingInv /\ [Next]_vars => HoldingInv'
  <2> SUFFICES ASSUME HoldingInv, [Next]_vars
               PROVE  HoldingInv'
    OBVIOUS
  <2>1. CallInv'
    BY CallInvStep DEF HoldingInv
  <2>2. (\A a \in Accounts : Balanced(a))'
    BY StepMoves, BalancedStep DEF HoldingInv, CallInv
  <2>3. HeldInv'
    BY HeldStep
  <2> QED
    BY <2>1, <2>2, <2>3 DEF HoldingInv
<1> QED
  BY <1>1, <1>2, PTL DEF Spec
\* What the unfilled part of an order costs is what all of it costs less the filled.
LEMMA CostOfRest ==
    ASSUME NEW req \in Requests, NEW k \in Nat, k <= req.qty
    PROVE  Cost(req, req.qty - k) = Cost(req, req.qty) - Cost(req, k)
<1> DEFINE x == req.price
           n == req.qty
<1>1. x \in Nat /\ n \in Nat
  BY OrderServiceAssumption
<1> HIDE DEF x, n
<1>2. x * (n - k) = x * n - x * k
  BY <1>1
<1> QED
  BY <1>2 DEF Cost, x, n

LEMMA OwedIsHeld ==
    ASSUME HoldingInv, NEW p \in OrderIds
    PROVE  held[p] >= Owed(p) /\ held[p] >= 0
<1> DEFINE req == request[p]
           f == life[p].filled
           k == counted[p]
           all == Cost(req, req.qty)
           paid == Cost(req, k)
           rest == Cost(req, req.qty - f)
<1>1. /\ CallInv /\ CallTypes /\ LocalTypes /\ FlowInv
      /\ HeldOK(p) /\ PlaceOK(p) /\ ~expired[p]
  BY TwoKinds DEF HoldingInv, HeldInv, CallInv, FlowInv, NoneExpired
<1>2. /\ req \in Requests /\ req.qty \in Nat /\ f \in Nat /\ f <= req.qty
      /\ k \in Nat /\ k <= f /\ amount[p] \in Nat /\ held[p] \in Nat
  BY <1>1, OrderFacts, HeldIsFrozen DEF LocalTypes, HeldOK
<1>3. /\ all \in Nat /\ paid \in Nat /\ rest \in Nat /\ rest <= all - paid /\ paid <= all
  <2>1. rest = all - Cost(req, f)
    BY <1>2, CostOfRest
  <2>2. Cost(req, f) \in Nat /\ paid <= Cost(req, f) /\ Cost(req, f) <= all
    BY <1>2, CostNatural, CostMonotone
  <2>3. all \in Nat /\ paid \in Nat
    BY <1>2, CostNatural
  <2> DEFINE m == Cost(req, f)
  <2> HIDE DEF all, paid, rest, m
  <2>4. rest = all - m /\ m \in Nat /\ paid <= m /\ m <= all
    BY <2>1, <2>2 DEF m
  <2> QED
    BY <2>3, <2>4
<1>4. CASE MarketBuy(p) \/ (req.side = "buy" /\ req.type = "stop_loss")
  <2>1. Owed(p) = 0
    BY <1>4 DEF Owed, MarketBuy
  <2> QED
    BY <1>2, <2>1
<1>5. CASE ~(MarketBuy(p) \/ (req.side = "buy" /\ req.type = "stop_loss"))
  <2>1. Owed(p) = IF p \in queue THEN all
                  ELSE IF life[p].status = "open" THEN rest ELSE 0
    BY <1>5 DEF Owed, MarketBuy
  <2>2. CASE p \in queue
    <3>1. pc[p] = "waiting"
      BY <1>1, <2>2, OrderFacts DEF PlaceOK, HeldOK, Judged, CallTypes
    <3>2. amount[p] = all /\ held[p] = amount[p]
      BY <1>1, <1>5, <3>1 DEF HeldOK, PlaceOK
    <3> QED
      BY <1>2, <2>1, <2>2, <3>2
  <2>3. CASE p \notin queue /\ life[p].status = "open"
    <3>1. /\ result[p] # "error"
          /\ pc[p] \notin {"new", "sizing", "freezing", "creating", "undoing", "sending",
                           "refunding", "rejecting"}
      BY <1>1, <2>3, OpenOrder DEF HeldOK
    <3>2. amount[p] = all
      BY <1>1, <1>5, <3>1 DEF HeldOK
    <3>3. CASE pc[p] \in {"waiting", "counting", "judging", "releasing"}
      <4>1. held[p] = all
        BY <1>1, <3>2, <3>3 DEF HeldOK
      <4>2. rest <= all
        <5> HIDE DEF all, paid, rest
        <5> QED
          BY <1>3
      <4>3. Owed(p) = rest
        BY <2>1, <2>3
      <4> HIDE DEF all, paid, rest
      <4> QED
        BY <1>2, <1>3, <4>1, <4>2, <4>3
    <3>4. CASE pc[p] = "saving" \/ result[p] = "ok"
      <4>1. \A c \in Cancels : Target[c] = p => ~Released(c)
        BY <1>1, <2>3, OpenOrder DEF Released
      <4>2. held[p] = amount[p] - Releasable(p)
        BY <1>1, <3>4, <4>1 DEF HeldOK
      <4>3. ~IsFinal(verdict[p])
        BY <1>1, <2>3, <3>4, OpenOrder DEF Judged
      <4>4. Releasable(p) \in {0, paid}
        BY <4>3 DEF Releasable, IsFinal
      <4> DEFINE released == Releasable(p)
      <4>5. released \in {0, paid} /\ held[p] = all - released /\ Owed(p) = rest
        BY <2>1, <2>3, <3>2, <4>2, <4>4
      <4> HIDE DEF all, paid, rest, released
      <4>6. held[p] >= rest
        BY <1>3, <4>5
      <4> QED
        BY <1>2, <4>5, <4>6
    <3>5. pc[p] = "returned" => result[p] = "ok"
      <4>1. result[p] \in {"none", "ok", "error"}
        BY <1>1, TwoKinds DEF CallTypes
      <4> QED
        BY <1>1, <3>1, <4>1 DEF PlaceOK
    <3>6. pc[p] \in {"waiting", "counting", "judging", "releasing", "saving", "returned"}
      BY <1>1, <3>1 DEF PlaceOK, PlaceSteps, Steps
    <3> QED
      BY <3>3, <3>4, <3>5, <3>6
  <2>4. CASE p \notin queue /\ life[p].status # "open"
    BY <1>2, <2>1, <2>4
  <2> QED
    BY <2>2, <2>3, <2>4
<1> QED
  BY <1>4, <1>5

\* Whatever its PlaceOrder and the cancellations that race with it have released, an
\* order that waits in the engine or rests in the book holds what it may have to pay.
THEOREM OrdersHoldWhatTheyOwe ==
    ASSUME Deadlines = {}, BuysPriced
    PROVE  Spec => []HoldsWhatItOwes
<1>1. HoldingInv => HoldsWhatItOwes
  BY OwedIsHeld DEF HoldsWhatItOwes
<1> QED
  BY <1>1, HoldingInvariant, PTL

\* Where no context ends, the orders of a user in the engine never owe more than he has
\* frozen, nor is more frozen than he brought, however his orders interleave.
THEOREM OrdersAreCovered ==
    ASSUME Deadlines = {}, BuysPriced
    PROVE  Spec => []OrdersCovered
<1>1. ASSUME HoldingInv, NEW a \in Accounts
      PROVE  /\ MapThenSumSet(LAMBDA p : Owes[p], OrdersOn(a)) <= frozen[a]
             /\ frozen[a] <= Deposited[a]
  <2> DEFINE S == OrdersOn(a)
             owes == Owes
  <2>1. IsFiniteSet(S) /\ S \subseteq OrderIds
    BY OrdersFinite
  <2>2. /\ Balanced(a) /\ LocalTypes /\ FlowInv
        /\ balance[a] \in Nat /\ frozen[a] \in Nat /\ held \in [OrderIds -> Int]
    BY <1>1 DEF HoldingInv, CallInv, FundTypes
  <2>3. ASSUME NEW p \in OrderIds
        PROVE  owes[p] \in Int /\ held[p] \in Int /\ owes[p] <= held[p]
    <3>1. owes[p] = Owed(p) /\ held[p] \in Int /\ owes[p] <= held[p]
      BY <1>1, <2>2, OwedIsHeld DEF Owes
    <3>2. /\ request[p] \in Requests /\ request[p].qty \in Nat
          /\ request[p].qty - life[p].filled \in Nat
          /\ life[p].status = "open" => life[p].qty = request[p].qty
      BY <2>2, OrderFacts
    <3>3. Owed(p) \in Int
      BY <3>2, CostNatural DEF Owed
    <3> QED
      BY <3>1, <3>3
  <2> HIDE DEF S, owes
  <2>4. SumOver(owes, S) <= SumOver(held, S)
    BY <2>1, <2>3, SumMonotone
  <2>5. SumOver(owes, S) <= frozen[a]
    BY <2>2, <2>4 DEF Balanced, S
  <2>6. frozen[a] <= Deposited[a]
    BY <2>2 DEF Balanced
  <2> QED
    BY <2>5, <2>6 DEF SumOver, S, owes
<1>2. HoldingInv => OrdersCovered
  BY <1>1 DEF OrdersCovered, NoOverselling
<1> QED
  BY <1>2, HoldingInvariant, PTL

\* Where no context ends, an order holds nothing once its PlaceOrder has failed or has
\* told that it ended without a trade, and no more than the price of what it traded once
\* a CancelOrder of it has succeeded, market buys excepted.
THEOREM EndedOrdersAreRefunded ==
    ASSUME Deadlines = {}, BuysPriced
    PROVE  Spec => []EndedRefunded
<1>1. ASSUME HoldingInv
      PROVE  EndedRefunded
  <2>1. ASSUME NEW p \in OrderIds, result[p] = "error"
        PROVE  held[p] = 0
    <3>1. HeldOK(p)
      BY <1>1 DEF HoldingInv, HeldInv
    <3> QED
      BY <2>1, <3>1 DEF HeldOK
  <2>2. ASSUME NEW p \in OrderIds, result[p] = "ok", counted[p] = 0,
               verdict[p] \in {"cancelled", "rejected"}
        PROVE  held[p] = 0
    <3>1. HeldOK(p) /\ LocalTypes
      BY <1>1 DEF HoldingInv, HeldInv, CallInv
    <3>2. ASSUME NEW c \in Cancels, Target[c] = p
          PROVE  ~Released(c)
      <4>1. CancelHeldOK(c) /\ IsFinal(verdict[p])
        BY <1>1, <2>2 DEF HoldingInv, HeldInv, IsFinal
      <4> QED
        BY <3>2, <4>1 DEF CancelHeldOK, Released
    <3>3. held[p] = amount[p] - Releasable(p)
      BY <2>2, <3>1, <3>2 DEF HeldOK
    <3>4. Releasable(p) = amount[p] /\ amount[p] \in Nat
      BY <2>2, <3>1 DEF Releasable, LocalTypes
    <3> QED
      BY <3>3, <3>4
  <2>3. RefusedRefunded
    BY <2>1, <2>2 DEF RefusedRefunded
  <2>4. ASSUME NEW c \in Cancels, result[c] = "ok", ~MarketBuy(Target[c])
        PROVE  held[Target[c]] <= Cost(request[Target[c]], life[Target[c]].filled)
    <3> DEFINE p == Target[c]
    <3>1. CancelHeldOK(c) /\ CallInv /\ p \in OrderIds
      BY <1>1, TwoKinds DEF HoldingInv, HeldInv
    <3>2. Released(c)
      BY <2>4, <3>1 DEF CancelHeldOK, Released
    <3>3. held[p] = 0
      BY <2>4, <3>1, <3>2 DEF CancelHeldOK
    <3>4. Cost(request[p], life[p].filled) \in Nat
      BY <3>1, OrderFacts, CostNatural DEF CallInv, FlowInv, LocalTypes
    <3> QED
      BY <3>3, <3>4
  <2>5. CancelledRefunded
    BY <2>4 DEF CancelledRefunded, MarketBuy
  <2> QED
    BY <2>3, <2>5 DEF EndedRefunded
<1> QED
  BY <1>1, HoldingInvariant, PTL

\* Once its PlaceOrder is over, an order that can trade is listed as open.
THEOREM OpenOrdersAreListed ==
    ASSUME Deadlines = {}, BuysPriced
    PROVE  Spec => []OpenIsListed
<1>1. ASSUME HoldingInv, NEW p \in OrderIds, pc[p] = "returned",
             p \in queue \/ life[p].status = "open"
      PROVE  stored[p].status \in {"open", "partially_filled"}
  <2>1. CallTypes /\ FlowInv /\ HeldOK(p) /\ PlaceOK(p)
    BY <1>1 DEF HoldingInv, HeldInv, CallInv, FlowInv
  <2>2. result[p] = "ok"
    <3>1. result[p] # "error"
      BY <1>1, <2>1 DEF HeldOK
    <3>2. result[p] # "none" /\ result[p] \in {"none", "ok", "error"}
      BY <1>1, <2>1, TwoKinds DEF PlaceOK, CallTypes
    <3> QED
      BY <3>1, <3>2
  <2>3. life[p].status = "open"
    BY <1>1, <2>1, <2>2 DEF PlaceOK, Judged
  <2>4. verdict[p] \in {"open", "partially_filled"}
    BY <2>1, <2>2, <2>3 DEF PlaceOK, Judged, IsFinal, Verdicts
  <2>5. \A c \in Cancels : ~TookOut(c, p)
    BY <2>1, <2>3, OpenOrder DEF TookOut
  <2>6. stored[p] = [status |-> verdict[p], filled |-> counted[p]]
    BY <2>1, <2>2, <2>5 DEF HeldOK
  <2> QED
    BY <2>4, <2>6
<1>2. HoldingInv => OpenIsListed
  BY <1>1 DEF OpenIsListed
<1> QED
  BY <1>2, HoldingInvariant, PTL
=============================================================================
