--------------------------- MODULE MatchingEngine ---------------------------
(***************************************************************************)
(* How callers reach a shard (internal/matching/engine.go): the map of     *)
(* shards under e.mu, the bounded channel ordersIn of each shard, the      *)
(* goroutine run that takes requests from it, the channel on which it      *)
(* answers each of them once, contexts that end while a call waits, and    *)
(* AddSymbol, RemoveSymbol and Stop at any moment.                         *)
(*                                                                         *)
(* A call is one PlaceOrder or CancelOrder of the engine.  Its steps:      *)
(*                                                                         *)
(*   new --Lookup--> found --Enqueue--> waiting --TakeReply--> returned    *)
(*                     |                   |                               *)
(*                     +-------GiveUp------+----------------> returned     *)
(*                                                                         *)
(* What an order does to the book is OrderBook's subject.  Here a book is  *)
(* the set of orders that rest in it: an order may take any of them out    *)
(* (the makers it fills) and may come to rest itself; a cancellation takes *)
(* out its order if it finds it.                                           *)
(***************************************************************************)
EXTENDS Integers, Sequences, SequencesExt, FiniteSets

CONSTANTS
    Orders,     \* calls of PlaceOrder, each with its order
    Cancels,    \* calls of CancelOrder
    Target,     \* Target[c]: the order that call c of CancelOrder names
    Symbols,    \* trading pairs
    SymbolOf,   \* SymbolOf[c]: the pair that call c names
    Shards,     \* shards that AddSymbol can create, each once
    Capacity,   \* room in ordersIn (1024)
    NoShard,    \* a missing entry of the map
    NoCall

Calls == Orders \cup Cancels

ASSUME CallsAssumption ==
    /\ Orders \cap Cancels = {}
    /\ NoCall \notin Calls
    /\ Target \in [Cancels -> Orders]
    /\ SymbolOf \in [Calls -> Symbols]

ASSUME ShardsAssumption ==
    /\ NoShard \notin Shards
    /\ Capacity \in Nat \ {0}

VARIABLES
    shards,     \* shards[sym]: the entry of the map e.shards
    removing,   \* deleted by RemoveSymbol, stopCh not yet closed
    closes,     \* closes[sh]: how often stopCh was closed
    loop,       \* loop[sh]: where the goroutine of sh is
    busy,       \* busy[sh]: the call it works on
    queue,      \* queue[sh]: ordersIn
    resting,    \* resting[sh]: the orders in the book
    log,        \* log[sh]: the calls that took effect, in order (history)
    pc,         \* pc[c]: where call c is
    shardOf,    \* shardOf[c]: the shard it looked up
    expired,    \* expired[c]: its context is done
    reply,      \* reply[c]: what its resultCh holds
    outcome,    \* outcome[c]: what it returned
    before      \* before[c]: the calls that had returned when it began (history)

mapVars == <<shards, removing, closes>>
shardVars == <<loop, busy, queue, resting, log>>
callVars == <<pc, shardOf, expired, reply, outcome, before>>
vars == <<mapVars, shardVars, callVars>>

Registered == { shards[sym] : sym \in Symbols } \ {NoShard}

(***************************************************************************)
(* The map of shards.                                                      *)
(***************************************************************************)
AddSymbol(sym) ==
    /\ shards[sym] = NoShard
    /\ \E sh \in Shards :
          /\ loop[sh] = "none"
          /\ shards' = [shards EXCEPT ![sym] = sh]
          /\ loop' = [loop EXCEPT ![sh] = "select"]
    /\ UNCHANGED <<removing, closes, busy, queue, resting, log, callVars>>

RemoveSymbol(sym) ==
    /\ shards[sym] # NoShard
    /\ shards' = [shards EXCEPT ![sym] = NoShard]
    /\ removing' = removing \cup {shards[sym]}
    /\ UNCHANGED <<closes, shardVars, callVars>>

\* Mutant: RemoveSymbol forgets to close stopCh.
CloseForgotten(sh) ==
    /\ sh \in removing
    /\ removing' = removing \ {sh}
    /\ UNCHANGED <<shards, closes, shardVars, callVars>>

\* RemoveSymbol closes stopCh after it has released e.mu.
CloseRemoved(sh) ==
    /\ sh \in removing
    /\ removing' = removing \ {sh}
    /\ closes' = [closes EXCEPT ![sh] = @ + 1]
    /\ UNCHANGED <<shards, shardVars, callVars>>

\* Mutant: Stop goes through all shards it ever started.
StopAll ==
    /\ Registered # {}
    /\ closes' = [sh \in Shards |->
                    IF loop[sh] # "none" /\ closes[sh] = 0 THEN 1 ELSE closes[sh]]
    /\ shards' = [sym \in Symbols |-> NoShard]
    /\ UNCHANGED <<removing, shardVars, callVars>>

Stop ==
    /\ Registered # {}
    /\ closes' = [sh \in Shards |->
                    IF sh \in Registered /\ closes[sh] = 0 THEN 1 ELSE closes[sh]]
    /\ shards' = [sym \in Symbols |-> NoShard]
    /\ UNCHANGED <<removing, shardVars, callVars>>

(***************************************************************************)
(* PlaceOrder and CancelOrder.                                             *)
(***************************************************************************)
Return(c, what) ==
    /\ pc' = [pc EXCEPT ![c] = "returned"]
    /\ outcome' = [outcome EXCEPT ![c] = what]

\* A cancellation may run before, with or after the call that places its order:
\* the order is in the database before it is sent to the engine.
Lookup(c) ==
    /\ pc[c] = "new"
    /\ before' = [before EXCEPT ![c] = { d \in Calls : pc[d] = "returned" }]
    /\ LET sh == shards[SymbolOf[c]]
       IN  IF sh = NoShard
           THEN Return(c, "no symbol") /\ UNCHANGED shardOf
           ELSE /\ pc' = [pc EXCEPT ![c] = "found"]
                /\ shardOf' = [shardOf EXCEPT ![c] = sh]
                /\ UNCHANGED outcome
    /\ UNCHANGED <<mapVars, shardVars, expired, reply>>

\* Mutant: urgent calls overtake.
EnqueueFront(c) ==
    LET sh == shardOf[c]
    IN  /\ pc[c] = "found"
        /\ Len(queue[sh]) < Capacity
        /\ queue' = [queue EXCEPT ![sh] = <<c>> \o @]
        /\ pc' = [pc EXCEPT ![c] = "waiting"]
        /\ UNCHANGED <<mapVars, loop, busy, resting, log,
                       shardOf, expired, reply, outcome, before>>

Enqueue(c) ==
    LET sh == shardOf[c]
    IN  /\ pc[c] = "found"
        /\ Len(queue[sh]) < Capacity
        /\ queue' = [queue EXCEPT ![sh] = Append(@, c)]
        /\ pc' = [pc EXCEPT ![c] = "waiting"]
        /\ UNCHANGED <<mapVars, loop, busy, resting, log,
                       shardOf, expired, reply, outcome, before>>

\* The context of a call ends: the router gives a request 30 seconds.
Expire(c) ==
    /\ pc[c] # "returned" /\ ~expired[c]
    /\ expired' = [expired EXCEPT ![c] = TRUE]
    /\ UNCHANGED <<mapVars, shardVars, pc, shardOf, reply, outcome, before>>

\* Mutant: the second select has no case for the context.
GiveUpEarly(c) ==
    /\ pc[c] = "found" /\ expired[c]
    /\ Return(c, "context")
    /\ UNCHANGED <<mapVars, shardVars, shardOf, expired, reply, before>>

\* Either select of a call may choose ctx.Done, also when it could go on.
GiveUp(c) ==
    /\ pc[c] \in {"found", "waiting"} /\ expired[c]
    /\ Return(c, "context")
    /\ UNCHANGED <<mapVars, shardVars, shardOf, expired, reply, before>>

TakeReply(c) ==
    /\ pc[c] = "waiting" /\ reply[c] # "empty"
    /\ Return(c, reply[c])
    /\ reply' = [reply EXCEPT ![c] = "empty"]
    /\ UNCHANGED <<mapVars, shardVars, shardOf, expired, before>>

(***************************************************************************)
(* The goroutine of a shard.                                               *)
(***************************************************************************)
\* A select with both channels ready may take either.
Receive(sh) ==
    /\ loop[sh] = "select" /\ queue[sh] # <<>>
    /\ busy' = [busy EXCEPT ![sh] = Head(queue[sh])]
    /\ queue' = [queue EXCEPT ![sh] = Tail(@)]
    /\ loop' = [loop EXCEPT ![sh] = "process"]
    /\ UNCHANGED <<mapVars, resting, log, callVars>>

\* processOrder up to its answer.  The context is not looked at.
Process(sh) ==
    LET c == busy[sh]
    IN  /\ loop[sh] = "process"
        /\ \/ /\ c \in Orders
              /\ \E left \in SUBSET resting[sh], rests \in BOOLEAN :
                    resting' = [resting EXCEPT ![sh] =
                                  IF rests THEN left \cup {c} ELSE left]
           \/ /\ c \in Cancels
              /\ resting' = [resting EXCEPT ![sh] = @ \ {Target[c]}]
        /\ log' = [log EXCEPT ![sh] =
                     Append(@, [call |-> c,
                                found |-> c \in Cancels /\ Target[c] \in resting[sh]])]
        /\ loop' = [loop EXCEPT ![sh] = "answer"]
        /\ UNCHANGED <<mapVars, busy, queue, callVars>>

\* Mutant: an order that is not found is reported as cancelled.
AnswerDone(sh) ==
    /\ loop[sh] = "answer" /\ reply[busy[sh]] = "empty"
    /\ reply' = [reply EXCEPT ![busy[sh]] = "done"]
    /\ busy' = [busy EXCEPT ![sh] = NoCall]
    /\ loop' = [loop EXCEPT ![sh] = "select"]
    /\ UNCHANGED <<mapVars, queue, resting, log,
                   pc, shardOf, expired, outcome, before>>

\* Mutant: processOrder returns without an answer when it finds nothing.
AnswerFoundOnly(sh) ==
    LET c == busy[sh]
    IN  /\ loop[sh] = "answer" /\ reply[c] = "empty"
        /\ reply' = [reply EXCEPT ![c] =
                       IF c \in Cancels /\ ~Last(log[sh]).found THEN @ ELSE "done"]
        /\ busy' = [busy EXCEPT ![sh] = NoCall]
        /\ loop' = [loop EXCEPT ![sh] = "select"]
        /\ UNCHANGED <<mapVars, queue, resting, log,
                       pc, shardOf, expired, outcome, before>>

\* resultCh has room for one answer.
Answer(sh) ==
    LET c == busy[sh]
    IN  /\ loop[sh] = "answer" /\ reply[c] = "empty"
        /\ reply' = [reply EXCEPT ![c] =
                       IF c \in Cancels /\ ~Last(log[sh]).found
                       THEN "not found" ELSE "done"]
        /\ busy' = [busy EXCEPT ![sh] = NoCall]
        /\ loop' = [loop EXCEPT ![sh] = "select"]
        /\ UNCHANGED <<mapVars, queue, resting, log,
                       pc, shardOf, expired, outcome, before>>

Exit(sh) ==
    /\ loop[sh] = "select" /\ closes[sh] > 0
    /\ loop' = [loop EXCEPT ![sh] = "exited"]
    /\ UNCHANGED <<mapVars, busy, queue, resting, log, callVars>>

(***************************************************************************)
(* The specification.                                                      *)
(***************************************************************************)
Init ==
    /\ shards = [sym \in Symbols |-> NoShard]
    /\ removing = {}
    /\ closes = [sh \in Shards |-> 0]
    /\ loop = [sh \in Shards |-> "none"]
    /\ busy = [sh \in Shards |-> NoCall]
    /\ queue = [sh \in Shards |-> <<>>]
    /\ resting = [sh \in Shards |-> {}]
    /\ log = [sh \in Shards |-> <<>>]
    /\ pc = [c \in Calls |-> "new"]
    /\ shardOf = [c \in Calls |-> NoShard]
    /\ expired = [c \in Calls |-> FALSE]
    /\ reply = [c \in Calls |-> "empty"]
    /\ outcome = [c \in Calls |-> "none"]
    /\ before = [c \in Calls |-> {}]

Admin ==
    \/ \E sym \in Symbols : AddSymbol(sym) \/ RemoveSymbol(sym)
    \/ \E sh \in Shards : CloseRemoved(sh)
    \/ Stop

Go(c) == Lookup(c) \/ Enqueue(c) \/ GiveUp(c) \/ TakeReply(c)

Run(sh) == Receive(sh) \/ Process(sh) \/ Answer(sh) \/ Exit(sh)

Next ==
    \/ Admin
    \/ \E c \in Calls : Go(c) \/ Expire(c)
    \/ \E sh \in Shards : Run(sh)

Spec == Init /\ [][Next]_vars

\* The scheduler runs every goroutine that can go on.
FairSpec ==
    /\ Spec
    /\ \A c \in Calls : WF_vars(Enqueue(c) \/ GiveUp(c) \/ TakeReply(c))
    /\ \A sh \in Shards : WF_vars(Run(sh)) /\ WF_vars(CloseRemoved(sh))

(***************************************************************************)
(* Invariants.                                                             *)
(***************************************************************************)
Outcomes == {"none", "no symbol", "context", "done", "not found"}

TypeOK ==
    /\ shards \in [Symbols -> Shards \cup {NoShard}]
    /\ removing \subseteq Shards
    /\ closes \in [Shards -> Nat]
    /\ loop \in [Shards -> {"none", "select", "process", "answer", "exited"}]
    /\ busy \in [Shards -> Calls \cup {NoCall}]
    /\ queue \in [Shards -> Seq(Calls)]
    /\ \A sh \in Shards : Len(queue[sh]) <= Capacity
    /\ resting \in [Shards -> SUBSET Orders]
    /\ log \in [Shards -> Seq([call : Calls, found : BOOLEAN])]
    /\ pc \in [Calls -> {"new", "found", "waiting", "returned"}]
    /\ shardOf \in [Calls -> Shards \cup {NoShard}]
    /\ expired \in [Calls -> BOOLEAN]
    /\ reply \in [Calls -> {"empty", "done", "not found"}]
    /\ outcome \in [Calls -> Outcomes]
    /\ before \in [Calls -> SUBSET Calls]

\* A shard that callers can look up has its goroutine, its stopCh is open, and
\* it serves one pair: neither Stop nor RemoveSymbol ends it while it is there.
RegisteredRuns ==
    /\ \A sh \in Registered :
          /\ loop[sh] \notin {"none", "exited"}
          /\ closes[sh] = 0
          /\ sh \notin removing
    /\ \A s, t \in Symbols : shards[s] = shards[t] /\ shards[s] # NoShard => s = t

\* stopCh is closed at most once: a second close panics.
ClosedOnce == \A sh \in Shards : closes[sh] <= 1

\* The goroutine never waits to answer: the buffer of resultCh is free.
AnswerNeverBlocks ==
    \A sh \in Shards : loop[sh] = "answer" => reply[busy[sh]] = "empty"

\* The three together: a shard lives from AddSymbol to Stop or RemoveSymbol and is
\* ended once, however they race, and no call can hold it up.
ShardsSound == RegisteredRuns /\ ClosedOnce /\ AnswerNeverBlocks

\* What sh has processed, is processing and will process, in order.
Trail(sh) ==
    [i \in 1 .. Len(log[sh]) |-> log[sh][i].call]
        \o (IF loop[sh] = "process" THEN <<busy[sh]>> ELSE <<>>)
        \o queue[sh]

\* A call is taken up at most once, by the shard it looked up.
TakenUpOnce ==
    \A sh \in Shards :
        /\ IsInjective(Trail(sh))
        /\ \A i \in DOMAIN Trail(sh) : shardOf[Trail(sh)[i]] = sh

\* A call that had returned before another one began is processed before it,
\* also when it had given up waiting: its order is late but not out of order.
ProgramOrder ==
    \A sh \in Shards : \A i, j \in DOMAIN Trail(sh) :
        Trail(sh)[i] \in before[Trail(sh)[j]] => i < j

\* The two together: calls reach their shard once and in the order of their callers.
TrailSound == TakenUpOnce /\ ProgramOrder

\* What a call returns is what its shard found out for it.
AnswersTrue ==
    \A c \in Calls :
        /\ outcome[c] \in {"done", "not found"} =>
              \E i \in DOMAIN log[shardOf[c]] :
                  /\ log[shardOf[c]][i].call = c
                  /\ c \in Cancels =>
                       (outcome[c] = "done" <=> log[shardOf[c]][i].found)
        /\ outcome[c] = "no symbol" =>
              \A sh \in Shards : ~Contains(Trail(sh), c)

\* An order whose cancellation has succeeded is in no book, and none will get it.
CancelledStaysOut ==
    \A c \in Cancels : outcome[c] = "done" =>
        \A sh \in Shards : Target[c] \notin resting[sh]

\* What callers are told is true, and stays true.
AnswersHold == AnswersTrue /\ CancelledStaysOut

(***************************************************************************)
(* Liveness.                                                               *)
(***************************************************************************)
\* A call whose context has ended returns, whatever becomes of its shard.
CallsReturn ==
    \A c \in Calls :
        expired[c] /\ pc[c] \in {"found", "waiting"} ~> pc[c] = "returned"

\* Without a deadline, a call that has looked up a shard which stays open returns,
\* also when it first has to wait for room in the queue: the shard gets to it,
\* however many calls it takes up and leaves unread.
AnsweredWhileOpen ==
    \A c \in Calls :
        pc[c] \in {"found", "waiting"} ~>
            \/ pc[c] = "returned"
            \/ \E sh \in Shards : shardOf[c] = sh /\ closes[sh] > 0

\* The goroutine of a shard that left the map ends, whatever is in its queue.
ShardsEnd ==
    \A sh \in Shards :
        loop[sh] # "none" /\ sh \notin Registered ~> loop[sh] = "exited"
=============================================================================
