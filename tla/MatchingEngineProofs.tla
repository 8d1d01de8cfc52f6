------------------------ MODULE MatchingEngineProofs ------------------------
(***************************************************************************)
(* Proofs about MatchingEngine, for any number of calls, pairs and shards  *)
(* and any capacity: shards end once and never while callers can find      *)
(* them, calls reach their shard once and in the order of their callers,   *)
(* and what callers are told is true and stays true.                       *)
(***************************************************************************)
EXTENDS MatchingEngine, SequenceTheorems, TLAPS

(***************************************************************************)
(* The inductive invariant.                                                *)
(***************************************************************************)
\* A shard starts with its stopCh open, and RemoveSymbol closes it for one that is.
Lifecycle ==
    /\ \A sh \in Shards : loop[sh] = "none" => closes[sh] = 0 /\ sh \notin removing
    /\ \A sh \in removing : closes[sh] = 0

\* A shard at work has a call, and logged it before it answers.
AtWork ==
    \A sh \in Shards :
        /\ loop[sh] \in {"process", "answer"} => busy[sh] \in Calls
        /\ loop[sh] = "answer" =>
              /\ Len(log[sh]) > 0
              /\ log[sh][Len(log[sh])].call = busy[sh]

\* What the place of a call says of what it knows.
CallSteps ==
    \A c \in Calls :
        /\ pc[c] # "returned" => outcome[c] = "none"
        /\ pc[c] \in {"found", "waiting"} => shardOf[c] \in Shards
        /\ pc[c] = "new" => shardOf[c] = NoShard
        /\ outcome[c] = "no symbol" => shardOf[c] = NoShard
        /\ \A d \in before[c] : pc[d] = "returned"

\* Only calls that were sent are taken up.
SentOnly ==
    \A sh \in Shards : \A i \in 1 .. Len(Trail(sh)) :
        pc[Trail(sh)[i]] \in {"waiting", "returned"}

\* How many of the logged calls have got their answer.
Answered(sh) == IF loop[sh] = "answer" THEN Len(log[sh]) - 1 ELSE Len(log[sh])

\* An entry of a log bears out what call c is told.
Says(entry, c, what) ==
    /\ entry.call = c
    /\ c \in Cancels => (what = "done" <=> entry.found)

\* The shard of c has logged c and found out what it says.
Told(c, what) ==
    \E sh \in Shards :
        /\ shardOf[c] = sh
        /\ \E i \in 1 .. Answered(sh) : Says(log[sh][i], c, what)

AnswersTold ==
    \A c \in Calls :
        /\ reply[c] # "empty" => Told(c, reply[c])
        /\ outcome[c] \in {"done", "not found"} => Told(c, outcome[c])

Logged(sh) == { log[sh][i].call : i \in 1 .. Len(log[sh]) }

RestingLogged == \A sh \in Shards : resting[sh] \subseteq Logged(sh)

\* An order that sh took out of its book for a cancellation is in no book.
GoneFrom(sh, c) ==
    /\ c \in Cancels
    /\ Target[c] \in Logged(sh)
    /\ \A s \in Shards : Target[c] \notin resting[s]

FoundGone ==
    \A sh \in Shards : \A i \in 1 .. Len(log[sh]) :
        log[sh][i].found => GoneFrom(sh, log[sh][i].call)

EngineInv ==
    /\ TypeOK
    /\ RegisteredRuns /\ ClosedOnce /\ Lifecycle
    /\ AtWork /\ CallSteps
    /\ TrailSound /\ SentOnly
    /\ AnswersTold /\ RestingLogged /\ FoundGone

(***************************************************************************)
(* Types.                                                                  *)
(***************************************************************************)
Entry == [call : Calls, found : BOOLEAN]

\* One entry of a function changes.
LEMMA Updated ==
    ASSUME NEW A, NEW B, NEW f \in [A -> B], NEW a \in A, NEW b \in B
    PROVE  /\ [f EXCEPT ![a] = b] \in [A -> B]
           /\ [f EXCEPT ![a] = b][a] = b
           /\ \A x \in A : x # a => [f EXCEPT ![a] = b][x] = f[x]
OBVIOUS

MapTypes ==
    /\ shards \in [Symbols -> Shards \cup {NoShard}]
    /\ removing \subseteq Shards
    /\ closes \in [Shards -> Nat]

Places == {"none", "select", "process", "answer", "exited"}

ShardTypes ==
    /\ loop \in [Shards -> Places]
    /\ busy \in [Shards -> Calls \cup {NoCall}]
    /\ queue \in [Shards -> Seq(Calls)]
    /\ \A sh \in Shards : Len(queue[sh]) <= Capacity
    /\ resting \in [Shards -> SUBSET Orders]
    /\ log \in [Shards -> Seq(Entry)]

CallTypes ==
    /\ pc \in [Calls -> {"new", "found", "waiting", "returned"}]
    /\ shardOf \in [Calls -> Shards \cup {NoShard}]
    /\ expired \in [Calls -> BOOLEAN]
    /\ reply \in [Calls -> {"empty", "done", "not found"}]
    /\ outcome \in [Calls -> Outcomes]
    /\ before \in [Calls -> SUBSET Calls]

LEMMA TypeParts == TypeOK <=> MapTypes /\ ShardTypes /\ CallTypes
BY DEF TypeOK, MapTypes, ShardTypes, CallTypes, Places, Entry

LEMMA MapTypesStep ==
    ASSUME MapTypes, [Next]_vars
    PROVE  MapTypes'
<1> USE DEF MapTypes
<1>1. CASE UNCHANGED mapVars
  BY <1>1 DEF mapVars
<1>2. ASSUME NEW sym \in Symbols, AddSymbol(sym) PROVE MapTypes'
  BY <1>2, Updated DEF AddSymbol
<1>3. ASSUME NEW sym \in Symbols, RemoveSymbol(sym) PROVE MapTypes'
  BY <1>3 DEF RemoveSymbol
<1>4. ASSUME NEW sh \in Shards, CloseRemoved(sh) PROVE MapTypes'
  <2>1. closes[sh] + 1 \in Nat
    OBVIOUS
  <2> QED
    BY <1>4, <2>1, Updated DEF CloseRemoved
<1>5. CASE Stop
  BY <1>5 DEF Stop
<1> QED
  BY <1>1, <1>2, <1>3, <1>4, <1>5
     DEF Next, Admin, Go, Run, Lookup, Enqueue, GiveUp, TakeReply, Expire,
         Receive, Process, Answer, Exit, vars, mapVars

LEMMA CallTypesStep ==
    ASSUME MapTypes, ShardTypes, AtWork, CallTypes, [Next]_vars
    PROVE  CallTypes'
<1>1. CASE UNCHANGED callVars
  BY <1>1 DEF CallTypes, callVars
<1>2. ASSUME NEW c \in Calls, Lookup(c) PROVE CallTypes'
  <2>1. shards[SymbolOf[c]] \in Shards \cup {NoShard}
    BY CallsAssumption DEF MapTypes
  <2>2. pc' \in [Calls -> {"new", "found", "waiting", "returned"}]
    BY <1>2 DEF Lookup, Return, CallTypes
  <2>3. shardOf' \in [Calls -> Shards \cup {NoShard}]
    <3>1. \/ shardOf' = shardOf
          \/ shardOf' = [shardOf EXCEPT ![c] = shards[SymbolOf[c]]]
      BY <1>2 DEF Lookup
    <3> QED
      BY <2>1, <3>1 DEF CallTypes
  <2>4. outcome' \in [Calls -> Outcomes]
    BY <1>2 DEF Lookup, Return, CallTypes, Outcomes
  <2>5. before' \in [Calls -> SUBSET Calls]
    BY <1>2 DEF Lookup, CallTypes
  <2> QED
    BY <1>2, <2>2, <2>3, <2>4, <2>5 DEF Lookup, CallTypes
<1>3. ASSUME NEW c \in Calls, Enqueue(c) PROVE CallTypes'
  BY <1>3 DEF Enqueue, CallTypes
<1>4. ASSUME NEW c \in Calls, GiveUp(c) \/ TakeReply(c) PROVE CallTypes'
  <2>1. PICK what \in Outcomes : Return(c, what)
    BY <1>4 DEF GiveUp, TakeReply, CallTypes, Outcomes
  <2>2. pc' \in [Calls -> {"new", "found", "waiting", "returned"}]
    BY <2>1 DEF Return, CallTypes
  <2>3. outcome' \in [Calls -> Outcomes]
    BY <2>1, Updated DEF Return, CallTypes
  <2>4. reply' \in [Calls -> {"empty", "done", "not found"}]
    BY <1>4 DEF GiveUp, TakeReply, CallTypes
  <2> QED
    BY <1>4, <2>2, <2>3, <2>4 DEF GiveUp, TakeReply, CallTypes
<1>5. ASSUME NEW c \in Calls, Expire(c) PROVE CallTypes'
  BY <1>5 DEF Expire, CallTypes
<1>6. ASSUME NEW sh \in Shards, Answer(sh) PROVE CallTypes'
  BY <1>6 DEF Answer, CallTypes
<1> QED
  BY <1>1, <1>2, <1>3, <1>4, <1>5, <1>6
     DEF Next, Admin, Go, Run, AddSymbol, RemoveSymbol, CloseRemoved, Stop,
         Receive, Process, Exit, vars

LEMMA ShardTypesStep ==
    ASSUME ShardTypes, CallSteps, CallTypes, AtWork, [Next]_vars
    PROVE  ShardTypes'
<1>1. CASE UNCHANGED shardVars
  BY <1>1 DEF ShardTypes, shardVars
<1>2. ASSUME NEW sym \in Symbols, AddSymbol(sym) PROVE ShardTypes'
  BY <1>2 DEF AddSymbol, ShardTypes, Places
<1>3. ASSUME NEW c \in Calls, Enqueue(c) PROVE ShardTypes'
  <2>1. shardOf[c] \in Shards
    BY <1>3 DEF Enqueue, CallSteps
  <2> DEFINE q == queue[shardOf[c]]
  <2>2. /\ q \in Seq(Calls) /\ Len(q) < Capacity
        /\ Append(q, c) \in Seq(Calls)
        /\ Len(Append(q, c)) = Len(q) + 1
    BY <1>3, <2>1 DEF ShardTypes, Enqueue
  <2>3. Len(Append(q, c)) <= Capacity
    BY <2>2, ShardsAssumption, LenProperties
  <2>4. queue' = [queue EXCEPT ![shardOf[c]] = Append(q, c)]
    BY <1>3 DEF Enqueue
  <2> HIDE DEF q
  <2>5. queue' \in [Shards -> Seq(Calls)] /\ \A sh \in Shards : Len(queue'[sh]) <= Capacity
    BY <2>1, <2>2, <2>3, <2>4, Updated DEF ShardTypes
  <2> QED
    BY <1>3, <2>5 DEF Enqueue, ShardTypes
<1>4. ASSUME NEW sh \in Shards, Receive(sh) PROVE ShardTypes'
  <2> DEFINE q == queue[sh]
  <2>1. /\ q \in Seq(Calls) /\ q # <<>> /\ Len(q) <= Capacity
    BY <1>4 DEF Receive, ShardTypes
  <2>2. /\ Head(q) \in Calls /\ Tail(q) \in Seq(Calls)
        /\ Len(Tail(q)) = Len(q) - 1
    BY <2>1, HeadTailProperties
  <2>3. Len(Tail(q)) <= Capacity
    BY <2>1, <2>2, ShardsAssumption, LenProperties
  <2>4. /\ queue' = [queue EXCEPT ![sh] = Tail(q)]
        /\ busy' = [busy EXCEPT ![sh] = Head(q)]
        /\ loop' = [loop EXCEPT ![sh] = "process"]
        /\ UNCHANGED <<resting, log>>
    BY <1>4 DEF Receive
  <2> HIDE DEF q
  <2>5. queue' \in [Shards -> Seq(Calls)] /\ \A s \in Shards : Len(queue'[s]) <= Capacity
    BY <2>2, <2>3, <2>4, Updated DEF ShardTypes
  <2>6. busy' \in [Shards -> Calls \cup {NoCall}]
    BY <2>2, <2>4, Updated DEF ShardTypes
  <2>7. loop' \in [Shards -> Places]
    BY <2>4, Updated DEF ShardTypes, Places
  <2> QED
    BY <2>4, <2>5, <2>6, <2>7 DEF ShardTypes
<1>5. ASSUME NEW sh \in Shards, Process(sh) PROVE ShardTypes'
  <2> DEFINE c == busy[sh]
             found == c \in Cancels /\ Target[c] \in resting[sh]
             entry == [call |-> c, found |-> found]
  <2>1. c \in Calls
    BY <1>5 DEF Process, AtWork
  <2>2. found \in BOOLEAN
    OBVIOUS
  <2> HIDE DEF found
  <2>3. entry \in Entry
    BY <2>1, <2>2 DEF Entry
  <2>4. log' = [log EXCEPT ![sh] = Append(log[sh], entry)]
    BY <1>5 DEF Process, found
  <2> HIDE DEF entry
  <2>5. log' \in [Shards -> Seq(Entry)]
    <3>1. Append(log[sh], entry) \in Seq(Entry)
      BY <2>3 DEF ShardTypes
    <3> QED
      BY <2>4, <3>1, Updated DEF ShardTypes
  <2>6. resting' \in [Shards -> SUBSET Orders]
    <3>1. PICK new \in SUBSET Orders : resting' = [resting EXCEPT ![sh] = new]
      <4>1. CASE c \in Orders
        <5>1. PICK left \in SUBSET resting[sh], rests \in BOOLEAN :
                resting' = [resting EXCEPT ![sh] =
                              IF rests THEN left \cup {c} ELSE left]
          BY <1>5, <4>1, CallsAssumption DEF Process
        <5> QED
          BY <4>1, <5>1 DEF ShardTypes
      <4>2. CASE c \in Cancels
        BY <1>5, <4>2, CallsAssumption DEF Process, ShardTypes
      <4> QED
        BY <2>1, <4>1, <4>2 DEF Calls
    <3> QED
      BY <3>1 DEF ShardTypes
  <2>7. loop' \in [Shards -> Places]
    BY <1>5, Updated DEF Process, ShardTypes, Places
  <2> QED
    BY <1>5, <2>5, <2>6, <2>7 DEF Process, ShardTypes
<1>6. ASSUME NEW sh \in Shards, Answer(sh) PROVE ShardTypes'
  BY <1>6 DEF Answer, ShardTypes, Places
<1>7. ASSUME NEW sh \in Shards, Exit(sh) PROVE ShardTypes'
  BY <1>7 DEF Exit, ShardTypes, Places
<1> QED
  BY <1>1, <1>2, <1>3, <1>4, <1>5, <1>6, <1>7
     DEF Next, Admin, Go, Run, RemoveSymbol, CloseRemoved, Stop, Lookup, GiveUp,
         TakeReply, Expire, vars

LEMMA TypeStep == TypeOK /\ AtWork /\ CallSteps /\ [Next]_vars => TypeOK'
<1> SUFFICES ASSUME TypeOK, AtWork, CallSteps, [Next]_vars PROVE TypeOK'
  OBVIOUS
<1>1. MapTypes /\ ShardTypes /\ CallTypes
  BY TypeParts
<1>2. (MapTypes /\ ShardTypes /\ CallTypes)'
  BY <1>1, MapTypesStep, ShardTypesStep, CallTypesStep
<1> QED
  BY <1>2 DEF TypeOK, MapTypes, ShardTypes, CallTypes, Places, Entry

(***************************************************************************)
(* The life of a shard.                                                    *)
(***************************************************************************)
LifeInv == RegisteredRuns /\ ClosedOnce /\ Lifecycle

LEMMA LifeStep == MapTypes /\ ShardTypes /\ LifeInv /\ [Next]_vars => LifeInv'
<1> SUFFICES ASSUME MapTypes, ShardTypes, LifeInv, [Next]_vars PROVE LifeInv'
  OBVIOUS
<1> USE ShardsAssumption DEF LifeInv, RegisteredRuns, ClosedOnce, Lifecycle, Registered
<1>t. /\ shards \in [Symbols -> Shards \cup {NoShard}]
      /\ removing \subseteq Shards
      /\ closes \in [Shards -> Nat]
      /\ loop \in [Shards -> Places]
  BY DEF MapTypes, ShardTypes
<1>1. CASE UNCHANGED <<shards, removing, closes, loop>>
  BY <1>1
<1>2. ASSUME NEW sym \in Symbols, AddSymbol(sym) PROVE LifeInv'
  BY <1>t, <1>2 DEF AddSymbol
<1>3. ASSUME NEW sym \in Symbols, RemoveSymbol(sym) PROVE LifeInv'
  BY <1>t, <1>3 DEF RemoveSymbol, shardVars
<1>4. ASSUME NEW sh \in Shards, CloseRemoved(sh) PROVE LifeInv'
  BY <1>t, <1>4 DEF CloseRemoved, shardVars
<1>5. CASE Stop
  BY <1>t, <1>5 DEF Stop, shardVars
<1>6. ASSUME NEW sh \in Shards, Receive(sh) \/ Process(sh) \/ Answer(sh) PROVE LifeInv'
  <2>1. /\ UNCHANGED <<shards, removing, closes>>
        /\ \E to \in {"process", "answer", "select"} : loop' = [loop EXCEPT ![sh] = to]
        /\ loop[sh] # "none" /\ loop[sh] # "exited"
    BY <1>6 DEF Receive, Process, Answer, mapVars
  <2> QED
    BY <1>t, <2>1
<1>7. ASSUME NEW sh \in Shards, Exit(sh) PROVE LifeInv'
  BY <1>t, <1>7 DEF Exit, mapVars
<1>8. ASSUME NEW c \in Calls, Go(c) \/ Expire(c) PROVE LifeInv'
  BY <1>1, <1>8 DEF Go, Lookup, Enqueue, GiveUp, TakeReply, Expire, mapVars, shardVars
<1> QED
  BY <1>1, <1>2, <1>3, <1>4, <1>5, <1>6, <1>7, <1>8
     DEF Next, Admin, Run, vars, mapVars, shardVars

(***************************************************************************)
(* What a shard works on, and where a call is.                             *)
(***************************************************************************)
LEMMA AtWorkStep == ShardTypes /\ AtWork /\ [Next]_vars => AtWork'
<1> SUFFICES ASSUME ShardTypes, AtWork, [Next]_vars PROVE AtWork'
  OBVIOUS
<1> DEFINE Same(s) == busy'[s] = busy[s] /\ log'[s] = log[s] /\ loop'[s] = loop[s]
           Fine(s) == /\ loop'[s] \in {"process", "answer"} => busy'[s] \in Calls
                      /\ loop'[s] = "answer" =>
                            /\ Len(log'[s]) > 0
                            /\ log'[s][Len(log'[s])].call = busy'[s]
<1>1. ASSUME NEW s \in Shards, Same(s) PROVE Fine(s)
  BY <1>1 DEF AtWork
<1>2. CASE UNCHANGED <<loop, busy, log>>
  BY <1>1, <1>2 DEF AtWork
<1>3. ASSUME NEW sh \in Shards, NEW s \in Shards, Receive(sh) PROVE Fine(s)
  <2>1. CASE s = sh
    <3>1. queue[sh] \in Seq(Calls) /\ queue[sh] # <<>>
      BY <1>3 DEF Receive, ShardTypes
    <3>2. Head(queue[sh]) \in Calls
      BY <3>1, HeadTailProperties
    <3> QED
      BY <1>3, <2>1, <3>2 DEF Receive, ShardTypes
  <2>2. CASE s # sh
    BY <1>1, <1>3, <2>2 DEF Receive, ShardTypes
  <2> QED
    BY <2>1, <2>2
<1>4. ASSUME NEW sh \in Shards, NEW s \in Shards, Process(sh) PROVE Fine(s)
  <2>1. CASE s = sh
    <3> DEFINE entry == [call |-> busy[sh],
                         found |-> busy[sh] \in Cancels /\ Target[busy[sh]] \in resting[sh]]
    <3>1. /\ log' = [log EXCEPT ![sh] = Append(log[sh], entry)]
          /\ loop[sh] = "process" /\ loop' = [loop EXCEPT ![sh] = "answer"]
          /\ busy' = busy
      BY <1>4 DEF Process
    <3>2. entry.call = busy[sh]
      OBVIOUS
    <3> HIDE DEF entry
    <3>3. log[sh] \in Seq(Entry)
      BY DEF ShardTypes
    <3> DEFINE n == Len(log[sh])
    <3>4. n \in Nat
      BY <3>3, LenProperties
    <3>5. log'[sh] = Append(log[sh], entry)
      BY <3>1 DEF ShardTypes
    <3>6. Len(Append(log[sh], entry)) = n + 1 /\ Append(log[sh], entry)[n + 1] = entry
      BY <3>3
    <3>7. busy[sh] \in Calls
      BY <3>1 DEF AtWork
    <3> QED
      BY <2>1, <3>1, <3>2, <3>4, <3>5, <3>6, <3>7
  <2>2. CASE s # sh
    BY <1>1, <1>4, <2>2 DEF Process, ShardTypes
  <2> QED
    BY <2>1, <2>2
<1>5. ASSUME NEW sh \in Shards, NEW s \in Shards, Answer(sh) \/ Exit(sh) PROVE Fine(s)
  <2>1. CASE s = sh
    BY <1>5, <2>1 DEF Answer, Exit, ShardTypes
  <2>2. CASE s # sh
    BY <1>1, <1>5, <2>2 DEF Answer, Exit, ShardTypes
  <2> QED
    BY <2>1, <2>2
<1>6. ASSUME NEW sym \in Symbols, NEW s \in Shards, AddSymbol(sym) PROVE Fine(s)
  <2>1. PICK sh \in Shards : loop' = [loop EXCEPT ![sh] = "select"]
    BY <1>6 DEF AddSymbol
  <2>2. UNCHANGED <<busy, log>>
    BY <1>6 DEF AddSymbol
  <2>3. CASE s = sh
    BY <2>1, <2>3 DEF ShardTypes
  <2>4. CASE s # sh
    BY <1>1, <2>1, <2>2, <2>4 DEF ShardTypes
  <2> QED
    BY <2>3, <2>4
<1>7. AtWork' <=> \A s \in Shards : Fine(s)
  BY DEF AtWork
<1> HIDE DEF Fine
<1> QED
  BY <1>2, <1>3, <1>4, <1>5, <1>6, <1>7
     DEF Next, Admin, Go, Run, RemoveSymbol, CloseRemoved, Stop, Lookup, Enqueue,
         GiveUp, TakeReply, Expire, vars, mapVars, shardVars

\* A call that has returned stays so, with its shard and its outcome.
LEMMA ReturnedStays ==
    ASSUME CallTypes, [Next]_vars, NEW c \in Calls, pc[c] = "returned"
    PROVE  /\ pc'[c] = "returned" /\ outcome'[c] = outcome[c]
           /\ shardOf'[c] = shardOf[c] /\ before'[c] = before[c]
<1> USE DEF CallTypes
<1>1. CASE UNCHANGED <<pc, outcome, shardOf, before>>
  BY <1>1
<1>2. ASSUME NEW d \in Calls, Go(d)
      PROVE  /\ pc[d] # "returned"
             /\ \A b \in Calls : b # d =>
                   /\ pc'[b] = pc[b] /\ outcome'[b] = outcome[b]
                   /\ shardOf'[b] = shardOf[b] /\ before'[b] = before[b]
  BY <1>2 DEF Go, Lookup, Enqueue, GiveUp, TakeReply, Return
<1> QED
  BY <1>1, <1>2
     DEF Next, Admin, Run, AddSymbol, RemoveSymbol, CloseRemoved, Stop, Expire,
         Receive, Process, Answer, Exit, vars, callVars
LEMMA CallStepsStep == MapTypes /\ CallTypes /\ CallSteps /\ [Next]_vars => CallSteps'
<1> SUFFICES ASSUME MapTypes, CallTypes, CallSteps, [Next]_vars PROVE CallSteps'
  OBVIOUS
<1> DEFINE Fine(c) == /\ pc'[c] # "returned" => outcome'[c] = "none"
                      /\ pc'[c] \in {"found", "waiting"} => shardOf'[c] \in Shards
                      /\ pc'[c] = "new" => shardOf'[c] = NoShard
                      /\ outcome'[c] = "no symbol" => shardOf'[c] = NoShard
                      /\ \A d \in before'[c] : pc'[d] = "returned"
<1>1. ASSUME NEW c \in Calls,
             pc'[c] = pc[c], outcome'[c] = outcome[c], shardOf'[c] = shardOf[c],
             before'[c] = before[c]
      PROVE  Fine(c)
  <2>1. \A d \in before[c] : pc'[d] = "returned"
    <3>1. before[c] \subseteq Calls
      BY DEF CallTypes
    <3> QED
      BY <3>1, ReturnedStays DEF CallSteps
  <2> QED
    BY <1>1, <2>1 DEF CallSteps
<1>2. CASE UNCHANGED <<pc, outcome, shardOf, before>>
  BY <1>1, <1>2 DEF CallSteps
<1>3. ASSUME NEW d \in Calls, Go(d), NEW c \in Calls, c # d PROVE Fine(c)
  <2>1. /\ pc'[c] = pc[c] /\ outcome'[c] = outcome[c]
        /\ shardOf'[c] = shardOf[c] /\ before'[c] = before[c]
    BY <1>3 DEF Go, Lookup, Enqueue, GiveUp, TakeReply, Return, CallTypes
  <2> QED
    BY <1>1, <2>1
<1>4. ASSUME NEW c \in Calls, Lookup(c) PROVE Fine(c)
  <2>1. /\ pc[c] = "new" /\ outcome[c] = "none" /\ shardOf[c] = NoShard
    BY <1>4 DEF Lookup, CallSteps
  <2>2. before'[c] = { d \in Calls : pc[d] = "returned" }
    BY <1>4 DEF Lookup, CallTypes
  <2>3. \A d \in before'[c] : pc'[d] = "returned"
    BY <2>2, ReturnedStays
  <2>4. CASE shards[SymbolOf[c]] = NoShard
    <3>1. pc'[c] = "returned" /\ outcome'[c] = "no symbol" /\ shardOf'[c] = NoShard
      BY <1>4, <2>1, <2>4 DEF Lookup, Return, CallTypes
    <3> QED
      BY <2>3, <3>1
  <2>5. CASE shards[SymbolOf[c]] # NoShard
    <3>1. shards[SymbolOf[c]] \in Shards
      BY <2>5, CallsAssumption DEF MapTypes
    <3>2. pc'[c] = "found" /\ outcome'[c] = "none" /\ shardOf'[c] \in Shards
      BY <1>4, <2>1, <2>5, <3>1 DEF Lookup, CallTypes
    <3> QED
      BY <2>3, <3>2
  <2> QED
    BY <2>4, <2>5
<1>5. ASSUME NEW c \in Calls, Enqueue(c) \/ GiveUp(c) \/ TakeReply(c) PROVE Fine(c)
  <2>1. \/ pc'[c] = "waiting" /\ outcome'[c] = outcome[c] /\ pc[c] = "found"
        \/ pc'[c] = "returned" /\ outcome'[c] # "no symbol"
    <3>1. CASE Enqueue(c)
      BY <3>1 DEF Enqueue, CallTypes
    <3>2. CASE GiveUp(c)
      BY <3>2 DEF GiveUp, Return, CallTypes
    <3>3. CASE TakeReply(c)
      BY <3>3 DEF TakeReply, Return, CallTypes
    <3> QED
      BY <1>5, <3>1, <3>2, <3>3
  <2>2. shardOf' = shardOf /\ before' = before
    BY <1>5 DEF Enqueue, GiveUp, TakeReply
  <2>3. \A d \in before'[c] : pc'[d] = "returned"
    <3>1. before[c] \subseteq Calls
      BY DEF CallTypes
    <3> QED
      BY <2>2, <3>1, ReturnedStays DEF CallSteps
  <2> QED
    BY <2>1, <2>2, <2>3 DEF CallSteps
<1>6. CallSteps' <=> \A c \in Calls : Fine(c)
  BY DEF CallSteps
<1> HIDE DEF Fine
<1>7. ASSUME NEW d \in Calls, Go(d) PROVE CallSteps'
  <2>1. Fine(d)
    BY <1>4, <1>5, <1>7 DEF Go
  <2> QED
    BY <1>3, <1>6, <1>7, <2>1
<1> QED
  BY <1>2, <1>7
     DEF Next, Admin, Run, AddSymbol, RemoveSymbol, CloseRemoved, Stop, Expire,
         Receive, Process, Answer, Exit, vars, callVars

(***************************************************************************)
(* The trail of a shard: a call goes from the queue to the hands of the    *)
(* goroutine and from there to the log, and its place does not change.     *)
(***************************************************************************)
CallsOf(entries) == [i \in 1 .. Len(entries) |-> entries[i].call]

InHand(sh) == IF loop[sh] = "process" THEN <<busy[sh]>> ELSE <<>>

LEMMA CallsOfType ==
    ASSUME NEW entries \in Seq(Entry)
    PROVE  /\ CallsOf(entries) \in Seq(Calls)
           /\ Len(CallsOf(entries)) = Len(entries)
           /\ \A i \in 1 .. Len(entries) : CallsOf(entries)[i] = entries[i].call
<1>1. Len(entries) \in Nat
  BY LenProperties
<1>2. \A i \in 1 .. Len(entries) : entries[i].call \in Calls
  <2>1. ASSUME NEW i \in 1 .. Len(entries) PROVE entries[i] \in Entry
    BY ElementOfSeq
  <2>2. \A e \in Entry : e.call \in Calls
    BY DEF Entry
  <2> QED
    BY <2>1, <2>2
<1> QED
  BY <1>1, <1>2 DEF CallsOf

LEMMA CallsOfAppend ==
    ASSUME NEW entries \in Seq(Entry), NEW e \in Entry
    PROVE  CallsOf(Append(entries, e)) = Append(CallsOf(entries), e.call)
<1> DEFINE n == Len(entries)
           more == Append(entries, e)
<1>1. /\ n \in Nat /\ more \in Seq(Entry) /\ Len(more) = n + 1
      /\ more[n + 1] = e
      /\ \A i \in 1 .. n : more[i] = entries[i]
  BY LenProperties
<1>2. e.call \in Calls
  BY DEF Entry
<1>3. /\ CallsOf(more) \in Seq(Calls)
      /\ Len(CallsOf(more)) = n + 1
      /\ \A i \in 1 .. n + 1 : CallsOf(more)[i] = more[i].call
  BY <1>1, CallsOfType
<1>4. /\ CallsOf(entries) \in Seq(Calls)
      /\ Len(CallsOf(entries)) = n
      /\ \A i \in 1 .. n : CallsOf(entries)[i] = entries[i].call
  BY CallsOfType
<1> DEFINE s == CallsOf(more)
           t == Append(CallsOf(entries), e.call)
<1>5. /\ t \in Seq(Calls) /\ Len(t) = n + 1
      /\ t[n + 1] = e.call
      /\ \A i \in 1 .. n : t[i] = CallsOf(entries)[i]
  BY <1>1, <1>2, <1>4
<1> HIDE DEF n, more, t
<1>6. \A i \in 1 .. n + 1 : s[i] = t[i]
  BY <1>1, <1>3, <1>4, <1>5
<1>7. Len(s) = Len(t) /\ \A i \in 1 .. Len(s) : s[i] = t[i]
  BY <1>3, <1>5, <1>6
<1>8. s \in Seq(Calls) /\ t \in Seq(Calls)
  BY <1>3, <1>5
<1> HIDE DEF s
<1>9. s = t
  BY <1>7, <1>8, SeqEqual
<1> QED
  BY <1>9 DEF s, t, more

LEMMA TrailIs ==
    ASSUME NEW sh \in Shards
    PROVE  Trail(sh) = (CallsOf(log[sh]) \o InHand(sh)) \o queue[sh]
BY DEF Trail, CallsOf, InHand
\* The places in the trail: first the log, then the call in hand, then the queue.
LEMMA TrailAt ==
    ASSUME ShardTypes, AtWork, NEW sh \in Shards
    PROVE  /\ Trail(sh) \in Seq(Calls)
           /\ Len(log[sh]) \in Nat /\ Len(Trail(sh)) \in Nat
           /\ Len(log[sh]) <= Len(Trail(sh))
           /\ \A i \in 1 .. Len(log[sh]) : Trail(sh)[i] = log[sh][i].call
           /\ loop[sh] = "process" =>
                 /\ Len(log[sh]) < Len(Trail(sh))
                 /\ Trail(sh)[Len(log[sh]) + 1] = busy[sh]
<1> DEFINE L == CallsOf(log[sh])
           H == InHand(sh)
           Q == queue[sh]
           n == Len(log[sh])
<1>1. log[sh] \in Seq(Entry) /\ Q \in Seq(Calls)
  BY DEF ShardTypes
<1>2. /\ L \in Seq(Calls) /\ Len(L) = n
      /\ \A i \in 1 .. n : L[i] = log[sh][i].call
  BY <1>1, CallsOfType
<1>3. /\ H \in Seq(Calls)
      /\ loop[sh] = "process" => Len(H) = 1 /\ H[1] = busy[sh]
  <2>1. CASE loop[sh] = "process"
    <3>1. busy[sh] \in Calls /\ H = <<busy[sh]>>
      BY <2>1 DEF AtWork, InHand
    <3> QED
      BY <3>1
  <2>2. CASE loop[sh] # "process"
    BY <2>2, EmptySeq DEF InHand
  <2> QED
    BY <2>1, <2>2
<1>4. n \in Nat /\ Len(H) \in Nat /\ Len(Q) \in Nat
  BY <1>1, <1>3, LenProperties
<1>5. Trail(sh) = (L \o H) \o Q
  BY TrailIs
<1> HIDE DEF L, H, Q, n
<1>6. /\ L \o H \in Seq(Calls) /\ Len(L \o H) = n + Len(H)
      /\ \A i \in 1 .. n + Len(H) : (L \o H)[i] = IF i <= n THEN L[i] ELSE H[i - n]
  BY <1>2, <1>3, ConcatProperties
<1> DEFINE LH == L \o H
<1>7. LH \in Seq(Calls) /\ Len(LH) = n + Len(H)
  BY <1>6
<1>8. \A i \in 1 .. n : LH[i] = L[i]
  BY <1>4, <1>6
<1>9. ASSUME loop[sh] = "process" PROVE LH[n + 1] = busy[sh]
  <2>1. Len(H) = 1 /\ H[1] = busy[sh]
    BY <1>3, <1>9
  <2>2. n + 1 \in 1 .. n + Len(H) /\ ~(n + 1 <= n) /\ (n + 1) - n = 1
    BY <1>4, <2>1
  <2> QED
    BY <1>6, <2>1, <2>2
<1> HIDE DEF LH
<1>m. LH \in Seq(Calls) /\ Q \in Seq(Calls)
  BY <1>1, <1>7
<1>10. /\ LH \o Q \in Seq(Calls) /\ Len(LH \o Q) = Len(LH) + Len(Q)
       /\ \A i \in 1 .. Len(LH) + Len(Q) :
             (LH \o Q)[i] = IF i <= Len(LH) THEN LH[i] ELSE Q[i - Len(LH)]
  BY <1>m, ConcatProperties
<1> DEFINE T == LH \o Q
<1>11. T \in Seq(Calls) /\ Len(T) = n + Len(H) + Len(Q)
  BY <1>4, <1>7, <1>10
<1>12. \A i \in 1 .. n + Len(H) : T[i] = LH[i]
  BY <1>4, <1>7, <1>10
<1>13. Trail(sh) = T
  BY <1>5 DEF LH, T
<1> HIDE DEF T
<1>14. /\ n <= Len(T) /\ Len(T) \in Nat
       /\ \A i \in 1 .. n : T[i] = L[i]
  BY <1>4, <1>8, <1>11, <1>12
<1>15. loop[sh] = "process" => n < Len(T) /\ T[n + 1] = busy[sh]
  <2> SUFFICES ASSUME loop[sh] = "process" PROVE n < Len(T) /\ T[n + 1] = busy[sh]
    OBVIOUS
  <2>1. Len(H) = 1
    BY <1>3
  <2>2. LH[n + 1] = busy[sh]
    BY <1>9
  <2>3. n + 1 \in 1 .. n + Len(H) /\ n < Len(T)
    BY <1>4, <1>11, <2>1
  <2> QED
    BY <1>12, <2>2, <2>3
<1> QED
  BY <1>2, <1>4, <1>11, <1>13, <1>14, <1>15 DEF n

\* A sequence of three parts grows at its end.
LEMMA GrowsAtEnd ==
    ASSUME NEW S, NEW l \in Seq(S), NEW h \in Seq(S), NEW q \in Seq(S), NEW c \in S
    PROVE  (l \o h) \o Append(q, c) = Append((l \o h) \o q, c)
<1> DEFINE lh == l \o h
<1>1. lh \in Seq(S)
  BY ConcatProperties
<1> HIDE DEF lh
<1> DEFINE one == <<c>>
<1>2. one \in Seq(S)
  OBVIOUS
<1>3. lh \o q \in Seq(S)
  BY <1>1, ConcatProperties
<1>4. Append(q, c) = q \o one /\ Append(lh \o q, c) = (lh \o q) \o one
  BY <1>3, AppendIsConcat
<1> HIDE DEF one
<1>5. (lh \o q) \o one = lh \o (q \o one)
  BY <1>1, <1>2, ConcatAssociative
<1> QED
  BY <1>4, <1>5 DEF lh

\* A call goes from the queue to the hands of the goroutine.
LEMMA MovesInHand ==
    ASSUME NEW S, NEW l \in Seq(S), NEW q \in Seq(S), q # <<>>
    PROVE  (l \o <<Head(q)>>) \o Tail(q) = (l \o <<>>) \o q
<1> DEFINE h == Head(q)
           t == Tail(q)
<1>1. /\ h \in S /\ t \in Seq(S)
      /\ Len(t) = Len(q) - 1
      /\ \A i \in 1 .. Len(t) : t[i] = q[i + 1]
      /\ h = q[1]
  BY HeadTailProperties
<1>2. Len(q) \in Nat \ {0}
  BY EmptySeq
<1> HIDE DEF h, t
<1>3. <<h>> \in Seq(S) /\ Len(<<h>>) = 1 /\ <<h>>[1] = h
  BY <1>1
<1> DEFINE one == <<h>>
<1> HIDE DEF one
<1>4. one \in Seq(S) /\ Len(one) = 1 /\ one[1] = h
  BY <1>3 DEF one
<1>m. one \in Seq(S) /\ t \in Seq(S)
  BY <1>1, <1>4
<1> DEFINE both == one \o t
<1>5. /\ both \in Seq(S) /\ Len(both) = Len(one) + Len(t)
      /\ \A i \in 1 .. Len(one) + Len(t) :
            both[i] = IF i <= Len(one) THEN one[i] ELSE t[i - Len(one)]
  BY <1>m, ConcatProperties
<1> HIDE DEF both
<1>6. both \in Seq(S) /\ Len(both) = Len(q)
  BY <1>1, <1>2, <1>4, <1>5
<1>7. \A i \in 1 .. Len(both) : both[i] = IF i = 1 THEN h ELSE t[i - 1]
  BY <1>2, <1>4, <1>5, <1>6
<1>8. \A i \in 1 .. Len(both) : both[i] = q[i]
  <2> SUFFICES ASSUME NEW i \in 1 .. Len(both) PROVE both[i] = q[i]
    OBVIOUS
  <2>1. CASE i = 1
    BY <1>1, <1>7, <2>1
  <2>2. CASE i # 1
    <3>1. i - 1 \in 1 .. Len(t) /\ (i - 1) + 1 = i
      BY <1>1, <1>2, <1>6, <2>2
    <3> QED
      BY <1>1, <1>7, <2>2, <3>1
  <2> QED
    BY <2>1, <2>2
<1>9. both = q
  BY <1>6, <1>8, SeqEqual
<1>10. (l \o one) \o t = l \o (one \o t)
  BY <1>m, ConcatAssociative
<1>11. l \o <<>> = l
  BY ConcatEmptySeq
<1> QED
  BY <1>9, <1>10, <1>11 DEF both, one, h, t

\* And from there to the log.
LEMMA MovesToLog ==
    ASSUME NEW S, NEW l \in Seq(S), NEW q \in Seq(S), NEW c \in S
    PROVE  (Append(l, c) \o <<>>) \o q = (l \o <<c>>) \o q
<1>1. Append(l, c) = l \o <<c>> /\ Append(l, c) \in Seq(S)
  BY AppendIsConcat
<1>2. Append(l, c) \o <<>> = Append(l, c)
  BY <1>1, ConcatEmptySeq
<1> QED
  BY <1>1, <1>2

\* In every step the trail of a shard stays as it is or gets one more call.
LEMMA TrailMoves ==
    ASSUME ShardTypes, AtWork, [Next]_vars, NEW sh \in Shards
    PROVE  \/ Trail(sh)' = Trail(sh)
           \/ \E c \in Calls : /\ Enqueue(c) /\ shardOf[c] = sh
                               /\ Trail(sh)' = Append(Trail(sh), c)
<1> DEFINE L == CallsOf(log[sh])
           Grown == \E c \in Calls : /\ Enqueue(c) /\ shardOf[c] = sh
                                     /\ Trail(sh)' = Append(Trail(sh), c)
<1>1. Trail(sh) = (L \o InHand(sh)) \o queue[sh]
  BY TrailIs
<1> DEFINE HandNext == IF loop'[sh] = "process" THEN <<busy'[sh]>> ELSE <<>>
           Three(l, h, q) == (l \o h) \o q
<1>2. Trail(sh)' = Three(CallsOf(log'[sh]), HandNext, queue'[sh])
  BY DEF Trail, CallsOf
<1>t. Trail(sh) = Three(L, InHand(sh), queue[sh])
  BY <1>1
<1> HIDE DEF Three
<1>3. log[sh] \in Seq(Entry) /\ queue[sh] \in Seq(Calls)
  BY DEF ShardTypes
<1>4. L \in Seq(Calls)
  BY <1>3, CallsOfType
<1> HIDE DEF L, Grown
<1>5. ASSUME log'[sh] = log[sh], queue'[sh] = queue[sh],
             \/ loop'[sh] = loop[sh] /\ busy'[sh] = busy[sh]
             \/ loop[sh] # "process" /\ loop'[sh] # "process"
      PROVE  Trail(sh)' = Trail(sh)
  <2>1. HandNext = InHand(sh)
    BY <1>5 DEF InHand
  <2>2. CallsOf(log'[sh]) = L
    BY <1>5 DEF L
  <2> QED
    BY <1>2, <1>5, <1>t, <2>1, <2>2
<1>6. CASE UNCHANGED shardVars
  BY <1>5, <1>6 DEF shardVars
<1>7. ASSUME NEW sym \in Symbols, AddSymbol(sym) PROVE Trail(sh)' = Trail(sh)
  <2>1. PICK s \in Shards : loop[s] = "none" /\ loop' = [loop EXCEPT ![s] = "select"]
    BY <1>7 DEF AddSymbol
  <2>2. log' = log /\ queue' = queue /\ busy' = busy
    BY <1>7 DEF AddSymbol
  <2> QED
    BY <1>5, <2>1, <2>2 DEF ShardTypes
<1>8. ASSUME NEW s \in Shards, Answer(s) \/ Exit(s) PROVE Trail(sh)' = Trail(sh)
  <2>1. log' = log /\ queue' = queue
    BY <1>8 DEF Answer, Exit
  <2>2. \/ loop'[sh] = loop[sh] /\ busy'[sh] = busy[sh]
        \/ loop[sh] # "process" /\ loop'[sh] # "process"
    BY <1>8 DEF Answer, Exit, ShardTypes
  <2> QED
    BY <1>5, <2>1, <2>2
<1>9. ASSUME NEW s \in Shards, Receive(s) PROVE Trail(sh)' = Trail(sh)
  <2>1. CASE s = sh
    <3>1. /\ loop[sh] = "select" /\ loop'[sh] = "process" /\ queue[sh] # <<>>
          /\ busy'[sh] = Head(queue[sh]) /\ queue'[sh] = Tail(queue[sh])
          /\ log'[sh] = log[sh]
      BY <1>9, <2>1 DEF Receive, ShardTypes
    <3>2. Trail(sh) = Three(L, <<>>, queue[sh])
      BY <1>t, <3>1 DEF InHand
    <3>3. Trail(sh)' = Three(L, <<Head(queue[sh])>>, Tail(queue[sh]))
      BY <1>2, <3>1 DEF L
    <3> DEFINE q == queue[sh]
    <3>m. q \in Seq(Calls) /\ q # <<>>
      BY <1>3, <3>1
    <3> HIDE DEF q
    <3>n. (L \o <<Head(q)>>) \o Tail(q) = (L \o <<>>) \o q
      BY <1>4, <3>m, MovesInHand
    <3>4. Three(L, <<Head(queue[sh])>>, Tail(queue[sh])) = Three(L, <<>>, queue[sh])
      BY <3>n DEF Three, q
    <3> QED
      BY <3>2, <3>3, <3>4
  <2>2. CASE s # sh
    BY <1>5, <1>9, <2>2 DEF Receive, ShardTypes
  <2> QED
    BY <2>1, <2>2
<1>10. ASSUME NEW s \in Shards, Process(s) PROVE Trail(sh)' = Trail(sh)
  <2>1. CASE s = sh
    <3> DEFINE found == busy[sh] \in Cancels /\ Target[busy[sh]] \in resting[sh]
               entry == [call |-> busy[sh], found |-> found]
    <3>1. /\ loop[sh] = "process" /\ loop'[sh] = "answer"
          /\ queue' = queue /\ log'[sh] = Append(log[sh], entry)
      BY <1>10, <2>1 DEF Process, ShardTypes
    <3>2. busy[sh] \in Calls
      BY <3>1 DEF AtWork
    <3>3. found \in BOOLEAN
      OBVIOUS
    <3> HIDE DEF found
    <3>4. entry \in Entry /\ entry.call = busy[sh]
      BY <3>2, <3>3 DEF Entry
    <3> HIDE DEF entry
    <3>5. CallsOf(log'[sh]) = Append(L, busy[sh])
      BY <1>3, <3>1, <3>4, CallsOfAppend DEF L
    <3>6. Trail(sh) = Three(L, <<busy[sh]>>, queue[sh])
      BY <1>t, <3>1 DEF InHand
    <3>7. Trail(sh)' = Three(Append(L, busy[sh]), <<>>, queue[sh])
      BY <1>2, <3>1, <3>5
    <3> DEFINE q == queue[sh]
               c == busy[sh]
    <3>m. q \in Seq(Calls) /\ c \in Calls
      BY <1>3, <3>2
    <3> HIDE DEF q, c
    <3>n. (Append(L, c) \o <<>>) \o q = (L \o <<c>>) \o q
      BY <1>4, <3>m, MovesToLog
    <3>8. Three(Append(L, busy[sh]), <<>>, queue[sh]) = Three(L, <<busy[sh]>>, queue[sh])
      BY <3>n DEF Three, q, c
    <3> QED
      BY <3>6, <3>7, <3>8
  <2>2. CASE s # sh
    BY <1>5, <1>10, <2>2 DEF Process, ShardTypes
  <2> QED
    BY <2>1, <2>2
<1>11. ASSUME NEW c \in Calls, Enqueue(c) PROVE Trail(sh)' = Trail(sh) \/ Grown
  <2>1. CASE shardOf[c] = sh
    <3>1. /\ log' = log /\ loop' = loop /\ busy' = busy
          /\ queue'[sh] = Append(queue[sh], c)
      BY <1>11, <2>1 DEF Enqueue, ShardTypes
    <3>2. InHand(sh) \in Seq(Calls)
      <4>1. CASE loop[sh] = "process"
        <5>1. busy[sh] \in Calls
          BY <4>1 DEF AtWork
        <5> QED
          BY <4>1, <5>1 DEF InHand
      <4>2. CASE loop[sh] # "process"
        BY <4>2, EmptySeq DEF InHand
      <4> QED
        BY <4>1, <4>2
    <3>3. Trail(sh)' = Three(L, InHand(sh), Append(queue[sh], c))
      BY <1>2, <3>1 DEF InHand, L
    <3> DEFINE q == queue[sh]
               h == InHand(sh)
    <3>m. q \in Seq(Calls) /\ h \in Seq(Calls)
      BY <1>3, <3>2
    <3> HIDE DEF q, h
    <3>n. (L \o h) \o Append(q, c) = Append((L \o h) \o q, c)
      BY <1>4, <3>m, GrowsAtEnd
    <3>4. Trail(sh)' = Append(Trail(sh), c)
      BY <1>t, <3>3, <3>n DEF Three, q, h
    <3> QED
      BY <1>11, <2>1, <3>4 DEF Grown
  <2>2. CASE shardOf[c] # sh
    BY <1>5, <1>11, <2>2 DEF Enqueue, ShardTypes
  <2> QED
    BY <2>1, <2>2
<1>12. Trail(sh)' = Trail(sh) \/ Grown
  BY <1>6, <1>7, <1>8, <1>9, <1>10, <1>11
     DEF Next, Admin, Go, Run, RemoveSymbol, CloseRemoved, Stop, Lookup, GiveUp,
         TakeReply, Expire, vars
<1> QED
  BY <1>12 DEF Grown
\* What a call looked up, and who had returned by then, is fixed once it is sent.
LEMMA SentStays ==
    ASSUME CallTypes, [Next]_vars, NEW c \in Calls, pc[c] \in {"waiting", "returned"}
    PROVE  /\ pc'[c] \in {"waiting", "returned"}
           /\ shardOf'[c] = shardOf[c] /\ before'[c] = before[c]
<1> USE DEF CallTypes
<1>1. CASE UNCHANGED <<pc, shardOf, before>>
  BY <1>1
<1>2. ASSUME NEW d \in Calls, Lookup(d) PROVE
             /\ c # d
             /\ pc'[c] = pc[c] /\ shardOf'[c] = shardOf[c] /\ before'[c] = before[c]
  BY <1>2 DEF Lookup, Return
<1>3. ASSUME NEW d \in Calls, Enqueue(d) \/ GiveUp(d) \/ TakeReply(d)
      PROVE  /\ shardOf' = shardOf /\ before' = before
             /\ pc'[c] \in {"waiting", "returned"}
  BY <1>3 DEF Enqueue, GiveUp, TakeReply, Return
<1> QED
  BY <1>1, <1>2, <1>3
     DEF Next, Admin, Go, Run, AddSymbol, RemoveSymbol, CloseRemoved, Stop, Expire,
         Receive, Process, Answer, Exit, vars, callVars

\* One trail t of shard sh, where calls are at p, with shards o and predecessors b.
SoundTrail(t, sh, p, o, b) ==
    /\ \A i, j \in 1 .. Len(t) : t[i] = t[j] => i = j
    /\ \A i \in 1 .. Len(t) : o[t[i]] = sh /\ p[t[i]] \in {"waiting", "returned"}
    /\ \A i, j \in 1 .. Len(t) : t[i] \in b[t[j]] => i < j

LEMMA SoundTrails ==
    ASSUME \A sh \in Shards : Trail(sh) \in Seq(Calls)
    PROVE  TrailSound /\ SentOnly
              <=> \A sh \in Shards : SoundTrail(Trail(sh), sh, pc, shardOf, before)
<1>1. \A sh \in Shards : DOMAIN Trail(sh) = 1 .. Len(Trail(sh))
  BY LenProperties
<1> QED
  BY <1>1 DEF SoundTrail, TrailSound, SentOnly, TakenUpOnce, ProgramOrder, IsInjective

\* A call that was not sent before extends a trail.
LEMMA SoundAppend ==
    ASSUME NEW t \in Seq(Calls), NEW sh, NEW c \in Calls,
           NEW p, NEW o, NEW b,
           SoundTrail(t, sh, p, o, b),
           o[c] = sh, p[c] \in {"waiting", "returned"},
           \A i \in 1 .. Len(t) : t[i] # c /\ c \notin b[t[i]],
           c \notin b[c]
    PROVE  SoundTrail(Append(t, c), sh, p, o, b)
<1> DEFINE u == Append(t, c)
           n == Len(t)
<1>1. /\ n \in Nat /\ Len(u) = n + 1 /\ u[n + 1] = c
      /\ \A i \in 1 .. n : u[i] = t[i]
  BY LenProperties
<1> HIDE DEF u, n
<1>2. ASSUME NEW i \in 1 .. n + 1
      PROVE  i \in 1 .. n \/ i = n + 1
  BY <1>1
<1>3. ASSUME NEW i \in 1 .. n + 1, NEW j \in 1 .. n + 1, u[i] = u[j]
      PROVE  i = j
  BY <1>1, <1>2, <1>3 DEF SoundTrail, n
<1>4. ASSUME NEW i \in 1 .. n + 1
      PROVE  o[u[i]] = sh /\ p[u[i]] \in {"waiting", "returned"}
  BY <1>1, <1>2 DEF SoundTrail, n
<1>5. ASSUME NEW i \in 1 .. n + 1, NEW j \in 1 .. n + 1, u[i] \in b[u[j]]
      PROVE  i < j
  <2>1. i # n + 1
    BY <1>1, <1>2, <1>5 DEF n
  <2>2. i \in 1 .. n
    BY <1>2, <2>1
  <2>3. CASE j = n + 1
    BY <1>1, <2>2, <2>3
  <2>4. CASE j \in 1 .. n
    BY <1>1, <1>5, <2>2, <2>4 DEF SoundTrail, n
  <2> QED
    BY <1>2, <2>3, <2>4
<1> QED
  BY <1>1, <1>3, <1>4, <1>5 DEF SoundTrail, u

LEMMA TrailStep ==
    ASSUME TypeOK, TypeOK', AtWork, AtWork', CallSteps, TrailSound, SentOnly, [Next]_vars
    PROVE  (TrailSound /\ SentOnly)'
<1>1. ShardTypes /\ ShardTypes' /\ CallTypes
  BY TypeParts DEF TypeOK, ShardTypes, Places, Entry
<1>2. ASSUME NEW sh \in Shards
      PROVE  Trail(sh) \in Seq(Calls) /\ SoundTrail(Trail(sh), sh, pc, shardOf, before)
  BY <1>1, TrailAt, SoundTrails
<1>3. ASSUME NEW sh \in Shards
      PROVE  SoundTrail(Trail(sh), sh, pc', shardOf', before')
  <2> DEFINE t == Trail(sh)
  <2>1. t \in Seq(Calls) /\ SoundTrail(t, sh, pc, shardOf, before)
    BY <1>2
  <2> HIDE DEF t
  <2>2. ASSUME NEW i \in 1 .. Len(t)
        PROVE  /\ pc'[t[i]] \in {"waiting", "returned"}
               /\ shardOf'[t[i]] = shardOf[t[i]] /\ before'[t[i]] = before[t[i]]
    <3>1. t[i] \in Calls /\ pc[t[i]] \in {"waiting", "returned"}
      BY <2>1, ElementOfSeq DEF SoundTrail
    <3> QED
      BY <1>1, <3>1, SentStays
  <2>3. SoundTrail(t, sh, pc', shardOf', before')
    BY <2>1, <2>2 DEF SoundTrail
  <2> QED
    BY <2>3 DEF t
<1>4. ASSUME NEW sh \in Shards
      PROVE  SoundTrail(Trail(sh)', sh, pc', shardOf', before')
  <2> DEFINE t == Trail(sh)
  <2>1. CASE Trail(sh)' = t
    BY <1>3, <2>1
  <2>2. ASSUME NEW c \in Calls, Enqueue(c), shardOf[c] = sh, Trail(sh)' = Append(t, c)
        PROVE  SoundTrail(Trail(sh)', sh, pc', shardOf', before')
    <3>1. /\ pc[c] = "found" /\ pc'[c] = "waiting"
          /\ shardOf' = shardOf /\ before' = before
      BY <1>1, <2>2 DEF Enqueue, CallTypes
    <3>2. t \in Seq(Calls) /\ SoundTrail(t, sh, pc, shardOf, before)
      BY <1>2
    <3>3. SoundTrail(t, sh, pc', shardOf', before')
      BY <1>3
    <3> HIDE DEF t
    <3>4. ASSUME NEW i \in 1 .. Len(t) PROVE t[i] # c /\ c \notin before'[t[i]]
      <4>1. t[i] \in Calls /\ pc[t[i]] \in {"waiting", "returned"}
        BY <3>2, ElementOfSeq DEF SoundTrail
      <4> QED
        BY <3>1, <4>1 DEF CallSteps
    <3>5. c \notin before'[c]
      BY <3>1 DEF CallSteps
    <3>6. SoundTrail(Append(t, c), sh, pc', shardOf', before')
      BY <2>2, <3>1, <3>2, <3>3, <3>4, <3>5, SoundAppend
    <3> QED
      BY <2>2, <3>6
  <2> QED
    BY <1>1, <2>1, <2>2, TrailMoves
<1>5. ASSUME NEW sh \in Shards PROVE Trail(sh)' \in Seq(Calls)
  <2> DEFINE t == Trail(sh)
             u == Trail(sh)'
  <2>1. t \in Seq(Calls)
    BY <1>2
  <2>2. u = t \/ \E c \in Calls : u = Append(t, c)
    BY <1>1, TrailMoves
  <2> HIDE DEF t, u
  <2>3. u \in Seq(Calls)
    BY <2>1, <2>2
  <2> QED
    BY <2>3 DEF u
<1>6. \A sh \in Shards : DOMAIN Trail(sh)' = 1 .. Len(Trail(sh)')
  BY <1>5, LenProperties
<1> QED
  BY <1>4, <1>6 DEF SoundTrail, TrailSound, SentOnly, TakenUpOnce, ProgramOrder, IsInjective
(***************************************************************************)
(* Answers: what is logged stays logged, and what a call is told is there. *)
(***************************************************************************)
LEMMA LogKept ==
    ASSUME ShardTypes, AtWork, [Next]_vars, NEW sh \in Shards
    PROVE  /\ \/ log'[sh] = log[sh]
              \/ /\ Process(sh)
                 /\ log'[sh] = Append(log[sh],
                        [call |-> busy[sh],
                         found |-> busy[sh] \in Cancels /\ Target[busy[sh]] \in resting[sh]])
           /\ Len(log'[sh]) \in Nat /\ Len(log[sh]) <= Len(log'[sh])
           /\ \A i \in 1 .. Len(log[sh]) : log'[sh][i] = log[sh][i]
<1>1. log[sh] \in Seq(Entry) /\ Len(log[sh]) \in Nat
  BY LenProperties DEF ShardTypes
<1>2. CASE log'[sh] = log[sh]
  BY <1>1, <1>2
<1>3. CASE Process(sh)
  <2> DEFINE found == busy[sh] \in Cancels /\ Target[busy[sh]] \in resting[sh]
             entry == [call |-> busy[sh], found |-> found]
  <2>1. log'[sh] = Append(log[sh], entry)
    BY <1>3 DEF Process, ShardTypes
  <2> HIDE DEF entry
  <2>2. /\ Len(Append(log[sh], entry)) = Len(log[sh]) + 1
        /\ \A i \in 1 .. Len(log[sh]) : Append(log[sh], entry)[i] = log[sh][i]
    BY <1>1
  <2>3. /\ Len(log'[sh]) \in Nat /\ Len(log[sh]) <= Len(log'[sh])
        /\ \A i \in 1 .. Len(log[sh]) : log'[sh][i] = log[sh][i]
    BY <1>1, <2>1, <2>2
  <2> QED
    BY <1>3, <2>1, <2>3 DEF entry
<1>4. log'[sh] = log[sh] \/ Process(sh)
  <2>1. ASSUME NEW s \in Shards, s # sh, Process(s) PROVE log'[sh] = log[sh]
    BY <2>1 DEF Process, ShardTypes
  <2> QED
    BY <2>1
       DEF Next, Admin, Go, Run, AddSymbol, RemoveSymbol, CloseRemoved, Stop, Lookup,
           Enqueue, GiveUp, TakeReply, Expire, Receive, Answer, Exit, vars, shardVars
<1> QED
  BY <1>2, <1>3, <1>4

LEMMA AnsweredGrows ==
    ASSUME ShardTypes, AtWork, [Next]_vars, NEW sh \in Shards
    PROVE  /\ Answered(sh) \in Nat /\ Answered(sh)' \in Nat
           /\ Answered(sh) <= Answered(sh)'
           /\ Answered(sh) <= Len(log[sh])
<1> DEFINE n == Len(log[sh])
           m == Len(log'[sh])
           Answering == loop'[sh] = "answer"
<1>1. n \in Nat /\ m \in Nat /\ n <= m
  <2>1. log[sh] \in Seq(Entry)
    BY DEF ShardTypes
  <2> QED
    BY <2>1, LogKept, LenProperties
<1>2. Answered(sh) = IF loop[sh] = "answer" THEN n - 1 ELSE n
  BY DEF Answered
<1>3. Answered(sh)' = IF Answering THEN m - 1 ELSE m
  BY DEF Answered
<1>4. loop[sh] = "answer" => n > 0
  BY DEF AtWork
<1>5. ASSUME Answering PROVE loop[sh] = "answer" \/ m = n + 1
  <2>1. CASE Process(sh)
    <3> DEFINE found == busy[sh] \in Cancels /\ Target[busy[sh]] \in resting[sh]
               entry == [call |-> busy[sh], found |-> found]
    <3>1. log'[sh] = Append(log[sh], entry)
      BY <2>1 DEF Process, ShardTypes
    <3> HIDE DEF entry
    <3>2. log[sh] \in Seq(Entry)
      BY DEF ShardTypes
    <3>3. Len(Append(log[sh], entry)) = n + 1
      BY <3>2
    <3> QED
      BY <3>1, <3>3
  <2>2. CASE ~Process(sh)
    <3>1. ASSUME NEW s \in Shards, Receive(s) \/ Answer(s) \/ Exit(s) PROVE loop[sh] = "answer"
      BY <1>5, <3>1 DEF Receive, Answer, Exit, ShardTypes
    <3>2. ASSUME NEW s \in Shards, Process(s) PROVE loop[sh] = "answer"
      BY <1>5, <2>2, <3>2 DEF Process, ShardTypes
    <3>3. ASSUME NEW sym \in Symbols, AddSymbol(sym) PROVE loop[sh] = "answer"
      BY <1>5, <3>3 DEF AddSymbol, ShardTypes
    <3> QED
      BY <1>5, <3>1, <3>2, <3>3
         DEF Next, Admin, Go, Run, RemoveSymbol, CloseRemoved, Stop, Lookup,
             Enqueue, GiveUp, TakeReply, Expire, vars, shardVars
  <2> QED
    BY <2>1, <2>2
<1> HIDE DEF n, m, Answering
<1>6. Answered(sh) \in Nat /\ Answered(sh) <= n
  BY <1>1, <1>2, <1>4
<1> DEFINE after == Answered(sh)'
<1>7. after = IF Answering THEN m - 1 ELSE m
  BY <1>3
<1> HIDE DEF after
<1>8. after \in Nat /\ Answered(sh) <= after
  BY <1>1, <1>2, <1>4, <1>5, <1>7
<1> QED
  BY <1>6, <1>8 DEF after, n

\* A call that was told something was sent, to the shard that logged it.
LEMMA LoggedIs ==
    ASSUME ShardTypes, AtWork, TrailSound, SentOnly,
           NEW sh \in Shards, NEW i \in 1 .. Len(log[sh])
    PROVE  /\ log[sh][i].call \in Calls
           /\ shardOf[log[sh][i].call] = sh
           /\ pc[log[sh][i].call] \in {"waiting", "returned"}
<1> DEFINE t == Trail(sh)
<1>1. /\ t \in Seq(Calls) /\ Len(log[sh]) \in Nat /\ Len(t) \in Nat
      /\ Len(log[sh]) <= Len(t)
      /\ \A k \in 1 .. Len(log[sh]) : t[k] = log[sh][k].call
  BY TrailAt
<1>2. \A s \in Shards : Trail(s) \in Seq(Calls)
  BY TrailAt
<1>3. SoundTrail(t, sh, pc, shardOf, before)
  BY <1>2, SoundTrails
<1> HIDE DEF t
<1>4. i \in 1 .. Len(t) /\ t[i] = log[sh][i].call
  BY <1>1
<1>5. t[i] \in Calls
  BY <1>1, <1>4, ElementOfSeq
<1> QED
  BY <1>3, <1>4, <1>5 DEF SoundTrail

\* The call in hand is not in any log.
LEMMA InHandIsNew ==
    ASSUME ShardTypes, AtWork, TrailSound, SentOnly,
           NEW sh \in Shards, loop[sh] = "process"
    PROVE  /\ busy[sh] \in Calls /\ shardOf[busy[sh]] = sh
           /\ pc[busy[sh]] \in {"waiting", "returned"}
           /\ \A s \in Shards : busy[sh] \notin Logged(s)
<1> DEFINE t == Trail(sh)
           n == Len(log[sh])
<1>1. /\ t \in Seq(Calls) /\ n \in Nat /\ Len(t) \in Nat
      /\ n < Len(t) /\ t[n + 1] = busy[sh]
      /\ \A k \in 1 .. n : t[k] = log[sh][k].call
  BY TrailAt
<1>2. \A s \in Shards : Trail(s) \in Seq(Calls)
  BY TrailAt
<1>3. SoundTrail(t, sh, pc, shardOf, before)
  BY <1>2, SoundTrails
<1>4. busy[sh] \in Calls
  BY DEF AtWork
<1> HIDE DEF t, n
<1>5. n + 1 \in 1 .. Len(t)
  BY <1>1
<1>6. shardOf[busy[sh]] = sh /\ pc[busy[sh]] \in {"waiting", "returned"}
  BY <1>1, <1>3, <1>5 DEF SoundTrail
<1>7. busy[sh] \notin Logged(sh)
  <2> SUFFICES ASSUME NEW k \in 1 .. n, log[sh][k].call = busy[sh] PROVE FALSE
    BY DEF Logged, n
  <2>1. k \in 1 .. Len(t) /\ t[k] = t[n + 1] /\ k # n + 1
    BY <1>1
  <2> QED
    BY <1>3, <1>5, <2>1 DEF SoundTrail
<1>8. ASSUME NEW s \in Shards, busy[sh] \in Logged(s) PROVE s = sh
  BY <1>6, <1>8, LoggedIs DEF Logged
<1> QED
  BY <1>4, <1>6, <1>7, <1>8
LEMMA ToldStays ==
    ASSUME TypeOK, AtWork, TrailSound, SentOnly, [Next]_vars,
           NEW c \in Calls, NEW what, Told(c, what)
    PROVE  \E sh \in Shards :
              /\ shardOf'[c] = sh
              /\ \E i \in 1 .. Answered(sh)' : Says(log'[sh][i], c, what)
<1>1. ShardTypes /\ CallTypes
  BY TypeParts
<1>2. PICK sh \in Shards :
        shardOf[c] = sh /\ \E i \in 1 .. Answered(sh) : Says(log[sh][i], c, what)
  BY DEF Told
<1>3. PICK i \in 1 .. Answered(sh) : Says(log[sh][i], c, what)
  BY <1>2
<1> DEFINE after == Answered(sh)'
<1>4. /\ Answered(sh) \in Nat /\ after \in Nat
      /\ Answered(sh) <= after /\ Answered(sh) <= Len(log[sh])
  BY <1>1, AnsweredGrows
<1>5. Len(log[sh]) \in Nat
  BY <1>1, TrailAt
<1> HIDE DEF after
<1>6. i \in 1 .. Len(log[sh]) /\ i \in 1 .. after
  BY <1>4, <1>5
<1>7. log'[sh][i] = log[sh][i]
  BY <1>1, <1>6, LogKept
<1>8. pc[c] \in {"waiting", "returned"}
  BY <1>1, <1>3, <1>6, LoggedIs DEF Says
<1>9. shardOf'[c] = sh
  BY <1>1, <1>2, <1>8, SentStays
<1>10. Says(log'[sh][i], c, what)
  BY <1>3, <1>7
<1> QED
  BY <1>6, <1>9, <1>10 DEF after

\* What a call is told is what was found, and the entry it rests on is there to stay.
LEMMA AnswersToldStep ==
    ASSUME TypeOK, AtWork, TrailSound, SentOnly, AnswersTold, [Next]_vars
    PROVE  AnswersTold'
<1>1. ShardTypes /\ CallTypes
  BY TypeParts
<1> DEFINE Tells(c, what) == \E sh \in Shards :
              /\ shardOf'[c] = sh
              /\ \E i \in 1 .. Answered(sh)' : Says(log'[sh][i], c, what)
           Fine(c) == /\ reply'[c] # "empty" => Tells(c, reply'[c])
                      /\ outcome'[c] \in {"done", "not found"} => Tells(c, outcome'[c])
<1>2. ASSUME NEW c \in Calls, NEW what, Told(c, what) PROVE Tells(c, what)
  BY <1>2, ToldStays
<1>3. AnswersTold' <=> \A c \in Calls : Fine(c)
  BY DEF AnswersTold, Told
<1> HIDE DEF Tells
<1>4. ASSUME NEW c \in Calls,
             reply'[c] = reply[c] \/ reply'[c] = "empty",
             \/ outcome'[c] = outcome[c] \/ outcome'[c] \notin {"done", "not found"}
             \/ outcome'[c] = reply[c]
      PROVE  Fine(c)
  BY <1>1, <1>2, <1>4 DEF AnswersTold, CallTypes
<1>5. ASSUME NEW sh \in Shards, NEW c \in Calls, Answer(sh)
      PROVE  Fine(c)
  <2>1. outcome' = outcome
    BY <1>5 DEF Answer
  <2>2. CASE c # busy[sh]
    BY <1>1, <1>4, <1>5, <2>1, <2>2 DEF Answer, CallTypes
  <2>3. CASE c = busy[sh]
    <3> DEFINE n == Len(log[sh])
               e == log[sh][n]
               what == IF c \in Cancels /\ ~e.found THEN "not found" ELSE "done"
    <3>1. loop[sh] = "answer" /\ log' = log /\ shardOf' = shardOf
      BY <1>5 DEF Answer
    <3>2. n \in Nat /\ n > 0 /\ e.call = c
      BY <1>1, <2>3, <3>1, TrailAt DEF AtWork
    <3>3. reply'[c] = what
      BY <1>1, <1>5, <2>3 DEF Answer, CallTypes, Last
    <3>4. n \in 1 .. n /\ shardOf[c] = sh
      BY <1>1, <3>2, LoggedIs
    <3>5. loop'[sh] = "select"
      BY <1>1, <1>5 DEF Answer, ShardTypes
    <3>6. Answered(sh)' = n
      BY <3>1, <3>5 DEF Answered
    <3>7. Says(e, c, what)
      BY <3>2 DEF Says
    <3> HIDE DEF what, n
    <3>8. Tells(c, what)
      BY <3>1, <3>4, <3>6, <3>7 DEF Tells
    <3>9. outcome'[c] \in {"done", "not found"} => Tells(c, outcome'[c])
      BY <1>2, <2>1 DEF AnswersTold
    <3> QED
      BY <3>3, <3>8, <3>9
  <2> QED
    BY <2>2, <2>3
<1>6. ASSUME NEW d \in Calls, NEW c \in Calls, Go(d)
      PROVE  Fine(c)
  <2>1. reply'[c] = reply[c] \/ reply'[c] = "empty"
    BY <1>1, <1>6 DEF Go, Lookup, Enqueue, GiveUp, TakeReply, CallTypes
  <2>2. \/ outcome'[c] = outcome[c] \/ outcome'[c] \notin {"done", "not found"}
        \/ outcome'[c] = reply[c]
    <3>1. CASE Lookup(d)
      BY <1>1, <3>1 DEF Lookup, Return, CallTypes
    <3>2. CASE Enqueue(d)
      BY <3>2 DEF Enqueue
    <3>3. CASE GiveUp(d)
      BY <1>1, <3>3 DEF GiveUp, Return, CallTypes
    <3>4. CASE TakeReply(d)
      BY <1>1, <3>4 DEF TakeReply, Return, CallTypes
    <3> QED
      BY <1>6, <3>1, <3>2, <3>3, <3>4 DEF Go
  <2> QED
    BY <1>4, <2>1, <2>2
<1>7. CASE UNCHANGED <<reply, outcome>>
  BY <1>4, <1>7, <1>3
<1> HIDE DEF Fine
<1> QED
  BY <1>3, <1>5, <1>6, <1>7
     DEF Next, Admin, Run, AddSymbol, RemoveSymbol, CloseRemoved, Stop, Expire,
         Receive, Process, Exit, vars, callVars

\* A log only grows, by the call in hand.
LEMMA LoggedGrows ==
    ASSUME ShardTypes, AtWork, [Next]_vars, NEW sh \in Shards
    PROVE  /\ Logged(sh) \subseteq Logged(sh)'
           /\ Process(sh) => busy[sh] \in Logged(sh)'
<1>1. /\ Len(log'[sh]) \in Nat /\ Len(log[sh]) <= Len(log'[sh])
      /\ \A i \in 1 .. Len(log[sh]) : log'[sh][i] = log[sh][i]
  BY LogKept
<1>2. log[sh] \in Seq(Entry) /\ Len(log[sh]) \in Nat
  BY LenProperties DEF ShardTypes
<1>3. ASSUME NEW i \in 1 .. Len(log[sh])
      PROVE  i \in 1 .. Len(log'[sh]) /\ log'[sh][i].call = log[sh][i].call
  BY <1>1, <1>2
<1>4. ASSUME Process(sh)
      PROVE  \E i \in 1 .. Len(log'[sh]) : log'[sh][i].call = busy[sh]
  <2> DEFINE found == busy[sh] \in Cancels /\ Target[busy[sh]] \in resting[sh]
             entry == [call |-> busy[sh], found |-> found]
             n == Len(log[sh])
  <2>1. log'[sh] = Append(log[sh], entry) /\ entry.call = busy[sh]
    BY <1>4 DEF Process, ShardTypes
  <2> HIDE DEF entry
  <2>2. Len(log'[sh]) = n + 1 /\ log'[sh][n + 1] = entry
    BY <1>2, <2>1
  <2>3. n + 1 \in 1 .. Len(log'[sh])
    BY <1>2, <2>2
  <2> QED
    BY <2>1, <2>2, <2>3
<1> QED
  BY <1>3, <1>4 DEF Logged

\* A book changes by the call in hand: an order may come to rest or take others out,
\* a cancellation takes out its order.
LEMMA RestingMoves ==
    ASSUME ShardTypes, AtWork, [Next]_vars, NEW sh \in Shards
    PROVE  \/ resting'[sh] = resting[sh] /\ (Process(sh) => busy[sh] \in Orders)
           \/ /\ Process(sh) /\ busy[sh] \in Orders
              /\ resting'[sh] \subseteq resting[sh] \cup {busy[sh]}
           \/ /\ Process(sh) /\ busy[sh] \in Cancels
              /\ resting'[sh] = resting[sh] \ {Target[busy[sh]]}
<1>1. CASE Process(sh)
  <2>1. CASE busy[sh] \in Orders
    <3>1. PICK left \in SUBSET resting[sh], rests \in BOOLEAN :
            resting' = [resting EXCEPT ![sh] =
                          IF rests THEN left \cup {busy[sh]} ELSE left]
      BY <1>1, <2>1, CallsAssumption DEF Process
    <3> QED
      BY <1>1, <2>1, <3>1 DEF ShardTypes
  <2>2. CASE busy[sh] \in Cancels
    BY <1>1, <2>2, CallsAssumption DEF Process, ShardTypes
  <2> QED
    BY <1>1, <2>1, <2>2 DEF Process
<1>2. ASSUME NEW s \in Shards, s # sh, Process(s) PROVE resting'[sh] = resting[sh]
  BY <1>2 DEF Process, ShardTypes
<1>3. resting' = resting \/ \E s \in Shards : Process(s)
  BY DEF Next, Admin, Go, Run, AddSymbol, RemoveSymbol, CloseRemoved, Stop, Lookup,
         Enqueue, GiveUp, TakeReply, Expire, Receive, Answer, Exit, vars, shardVars
<1>4. CASE ~Process(sh)
  BY <1>2, <1>3, <1>4
<1> QED
  BY <1>1, <1>4

LEMMA RestingStep ==
    ASSUME TypeOK, AtWork, RestingLogged, [Next]_vars
    PROVE  RestingLogged'
<1>1. ShardTypes
  BY TypeParts
<1>2. ASSUME NEW sh \in Shards
      PROVE  resting'[sh] \subseteq Logged(sh)'
  <2>1. resting[sh] \subseteq Logged(sh) /\ Logged(sh) \subseteq Logged(sh)'
    BY <1>1, LoggedGrows DEF RestingLogged
  <2>2. \/ resting'[sh] = resting[sh]
        \/ Process(sh) /\ resting'[sh] \subseteq resting[sh] \cup {busy[sh]}
    BY <1>1, RestingMoves
  <2>3. Process(sh) => busy[sh] \in Logged(sh)'
    BY <1>1, LoggedGrows
  <2> QED
    BY <2>1, <2>2, <2>3
<1> QED
  BY <1>2 DEF RestingLogged

\* No two shards process in one step.
LEMMA OneProcess ==
    ASSUME ShardTypes, NEW s \in Shards, NEW t \in Shards, Process(s), Process(t)
    PROVE  s = t
<1>1. loop[t] = "process" /\ loop'[t] = "answer"
  BY DEF Process, ShardTypes
<1> QED
  BY <1>1 DEF Process, ShardTypes

\* An order taken out for a cancellation was placed before, so it never comes back.
LEMMA FoundGoneStep ==
    ASSUME TypeOK, AtWork, TrailSound, SentOnly, RestingLogged, FoundGone, [Next]_vars
    PROVE  FoundGone'
<1>1. ShardTypes
  BY TypeParts
<1> DEFINE Gone(sh, c) == /\ c \in Cancels
                          /\ Target[c] \in Logged(sh)'
                          /\ \A s \in Shards : Target[c] \notin resting'[s]
<1>2. ASSUME NEW sh \in Shards, NEW c \in Calls, GoneFrom(sh, c) PROVE Gone(sh, c)
  <2>1. Target[c] \in Logged(sh)'
    BY <1>1, <1>2, LoggedGrows DEF GoneFrom
  <2>2. ASSUME NEW s \in Shards PROVE Target[c] \notin resting'[s]
    <3>1. Target[c] \notin resting[s]
      BY <1>2 DEF GoneFrom
    <3>2. CASE Process(s)
      <4>1. loop[s] = "process"
        BY <3>2 DEF Process
      <4>2. Target[c] # busy[s]
        BY <1>1, <1>2, <4>1, InHandIsNew DEF GoneFrom
      <4>3. \/ resting'[s] = resting[s]
            \/ resting'[s] \subseteq resting[s] \cup {busy[s]}
            \/ resting'[s] = resting[s] \ {Target[busy[s]]}
        BY <1>1, RestingMoves
      <4> QED
        BY <3>1, <4>2, <4>3
    <3>3. CASE ~Process(s)
      BY <1>1, <3>1, <3>3, RestingMoves
    <3> QED
      BY <3>2, <3>3
  <2> QED
    BY <1>2, <2>1, <2>2 DEF GoneFrom
<1>3. ASSUME NEW sh \in Shards, Process(sh), busy[sh] \in Cancels,
             Target[busy[sh]] \in resting[sh]
      PROVE  Gone(sh, busy[sh])
  <2> DEFINE o == Target[busy[sh]]
  <2>1. o \in Orders /\ o \notin Cancels
    BY <1>3, CallsAssumption
  <2>2. o \in Logged(sh)
    BY <1>3 DEF RestingLogged
  <2>3. o \in Logged(sh)'
    BY <1>1, <2>2, LoggedGrows
  <2>4. ASSUME NEW s \in Shards PROVE o \notin resting'[s]
    <3>1. CASE s = sh
      <4>1. busy[sh] \notin Orders
        BY <1>3, CallsAssumption
      <4>2. resting'[sh] = resting[sh] \ {o}
        BY <1>1, <1>3, <4>1, RestingMoves
      <4> QED
        BY <3>1, <4>2
    <3>2. CASE s # sh
      <4>1. shardOf[o] = sh
        BY <1>1, <2>2, LoggedIs DEF Logged
      <4>2. o \notin Logged(s)
        BY <1>1, <3>2, <4>1, LoggedIs DEF Logged
      <4>3. o \notin resting[s]
        BY <4>2 DEF RestingLogged
      <4>4. ~Process(s)
        BY <1>1, <1>3, <3>2, OneProcess
      <4>5. resting'[s] = resting[s]
        BY <1>1, <4>4, RestingMoves
      <4> QED
        BY <4>3, <4>5
    <3> QED
      BY <3>1, <3>2
  <2> QED
    BY <1>3, <2>3, <2>4
<1> HIDE DEF Gone
<1>4. ASSUME NEW sh \in Shards, NEW i \in 1 .. Len(log'[sh]), log'[sh][i].found
      PROVE  Gone(sh, log'[sh][i].call)
  <2>1. log[sh] \in Seq(Entry) /\ Len(log[sh]) \in Nat
    BY <1>1, LenProperties DEF ShardTypes
  <2>2. CASE i \in 1 .. Len(log[sh])
    <3>1. log'[sh][i] = log[sh][i] /\ log[sh][i].call \in Calls
      BY <1>1, <2>2, LogKept, LoggedIs
    <3>2. GoneFrom(sh, log[sh][i].call)
      BY <1>4, <2>2, <3>1 DEF FoundGone
    <3> QED
      BY <1>2, <3>1, <3>2
  <2>3. CASE i \notin 1 .. Len(log[sh])
    <3> DEFINE c == busy[sh]
               found == c \in Cancels /\ Target[c] \in resting[sh]
               entry == [call |-> c, found |-> found]
    <3>1. log'[sh] = log[sh] \/ (Process(sh) /\ log'[sh] = Append(log[sh], entry))
      BY <1>1, LogKept
    <3>2. Process(sh) /\ log'[sh] = Append(log[sh], entry)
      BY <1>4, <2>3, <3>1
    <3>3. entry.call = c /\ entry.found = found
      OBVIOUS
    <3> HIDE DEF entry, found
    <3>4. i = Len(log[sh]) + 1 /\ log'[sh][i] = entry
      BY <2>1, <2>3, <3>2
    <3>5. found
      BY <1>4, <3>3, <3>4
    <3>6. Gone(sh, c)
      BY <1>3, <3>2, <3>5 DEF found
    <3> QED
      BY <3>3, <3>4, <3>6
  <2> QED
    BY <2>2, <2>3
<1>5. FoundGone' <=> \A sh \in Shards : \A i \in 1 .. Len(log'[sh]) :
                        log'[sh][i].found => Gone(sh, log'[sh][i].call)
  BY DEF FoundGone, GoneFrom, Gone
<1> QED
  BY <1>4, <1>5
(***************************************************************************)
(* The theorems.                                                           *)
(***************************************************************************)
LEMMA EngineInit == Init => EngineInv
<1> SUFFICES ASSUME Init PROVE EngineInv
  OBVIOUS
<1> USE DEF Init
<1>1. \A S : <<>> \in Seq(S) /\ Len(<<>>) = 0
  BY EmptySeq
<1>2. TypeOK
  <2>1. MapTypes
    BY DEF MapTypes
  <2>2. CallTypes
    BY DEF CallTypes, Outcomes
  <2>3. ShardTypes
    BY <1>1, ShardsAssumption DEF ShardTypes, Places
  <2> QED
    BY <2>1, <2>2, <2>3, TypeParts
<1>3. RegisteredRuns /\ ClosedOnce /\ Lifecycle
  BY ShardsAssumption DEF RegisteredRuns, ClosedOnce, Lifecycle, Registered
<1>4. AtWork /\ CallSteps
  BY DEF AtWork, CallSteps
<1>5. ASSUME NEW sh \in Shards PROVE Trail(sh) = <<>>
  <2>1. CallsOf(log[sh]) = <<>>
    <3>1. log[sh] = <<>> /\ <<>> \in Seq(Entry)
      BY <1>1
    <3>2. CallsOf(<<>>) \in Seq(Calls) /\ Len(CallsOf(<<>>)) = 0
      BY <1>1, CallsOfType
    <3> QED
      BY <3>1, <3>2, EmptySeq
  <2>2. InHand(sh) = <<>> /\ queue[sh] = <<>>
    BY DEF InHand
  <2>3. (<<>> \o <<>>) \o <<>> = <<>>
    BY <1>1, ConcatEmptySeq
  <2> QED
    BY <2>1, <2>2, <2>3, TrailIs
<1>6. TrailSound /\ SentOnly
  <2>1. \A sh \in Shards : SoundTrail(Trail(sh), sh, pc, shardOf, before)
    BY <1>1, <1>5 DEF SoundTrail
  <2>2. \A sh \in Shards : Trail(sh) \in Seq(Calls)
    BY <1>1, <1>5
  <2> QED
    BY <2>1, <2>2, SoundTrails
<1>7. AnswersTold /\ RestingLogged
  BY DEF AnswersTold, RestingLogged
<1>8. FoundGone
  BY <1>1 DEF FoundGone
<1> QED
  BY <1>2, <1>3, <1>4, <1>6, <1>7, <1>8 DEF EngineInv

LEMMA EngineStep == EngineInv /\ [Next]_vars => EngineInv'
<1> SUFFICES ASSUME EngineInv, [Next]_vars PROVE EngineInv'
  OBVIOUS
<1>1. /\ TypeOK /\ RegisteredRuns /\ ClosedOnce /\ Lifecycle /\ AtWork /\ CallSteps
      /\ TrailSound /\ SentOnly /\ AnswersTold /\ RestingLogged /\ FoundGone
  BY DEF EngineInv
<1>2. MapTypes /\ ShardTypes /\ CallTypes
  BY <1>1, TypeParts
<1>3. TypeOK'
  BY <1>1, TypeStep
<1>4. (RegisteredRuns /\ ClosedOnce /\ Lifecycle)'
  BY <1>1, <1>2, LifeStep DEF LifeInv
<1>5. AtWork' /\ CallSteps'
  BY <1>1, <1>2, AtWorkStep, CallStepsStep
<1>6. (TrailSound /\ SentOnly)'
  BY <1>1, <1>3, <1>5, TrailStep
<1>7. AnswersTold' /\ RestingLogged' /\ FoundGone'
  BY <1>1, AnswersToldStep, RestingStep, FoundGoneStep
<1> QED
  BY <1>3, <1>4, <1>5, <1>6, <1>7 DEF EngineInv

\* The goroutine never waits to answer: what was told before was told of another entry.
LEMMA NeverBlocks == EngineInv => AnswerNeverBlocks
<1> SUFFICES ASSUME EngineInv, NEW sh \in Shards, loop[sh] = "answer",
                    reply[busy[sh]] # "empty"
             PROVE  FALSE
  BY DEF AnswerNeverBlocks
<1>1. ShardTypes /\ AtWork /\ TrailSound /\ SentOnly /\ AnswersTold
  BY TypeParts DEF EngineInv
<1> DEFINE c == busy[sh]
           n == Len(log[sh])
<1>2. c \in Calls /\ n > 0 /\ log[sh][n].call = c
  BY <1>1 DEF AtWork
<1>3. PICK s \in Shards :
        shardOf[c] = s /\ \E i \in 1 .. Answered(s) : Says(log[s][i], c, reply[c])
  BY <1>1, <1>2 DEF AnswersTold, Told
<1>4. /\ Trail(sh) \in Seq(Calls) /\ n \in Nat /\ n <= Len(Trail(sh)) /\ Len(Trail(sh)) \in Nat
      /\ \A i \in 1 .. n : Trail(sh)[i] = log[sh][i].call
  BY <1>1, TrailAt
<1>5. n \in 1 .. n /\ shardOf[c] = sh
  BY <1>1, <1>2, <1>4, LoggedIs
<1>6. PICK i \in 1 .. n - 1 : log[sh][i].call = c
  BY <1>3, <1>5 DEF Answered, Says
<1>7. \A x \in Shards : Trail(x) \in Seq(Calls)
  BY <1>1, TrailAt
<1>8. SoundTrail(Trail(sh), sh, pc, shardOf, before)
  BY <1>1, <1>7, SoundTrails
<1> DEFINE t == Trail(sh)
<1>9. /\ \A k \in 1 .. n : t[k] = log[sh][k].call
      /\ \A k, l \in 1 .. Len(t) : t[k] = t[l] => k = l
      /\ n <= Len(t) /\ Len(t) \in Nat /\ n \in Nat
  BY <1>4, <1>8 DEF SoundTrail
<1> HIDE DEF t, n, c
<1>10. /\ i \in 1 .. n /\ n \in 1 .. n /\ i # n
       /\ i \in 1 .. Len(t) /\ n \in 1 .. Len(t)
  BY <1>2, <1>9
<1>11. t[i] = c /\ t[n] = c
  BY <1>2, <1>6, <1>9, <1>10
<1> QED
  BY <1>9, <1>10, <1>11

LEMMA Answers == EngineInv => AnswersHold
<1> SUFFICES ASSUME EngineInv PROVE AnswersHold
  OBVIOUS
<1>1. /\ ShardTypes /\ AtWork /\ TrailSound /\ SentOnly /\ AnswersTold /\ CallSteps
      /\ FoundGone
  BY TypeParts DEF EngineInv
<1>2. ASSUME NEW c \in Calls, outcome[c] \in {"done", "not found"}
      PROVE  \E sh \in Shards :
                /\ shardOf[c] = sh
                /\ \E i \in 1 .. Len(log[sh]) : Says(log[sh][i], c, outcome[c])
  <2>1. PICK sh \in Shards :
          shardOf[c] = sh /\ \E i \in 1 .. Answered(sh) : Says(log[sh][i], c, outcome[c])
    BY <1>1, <1>2 DEF AnswersTold, Told
  <2>2. PICK i \in 1 .. Answered(sh) : Says(log[sh][i], c, outcome[c])
    BY <2>1
  <2>3. i \in 1 .. Len(log[sh])
    BY <1>1, TrailAt DEF Answered
  <2> QED
    BY <2>1, <2>2, <2>3
<1>3. ASSUME NEW c \in Calls, outcome[c] \in {"done", "not found"}
      PROVE  \E i \in DOMAIN log[shardOf[c]] :
                /\ log[shardOf[c]][i].call = c
                /\ c \in Cancels => (outcome[c] = "done" <=> log[shardOf[c]][i].found)
  <2>1. PICK sh \in Shards :
          shardOf[c] = sh /\ \E i \in 1 .. Len(log[sh]) : Says(log[sh][i], c, outcome[c])
    BY <1>2, <1>3
  <2>2. log[sh] \in Seq(Entry)
    BY <1>1 DEF ShardTypes
  <2>3. DOMAIN log[sh] = 1 .. Len(log[sh])
    BY <2>2, LenProperties
  <2> QED
    BY <2>1, <2>3 DEF Says
<1>4. ASSUME NEW c \in Calls, outcome[c] = "no symbol", NEW sh \in Shards
      PROVE  ~Contains(Trail(sh), c)
  <2> DEFINE t == Trail(sh)
  <2>1. \A x \in Shards : Trail(x) \in Seq(Calls)
    BY <1>1, TrailAt
  <2>2. SoundTrail(t, sh, pc, shardOf, before)
    BY <1>1, <2>1, SoundTrails
  <2>3. shardOf[c] = NoShard /\ NoShard # sh
    BY <1>1, <1>4, ShardsAssumption DEF CallSteps
  <2> QED
    BY <2>2, <2>3 DEF SoundTrail, Contains
<1>5. ASSUME NEW c \in Cancels, outcome[c] = "done", NEW s \in Shards
      PROVE  Target[c] \notin resting[s]
  <2>1. c \in Calls
    BY DEF Calls
  <2>2. PICK sh \in Shards :
          \E i \in 1 .. Len(log[sh]) : Says(log[sh][i], c, outcome[c])
    BY <1>2, <1>5, <2>1
  <2>3. PICK i \in 1 .. Len(log[sh]) : Says(log[sh][i], c, outcome[c])
    BY <2>2
  <2>4. log[sh][i].call = c /\ log[sh][i].found
    BY <1>5, <2>3 DEF Says
  <2>5. GoneFrom(sh, c)
    BY <1>1, <2>4 DEF FoundGone
  <2> QED
    BY <2>5 DEF GoneFrom
<1> QED
  BY <1>3, <1>4, <1>5 DEF AnswersHold, AnswersTrue, CancelledStaysOut

\* The inductive invariant holds in every state.
THEOREM EngineInvariant == Spec => []EngineInv
<1>1. Init => EngineInv
  BY EngineInit
<1>2. EngineInv /\ [Next]_vars => EngineInv'
  BY EngineStep
<1> QED
  BY <1>1, <1>2, PTL DEF Spec

\* However Stop and RemoveSymbol race with callers, a shard is ended once, and never
\* while it is in the map, and its goroutine never waits to answer.
THEOREM ShardsAreSound == Spec => []ShardsSound
<1>1. EngineInv => ShardsSound
  BY NeverBlocks DEF EngineInv, ShardsSound
<1> QED
  BY <1>1, EngineInvariant, PTL

\* A call is taken up once, by the shard it looked up, after every call that had
\* returned before it began.
THEOREM TrailsAreSound == Spec => []TrailSound
<1>1. EngineInv => TrailSound
  BY DEF EngineInv
<1> QED
  BY <1>1, EngineInvariant, PTL

\* What callers are told is what their shard found out, and an order whose
\* cancellation succeeded is in no book and never comes back.
THEOREM AnswersAreTrue == Spec => []AnswersHold
<1>1. EngineInv => AnswersHold
  BY Answers
<1> QED
  BY <1>1, EngineInvariant, PTL
=============================================================================
