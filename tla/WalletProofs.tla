---------------------------- MODULE WalletProofs ----------------------------
(***************************************************************************)
(* Proofs about the components on the path of a deposit and of a cold      *)
(* withdrawal, each for every value of its constants: deposit addresses,   *)
(* the scanner, the event buses, the signing requests.  Each section has   *)
(* the inductive invariant, its step, and the theorem.                     *)
(***************************************************************************)
EXTENDS DepositAddresses, Scanner, EventBus, MultiSig, SequenceTheorems, TLAPS

(***************************************************************************)
(* Deposit addresses: the table's UNIQUE (address, chain) makes the rows   *)
(* one per address, and what was answered is one of them.                  *)
(***************************************************************************)
RowOf(r) == [user |-> r.user, asset |-> r.asset, address |-> r.address]

AddressesInv ==
    /\ \A r \in stored : r = RowOf(r)
    /\ \A r, q \in stored : r.address = q.address /\ ChainOf[r.asset] = ChainOf[q.asset] => r = q
    /\ progress = [a \in Askers |-> progress[a]] /\ address = [a \in Askers |-> address[a]]
    /\ \A a \in Askers : progress[a] = "answered" => Row(a, address[a]) \in stored

\* A call that goes ahead leaves the others where they are.
LEMMA AheadOnly ==
    ASSUME AddressesInv, NEW a \in Askers, NEW step, NEW addr, Ahead(a, step, addr)
    PROVE  /\ progress'[a] = step /\ address'[a] = addr
           /\ \A b \in Askers : b # a => progress'[b] = progress[b] /\ address'[b] = address[b]
           /\ progress' = [b \in Askers |-> progress'[b]]
           /\ address' = [b \in Askers |-> address'[b]]
BY DEF Ahead, AddressesInv

\* Where no row is added, or none that the answer needs, the table stays sound.
LEMMA AheadKeeps ==
    ASSUME AddressesInv, NEW a \in Askers, NEW step, NEW addr, Ahead(a, step, addr),
           stored' = stored, step = "answered" => Row(a, addr) \in stored
    PROVE  AddressesInv'
BY AheadOnly DEF AddressesInv, Row, RowOf

LEMMA AddressesStep == AddressesInv /\ [AddressesNext]_addressVars => AddressesInv'
<1> SUFFICES ASSUME AddressesInv, [AddressesNext]_addressVars PROVE AddressesInv'
  OBVIOUS
<1>1. CASE UNCHANGED addressVars
  BY <1>1 DEF addressVars, AddressesInv, Row, RowOf
<1>2. ASSUME NEW p \in Processes, RestartWallet(p)
      PROVE  AddressesInv'
  <2>1. stored' = stored
    BY <1>2 DEF RestartWallet
  <2>2. ASSUME NEW a \in Askers
        PROVE  progress'[a] = "answered" => progress[a] = "answered" /\ address'[a] = address[a]
    BY <1>2 DEF RestartWallet
  <2>3. /\ progress' = [a \in Askers |-> progress'[a]]
        /\ address' = [a \in Askers |-> address'[a]]
    BY <1>2 DEF RestartWallet
  <2> QED
    BY <2>1, <2>2, <2>3 DEF AddressesInv, Row, RowOf
<1>3. ASSUME NEW a \in Askers, Look(a)
      PROVE  AddressesInv'
  <2>1. CASE Ahead(a, "indexing", NoAddress)
    BY <1>3, <2>1, AheadKeeps DEF Look
  <2>2. ASSUME NEW r \in stored, r.user = User[a], r.asset = Asset[a],
               Ahead(a, "answered", r.address)
        PROVE  AddressesInv'
    <3>1. r = RowOf(r)
      BY DEF AddressesInv
    <3>2. Row(a, r.address) \in stored
      BY <2>2, <3>1 DEF Row, RowOf
    <3> QED
      BY <1>3, <2>2, <3>2, AheadKeeps DEF Look
  <2> QED
    BY <1>3, <2>1, <2>2 DEF Look
<1>4. ASSUME NEW a \in Askers, Insert(a)
      PROVE  AddressesInv'
  <2>1. CASE Ahead(a, "refused", NoAddress) /\ stored' = stored
    BY <2>1, AheadKeeps
  <2>2. CASE /\ ~\E r \in stored : r.address = address[a] /\ ChainOf[r.asset] = ChainOf[Asset[a]]
             /\ stored' = stored \cup {Row(a, address[a])}
             /\ Ahead(a, "answered", address[a]) \/ Ahead(a, "refused", NoAddress)
    <3> DEFINE new == Row(a, address[a])
    <3>1. new = RowOf(new) /\ new.address = address[a] /\ new.asset = Asset[a]
      BY DEF Row, RowOf
    <3>2. stored' = stored \cup {new}
      BY <2>2
    <3>3. \A r \in stored : ~(r.address = new.address /\ ChainOf[r.asset] = ChainOf[new.asset])
      BY <2>2, <3>1
    <3> HIDE DEF new
    <3>4. \A r \in stored' : r = RowOf(r)
      BY <3>1, <3>2 DEF AddressesInv
    <3>5. \A r, q \in stored' :
             r.address = q.address /\ ChainOf[r.asset] = ChainOf[q.asset] => r = q
      BY <3>2, <3>3 DEF AddressesInv
    <3>6. ASSUME NEW b \in Askers, progress'[b] = "answered"
          PROVE  Row(b, address'[b]) \in stored'
      <4>1. CASE b = a
        BY <2>2, <3>2, <3>6, <4>1, AheadOnly DEF new
      <4>2. CASE b # a
        BY <2>2, <3>2, <3>6, <4>2, AheadOnly DEF AddressesInv
      <4> QED
        BY <4>1, <4>2
    <3>7. /\ progress' = [b \in Askers |-> progress'[b]]
          /\ address' = [b \in Askers |-> address'[b]]
      BY <2>2, AheadOnly
    <3> QED
      BY <3>4, <3>5, <3>6, <3>7 DEF AddressesInv, Row, RowOf
  <2> QED
    BY <1>4, <2>1, <2>2 DEF Insert
<1>5. ASSUME NEW a \in Askers, LookInVain(a) \/ Index(a) \/ TakeRandom(a) \/ AskAgain(a)
      PROVE  AddressesInv'
  <2>1. stored' = stored
    BY <1>5 DEF LookInVain, Index, TakeRandom, AskAgain
  <2>2. PICK step, addr : step \in {"indexing", "inserting", "looking"} /\ Ahead(a, step, addr)
    BY <1>5 DEF LookInVain, Index, TakeRandom, AskAgain
  <2> QED
    BY <2>1, <2>2, AheadKeeps
<1> QED
  BY <1>1, <1>2, <1>3, <1>4, <1>5 DEF AddressesNext, Ask

\* An address that was given out is a row of the user, currency and chain it
\* was given for, and of no other on that chain, whatever processes are
\* restarted, lookups fail, and whatever accounts and indexes coincide.
THEOREM AddressesSound == AddressesSpec => []AnsweredIsStored
<1>1. AddressesInit => AddressesInv
  BY DEF AddressesInit, AddressesInv
<1>2. AddressesInv => AnsweredIsStored
  BY DEF AddressesInv, AnsweredIsStored, Row
<1> QED
  BY <1>1, <1>2, AddressesStep, PTL DEF AddressesSpec

(***************************************************************************)
(* The scanner.                                                            *)
(***************************************************************************)
ScannerInv ==
    /\ tip \in Nat /\ lastBlock \in Nat /\ since \in Nat
    /\ \A b \in since + 1 .. lastBlock : b \in tried

LEMMA ScannerStep == ScannerInv /\ [ScannerNext]_scannerVars => ScannerInv'
<1> SUFFICES ASSUME ScannerInv, [ScannerNext]_scannerVars PROVE ScannerInv'
  OBVIOUS
<1>1. CASE MineBlock \/ RestartMonitor \/ UNCHANGED scannerVars
  BY <1>1 DEF ScannerInv, MineBlock, RestartMonitor, scannerVars
<1>2. ASSUME NEW height \in 0 .. tip, Begin(height)
      PROVE  ScannerInv'
  BY <1>2 DEF ScannerInv, Begin
<1>3. ASSUME NEW height \in 0 .. tip, Scan(height)
      PROVE  ScannerInv'
  <2>1. /\ tip' = tip /\ since' = since /\ lastBlock' = height
        /\ tried' = tried \cup (lastBlock + 1 .. height)
    BY <1>3 DEF Scan
  <2>2. \A b \in since + 1 .. height : b \in tried'
    BY <2>1 DEF ScannerInv
  <2> QED
    BY <2>1, <2>2 DEF ScannerInv
<1> QED
  BY <1>1, <1>2, <1>3 DEF ScannerNext, ScanNewBlocks

\* Within one life of the monitor and until a node answers 0, every block between
\* the one the scanning began at and the one it has reached was asked for,
\* although nodes lag behind one another; a block not returned counts as asked for.
THEOREM ScannerSound == ScannerSpec => []ScanFaithful
<1>1. ScannerInit => ScannerInv
  BY DEF ScannerInit, ScannerInv
<1>2. ScannerInv => ScanFaithful
  BY DEF ScannerInv, ScanFaithful
<1> QED
  BY <1>1, <1>2, ScannerStep, PTL DEF ScannerSpec

(***************************************************************************)
(* The event buses.                                                        *)
(***************************************************************************)
Done(o) == given[o] > 0 \/ o \in Undecodable

BusTypes ==
    /\ transport \in {"kafka", "redis", "memory"}
    /\ state \in {"none", "waiting", "handling", "committing", "stopped"}
    /\ log \in 0 .. MaxEvents
    /\ message \in Nat /\ committed \in Nat /\ from \in Nat
    /\ inbox \in Seq(1 .. MaxEvents)
    /\ given \in [1 .. MaxEvents -> Nat]

\* The message that the consumer is at.
AtMessage ==
    state \in {"handling", "committing"} =>
        /\ message \in 1 .. log
        /\ state = "committing" => transport = "kafka" /\ Done(message)
        /\ transport # "memory"

\* What the group has passed is done, by offset and by what the consumer reads.
PassedDone ==
    /\ committed # 0 => /\ 1 <= from /\ from <= committed /\ committed <= log + 1
                        /\ \A o \in from .. committed - 1 : Done(o)
    /\ Subscribed => /\ 1 <= from /\ from <= message /\ message <= log + 1
                     /\ \A o \in from .. message - 1 : Done(o)

\* What is in the channel, or in the handler, was not handed over before.
HandedOnce ==
    /\ \A o \in 1 .. MaxEvents : given[o] <= 1 /\ (o > log => given[o] = 0)
    /\ \A i \in 1 .. Len(inbox) : inbox[i] <= log /\ given[inbox[i]] = 0
    /\ \A i, j \in 1 .. Len(inbox) : inbox[i] = inbox[j] => i = j
    /\ state = "handling" =>
          /\ given[message] = 0
          /\ \A i \in 1 .. Len(inbox) : inbox[i] # message

BusInv ==
    /\ BusTypes
    /\ AtMessage
    /\ transport = "kafka" => PassedDone
    /\ transport # "kafka" => HandedOnce

LEMMA BusInit0 == BusInit => BusInv
BY BusAssumption DEF BusInit, BusInv, BusTypes, AtMessage, PassedDone, HandedOnce, Subscribed

\* A message that was handed over is done, and the others are as they were.
LEMMA HandDone ==
    ASSUME BusTypes, NEW o \in 1 .. MaxEvents, Hand(o)
    PROVE  /\ given' \in [1 .. MaxEvents -> Nat]
           /\ given'[o] = given[o] + 1 /\ given'[o] > 0
           /\ \A q \in 1 .. MaxEvents : q # o => given'[q] = given[q]
           /\ \A q \in 1 .. MaxEvents : given'[q] >= given[q]
BY DEF BusTypes, Hand

LEMMA PublishSound == ASSUME BusInv, Publish PROVE BusInv'
<1> USE BusAssumption
<1>1. /\ log' = log + 1 /\ log + 1 \in 1 .. MaxEvents /\ log \in Nat
      /\ UNCHANGED <<transport, state, message, committed, from, closing, starts>>
  BY DEF Publish, BusInv, BusTypes
<1>2. /\ given' \in [1 .. MaxEvents -> Nat]
      /\ \A q \in 1 .. MaxEvents : q # log + 1 => given'[q] = given[q]
      /\ transport # "memory" => given' = given
      /\ given'[log + 1] \in {given[log + 1], given[log + 1] + 1}
  <2>1. CASE Hand(log + 1) /\ transport = "memory"
    BY <1>1, <2>1, HandDone DEF BusInv
  <2>2. CASE given' = given
    BY <2>2 DEF BusInv, BusTypes
  <2> QED
    BY <2>1, <2>2 DEF Publish
<1>3. inbox' = inbox \/ (inbox' = Append(inbox, log + 1) /\ transport = "redis")
  BY DEF Publish
<1>4. inbox' \in Seq(1 .. MaxEvents)
  <2> DEFINE S == 1 .. MaxEvents
  <2>1. inbox \in Seq(S) /\ log + 1 \in S
    BY <1>1 DEF BusInv, BusTypes
  <2> HIDE DEF S
  <2>2. inbox' \in Seq(S)
    BY <1>3, <2>1
  <2> QED
    BY <2>2 DEF S
<1>5. BusTypes' /\ AtMessage'
  BY <1>1, <1>2, <1>4 DEF BusInv, BusTypes, AtMessage, Done
<1>6. ASSUME transport' = "kafka" PROVE PassedDone'
  <2>1. given' = given /\ PassedDone
    BY <1>1, <1>2, <1>6 DEF BusInv
  <2> QED
    BY <1>1, <2>1 DEF PassedDone, Subscribed, Done, BusInv, BusTypes
<1>7. ASSUME transport' # "kafka" PROVE HandedOnce'
  <2>1. HandedOnce /\ BusTypes /\ AtMessage
    BY <1>1, <1>7 DEF BusInv
  <2>2. \A o \in 1 .. MaxEvents : given'[o] <= 1 /\ (o > log' => given'[o] = 0)
    <3> TAKE o \in 1 .. MaxEvents
    <3>1. given[o] \in Nat /\ given[o] <= 1 /\ (o > log => given[o] = 0)
      BY <2>1 DEF HandedOnce, BusTypes
    <3>2. CASE o = log + 1
      BY <1>1, <1>2, <3>1, <3>2
    <3>3. CASE o # log + 1
      BY <1>1, <1>2, <3>1, <3>3
    <3> QED
      BY <3>2, <3>3
  <2>3. CASE inbox' = inbox
    <3>1. \A i \in 1 .. Len(inbox) : inbox[i] \in 1 .. MaxEvents /\ inbox[i] <= log
      BY <2>1 DEF HandedOnce, BusTypes
    <3>2. \A i \in 1 .. Len(inbox) : inbox[i] <= log' /\ given'[inbox[i]] = 0
      BY <1>1, <1>2, <2>1, <3>1 DEF HandedOnce
    <3>3. state = "handling" => given'[message] = 0
      BY <1>1, <1>2, <2>1 DEF HandedOnce, AtMessage
    <3> QED
      BY <1>1, <2>1, <2>2, <2>3, <3>2, <3>3 DEF HandedOnce
  <2>4. CASE inbox' = Append(inbox, log + 1) /\ transport = "redis"
    <3>1. given' = given /\ given[log + 1] = 0
      BY <1>1, <1>2, <2>1, <2>4 DEF HandedOnce
    <3>2. /\ Len(inbox') = Len(inbox) + 1 /\ Len(inbox) \in Nat
          /\ \A i \in 1 .. Len(inbox) : inbox'[i] = inbox[i] /\ inbox[i] <= log
                                        /\ inbox[i] \in 1 .. MaxEvents
          /\ inbox'[Len(inbox) + 1] = log + 1
      BY <2>1, <2>4 DEF HandedOnce, BusTypes
    <3>3. \A i \in 1 .. Len(inbox') : inbox'[i] <= log' /\ given'[inbox'[i]] = 0
      BY <1>1, <2>1, <3>1, <3>2 DEF HandedOnce
    <3>4. \A i, j \in 1 .. Len(inbox') : inbox'[i] = inbox'[j] => i = j
      BY <1>1, <2>1, <3>2 DEF HandedOnce
    <3>5. ASSUME state = "handling"
          PROVE  given'[message] = 0 /\ \A i \in 1 .. Len(inbox') : inbox'[i] # message
      <4>1. message \in 1 .. log
        BY <2>1, <3>5 DEF AtMessage
      <4> QED
        BY <1>1, <2>1, <3>1, <3>2, <3>5, <4>1 DEF HandedOnce
    <3> QED
      BY <1>1, <2>2, <3>3, <3>4, <3>5 DEF HandedOnce
  <2> QED
    BY <1>3, <2>3, <2>4
<1> QED
  BY <1>5, <1>6, <1>7 DEF BusInv

LEMMA SubscribeSound == ASSUME BusInv, Subscribe PROVE BusInv'
<1> USE BusAssumption
<1>1. BusTypes' /\ AtMessage'
  BY DEF Subscribe, BusInv, BusTypes, AtMessage, PassedDone
<1>2. ASSUME transport' = "kafka" PROVE PassedDone'
  BY <1>2 DEF Subscribe, BusInv, BusTypes, PassedDone, Subscribed, Done
<1>3. ASSUME transport' # "kafka" PROVE HandedOnce'
  BY <1>3 DEF Subscribe, BusInv, HandedOnce
<1> QED
  BY <1>1, <1>2, <1>3 DEF BusInv

LEMMA FetchSound == ASSUME BusInv, Fetch PROVE BusInv'
BY DEF Fetch, BusInv, BusTypes, AtMessage, PassedDone, Subscribed, Done

LEMMA ReceiveSound == ASSUME BusInv, Receive PROVE BusInv'
<1> USE BusAssumption
<1>1. /\ transport = "redis" /\ inbox # << >> /\ state = "waiting"
      /\ message' = inbox[1] /\ inbox' = Tail(inbox)
      /\ state' \in {"waiting", "handling"}
      /\ UNCHANGED <<transport, log, committed, from, given, closing, starts>>
  BY DEF Receive, BusInv, BusTypes
<1>2. HandedOnce /\ BusTypes
  BY <1>1 DEF BusInv
<1>3. /\ Len(inbox) \in Nat \ {0} /\ inbox[1] \in 1 .. MaxEvents /\ inbox' \in Seq(1 .. MaxEvents)
      /\ Len(inbox') = Len(inbox) - 1
      /\ \A i \in 1 .. Len(inbox') : inbox'[i] = inbox[i + 1]
  BY <1>1, <1>2 DEF BusTypes
<1>4. inbox[1] \in 1 .. log /\ given[inbox[1]] = 0
  BY <1>2, <1>3 DEF HandedOnce, BusTypes
<1>5. BusTypes' /\ AtMessage'
  BY <1>1, <1>2, <1>3, <1>4 DEF BusTypes, AtMessage
<1>6. \A i \in 1 .. Len(inbox') : inbox'[i] # inbox[1] /\ inbox'[i] <= log /\ given[inbox'[i]] = 0
  <2> TAKE i \in 1 .. Len(inbox')
  <2>1. /\ i + 1 \in 1 .. Len(inbox) /\ 1 \in 1 .. Len(inbox) /\ i + 1 # 1
        /\ inbox'[i] = inbox[i + 1]
    BY <1>3
  <2> QED
    BY <1>2, <2>1 DEF HandedOnce
<1>7. \A i, j \in 1 .. Len(inbox') : inbox'[i] = inbox'[j] => i = j
  BY <1>2, <1>3 DEF HandedOnce
<1>8. HandedOnce'
  BY <1>1, <1>2, <1>4, <1>6, <1>7 DEF HandedOnce
<1> QED
  BY <1>1, <1>5, <1>8 DEF BusInv

LEMMA HandleSound == ASSUME BusInv, Handle PROVE BusInv'
<1> USE BusAssumption
<1>1. /\ state = "handling" /\ message \in 1 .. log /\ message \in 1 .. MaxEvents
      /\ UNCHANGED <<transport, log, message, committed, from, inbox, closing, starts>>
      /\ state' = IF transport = "kafka" THEN "committing" ELSE "waiting"
  BY DEF Handle, BusInv, BusTypes, AtMessage
<1>2. /\ given' \in [1 .. MaxEvents -> Nat]
      /\ given'[message] = given[message] + 1 /\ given'[message] > 0
      /\ \A q \in 1 .. MaxEvents : q # message => given'[q] = given[q]
      /\ \A q \in 1 .. MaxEvents : given'[q] >= given[q]
  BY <1>1, HandDone DEF Handle, BusInv
<1>3. BusTypes' /\ AtMessage'
  BY <1>1, <1>2 DEF BusInv, BusTypes, AtMessage, Done
<1>4. ASSUME transport' = "kafka" PROVE PassedDone'
  <2>1. PassedDone /\ BusTypes
    BY <1>1, <1>4 DEF BusInv
  <2>2. ASSUME NEW o \in 1 .. MaxEvents, Done(o) PROVE given'[o] > 0 \/ o \in Undecodable
    BY <1>2, <2>1, <2>2 DEF Done, BusTypes
  <2> QED
    BY <1>1, <2>1, <2>2 DEF PassedDone, Done, Subscribed, BusTypes
<1>5. ASSUME transport' # "kafka" PROVE HandedOnce'
  <2>1. HandedOnce /\ BusTypes
    BY <1>1, <1>5 DEF BusInv
  <2>2. \A o \in 1 .. MaxEvents : given'[o] <= 1 /\ (o > log => given'[o] = 0)
    <3> TAKE o \in 1 .. MaxEvents
    <3>1. given[o] <= 1 /\ (o > log => given[o] = 0)
      BY <2>1 DEF HandedOnce
    <3>2. log \in Nat /\ given[message] = 0
      BY <1>1, <2>1 DEF HandedOnce, BusTypes
    <3>3. CASE o = message
      BY <1>1, <1>2, <3>2, <3>3
    <3>4. CASE o # message
      BY <1>2, <3>1, <3>4
    <3> QED
      BY <3>3, <3>4
  <2>3. \A i \in 1 .. Len(inbox) : given'[inbox[i]] = 0
    <3>1. \A i \in 1 .. Len(inbox) : inbox[i] \in 1 .. MaxEvents
      BY <2>1 DEF BusTypes
    <3> QED
      BY <1>1, <1>2, <2>1, <3>1 DEF HandedOnce
  <2> QED
    BY <1>1, <1>5, <2>1, <2>2, <2>3 DEF HandedOnce
<1> QED
  BY <1>3, <1>4, <1>5 DEF BusInv

LEMMA CommitSound == ASSUME BusInv, Commit PROVE BusInv'
<1>1. /\ state = "committing" /\ transport = "kafka" /\ message \in 1 .. log /\ Done(message)
      /\ message' = message + 1 /\ state' = "waiting" /\ committed' \in {committed, message + 1}
      /\ UNCHANGED <<transport, log, from, inbox, given, closing, starts>>
  BY DEF Commit, BusInv, AtMessage
<1>2. BusTypes' /\ AtMessage'
  BY <1>1, BusAssumption DEF BusInv, BusTypes, AtMessage
<1>3. PassedDone /\ BusTypes /\ Subscribed
  BY <1>1 DEF BusInv, Subscribed
<1>4. \A o \in from .. message : Done(o)
  BY <1>1, <1>3 DEF PassedDone, BusTypes
<1>5. log \in Nat /\ message \in Nat /\ from \in Nat /\ committed \in Nat
      /\ 1 <= from /\ from <= message
      /\ (committed # 0 => committed <= log + 1 /\ from <= committed
                           /\ \A o \in from .. committed - 1 : Done(o))
  BY <1>3 DEF PassedDone, BusTypes
<1>6. \A o : Done(o)' <=> Done(o)
  BY <1>1 DEF Done
<1>7. message' = message + 1 /\ message' - 1 = message
  BY <1>1, <1>5
<1>8. \A o \in from .. message' - 1 : Done(o)
  BY <1>4, <1>7
<1>9. committed' # 0 => /\ from <= committed' /\ committed' <= log + 1
                        /\ \A o \in from .. committed' - 1 : Done(o)
  <2>1. CASE committed' = committed
    BY <1>5, <2>1
  <2>2. CASE committed' = message + 1
    <3>1. committed' - 1 = message /\ from <= committed' /\ committed' <= log + 1
      BY <1>1, <1>5, <2>2
    <3> QED
      BY <1>4, <3>1
  <2> QED
    BY <1>1, <2>1, <2>2
<1>10. PassedDone'
  <2>1. from' = from /\ log' = log /\ message' <= log + 1 /\ from <= message'
    BY <1>1, <1>5
  <2>2. \A o \in from' .. message' - 1 : Done(o)'
    BY <1>6, <1>8, <2>1
  <2>3. committed' # 0 => \A o \in from' .. committed' - 1 : Done(o)'
    BY <1>6, <1>9, <2>1
  <2> QED
    BY <1>5, <1>9, <2>1, <2>2, <2>3 DEF PassedDone
<1> QED
  BY <1>1, <1>2, <1>10 DEF BusInv

LEMMA EndSound == ASSUME BusInv, Close \/ Stop \/ RestartConsumer PROVE BusInv'
<1>1. /\ UNCHANGED <<transport, log, message, committed, from, given>>
      /\ state' = state \/ state' \in {"stopped", "none"}
      /\ inbox' = inbox \/ inbox' = << >>
  BY DEF Close, Stop, RestartConsumer
<1>2. BusTypes' /\ AtMessage'
  <2>1. BusTypes /\ AtMessage
    BY DEF BusInv
  <2>2. inbox' \in Seq(1 .. MaxEvents)
    BY <1>1, <2>1, EmptySeq DEF BusTypes
  <2>3. BusTypes'
    BY <1>1, <2>1, <2>2 DEF BusTypes
  <2>4. AtMessage'
    BY <1>1, <2>1 DEF AtMessage, Done
  <2> QED
    BY <2>3, <2>4
<1>3. ASSUME transport' = "kafka" PROVE PassedDone'
  BY <1>1, <1>3 DEF BusInv, PassedDone, Subscribed, Done
<1>4. ASSUME transport' # "kafka" PROVE HandedOnce'
  BY <1>1, <1>4 DEF BusInv, HandedOnce
<1> QED
  BY <1>2, <1>3, <1>4 DEF BusInv

LEMMA BusStep == BusInv /\ [BusNext]_busVars => BusInv'
<1>1. ASSUME BusInv, UNCHANGED busVars PROVE BusInv'
  BY <1>1 DEF busVars, BusInv, BusTypes, AtMessage, PassedDone, HandedOnce, Subscribed, Done
<1> QED
  BY <1>1, PublishSound, SubscribeSound, FetchSound, ReceiveSound, HandleSound, CommitSound,
     EndSound DEF BusNext, Consume

\* Kafka hands every message it has passed to the handler, unless it is no
\* event, from the offset at which the group began, and Redis and the
\* handlers of the same process hand none over twice: through failed commits,
\* crashes at any point, closing and restarts.
THEOREM BusSound == BusSpec => []DeliveryKept
<1>1. BusInv => DeliveryKept
  BY DEF BusInv, DeliveryKept, PassedDone, HandedOnce, Done
<1> QED
  BY <1>1, BusInit0, BusStep, PTL DEF BusSpec

(***************************************************************************)
(* Signing requests.                                                       *)
(***************************************************************************)
SharesSound(q) ==
    /\ q = [status |-> q.status, threshold |-> q.threshold, shares |-> q.shares,
            expires |-> q.expires]
    /\ q.threshold \in Int /\ q.expires \in Int
    /\ q.shares \in Seq([signer : Signers, at : Int])
    /\ q.status = "ready" => Len(q.shares) >= q.threshold
    /\ q.status = "pending" => Len(q.shares) = 0 \/ Len(q.shares) < q.threshold
    /\ \A i \in 1 .. Len(q.shares) : q.shares[i].at <= q.expires /\ (i > 1 => i <= q.threshold)

SigningInv ==
    /\ now \in Int
    /\ signing = [r \in Signings |-> signing[r]]
    /\ \A r \in Signings : SharesSound(signing[r])

\* One request is written, and the new one is sound.
LEMMA RequestWritten ==
    ASSUME SigningInv, NEW r \in Signings, NEW q, SharesSound(q), now' \in Int,
           signing' = [signing EXCEPT ![r] = q]
    PROVE  SigningInv'
<1>1. \A t \in Signings : signing'[t] = IF t = r THEN q ELSE signing[t]
  BY DEF SigningInv
<1>2. signing' = [t \in Signings |-> signing'[t]]
  BY DEF SigningInv
<1>3. \A t \in Signings : SharesSound(signing'[t])
  BY <1>1 DEF SigningInv
<1> QED
  BY <1>2, <1>3 DEF SigningInv

LEMMA StatusWritten ==
    ASSUME NEW q, SharesSound(q), NEW status, status \notin {"ready", "pending"}
    PROVE  SharesSound([q EXCEPT !.status = status])
BY DEF SharesSound

LEMMA RequestFields ==
    ASSUME NEW st, NEW threshold, NEW given0, NEW expires, NEW q,
           q = [status |-> st, threshold |-> threshold, shares |-> given0, expires |-> expires],
           NEW shares, NEW status,
           NEW new, new = [q EXCEPT !.shares = shares, !.status = status]
    PROVE  new = [status |-> status, threshold |-> threshold, shares |-> shares,
                  expires |-> expires]
<1>1. new = [f \in {"status", "threshold", "shares", "expires"} |-> new[f]]
  OBVIOUS
<1>2. /\ new.status = status /\ new.threshold = threshold
      /\ new.shares = shares /\ new.expires = expires
  OBVIOUS
<1> QED
  BY <1>1, <1>2

LEMMA ShareGiven ==
    ASSUME NEW q, SharesSound(q), q.status = "pending", NEW s \in Signers, NEW at \in Int,
           at <= q.expires, NEW shares, shares = Append(q.shares, [signer |-> s, at |-> at]),
           NEW status, status = IF Len(shares) >= q.threshold THEN "ready" ELSE "pending"
    PROVE  SharesSound([q EXCEPT !.shares = shares, !.status = status])
<1> DEFINE share == [signer |-> s, at |-> at]
           T == [signer : Signers, at : Int]
           new == [q EXCEPT !.shares = shares, !.status = status]
<1>1. share \in T /\ share.at = at
  OBVIOUS
<1>2. /\ new.status = status /\ new.threshold = q.threshold /\ new.shares = shares
      /\ new.expires = q.expires
      /\ new = [status |-> new.status, threshold |-> new.threshold, shares |-> new.shares,
                expires |-> new.expires]
  <2>1. q = [status |-> q.status, threshold |-> q.threshold, shares |-> q.shares,
             expires |-> q.expires]
    BY DEF SharesSound
  <2>0. new = [q EXCEPT !.shares = shares, !.status = status]
    OBVIOUS
  <2>2. new = [status |-> status, threshold |-> q.threshold, shares |-> shares,
               expires |-> q.expires]
    <3> HIDE DEF new
    <3> QED
      BY <2>1, <2>0, RequestFields
  <2> HIDE DEF new
  <2> QED
    BY <2>2
<1>3. q.shares \in Seq(T)
  BY DEF SharesSound
<1> HIDE DEF share, T
<1>4. /\ shares \in Seq(T) /\ Len(shares) = Len(q.shares) + 1 /\ Len(q.shares) \in Nat
      /\ \A i \in 1 .. Len(q.shares) : shares[i] = q.shares[i]
      /\ shares[Len(q.shares) + 1] = share
  BY <1>1, <1>3 DEF share
<1>5. \A i \in 1 .. Len(shares) : shares[i].at <= q.expires /\ (i > 1 => i <= q.threshold)
  <2> TAKE i \in 1 .. Len(shares)
  <2>1. CASE i \in 1 .. Len(q.shares)
    BY <1>4, <2>1 DEF SharesSound
  <2>2. CASE i = Len(q.shares) + 1
    BY <1>1, <1>4, <2>2 DEF SharesSound
  <2> QED
    BY <1>4, <2>1, <2>2
<1>6. new.shares \in Seq([signer : Signers, at : Int])
  BY <1>2, <1>4 DEF T
<1> HIDE DEF new
<1>7. SharesSound(new)
  BY <1>2, <1>4, <1>5, <1>6 DEF SharesSound
<1> QED
  BY <1>7 DEF new

LEMMA SigningStep == SigningInv /\ [SigningNext]_<<now, signingVars>> => SigningInv'
<1> SUFFICES ASSUME SigningInv, [SigningNext]_<<now, signingVars>> PROVE SigningInv'
  OBVIOUS
<1>1. CASE UNCHANGED signingVars /\ now' \in {now, now + 1}
  BY <1>1 DEF signingVars, SigningInv
<1>2. ASSUME NEW r \in Signings, NEW t \in Thresholds, InitiateSigning(r, t) PROVE SigningInv'
  <2> DEFINE new == [status |-> "pending", threshold |-> t, shares |-> << >>,
                     expires |-> now + SigningLifetime]
  <2>1. SharesSound(new)
    BY MultiSigAssumption DEF SharesSound, SigningInv
  <2>2. signing' = [signing EXCEPT ![r] = new] /\ now' \in Int
    BY <1>2 DEF InitiateSigning, SigningInv
  <2> HIDE DEF new
  <2> QED
    BY <2>1, <2>2, RequestWritten
<1>3. ASSUME NEW r \in Signings, NEW s \in Signers, Sign(r, s) PROVE SigningInv'
  <2>1. now' \in Int /\ now \in Int /\ signing[r].status = "pending" /\ SharesSound(signing[r])
    BY <1>3 DEF Sign, SigningInv
  <2>2. CASE Expired(r)
    <3>1. SharesSound([signing[r] EXCEPT !.status = "expired"])
      BY <2>1, StatusWritten
    <3>2. signing' = [signing EXCEPT ![r] = [signing[r] EXCEPT !.status = "expired"]]
      BY <1>3, <2>2 DEF Sign, SigningInv
    <3> QED
      BY <2>1, <3>1, <3>2, RequestWritten
  <2>3. CASE ~Expired(r)
    <3> DEFINE shares == Append(signing[r].shares, [signer |-> s, at |-> now])
               status == IF Len(shares) >= signing[r].threshold THEN "ready" ELSE "pending"
               new == [signing[r] EXCEPT !.shares = shares, !.status = status]
    <3>1. now <= signing[r].expires
      BY <2>1, <2>3 DEF Expired, SharesSound
    <3>2. signing' = [signing EXCEPT ![r].shares = shares, ![r].status = status]
      BY <1>3, <2>3 DEF Sign
    <3>3. signing' = [signing EXCEPT ![r] = new]
      BY <3>2 DEF SigningInv
    <3>4. SharesSound(new)
      BY <2>1, <3>1, ShareGiven
    <3> HIDE DEF new
    <3> QED
      BY <2>1, <3>3, <3>4, RequestWritten
  <2> QED
    BY <2>2, <2>3
<1>4. ASSUME NEW r \in Signings, MarkBroadcast(r) PROVE SigningInv'
  <2>1. now' \in Int /\ SharesSound([signing[r] EXCEPT !.status = "broadcast"])
    BY <1>4, StatusWritten DEF MarkBroadcast, SigningInv
  <2>2. signing' = [signing EXCEPT ![r] = [signing[r] EXCEPT !.status = "broadcast"]]
    BY <1>4 DEF MarkBroadcast, SigningInv
  <2> QED
    BY <2>1, <2>2, RequestWritten
<1> QED
  BY <1>1, <1>2, <1>3, <1>4 DEF SigningNext, Tick, SigningInv, signingVars

\* What is offered to broadcast has as many shares as were asked for, all
\* given before the request expired and none after they were enough, in
\* whatever order signers sign, time passes and requests are marked.
THEOREM SigningSound == SigningSpec => []ReadyIsSigned
<1>1. SigningInit => SigningInv
  <2>1. NoRequest.shares \in Seq([signer : Signers, at : Int]) /\ Len(NoRequest.shares) = 0
    BY EmptySeq DEF NoRequest
  <2>2. SharesSound(NoRequest)
    BY <2>1 DEF NoRequest, SharesSound
  <2> QED
    BY <2>2 DEF SigningInit, SigningInv
<1>2. SigningInv => ReadyIsSigned
  <2> SUFFICES ASSUME SigningInv, NEW r \in Signings
               PROVE  LET q == signing[r]
                      IN  /\ q.status = "ready" => Len(q.shares) >= q.threshold
                          /\ \A i \in DOMAIN q.shares : q.shares[i].at <= q.expires
                          /\ \A i \in DOMAIN q.shares : i > 1 => i <= q.threshold
    BY DEF ReadyIsSigned
  <2>1. SharesSound(signing[r])
    BY DEF SigningInv
  <2>2. signing[r].shares \in Seq([signer : Signers, at : Int])
    BY <2>1 DEF SharesSound
  <2>3. DOMAIN signing[r].shares = 1 .. Len(signing[r].shares)
    BY <2>2, LenProperties
  <2> QED
    BY <2>1, <2>3 DEF SharesSound
<1> QED
  BY <1>1, <1>2, SigningStep, PTL DEF SigningSpec
=============================================================================
