------------------------------ MODULE EventBus ------------------------------
(***************************************************************************)
(* What the three event buses deliver of the messages of one topic to one  *)
(* group: Kafka (one partition), Redis publish/subscribe, and the handlers *)
(* of the same process.                                                    *)
(*                                                                         *)
(* The consumer:  none - waiting - handling - committing - waiting ...     *)
(*                waiting - stopped                                        *)
(*                                                                         *)
(* The error of a handler is logged: it changes nothing in what follows.   *)
(***************************************************************************)
EXTENDS Integers, Sequences

CONSTANTS
    MaxEvents,   \* bound: messages published
    Undecodable, \* those that are no event
    Buffer,      \* bound: messages that a Redis subscription holds
    ConsumerRestarts \* bound: how often the consumer's process is restarted

ASSUME BusAssumption ==
    /\ MaxEvents \in Nat /\ Buffer \in Nat \ {0} /\ ConsumerRestarts \in Nat
    /\ Undecodable \subseteq 1 .. MaxEvents

VARIABLES
    transport,
    log,        \* number of messages published
    state,      \* of the consumer's goroutine
    message,    \* the message it is at; the next one while it waits on Kafka
    committed,  \* the offset kept for the group, 0 for none
    from,       \* where the group began the last time that it had no offset
    inbox,      \* the channel of the Redis subscription
    given,      \* given[o]: how often message o was handed to the handler
    closing,    \* Close has cancelled the consumer's context
    starts

busVars == <<transport, log, state, message, committed, from, inbox, given, closing, starts>>

BusInit ==
    /\ transport \in {"kafka", "redis", "memory"}
    /\ log = 0 /\ state = "none" /\ message = 0
    /\ committed = 0 /\ from = 0 /\ inbox = << >>
    /\ given = [o \in 1 .. MaxEvents |-> 0]
    /\ closing = FALSE /\ starts = 0

Subscribed == state \notin {"none", "stopped"}

Hand(o) == given' = [given EXCEPT ![o] = @ + 1]

\* Redis forgets what no subscription takes, and a connection or a full
\* channel loses what one should have taken.
Publish ==
    /\ log < MaxEvents
    /\ log' = log + 1
    /\ IF transport = "memory" /\ Subscribed THEN Hand(log + 1) ELSE UNCHANGED given
    /\ inbox' \in {inbox} \cup (IF transport = "redis" /\ Subscribed /\ Len(inbox) < Buffer
                                THEN {Append(inbox, log + 1)} ELSE {})
    /\ UNCHANGED <<transport, state, message, committed, from, closing, starts>>

\* StartOffset is LastOffset: a group without an offset begins at the end.
Subscribe ==
    /\ state = "none" /\ starts <= ConsumerRestarts
    /\ state' = "waiting"
    /\ starts' = starts + 1
    /\ message' = IF transport # "kafka" THEN 0 ELSE IF committed = 0 THEN log + 1 ELSE committed
    /\ from' = IF committed = 0 THEN message' ELSE from
    /\ UNCHANGED <<transport, log, committed, inbox, given, closing>>

\* Mutant: a message that is no event is not committed, and fetched again.
FetchPoison ==
    /\ transport = "kafka" /\ state = "waiting" /\ message <= log
    /\ state' = IF message \in Undecodable THEN "waiting" ELSE "handling"
    /\ UNCHANGED <<transport, log, message, committed, from, inbox, given, closing, starts>>

\* Mutant: a message is committed as it is read.
FetchCommitted ==
    /\ transport = "kafka" /\ state = "waiting" /\ message <= log
    /\ committed' = message + 1
    /\ state' = IF message \in Undecodable THEN "committing" ELSE "handling"
    /\ UNCHANGED <<transport, log, message, from, inbox, given, closing, starts>>

\* FetchMessage may still answer with a message when its context has ended.
Fetch ==
    /\ transport = "kafka" /\ state = "waiting" /\ message <= log
    /\ state' = IF message \in Undecodable THEN "committing" ELSE "handling"
    /\ UNCHANGED <<transport, log, message, committed, from, inbox, given, closing, starts>>

Receive ==
    /\ transport = "redis" /\ state = "waiting" /\ inbox # << >>
    /\ message' = Head(inbox)
    /\ inbox' = Tail(inbox)
    /\ state' = IF Head(inbox) \in Undecodable THEN "waiting" ELSE "handling"
    /\ UNCHANGED <<transport, log, committed, from, given, closing, starts>>

Handle ==
    /\ state = "handling"
    /\ Hand(message)
    /\ state' = IF transport = "kafka" THEN "committing" ELSE "waiting"
    /\ UNCHANGED <<transport, log, message, committed, from, inbox, closing, starts>>

\* A commit that fails, as it may also when Close has ended its context, is
\* logged, and the next one stands for it.
Commit ==
    /\ state = "committing"
    /\ committed' \in {committed, message + 1}
    /\ message' = message + 1
    /\ state' = "waiting"
    /\ UNCHANGED <<transport, log, from, inbox, given, closing, starts>>

Close ==
    /\ Subscribed /\ ~closing
    /\ closing' = TRUE
    /\ UNCHANGED <<transport, log, state, message, committed, from, inbox, given, starts>>

\* The goroutine finds its context ended.
Stop ==
    /\ closing /\ state = "waiting"
    /\ state' = "stopped"
    /\ UNCHANGED <<transport, log, message, committed, from, inbox, given, closing, starts>>

\* The process ends, at any point, and is started again.
RestartConsumer ==
    /\ state # "none" /\ starts <= ConsumerRestarts
    /\ state' = "none" /\ closing' = FALSE /\ inbox' = << >>
    /\ UNCHANGED <<transport, log, message, committed, from, given, starts>>

Consume == Subscribe \/ Fetch \/ Receive \/ Handle \/ Commit \/ Stop

BusNext == Publish \/ Consume \/ Close \/ RestartConsumer

\* Handlers return, and the goroutine goes on as long as it can.
BusSpec == BusInit /\ [][BusNext]_busVars /\ WF_busVars(Consume)

(***************************************************************************)
(* Properties.                                                             *)
(***************************************************************************)
\* On Kafka no message at or above the offset that the group began at is
\* passed over, whatever crashes: each one below the committed offset was
\* handed to the handler, or is no event.  The other buses hand a message
\* over at most once.
DeliveryKept ==
    /\ transport = "kafka" /\ committed # 0 =>
         \A o \in from .. committed - 1 : given[o] > 0 \/ o \in Undecodable
    /\ transport # "kafka" => \A o \in 1 .. MaxEvents : given[o] <= 1

\* A message published to a Kafka group that has begun is handed to the
\* handler, unless the group has to begin again or is closed: neither failed
\* commits nor messages that are no events hold it up.
HandledEventually ==
    \A o \in 1 .. MaxEvents :
        transport = "kafka" /\ o <= log /\ from \in 1 .. o
        ~> given[o] > 0 \/ o \in Undecodable \/ from > o \/ state = "stopped"
=============================================================================
