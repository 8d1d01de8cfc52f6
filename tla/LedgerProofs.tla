---------------------------- MODULE LedgerProofs ----------------------------
(***************************************************************************)
(* Proofs about Ledger for every set of calls, users, currencies and       *)
(* deposits.  The invariant LedgerInv is inductive (LedgerInit, and one    *)
(* lemma for each action); NoOverdraft and OkIsDone follow from it, and so *)
(* does that locked rows change by nobody else's hand.                     *)
(***************************************************************************)
EXTENDS Ledger, SumTheorems, TLAPS

(***************************************************************************)
(* The inductive invariant.                                                *)
(***************************************************************************)
AccountRow == [here : BOOLEAN, balance : Nat, frozen : Nat, version : Nat]
WithdrawalRow == [amount : Int, fee : Nat, wallet : {"none", "hot", "cold"}]

\* What the row of each table holds.
RowSound(k, v) ==
    /\ k \in Accts => v \in AccountRow
    /\ k \in Deposits => v \in {"none", "pending", "confirmed"}
    /\ k \in Calls => v \in WithdrawalRow

\* What a transaction of c may hold of the row: a deposit is confirmed only, and
\* a withdrawal is its own and is made whole.
WriteSound(c, k, v) ==
    /\ k \in Rows
    /\ RowSound(k, v)
    /\ k \in Deposits => v = "confirmed" /\ row[k] = "pending"
    /\ k \in Calls => k = c /\ v # NoWithdrawal

\* The statements of each operation.
Statements(op) ==
    CASE op = "withdraw" -> {"reading", "debiting", "recording", "committing"}
      [] op = "deposit" -> {"finding", "inserting", "marking", "crediting", "committing"}
      [] op = "settle" -> {"settling", "inserting_trade"}
      [] OTHER -> {"shifting"}

\* What call c has done by the statement it is at.
CallSound(c) ==
    /\ pc[c] \in Statements(Job[c].op) \cup {"returned"}
    /\ result[c] \in {"none", "ok", "error"}
    /\ leg[c] \in 1 .. 6
    /\ pc[c] = "settling" => leg[c] \in 1 .. 5
    /\ pc[c] \in {"reading", "finding", "inserting", "marking", "shifting", "returned"}
          => DOMAIN writes[c] = {}
    /\ pc[c] = "debiting" =>
          /\ Job[c].account \in DOMAIN writes[c]
          /\ writes[c][Job[c].account].balance >= Total(c)
    /\ pc[c] = "marking" => row[Job[c].deposit] # "none"
    /\ pc[c] \in {"crediting", "committing"} /\ Job[c].op = "deposit" =>
          Job[c].deposit \in DOMAIN writes[c]
    /\ pc[c] = "committing" /\ Job[c].op = "withdraw" => c \in DOMAIN writes[c]

CallDone(c) ==
    result[c] = "ok" =>
        /\ pc[c] = "returned"
        /\ Job[c].op = "withdraw" => row[c] # NoWithdrawal
        /\ Job[c].op = "deposit" => row[Job[c].deposit] # "none"
        /\ Job[c].op = "deposit" /\ Job[c].deep => row[Job[c].deposit] = "confirmed"

Shapes ==
    /\ row = [k \in Rows |-> row[k]] /\ writes = [c \in Calls |-> writes[c]]
    /\ pc = [c \in Calls |-> pc[c]] /\ result = [c \in Calls |-> result[c]]
    /\ leg = [c \in Calls |-> leg[c]]

LocksExclusive ==
    \A c, d \in Calls : c # d => DOMAIN writes[c] \cap DOMAIN writes[d] = {}

LedgerInv ==
    /\ Shapes
    /\ \A k \in Rows : RowSound(k, row[k])
    /\ \A c \in Calls : \A k \in DOMAIN writes[c] : WriteSound(c, k, writes[c][k])
    /\ LocksExclusive
    /\ \A c \in Calls : CallSound(c) /\ CallDone(c)

(***************************************************************************)
(* What the calls that a step is not about notice of it.                   *)
(***************************************************************************)
Keeps(d) ==
    /\ pc'[d] = pc[d] /\ result'[d] = result[d] /\ leg'[d] = leg[d]
    /\ writes'[d] = writes[d]

\* Rows are written in one direction.
RowsAdvance ==
    /\ \A k \in Deposits :
          \/ row'[k] = row[k]
          \/ row[k] = "none" /\ row'[k] = "pending"
          \/ row'[k] = "confirmed"
    /\ \A e \in Calls : row[e] # NoWithdrawal => row'[e] # NoWithdrawal

\* An operation has the rows of its job.
LEMMA Jobs ==
    ASSUME NEW c \in Calls
    PROVE  /\ Job[c].op \in {"withdraw", "deposit", "settle", "freeze", "unfreeze"}
           /\ Job[c].op = "withdraw" =>
                 /\ Job[c].account \in Accts /\ Job[c].amount \in Int
                 /\ Job[c].fee \in Nat /\ Total(c) \in Int
           /\ Job[c].op \in {"freeze", "unfreeze"} =>
                 Job[c].account \in Accts /\ Job[c].amount \in Nat
           /\ Job[c].op = "deposit" =>
                 Job[c].deposit \in Deposits /\ Job[c].currency \in Currencies
           /\ Job[c].op = "settle" =>
                 /\ Job[c].taker \in Users /\ Job[c].maker \in Users
                 /\ Job[c].qty \in Nat /\ Job[c].quoteQty \in Nat
<1>1. Job[c].op = "withdraw" =>
        Job[c].account \in Accts /\ Job[c].amount \in Int /\ Job[c].fee \in Nat
  BY LedgerAssumption DEF Of
<1>2. Job[c].op \in {"freeze", "unfreeze"} => Job[c].account \in Accts /\ Job[c].amount \in Nat
  BY LedgerAssumption DEF Of
<1>3. Job[c].op = "deposit" => Job[c].deposit \in Deposits /\ Job[c].currency \in Currencies
  BY LedgerAssumption DEF Of
<1>4. Job[c].op = "settle" =>
        /\ Job[c].taker \in Users /\ Job[c].maker \in Users
        /\ Job[c].qty \in Nat /\ Job[c].quoteQty \in Nat
  BY LedgerAssumption DEF Of
<1>5. Job[c].op \in {"withdraw", "deposit", "settle", "freeze", "unfreeze"}
  BY LedgerAssumption
<1> QED
  BY <1>1, <1>2, <1>3, <1>4, <1>5 DEF Total

\* Rows of accounts, deposits and withdrawals are different rows.
LEMMA Tables ==
    /\ \A k \in Accts : k \in Rows /\ k \notin Deposits /\ k \notin Calls
    /\ \A k \in Deposits : k \in Rows /\ k \notin Accts /\ k \notin Calls
    /\ \A k \in Calls : k \in Rows /\ k \notin Accts /\ k \notin Deposits
BY LedgerAssumption DEF Rows

\* A call that a step leaves alone is as sound as it was.
LEMMA OthersSound ==
    ASSUME NEW d \in Calls, CallSound(d), CallDone(d), Keeps(d), RowsAdvance
    PROVE  CallSound(d)' /\ CallDone(d)'
<1> DEFINE k == Job[d].deposit
<1>1. Job[d].op = "deposit" => k \in Deposits
  BY Jobs
<1>2. Job[d].op = "deposit" =>
        /\ row[k] # "none" => row'[k] # "none"
        /\ row[k] = "confirmed" => row'[k] = "confirmed"
  BY <1>1 DEF RowsAdvance
<1>3. row[d] # NoWithdrawal => row'[d] # NoWithdrawal
  BY DEF RowsAdvance
<1>4. pc[d] = "marking" => Job[d].op = "deposit"
  BY Jobs DEF CallSound, Statements
<1> HIDE DEF k
<1>5. CallSound(d)'
  BY <1>2, <1>4 DEF CallSound, Keeps, Total, k
<1>6. CallDone(d)'
  BY <1>2, <1>3 DEF CallDone, Keeps, k
<1> QED
  BY <1>5, <1>6

(***************************************************************************)
(* The steps that the statements are made of.                              *)
(***************************************************************************)
\* A statement of c that writes row k, and leaves c sound, keeps the invariant.
LEMMA PutSound ==
    ASSUME LedgerInv, NEW c \in Calls, NEW k, NEW v, NEW step,
           Put(c, k, v), Continue(c, step), pc[c] # "returned",
           \A d \in Calls \ {c} : k \notin DOMAIN writes[d],
           WriteSound(c, k, v),
           leg' = leg \/ leg' = [leg EXCEPT ![c] = @ + 1],
           CallSound(c)'
    PROVE  LedgerInv'
<1>1. /\ row' = row /\ result' = result
      /\ DOMAIN writes'[c] = DOMAIN writes[c] \cup {k}
      /\ writes'[c][k] = v
      /\ \A x \in DOMAIN writes[c] : x # k => writes'[c][x] = writes[c][x]
      /\ \A d \in Calls : d # c => Keeps(d)
  <2>1. writes' = [writes EXCEPT ![c] = With(writes[c], k, v)]
    BY DEF Put
  <2>2. writes'[c] = With(writes[c], k, v) /\ \A d \in Calls : d # c => writes'[d] = writes[d]
    BY <2>1 DEF LedgerInv, Shapes
  <2>3. /\ DOMAIN writes'[c] = DOMAIN writes[c] \cup {k}
        /\ writes'[c][k] = v
        /\ \A x \in DOMAIN writes[c] : x # k => writes'[c][x] = writes[c][x]
    BY <2>2 DEF With
  <2>4. \A d \in Calls : d # c => pc'[d] = pc[d] /\ leg'[d] = leg[d]
    BY DEF Continue, LedgerInv, Shapes
  <2>5. row' = row /\ result' = result
    BY DEF Put, Continue
  <2> QED
    BY <2>2, <2>3, <2>4, <2>5 DEF Keeps
<1>2. Shapes'
  BY <1>1 DEF LedgerInv, Shapes, Put, Continue
<1>3. \A x \in Rows : RowSound(x, row[x])'
  BY <1>1 DEF LedgerInv, RowSound
<1>4. ASSUME NEW d \in Calls, NEW x \in DOMAIN writes'[d]
      PROVE  WriteSound(d, x, writes[d][x])'
  <2>1. WriteSound(d, x, writes'[d][x])
    <3>1. CASE d = c /\ x = k
      BY <1>1, <3>1
    <3>2. CASE d = c /\ x # k
      <4>1. x \in DOMAIN writes[c] /\ writes'[c][x] = writes[c][x]
        BY <1>1, <3>2
      <4>2. WriteSound(c, x, writes[c][x])
        BY <4>1 DEF LedgerInv
      <4> QED
        BY <3>2, <4>1, <4>2
    <3>3. CASE d # c
      <4>1. writes'[d] = writes[d]
        BY <1>1, <3>3 DEF Keeps
      <4> QED
        BY <4>1 DEF LedgerInv
    <3> QED
      BY <3>1, <3>2, <3>3
  <2> QED
    BY <1>1, <2>1 DEF WriteSound, RowSound
<1>5. LocksExclusive'
  <2> SUFFICES ASSUME NEW d \in Calls, NEW e \in Calls, d # e
               PROVE  DOMAIN writes'[d] \cap DOMAIN writes'[e] = {}
    BY DEF LocksExclusive
  <2>1. DOMAIN writes[d] \cap DOMAIN writes[e] = {}
    BY DEF LedgerInv, LocksExclusive
  <2> QED
    BY <1>1, <2>1 DEF Keeps
<1>6. CallDone(c)'
  BY <1>1 DEF LedgerInv, CallDone
<1>7. ASSUME NEW d \in Calls, d # c
      PROVE  CallSound(d)' /\ CallDone(d)'
  <2>1. RowsAdvance
    BY <1>1 DEF RowsAdvance
  <2> QED
    BY <1>1, <1>7, <2>1, OthersSound DEF LedgerInv
<1> QED
  BY <1>2, <1>3, <1>4, <1>5, <1>6, <1>7 DEF LedgerInv

\* A transaction that ends without a trace keeps the invariant, if what the
\* call answers is true.
LEMMA RollbackSound ==
    ASSUME LedgerInv, NEW c \in Calls, NEW what \in {"ok", "error"},
           Rollback(c), Return(c, what), UNCHANGED leg,
           what = "ok" => /\ Job[c].op = "deposit"
                          /\ row[Job[c].deposit] = "confirmed"
    PROVE  LedgerInv'
<1>1. /\ row' = row /\ leg' = leg
      /\ DOMAIN writes'[c] = {}
      /\ pc'[c] = "returned" /\ result'[c] = what
      /\ \A d \in Calls : d # c => Keeps(d)
  BY DEF Rollback, Return, LedgerInv, Shapes, Keeps
<1>2. Shapes'
  BY <1>1 DEF LedgerInv, Shapes, Rollback, Return
<1>3. \A x \in Rows : RowSound(x, row[x])'
  BY <1>1 DEF LedgerInv, RowSound
<1>4. ASSUME NEW d \in Calls, NEW x \in DOMAIN writes'[d]
      PROVE  WriteSound(d, x, writes[d][x])'
  <2>1. d # c /\ writes'[d] = writes[d]
    BY <1>1, <1>4 DEF Keeps
  <2>2. WriteSound(d, x, writes'[d][x])
    BY <2>1 DEF LedgerInv
  <2> QED
    BY <1>1, <2>2 DEF WriteSound, RowSound
<1>5. LocksExclusive'
  <2> SUFFICES ASSUME NEW d \in Calls, NEW e \in Calls, d # e
               PROVE  DOMAIN writes'[d] \cap DOMAIN writes'[e] = {}
    BY DEF LocksExclusive
  <2>1. DOMAIN writes[d] \cap DOMAIN writes[e] = {}
    BY DEF LedgerInv, LocksExclusive
  <2> QED
    BY <1>1, <2>1 DEF Keeps
<1>6. CallSound(c)'
  BY <1>1 DEF LedgerInv, CallSound
<1>7. CallDone(c)'
  BY <1>1 DEF CallDone
<1>8. ASSUME NEW d \in Calls, d # c
      PROVE  CallSound(d)' /\ CallDone(d)'
  <2>1. RowsAdvance
    BY <1>1 DEF RowsAdvance
  <2> QED
    BY <1>1, <1>8, <2>1, OthersSound DEF LedgerInv
<1> QED
  BY <1>2, <1>3, <1>4, <1>5, <1>6, <1>7, <1>8 DEF LedgerInv

\* A step that moves only c, and writes only rows that nobody has locked, keeps
\* the invariant.
LEMMA DirectSound ==
    ASSUME LedgerInv, NEW c \in Calls, RowsAdvance, Shapes',
           writes' = writes, leg' = leg,
           \A d \in Calls : d # c => pc'[d] = pc[d] /\ result'[d] = result[d],
           \A k \in Rows : RowSound(k, row[k])',
           \A d \in Calls : \A k \in DOMAIN writes[d] : k \in Deposits => row'[k] = row[k],
           CallSound(c)', CallDone(c)'
    PROVE  LedgerInv'
<1>1. ASSUME NEW d \in Calls, NEW x \in DOMAIN writes'[d]
      PROVE  WriteSound(d, x, writes[d][x])'
  <2>1. WriteSound(d, x, writes[d][x])
    BY DEF LedgerInv
  <2> QED
    BY <2>1 DEF WriteSound, RowSound
<1>2. LocksExclusive'
  BY DEF LedgerInv, LocksExclusive
<1>3. ASSUME NEW d \in Calls, d # c
      PROVE  CallSound(d)' /\ CallDone(d)'
  <2>1. Keeps(d)
    BY <1>3 DEF Keeps
  <2> QED
    BY <2>1, OthersSound DEF LedgerInv
<1> QED
  BY <1>1, <1>2, <1>3 DEF LedgerInv

(***************************************************************************)
(* The first state, and one lemma for each action.                         *)
(***************************************************************************)
LEMMA LedgerInit == Init => LedgerInv
<1> SUFFICES ASSUME Init PROVE LedgerInv
  OBVIOUS
<1>1. Shapes
  BY DEF Init, Shapes
<1>2. ASSUME NEW k \in Rows
      PROVE  RowSound(k, row[k])
  <2>1. CASE k \in Deposits
    BY <2>1, Tables DEF Init, RowSound
  <2>2. CASE k \in Calls
    BY <2>2, Tables DEF Init, RowSound, NoWithdrawal, WithdrawalRow
  <2>3. CASE k \in Accts
    <3>1. CASE k \in DOMAIN Opening
      <4>1. Opening[k].balance \in Nat /\ Opening[k].frozen \in Nat
        BY <3>1, LedgerAssumption
      <4>2. row[k] = Account(Opening[k].balance, Opening[k].frozen)
        BY <2>3, <3>1, Tables DEF Init
      <4> QED
        BY <2>3, <4>1, <4>2, Tables DEF RowSound, Account, AccountRow
    <3>2. CASE k \notin DOMAIN Opening
      <4>1. row[k] = NoAccount
        BY <2>3, <3>2, Tables DEF Init
      <4> QED
        BY <2>3, <4>1, Tables DEF RowSound, NoAccount, AccountRow
    <3> QED
      BY <3>1, <3>2
  <2> QED
    BY <2>1, <2>2, <2>3 DEF Rows
<1>3. \A c \in Calls : DOMAIN writes[c] = {}
  BY DEF Init
<1>4. ASSUME NEW c \in Calls
      PROVE  CallSound(c) /\ CallDone(c)
  <2>1. pc[c] = FirstStep(Job[c].op) /\ result[c] = "none" /\ leg[c] = 1
    BY DEF Init
  <2>2. /\ pc[c] \in Statements(Job[c].op)
        /\ pc[c] \in {"reading", "finding", "settling", "shifting"}
    BY <2>1, Jobs DEF FirstStep, Statements
  <2> QED
    BY <1>3, <2>1, <2>2 DEF CallSound, CallDone
<1> QED
  BY <1>1, <1>2, <1>3, <1>4 DEF LedgerInv, LocksExclusive

\* The operation that a statement belongs to.
LEMMA Operation ==
    ASSUME NEW c \in Calls, CallSound(c)
    PROVE  /\ pc[c] \in {"reading", "debiting", "recording"} => Job[c].op = "withdraw"
           /\ pc[c] \in {"finding", "inserting", "marking", "crediting"} => Job[c].op = "deposit"
           /\ pc[c] \in {"settling", "inserting_trade"} => Job[c].op = "settle"
           /\ pc[c] = "shifting" => Job[c].op \in {"freeze", "unfreeze"}
           /\ pc[c] = "committing" => Job[c].op \in {"withdraw", "deposit"}
BY Jobs DEF CallSound, Statements

\* The statement a call is at after Continue.
LEMMA Continued ==
    ASSUME LedgerInv, NEW c \in Calls, NEW step, Continue(c, step)
    PROVE  /\ pc'[c] = step /\ result'[c] = result[c]
           /\ \A d \in Calls : d # c => pc'[d] = pc[d] /\ result'[d] = result[d]
BY DEF Continue, LedgerInv, Shapes

\* The call after Return.
LEMMA Returned ==
    ASSUME LedgerInv, NEW c \in Calls, NEW what, Return(c, what)
    PROVE  /\ pc'[c] = "returned" /\ result'[c] = what
           /\ \A d \in Calls : d # c => pc'[d] = pc[d] /\ result'[d] = result[d]
           /\ pc' = [d \in Calls |-> pc'[d]] /\ result' = [d \in Calls |-> result'[d]]
BY DEF Return, LedgerInv, Shapes

\* What a transaction holds after Put.
LEMMA Written ==
    ASSUME LedgerInv, NEW c \in Calls, NEW k, NEW v, Put(c, k, v)
    PROVE  /\ row' = row
           /\ DOMAIN writes'[c] = DOMAIN writes[c] \cup {k}
           /\ writes'[c][k] = v
           /\ \A x \in DOMAIN writes[c] : x # k => writes'[c][x] = writes[c][x]
<1>1. writes'[c] = With(writes[c], k, v)
  BY DEF Put, LedgerInv, Shapes
<1> QED
  BY <1>1 DEF Put, With

\* What a call sees of an account.
LEMMA SeenAccount ==
    ASSUME LedgerInv, NEW c \in Calls, NEW k \in Accts
    PROVE  Seen(c, k) \in AccountRow
<1>1. k \in Rows
  BY Tables
<1>2. CASE k \in DOMAIN writes[c]
  BY <1>2 DEF LedgerInv, WriteSound, RowSound, Seen
<1>3. CASE k \notin DOMAIN writes[c]
  BY <1>1, <1>3 DEF LedgerInv, RowSound, Seen
<1> QED
  BY <1>2, <1>3

\* An account after a change of what it holds.
LEMMA NewHoldings ==
    ASSUME NEW a \in AccountRow, NEW b \in Nat, NEW f \in Nat
    PROVE  [a EXCEPT !.balance = b, !.frozen = f] \in AccountRow
BY DEF AccountRow

\* And of its version, as UpdateBalance changes it.
LEMMA NewVersion ==
    ASSUME NEW a \in AccountRow, NEW b \in Nat, NEW v \in Nat, NEW f \in Nat
    PROVE  [a EXCEPT !.balance = b, !.version = v, !.frozen = f] \in AccountRow
BY DEF AccountRow

\* The numbers of an account.
LEMMA Holdings ==
    ASSUME NEW a \in AccountRow
    PROVE  a.balance \in Nat /\ a.frozen \in Nat /\ a.version + 1 \in Nat
BY DEF AccountRow

\* An account may be written if it is free.
LEMMA AccountWrite ==
    ASSUME NEW c \in Calls, NEW k \in Accts, NEW v \in AccountRow
    PROVE  WriteSound(c, k, v)
BY Tables DEF WriteSound, RowSound

LEMMA ReadKeeps == ASSUME LedgerInv, NEW c \in Calls, Read(c), UNCHANGED leg PROVE LedgerInv'
<1> DEFINE k == Job[c].account
<1>1. pc[c] = "reading" /\ Free(c, k) /\ CallSound(c)
  BY DEF Read, LedgerInv
<1>2. Job[c].op = "withdraw" /\ k \in Accts /\ Total(c) \in Int
  BY <1>1, Operation, Jobs
<1>3. CASE Fail(c)
  BY <1>3, RollbackSound DEF Fail
<1>4. CASE /\ ~(~row[k].here \/ row[k].balance < Total(c))
           /\ Put(c, k, row[k]) /\ Continue(c, "debiting")
  <2>1. row[k] \in AccountRow
    BY <1>2, Tables DEF LedgerInv, RowSound
  <2>2. row[k].balance >= Total(c)
    BY <1>2, <1>4, <2>1 DEF AccountRow
  <2>3. WriteSound(c, k, row[k])
    BY <1>2, <2>1, AccountWrite
  <2> HIDE DEF k
  <2>4. /\ pc'[c] = "debiting" /\ result'[c] = result[c]
        /\ k \in DOMAIN writes'[c] /\ writes'[c][k] = row[k]
    BY <1>4, Continued, Written
  <2>5. CallSound(c)'
    BY <1>1, <1>2, <2>2, <2>4 DEF CallSound, Statements, Total, k
  <2> QED
    BY <1>1, <1>4, <2>3, <2>5, PutSound DEF Free
<1> QED
  BY <1>3, <1>4 DEF Read

LEMMA DebitKeeps == ASSUME LedgerInv, NEW c \in Calls, Debit(c), UNCHANGED leg PROVE LedgerInv'
<1> DEFINE k == Job[c].account
           v == [Seen(c, k) EXCEPT !.balance = @ - Total(c)]
<1>1. /\ pc[c] = "debiting" /\ Free(c, k) /\ CallSound(c)
      /\ Put(c, k, v) /\ Continue(c, "recording")
  BY DEF Debit, LedgerInv
<1>2. Job[c].op = "withdraw" /\ k \in Accts /\ Total(c) \in Int
  BY <1>1, Operation, Jobs
<1>3. Seen(c, k) \in AccountRow /\ Seen(c, k).balance >= Total(c)
  BY <1>1, <1>2, SeenAccount DEF CallSound, Seen
<1>4. v \in AccountRow
  BY <1>2, <1>3 DEF AccountRow
<1> HIDE DEF k, v
<1>5. WriteSound(c, k, v)
  BY <1>2, <1>4, AccountWrite
<1>6. pc'[c] = "recording" /\ result'[c] = result[c]
  BY <1>1, Continued
<1>7. CallSound(c)'
  BY <1>1, <1>2, <1>6 DEF CallSound, Statements
<1> QED
  BY <1>1, <1>5, <1>7, PutSound DEF Free

LEMMA RecordKeeps == ASSUME LedgerInv, NEW c \in Calls, Record(c), UNCHANGED leg PROVE LedgerInv'
<1> DEFINE v == [amount |-> Job[c].amount, fee |-> Job[c].fee,
                 wallet |-> IF Job[c].amount > Cap THEN "cold" ELSE "hot"]
<1>1. /\ pc[c] = "recording" /\ CallSound(c)
      /\ Put(c, c, v) /\ Continue(c, "committing")
  BY DEF Record, LedgerInv
<1>2. Job[c].op = "withdraw" /\ Job[c].amount \in Int /\ Job[c].fee \in Nat
  BY <1>1, Operation, Jobs
<1>3. v \in WithdrawalRow /\ v # NoWithdrawal
  BY <1>2 DEF WithdrawalRow, NoWithdrawal
<1> HIDE DEF v
<1>4. WriteSound(c, c, v)
  BY <1>3, Tables DEF WriteSound, RowSound
<1>5. ASSUME NEW d \in Calls \ {c}
      PROVE  c \notin DOMAIN writes[d]
  BY DEF LedgerInv, WriteSound
<1>6. /\ pc'[c] = "committing" /\ result'[c] = result[c]
      /\ c \in DOMAIN writes'[c]
  BY <1>1, Continued, Written
<1>7. CallSound(c)'
  BY <1>1, <1>2, <1>6 DEF CallSound, Statements
<1> QED
  BY <1>1, <1>4, <1>5, <1>7, PutSound

LEMMA FindKeeps == ASSUME LedgerInv, NEW c \in Calls, Find(c), UNCHANGED leg PROVE LedgerInv'
<1>1. pc[c] = "finding" /\ CallSound(c)
  BY DEF Find, LedgerInv
<1>2. Job[c].op = "deposit"
  BY <1>1, Operation
<1>3. CASE Fail(c)
  BY <1>3, RollbackSound DEF Fail
<1>4. CASE Continue(c, "inserting") /\ UNCHANGED <<row, writes>>
  <2>1. /\ row' = row /\ writes' = writes /\ pc'[c] = "inserting" /\ result' = result
        /\ \A d \in Calls : d # c => pc'[d] = pc[d]
    BY <1>4 DEF Continue, LedgerInv, Shapes
  <2>2. Shapes'
    BY <1>4 DEF Continue, LedgerInv, Shapes
  <2>3. CallSound(c)' /\ CallDone(c)'
    BY <1>1, <1>2, <2>1 DEF CallSound, CallDone, Statements, LedgerInv
  <2>4. \A k \in Rows : RowSound(k, row[k])'
    BY <2>1 DEF LedgerInv, RowSound
  <2>5. RowsAdvance
    BY <2>1 DEF RowsAdvance
  <2> QED
    BY <2>1, <2>2, <2>3, <2>4, <2>5, DirectSound
<1> QED
  BY <1>3, <1>4 DEF Find

LEMMA InsertKeeps == ASSUME LedgerInv, NEW c \in Calls, Insert(c), UNCHANGED leg PROVE LedgerInv'
<1> DEFINE d == Job[c].deposit
<1>1. /\ pc[c] = "inserting" /\ CallSound(c) /\ CallDone(c)
      /\ row' = [row EXCEPT ![d] = IF @ = "none" THEN "pending" ELSE @]
      /\ writes' = writes
  BY DEF Insert, LedgerInv
<1>2. Job[c].op = "deposit" /\ d \in Deposits
  BY <1>1, Operation, Jobs
<1>3. d \in Rows /\ d \notin Accts /\ d \notin Calls
  BY <1>2, Tables
<1> HIDE DEF d
<1>4. /\ row'[d] = IF row[d] = "none" THEN "pending" ELSE row[d]
      /\ \A k \in Rows : k # d => row'[k] = row[k]
  BY <1>1, <1>3 DEF LedgerInv, Shapes
<1>5. row'[d] \in {"pending", "confirmed"}
  BY <1>2, <1>3, <1>4 DEF LedgerInv, RowSound
<1>6. RowsAdvance
  BY <1>3, <1>4, Tables DEF RowsAdvance
<1>7. /\ \A e \in Calls : e # c => pc'[e] = pc[e] /\ result'[e] = result[e]
      /\ pc'[c] \in {"marking", "returned"}
      /\ pc'[c] = "marking" => result'[c] = result[c]
      /\ result'[c] = "ok" => pc'[c] = "returned" /\ ~Job[c].deep
      /\ result'[c] \in {"ok", "error", result[c]}
  <2>1. CASE ended[c] /\ Return(c, "error")
    BY <2>1, Returned
  <2>2. CASE Job[c].deep /\ Continue(c, "marking")
    BY <1>1, <2>2, Continued DEF CallDone
  <2>3. CASE ~Job[c].deep /\ Return(c, "ok")
    BY <2>3, Returned
  <2> QED
    BY <2>1, <2>2, <2>3 DEF Insert
<1>8. Shapes'
  BY <1>1, <1>3 DEF LedgerInv, Shapes, Insert, Return, Continue
<1>9. ASSUME NEW k \in Rows
      PROVE  RowSound(k, row[k])'
  <2>1. CASE k = d
    BY <1>3, <1>5, <2>1 DEF RowSound
  <2>2. CASE k # d
    BY <1>4, <2>2 DEF LedgerInv, RowSound
  <2> QED
    BY <2>1, <2>2
<1>10. ASSUME NEW e \in Calls, NEW k \in DOMAIN writes[e], k \in Deposits
       PROVE  row'[k] = row[k]
  <2>1. row[k] = "pending" /\ k \in Rows
    BY <1>10 DEF LedgerInv, WriteSound
  <2> QED
    BY <1>4, <2>1
<1>11. CallSound(c)'
  <2>1. result'[c] \in {"none", "ok", "error"}
    BY <1>1, <1>7 DEF CallSound
  <2> QED
    BY <1>1, <1>2, <1>5, <1>7, <2>1 DEF CallSound, Statements, d
<1>12. CallDone(c)'
  <2>1. result[c] # "ok"
    BY <1>1 DEF CallDone
  <2> QED
    BY <1>2, <1>5, <1>7, <2>1 DEF CallDone, d
<1> QED
  BY <1>1, <1>6, <1>7, <1>8, <1>9, <1>10, <1>11, <1>12, DirectSound

LEMMA MarkKeeps == ASSUME LedgerInv, NEW c \in Calls, Mark(c), UNCHANGED leg PROVE LedgerInv'
<1> DEFINE d == Job[c].deposit
<1>1. pc[c] = "marking" /\ Free(c, d) /\ CallSound(c)
  BY DEF Mark, LedgerInv
<1>2. Job[c].op = "deposit" /\ d \in Deposits
  BY <1>1, Operation, Jobs
<1>3. row[d] \in {"pending", "confirmed"}
  BY <1>1, <1>2, Tables DEF CallSound, LedgerInv, RowSound
<1>4. CASE row[d] = "pending" /\ Put(c, d, "confirmed") /\ Continue(c, "crediting")
  <2>1. WriteSound(c, d, "confirmed")
    BY <1>2, <1>4, Tables DEF WriteSound, RowSound
  <2>2. pc'[c] = "crediting" /\ result'[c] = result[c] /\ d \in DOMAIN writes'[c]
    BY <1>4, Continued, Written
  <2>3. CallSound(c)'
    BY <1>1, <1>2, <2>2 DEF CallSound, Statements
  <2> HIDE DEF d
  <2> QED
    BY <1>1, <1>4, <2>1, <2>3, PutSound DEF Free
<1>5. CASE row[d] # "pending" /\ Return(c, "ok") /\ Rollback(c)
  BY <1>2, <1>3, <1>5, RollbackSound
<1> QED
  BY <1>4, <1>5 DEF Mark

LEMMA CreditKeeps == ASSUME LedgerInv, NEW c \in Calls, Credit(c), UNCHANGED leg PROVE LedgerInv'
<1> DEFINE d == Job[c].deposit
           k == <<Owner[d], Job[c].currency>>
           v == IF Seen(c, k).here THEN [Seen(c, k) EXCEPT !.balance = @ + Amount[d]]
                ELSE Account(Amount[d], 0)
<1>1. /\ pc[c] = "crediting" /\ Free(c, k) /\ CallSound(c)
      /\ Put(c, k, v) /\ Continue(c, "committing")
  BY DEF Credit, LedgerInv
<1>2. Job[c].op = "deposit" /\ d \in Deposits /\ Job[c].currency \in Currencies
  BY <1>1, Operation, Jobs
<1>3. k \in Accts /\ Amount[d] \in Nat
  BY <1>2, LedgerAssumption DEF Accts
<1>4. Seen(c, k) \in AccountRow
  BY <1>3, SeenAccount
<1> HIDE DEF d, k
<1>5. v \in AccountRow
  BY <1>3, <1>4 DEF AccountRow, Account
<1> HIDE DEF v
<1>6. WriteSound(c, k, v)
  BY <1>3, <1>5, AccountWrite
<1>7. pc'[c] = "committing" /\ result'[c] = result[c] /\ d \in DOMAIN writes'[c]
  BY <1>1, <1>2, Continued, Written DEF CallSound, d
<1>8. CallSound(c)'
  BY <1>1, <1>2, <1>7 DEF CallSound, Statements, d
<1> QED
  BY <1>1, <1>6, <1>8, PutSound DEF Free

LEMMA CommitKeeps == ASSUME LedgerInv, NEW c \in Calls, Commit(c), UNCHANGED leg PROVE LedgerInv'
<1> DEFINE what == IF ended[c] THEN "error" ELSE "ok"
<1>1. /\ pc[c] = "committing" /\ CallSound(c) /\ CallDone(c)
      /\ row' = [k \in Rows |-> Seen(c, k)]
      /\ writes' = [writes EXCEPT ![c] = << >>] /\ leg' = leg
      /\ Return(c, what)
  BY DEF Commit, LedgerInv
<1>2. what \in {"error", "ok"}
  OBVIOUS
<1> HIDE DEF what
<1>3. \A k \in Rows : row'[k] = IF k \in DOMAIN writes[c] THEN writes[c][k] ELSE row[k]
  BY <1>1 DEF Seen
<1>4. /\ DOMAIN writes'[c] = {} /\ pc'[c] = "returned" /\ result'[c] = what
      /\ \A d \in Calls : d # c => Keeps(d)
  BY <1>1 DEF LedgerInv, Shapes, Return, Keeps
<1>5. Shapes'
  BY <1>1 DEF LedgerInv, Shapes, Return
<1>6. \A k \in DOMAIN writes[c] : WriteSound(c, k, writes[c][k])
  BY DEF LedgerInv
<1>7. ASSUME NEW k \in Rows
      PROVE  RowSound(k, row[k])'
  <2>1. CASE k \in DOMAIN writes[c]
    BY <1>3, <1>6, <2>1 DEF WriteSound, RowSound
  <2>2. CASE k \notin DOMAIN writes[c]
    BY <1>3, <2>2 DEF LedgerInv, RowSound
  <2> QED
    BY <2>1, <2>2
<1>8. RowsAdvance
  <2>1. ASSUME NEW k \in Deposits
        PROVE  row'[k] = row[k] \/ row'[k] = "confirmed"
    BY <1>3, <1>6, Tables DEF WriteSound
  <2>2. ASSUME NEW e \in Calls, row[e] # NoWithdrawal
        PROVE  row'[e] # NoWithdrawal
    BY <1>3, <1>6, <2>2, Tables DEF WriteSound
  <2> QED
    BY <2>1, <2>2 DEF RowsAdvance
<1>9. ASSUME NEW d \in Calls, NEW x \in DOMAIN writes'[d]
      PROVE  WriteSound(d, x, writes[d][x])'
  <2>1. d # c /\ writes'[d] = writes[d] /\ x \in DOMAIN writes[d]
    BY <1>4, <1>9 DEF Keeps
  <2>2. WriteSound(d, x, writes[d][x]) /\ x \in Rows
    BY <2>1 DEF LedgerInv, WriteSound
  <2>3. x \notin DOMAIN writes[c]
    BY <2>1 DEF LedgerInv, LocksExclusive
  <2>4. row'[x] = row[x]
    BY <1>3, <2>2, <2>3
  <2> QED
    BY <2>1, <2>2, <2>4 DEF WriteSound, RowSound
<1>10. LocksExclusive'
  <2> SUFFICES ASSUME NEW d \in Calls, NEW e \in Calls, d # e
               PROVE  DOMAIN writes'[d] \cap DOMAIN writes'[e] = {}
    BY DEF LocksExclusive
  <2>1. DOMAIN writes[d] \cap DOMAIN writes[e] = {}
    BY DEF LedgerInv, LocksExclusive
  <2> QED
    BY <1>4, <2>1 DEF Keeps
<1>11. CallSound(c)'
  BY <1>1, <1>2, <1>4 DEF CallSound
<1>12. CallDone(c)'
  <2>1. Job[c].op \in {"withdraw", "deposit"}
    BY <1>1, Operation
  <2>2. CASE Job[c].op = "withdraw"
    <3>1. c \in DOMAIN writes[c]
      BY <1>1, <2>2 DEF CallSound
    <3>2. row'[c] # NoWithdrawal
      BY <1>3, <1>6, <3>1 DEF WriteSound
    <3> QED
      BY <1>4, <2>2, <3>2 DEF CallDone
  <2>3. CASE Job[c].op = "deposit"
    <3>1. Job[c].deposit \in DOMAIN writes[c] /\ Job[c].deposit \in Deposits
      BY <1>1, <2>3, Jobs DEF CallSound
    <3>2. row'[Job[c].deposit] = "confirmed"
      BY <1>3, <1>6, <3>1 DEF WriteSound
    <3> QED
      BY <1>4, <2>3, <3>2 DEF CallDone
  <2> QED
    BY <2>1, <2>2, <2>3
<1>13. \A d \in Calls : d # c => CallSound(d)' /\ CallDone(d)'
  BY <1>4, <1>8, OthersSound DEF LedgerInv
<1> QED
  BY <1>5, <1>7, <1>9, <1>10, <1>11, <1>12, <1>13 DEF LedgerInv

LEMMA ShiftKeeps == ASSUME LedgerInv, NEW c \in Calls, Shift(c), UNCHANGED leg PROVE LedgerInv'
<1> DEFINE k == Job[c].account
           x == Job[c].amount
           what == IF ended[c] THEN "error" ELSE "ok"
<1>1. pc[c] = "shifting" /\ CallSound(c) /\ writes' = writes
  BY DEF Shift, LedgerInv
<1>2. Job[c].op \in {"freeze", "unfreeze"} /\ k \in Accts /\ x \in Nat
  BY <1>1, Operation, Jobs
<1>3. k \in Rows /\ k \notin Deposits /\ k \notin Calls
  BY <1>2, Tables
<1>4. row[k] \in AccountRow
  BY <1>2, <1>3 DEF LedgerInv, RowSound
<1>5. /\ row'[k] \in AccountRow
      /\ \A y \in Rows : y # k => row'[y] = row[y]
      /\ row' = [y \in Rows |-> row'[y]]
  <2>1. CASE Job[c].op = "freeze" /\ x <= row[k].balance
             /\ row' = [row EXCEPT ![k].balance = @ - x, ![k].frozen = @ + x]
    <3> DEFINE r == [row[k] EXCEPT !.balance = @ - x, !.frozen = @ + x]
    <3>1. r \in AccountRow
      <4> DEFINE b == row[k].balance - x
                 f == row[k].frozen + x
      <4>1. b \in Nat /\ f \in Nat
        <5> HIDE DEF k, x
        <5> QED
          BY <1>2, <1>4, <2>1, Holdings
      <4>2. r = [row[k] EXCEPT !.balance = b, !.frozen = f]
        OBVIOUS
      <4> HIDE DEF b, f, r, k
      <4> QED
        BY <1>4, <4>1, <4>2, NewHoldings
    <3>2. row' = [row EXCEPT ![k] = r]
      BY <2>1
    <3> HIDE DEF r, k
    <3> QED
      BY <1>3, <3>1, <3>2 DEF LedgerInv, Shapes
  <2>2. CASE Job[c].op = "unfreeze" /\ x <= row[k].frozen
             /\ row' = [row EXCEPT ![k].balance = @ + x, ![k].frozen = @ - x]
    <3> DEFINE r == [row[k] EXCEPT !.balance = @ + x, !.frozen = @ - x]
    <3>1. r \in AccountRow
      <4> DEFINE b == row[k].balance + x
                 f == row[k].frozen - x
      <4>1. b \in Nat /\ f \in Nat
        <5> HIDE DEF k, x
        <5> QED
          BY <1>2, <1>4, <2>2, Holdings
      <4>2. r = [row[k] EXCEPT !.balance = b, !.frozen = f]
        OBVIOUS
      <4> HIDE DEF b, f, r, k
      <4> QED
        BY <1>4, <4>1, <4>2, NewHoldings
    <3>2. row' = [row EXCEPT ![k] = r]
      BY <2>2
    <3> HIDE DEF r, k
    <3> QED
      BY <1>3, <3>1, <3>2 DEF LedgerInv, Shapes
  <2>3. CASE row' = row
    BY <1>3, <1>4, <2>3 DEF LedgerInv, Shapes
  <2> QED
    BY <1>2, <2>1, <2>2, <2>3 DEF Shift
<1>6. /\ pc'[c] = "returned" /\ result'[c] \in {"ok", "error"}
      /\ \A d \in Calls : d # c => pc'[d] = pc[d] /\ result'[d] = result[d]
      /\ pc' = [d \in Calls |-> pc'[d]] /\ result' = [d \in Calls |-> result'[d]]
  <2>1. PICK w \in {"ok", "error"} : Return(c, w)
    BY DEF Shift
  <2> QED
    BY <2>1, Returned
<1> HIDE DEF k, x, what
<1>7. Shapes'
  BY <1>1, <1>5, <1>6 DEF LedgerInv, Shapes
<1>8. RowsAdvance
  BY <1>3, <1>5, Tables DEF RowsAdvance
<1>9. ASSUME NEW y \in Rows
      PROVE  RowSound(y, row[y])'
  BY <1>3, <1>5 DEF LedgerInv, RowSound
<1>10. \A d \in Calls : \A y \in DOMAIN writes[d] : y \in Deposits => row'[y] = row[y]
  BY <1>3, <1>5 DEF LedgerInv, WriteSound
<1>11. CallSound(c)'
  BY <1>1, <1>2, <1>6 DEF CallSound
<1>12. CallDone(c)'
  BY <1>2, <1>6 DEF CallDone
<1> QED
  BY <1>1, <1>6, <1>7, <1>8, <1>9, <1>10, <1>11, <1>12, DirectSound

LEMMA GiveUpKeeps == ASSUME LedgerInv, NEW c \in Calls, GiveUp(c), UNCHANGED leg PROVE LedgerInv'
BY RollbackSound DEF GiveUp, Fail

LEMMA AbortKeeps == ASSUME LedgerInv, NEW c \in Calls, Abort(c) PROVE LedgerInv'
BY RollbackSound DEF Abort, Fail

LEMMA InsertTradeKeeps == ASSUME LedgerInv, NEW c \in Calls, InsertTrade(c) PROVE LedgerInv'
BY RollbackSound DEF InsertTrade, Fail

\* The accounts of a trade are accounts, and what they change by is a number.
LEMMA LegSound ==
    ASSUME NEW c \in Calls, Job[c].op = "settle", leg[c] \in 1 .. 5
    PROVE  LegAccount(c) \in Accts /\ Legs(Job[c])[leg[c]][2] \in Int
<1> DEFINE t == Job[c]
           fee == Fee(t.quoteQty)
<1>1. /\ t.taker \in Users /\ t.maker \in Users
      /\ t.qty \in Int /\ t.quoteQty \in Int
  BY Jobs
<1>2. fee \in Int
  BY <1>1 DEF Fee, RatePerMille
<1>3. \A u \in Users : <<u, Base>> \in Accts /\ <<u, Quote>> \in Accts
  BY LedgerAssumption DEF Accts
<1>4. <<FeeAccount, Quote>> \in Accts
  BY LedgerAssumption DEF Accts
<1> HIDE DEF fee
<1>5. \A n \in 1 .. 5 : Legs(t)[n][1] \in Accts /\ Legs(t)[n][2] \in Int
  BY <1>1, <1>2, <1>3, <1>4 DEF Legs, fee
<1> QED
  BY <1>5 DEF LegAccount

LEMMA UpdateBalanceKeeps == ASSUME LedgerInv, NEW c \in Calls, UpdateBalance(c) PROVE LedgerInv'
<1> DEFINE k == LegAccount(c)
           delta == Legs(Job[c])[leg[c]][2]
           old == IF Seen(c, k).here THEN Seen(c, k) ELSE Account(0, 0)
           floor == old.frozen + (IF delta < 0 THEN delta ELSE 0)
           v == [old EXCEPT !.balance = @ + delta, !.version = @ + 1,
                            !.frozen = IF floor < 0 THEN 0 ELSE floor]
           next == IF leg[c] = 5 THEN "inserting_trade" ELSE "settling"
<1>1. /\ pc[c] = "settling" /\ Free(c, k) /\ CallSound(c)
      /\ leg[c] \in 1 .. 5
  BY DEF UpdateBalance, LedgerInv, CallSound
<1>2. Job[c].op = "settle"
  BY <1>1, Operation
<1>3. k \in Accts /\ delta \in Int
  BY <1>1, <1>2, LegSound
<1>4. Seen(c, k) \in AccountRow
  BY <1>3, SeenAccount
<1>5. CASE Fail(c) /\ UNCHANGED leg
  BY <1>5, RollbackSound DEF Fail
<1>6. CASE /\ ~(old.balance + delta < 0)
           /\ Put(c, k, v) /\ leg' = [leg EXCEPT ![c] = @ + 1] /\ Continue(c, next)
  <2> HIDE DEF k, delta
  <2>1. old \in AccountRow
    BY <1>4 DEF AccountRow, Account
  <2> HIDE DEF old
  <2> DEFINE left == IF floor < 0 THEN 0 ELSE floor
             b == old.balance + delta
             n == old.version + 1
  <2>2. left \in Nat
    BY <1>3, <2>1, Holdings
  <2>3. b \in Nat /\ n \in Nat
    BY <1>3, <1>6, <2>1, Holdings
  <2>4. v = [old EXCEPT !.balance = b, !.version = n, !.frozen = left]
    OBVIOUS
  <2> HIDE DEF floor, left, v, b, n
  <2>5. v \in AccountRow
    BY <2>1, <2>2, <2>3, <2>4, NewVersion
  <2>6. WriteSound(c, k, v)
    BY <1>3, <2>5, AccountWrite
  <2>7. /\ pc'[c] = next /\ result'[c] = result[c]
        /\ leg'[c] = leg[c] + 1
    BY <1>6, Continued DEF LedgerInv, Shapes
  <2>8. CallSound(c)'
    BY <1>1, <1>2, <2>7 DEF CallSound, Statements
  <2> QED
    BY <1>1, <1>6, <2>6, <2>8, PutSound DEF Free
<1> QED
  BY <1>5, <1>6 DEF UpdateBalance

\* A step that changes none of this keeps the invariant.
LEMMA SameSound ==
    ASSUME LedgerInv, UNCHANGED <<row, writes, pc, result, leg>>
    PROVE  LedgerInv'
<1>1. RowsAdvance /\ \A d \in Calls : Keeps(d)
  BY DEF RowsAdvance, Keeps
<1>2. \A d \in Calls : CallSound(d)' /\ CallDone(d)'
  BY <1>1, OthersSound DEF LedgerInv
<1>3. \A k \in Rows : RowSound(k, row[k])'
  BY DEF LedgerInv, RowSound
<1>4. ASSUME NEW c \in Calls, NEW k \in DOMAIN writes'[c]
      PROVE  WriteSound(c, k, writes[c][k])'
  <2>1. WriteSound(c, k, writes[c][k])
    BY DEF LedgerInv
  <2> QED
    BY <2>1 DEF WriteSound, RowSound
<1>5. Shapes' /\ LocksExclusive'
  BY DEF LedgerInv, Shapes, LocksExclusive
<1> QED
  BY <1>2, <1>3, <1>4, <1>5 DEF LedgerInv

LEMMA ExpireKeeps == ASSUME LedgerInv, NEW c \in Calls, Expire(c), UNCHANGED leg PROVE LedgerInv'
<1>1. UNCHANGED <<row, writes, pc, result, leg>>
  BY DEF Expire
<1> QED
  BY <1>1, SameSound

(***************************************************************************)
(* The theorems.                                                           *)
(***************************************************************************)
LEMMA LedgerStep == LedgerInv /\ [Next]_vars => LedgerInv'
<1> SUFFICES ASSUME LedgerInv, [Next]_vars PROVE LedgerInv'
  OBVIOUS
<1>1. CASE UNCHANGED vars
  <2>1. UNCHANGED <<row, writes, pc, result, leg>>
    BY <1>1 DEF vars
  <2> QED
    BY <2>1, SameSound
<1>2. ASSUME NEW c \in Calls, WalletStep(c)
      PROVE  LedgerInv'
  BY <1>2, ReadKeeps, DebitKeeps, RecordKeeps, FindKeeps, InsertKeeps, MarkKeeps,
     CreditKeeps, CommitKeeps, ShiftKeeps, GiveUpKeeps DEF WalletStep
<1>3. ASSUME NEW c \in Calls, UpdateBalance(c) \/ InsertTrade(c) \/ Abort(c)
      PROVE  LedgerInv'
  BY <1>3, UpdateBalanceKeeps, InsertTradeKeeps, AbortKeeps
<1>4. ASSUME NEW c \in Calls, Expire(c) /\ UNCHANGED leg
      PROVE  LedgerInv'
  BY <1>4, ExpireKeeps
<1> QED
  BY <1>1, <1>2, <1>3, <1>4 DEF Next, Step

\* Every reachable state satisfies the inductive invariant: among the rest, no
\* row is locked by two transactions, and what a transaction is about to commit
\* is the row of a sound account, a deposit that was pending or a withdrawal
\* of its own (RequestWithdrawal, ProcessDeposit, SettleTrade).
THEOREM LedgerInvariant == Spec => []LedgerInv
BY LedgerInit, LedgerStep, PTL DEF Spec

\* No account is ever negative, whatever withdrawals, deposits, settlements and
\* freezes are made at once.
THEOREM NeverOverdrawn == Spec => []NoOverdraft
<1>1. LedgerInv => NoOverdraft
  <2> SUFFICES ASSUME LedgerInv, NEW k \in Accts
               PROVE  row[k].balance >= 0 /\ row[k].frozen >= 0
    BY DEF NoOverdraft
  <2>1. row[k] \in AccountRow
    BY Tables DEF LedgerInv, RowSound
  <2> QED
    BY <2>1 DEF AccountRow
<1> QED
  BY <1>1, LedgerInvariant, PTL

\* A call that answers without an error has done what it was asked for: the
\* deposit is confirmed once it is deep enough, the withdrawal is recorded.
THEOREM OkMeansDone == Spec => []OkIsDone
<1>1. LedgerInv => OkIsDone
  <2> SUFFICES ASSUME LedgerInv, NEW c \in Calls, result[c] = "ok"
               PROVE  /\ c \in Of("withdraw") => row[c] # NoWithdrawal
                      /\ c \in Of("deposit") =>
                           row[Job[c].deposit] \in
                              {"confirmed"} \cup (IF Job[c].deep THEN {} ELSE {"pending"})
    BY DEF OkIsDone
  <2>1. CallDone(c)
    BY DEF LedgerInv
  <2>2. c \in Of("withdraw") => row[c] # NoWithdrawal
    BY <2>1 DEF CallDone, Of
  <2>3. ASSUME c \in Of("deposit")
        PROVE  row[Job[c].deposit] \in
                  {"confirmed"} \cup (IF Job[c].deep THEN {} ELSE {"pending"})
    <3>1. Job[c].op = "deposit" /\ Job[c].deposit \in Deposits
      BY <2>3, Jobs DEF Of
    <3>2. row[Job[c].deposit] \in {"none", "pending", "confirmed"}
      BY <3>1, Tables DEF LedgerInv, RowSound
    <3> QED
      BY <2>1, <3>1, <3>2 DEF CallDone
  <2> QED
    BY <2>2, <2>3
<1> QED
  BY <1>1, LedgerInvariant, PTL

\* Nobody else's step changes a row that a transaction has locked: what it has
\* read of an account (SELECT ... FOR UPDATE) still holds when it commits, and
\* the deposit that it confirms is still pending.
LockedRowsStay ==
    \A c \in Calls : \A k \in DOMAIN writes[c] :
        row'[k] # row[k] => DOMAIN writes'[c] = {}

THEOREM LocksHold == Spec => [][LockedRowsStay]_vars
<1>1. ASSUME LedgerInv, NEW c \in Calls, NEW k \in DOMAIN writes[c], row'[k] # row[k],
             NEW d \in Calls, Step(d)
      PROVE  DOMAIN writes'[c] = {}
  <2> USE <1>1
  <2>1. WriteSound(c, k, writes[c][k]) /\ k \in Rows
    BY DEF LedgerInv, WriteSound
  <2>2. CASE Commit(d)
    <3>1. row'[k] = Seen(d, k) /\ writes' = [writes EXCEPT ![d] = << >>]
      BY <2>1, <2>2 DEF Commit
    <3>2. k \in DOMAIN writes[d]
      BY <3>1 DEF Seen
    <3>3. c = d
      BY <3>2 DEF LedgerInv, LocksExclusive
    <3> QED
      BY <3>1, <3>3 DEF LedgerInv, Shapes
  <2>3. CASE Insert(d)
    <3>1. Job[d].deposit \in Deposits
      BY <2>3, Operation, Jobs DEF Insert, LedgerInv
    <3>2. k = Job[d].deposit /\ row[k] = "none"
      BY <2>1, <2>3 DEF Insert, LedgerInv, Shapes
    <3> QED
      BY <2>1, <3>1, <3>2 DEF WriteSound
  <2>4. CASE Shift(d)
    <3>1. k = Job[d].account /\ Free(d, k) /\ pc[d] = "shifting"
      BY <2>1, <2>4 DEF Shift, LedgerInv, Shapes
    <3>2. c = d
      BY <3>1 DEF Free
    <3>3. DOMAIN writes[d] = {}
      BY <3>1 DEF LedgerInv, CallSound
    <3> QED
      BY <3>2, <3>3
  <2>5. CASE row' = row
    BY <2>5
  <2>6. Commit(d) \/ Insert(d) \/ Shift(d) \/ row' = row
    BY DEF Step, WalletStep, Read, Debit, Record, Find, Mark, Credit, GiveUp,
       UpdateBalance, InsertTrade, Put, Fail, Rollback
  <2> QED
    BY <2>2, <2>3, <2>4, <2>5, <2>6
<1>2. ASSUME LedgerInv, [Next]_vars
      PROVE  [LockedRowsStay]_vars
  <2>1. CASE \E d \in Calls : Step(d)
    BY <1>1, <1>2, <2>1 DEF LockedRowsStay
  <2>2. CASE row' = row
    BY <2>2 DEF LockedRowsStay
  <2>3. (\E d \in Calls : Step(d)) \/ row' = row
    BY <1>2 DEF Next, vars, Abort, Expire, Fail, Rollback
  <2> QED
    BY <2>1, <2>2, <2>3
<1> QED
  BY <1>2, LedgerInvariant, PTL DEF Spec

(***************************************************************************)
(* Money.  Where MoneyAccounted holds and only a commit moves money, a     *)
(* commit must move as much on each side: so the invariant says by how     *)
(* much the rows that a transaction is about to write differ from the      *)
(* committed ones, which nobody else can change meanwhile (LocksHold).     *)
(***************************************************************************)
\* What a withdrawal has taken from its account by the statement it is at.
WithdrawalMoney(c) ==
    LET k == Job[c].account
        w == writes[c]
    IN  Job[c].op = "withdraw" =>
        /\ pc[c] # "returned" => row[c] = NoWithdrawal
        /\ pc[c] = "debiting" =>
              DOMAIN w = {k} /\ w[k].here /\ Worth(w[k]) = Worth(row[k])
        /\ pc[c] = "recording" =>
              DOMAIN w = {k} /\ w[k].here /\ Worth(w[k]) + Total(c) = Worth(row[k])
        /\ pc[c] = "committing" =>
              /\ DOMAIN w = {k, c} /\ w[k].here /\ Worth(w[k]) + Total(c) = Worth(row[k])
              /\ w[c].amount + w[c].fee = Total(c)

\* The account that a deposit is credited to.
Credited(c) == <<Owner[Job[c].deposit], Job[c].currency>>

\* What a deposit has brought it.
DepositMoney(c) ==
    LET d == Job[c].deposit
        k == Credited(c)
        w == writes[c]
    IN  Job[c].op = "deposit" =>
        /\ pc[c] = "crediting" => DOMAIN w = {d}
        /\ pc[c] = "committing" =>
              DOMAIN w = {d, k} /\ w[k].here /\ Worth(w[k]) = Worth(row[k]) + Amount[d]

\* An account that has not been made holds nothing.
MissingEmpty == \A k \in Accts : ~row[k].here => Worth(row[k]) = 0

MoneyInv ==
    /\ MissingEmpty
    /\ \A c \in Calls : WithdrawalMoney(c) /\ DepositMoney(c)
    /\ MoneyAccounted

\* A sum over the domain of a function.
LEMMA SumIsOver == ASSUME NEW f PROVE SumOf(f) = SumOver(f, DOMAIN f)
BY DEF SumOf, SumOver

\* What is summed up are finitely many numbers.
LEMMA Summands ==
    ASSUME LedgerInv, NEW cur \in Currencies
    PROVE  /\ IsFiniteSet(Users \cup {FeeAccount})
           /\ \A u \in Users \cup {FeeAccount} :
                 <<u, cur>> \in Accts /\ HeldIn(cur)[u] = Worth(row[<<u, cur>>]) /\ HeldIn(cur)[u] \in Int
           /\ IsFiniteSet(DOMAIN WithdrawnIn(cur)) /\ DOMAIN WithdrawnIn(cur) \subseteq Calls
           /\ \A c \in DOMAIN WithdrawnIn(cur) : WithdrawnIn(cur)[c] \in Int
           /\ IsFiniteSet(DOMAIN CreditedIn(cur)) /\ DOMAIN CreditedIn(cur) \subseteq Deposits
           /\ \A d \in DOMAIN CreditedIn(cur) : CreditedIn(cur)[d] \in Int
<1>1. IsFiniteSet(Users \cup {FeeAccount})
  BY LedgerAssumption, FS_AddElement
<1>2. ASSUME NEW u \in Users \cup {FeeAccount}
      PROVE  <<u, cur>> \in Accts /\ HeldIn(cur)[u] = Worth(row[<<u, cur>>]) /\ HeldIn(cur)[u] \in Int
  <2>1. <<u, cur>> \in Accts
    BY DEF Accts
  <2>2. row[<<u, cur>>] \in AccountRow
    BY <2>1, Tables DEF LedgerInv, RowSound
  <2> QED
    BY <2>1, <2>2 DEF HeldIn, Worth, AccountRow
<1>3. DOMAIN WithdrawnIn(cur) \subseteq Calls
  BY DEF WithdrawnIn, Of
<1>4. ASSUME NEW c \in DOMAIN WithdrawnIn(cur)
      PROVE  WithdrawnIn(cur)[c] \in Int
  <2>1. row[c] \in WithdrawalRow
    BY <1>3, Tables DEF LedgerInv, RowSound
  <2> QED
    BY <2>1 DEF WithdrawnIn, WithdrawalRow
<1>5. DOMAIN CreditedIn(cur) \subseteq Deposits
  BY Jobs DEF CreditedIn, Of
<1>6. \A d \in DOMAIN CreditedIn(cur) : CreditedIn(cur)[d] \in Int
  BY <1>5, LedgerAssumption DEF CreditedIn
<1>7. IsFiniteSet(DOMAIN WithdrawnIn(cur)) /\ IsFiniteSet(DOMAIN CreditedIn(cur))
  BY <1>3, <1>5, LedgerAssumption, FS_Subset
<1> QED
  BY <1>1, <1>2, <1>3, <1>4, <1>5, <1>6, <1>7

\* At first users hold what they opened with, and nothing was moved.
LEMMA MoneyInit == Init => MoneyInv
<1> SUFFICES ASSUME Init PROVE MoneyInv
  OBVIOUS
<1>1. LedgerInv
  BY LedgerInit
<1>2. ASSUME NEW k \in Accts
      PROVE  row[k] = IF k \in DOMAIN Opening THEN Account(Opening[k].balance, Opening[k].frozen)
                      ELSE NoAccount
  BY Tables DEF Init
<1>3. MissingEmpty
  <2> SUFFICES ASSUME NEW k \in Accts, ~row[k].here PROVE Worth(row[k]) = 0
    BY DEF MissingEmpty
  <2>1. CASE k \in DOMAIN Opening
    <3>1. row[k] = Account(Opening[k].balance, Opening[k].frozen)
      BY <1>2, <2>1
    <3> QED
      BY <3>1 DEF Account
  <2>2. CASE k \notin DOMAIN Opening
    <3>1. row[k] = NoAccount
      BY <1>2, <2>2
    <3> QED
      BY <3>1 DEF NoAccount, Worth
  <2> QED
    BY <2>1, <2>2
<1>4. ASSUME NEW c \in Calls
      PROVE  WithdrawalMoney(c) /\ DepositMoney(c)
  <2>1. row[c] = NoWithdrawal
    BY Tables DEF Init
  <2>2. pc[c] \in {"reading", "finding", "settling", "shifting"}
    BY Jobs DEF Init, FirstStep
  <2> QED
    BY <2>1, <2>2 DEF WithdrawalMoney, DepositMoney
<1>5. ASSUME NEW cur \in Currencies
      PROVE  SumOf(HeldIn(cur)) + SumOf(WithdrawnIn(cur))
                = SumOf(OpenedIn(cur)) + SumOf(CreditedIn(cur))
  <2> DEFINE held == HeldIn(cur)
             opened == OpenedIn(cur)
             withdrawn == WithdrawnIn(cur)
             credited == CreditedIn(cur)
  <2>1. /\ DOMAIN held = Users \cup {FeeAccount} /\ DOMAIN opened = Users
    BY DEF HeldIn, OpenedIn
  <2>2. held[FeeAccount] = 0
    <3>1. <<FeeAccount, cur>> \in Accts /\ <<FeeAccount, cur>> \notin DOMAIN Opening
      BY LedgerAssumption DEF Accts
    <3> QED
      BY <1>2, <3>1 DEF HeldIn, Worth, NoAccount
  <2>3. ASSUME NEW u \in Users
        PROVE  held[u] = opened[u] /\ opened[u] \in Int
    <3>1. <<u, cur>> \in Accts /\ <<u, cur>> \in DOMAIN Opening
      BY LedgerAssumption DEF Accts
    <3>2. Opening[<<u, cur>>].balance \in Nat /\ Opening[<<u, cur>>].frozen \in Nat
      BY <3>1, LedgerAssumption
    <3>3. row[<<u, cur>>] = Account(Opening[<<u, cur>>].balance, Opening[<<u, cur>>].frozen)
      BY <1>2, <3>1
    <3> QED
      BY <3>2, <3>3 DEF HeldIn, OpenedIn, Worth, Account
  <2>4. \A c \in DOMAIN withdrawn : withdrawn[c] = 0
    BY Tables DEF Init, WithdrawnIn, NoWithdrawal, Of
  <2>5. \A d \in DOMAIN credited : credited[d] = 0
    <3>1. \A d \in DOMAIN credited : row[d] = "none"
      BY <1>1, Summands, Tables DEF Init
    <3> QED
      BY <3>1 DEF CreditedIn
  <2>6. IsFiniteSet(DOMAIN withdrawn) /\ IsFiniteSet(DOMAIN credited)
    BY <1>1, Summands
  <2> HIDE DEF held, opened, withdrawn, credited
  <2>7. SumOver(withdrawn, DOMAIN withdrawn) = 0 /\ SumOver(credited, DOMAIN credited) = 0
    BY <2>4, <2>5, <2>6, SumZero
  <2>8. SumOver(held, Users \cup {FeeAccount}) = SumOver(held, Users) + held[FeeAccount]
    BY <2>2, <2>3, LedgerAssumption, SumInsert
  <2>9. SumOver(held, Users) = SumOver(opened, Users) /\ SumOver(opened, Users) \in Int
    BY <2>3, LedgerAssumption, SumSame, SumInteger
  <2>10. SumOf(held) + SumOf(withdrawn) = SumOf(opened) + SumOf(credited)
    BY <2>1, <2>2, <2>7, <2>8, <2>9, SumIsOver
  <2> QED
    BY <2>10 DEF held, opened, withdrawn, credited
<1> QED
  BY <1>3, <1>4, <1>5 DEF MoneyInv, MoneyAccounted

\* A call that a step leaves alone has moved as much as it had.
LEMMA OthersMoney ==
    ASSUME LedgerInv, NEW d \in Calls, WithdrawalMoney(d), DepositMoney(d),
           pc'[d] = pc[d], writes'[d] = writes[d], row'[d] = row[d],
           \A k \in DOMAIN writes[d] : row'[k] = row[k]
    PROVE  WithdrawalMoney(d)' /\ DepositMoney(d)'
<1> DEFINE k == Job[d].account
           a == Credited(d)
<1>1. /\ pc[d] \in {"debiting", "recording", "committing"} /\ Job[d].op = "withdraw"
            => row'[k] = row[k]
      /\ pc[d] = "committing" /\ Job[d].op = "deposit" => row'[a] = row[a]
  BY DEF WithdrawalMoney, DepositMoney
<1> HIDE DEF k, a
<1>2. WithdrawalMoney(d)'
  BY <1>1 DEF WithdrawalMoney, Total, k
<1>3. DepositMoney(d)'
  BY <1>1 DEF DepositMoney, Credited, a
<1> QED
  BY <1>2, <1>3

\* A step of c that commits nothing moves no money.
LEMMA QuietMoney ==
    ASSUME LedgerInv, MoneyInv, NEW c \in Calls, row' = row,
           \A d \in Calls : d # c => pc'[d] = pc[d] /\ writes'[d] = writes[d],
           WithdrawalMoney(c)', DepositMoney(c)'
    PROVE  MoneyInv'
<1>1. MissingEmpty' /\ MoneyAccounted'
  <2>1. \A cur \in Currencies :
          /\ HeldIn(cur)' = HeldIn(cur) /\ OpenedIn(cur)' = OpenedIn(cur)
          /\ WithdrawnIn(cur)' = WithdrawnIn(cur) /\ CreditedIn(cur)' = CreditedIn(cur)
    BY DEF HeldIn, WithdrawnIn, OpenedIn, CreditedIn
  <2> QED
    BY <2>1 DEF MoneyInv, MissingEmpty, MoneyAccounted
<1>2. \A d \in Calls : d # c => WithdrawalMoney(d)' /\ DepositMoney(d)'
  BY OthersMoney DEF MoneyInv
<1> QED
  BY <1>1, <1>2 DEF MoneyInv

\* A call that has returned is not about to move any.
LEMMA ReturnedMoney ==
    ASSUME NEW c \in Calls, pc'[c] = "returned"
    PROVE  WithdrawalMoney(c)' /\ DepositMoney(c)'
BY DEF WithdrawalMoney, DepositMoney

LEMMA FailMoney ==
    ASSUME LedgerInv, MoneyInv, NEW c \in Calls, NEW what, Rollback(c), Return(c, what)
    PROVE  MoneyInv'
<1>1. row' = row /\ \A d \in Calls : d # c => pc'[d] = pc[d] /\ writes'[d] = writes[d]
  BY DEF Rollback, Return, LedgerInv, Shapes
<1>2. pc'[c] = "returned"
  BY Returned
<1> QED
  BY <1>1, <1>2, ReturnedMoney, QuietMoney

\* What the others notice of a statement that writes row k.
LEMMA PutMoney ==
    ASSUME LedgerInv, MoneyInv, NEW c \in Calls, NEW k, NEW v, NEW step,
           Put(c, k, v), Continue(c, step), WithdrawalMoney(c)', DepositMoney(c)'
    PROVE  MoneyInv'
<1>1. row' = row /\ \A d \in Calls : d # c => pc'[d] = pc[d] /\ writes'[d] = writes[d]
  BY DEF Put, Continue, LedgerInv, Shapes
<1> QED
  BY <1>1, QuietMoney

LEMMA ReadMoney ==
    ASSUME LedgerInv, MoneyInv, NEW c \in Calls, Read(c)
    PROVE  MoneyInv'
<1> DEFINE k == Job[c].account
<1>1. /\ pc[c] = "reading" /\ CallSound(c) /\ Job[c].op = "withdraw"
  BY Operation DEF Read, LedgerInv
<1>2. CASE Fail(c)
  BY <1>2, FailMoney DEF Fail
<1>3. CASE row[k].here /\ Put(c, k, row[k]) /\ Continue(c, "debiting")
  <2>1. DOMAIN writes[c] = {} /\ row[c] = NoWithdrawal
    BY <1>1 DEF CallSound, MoneyInv, WithdrawalMoney
  <2> HIDE DEF k
  <2>2. /\ pc'[c] = "debiting" /\ row' = row
        /\ DOMAIN writes'[c] = {k} /\ writes'[c][k] = row[k]
    BY <1>3, <2>1, Continued, Written
  <2>3. WithdrawalMoney(c)' /\ DepositMoney(c)'
    BY <1>1, <1>3, <2>1, <2>2 DEF WithdrawalMoney, DepositMoney, k
  <2> QED
    BY <1>3, <2>3, PutMoney
<1> QED
  BY <1>2, <1>3 DEF Read

LEMMA DebitMoney ==
    ASSUME LedgerInv, MoneyInv, NEW c \in Calls, Debit(c)
    PROVE  MoneyInv'
<1> DEFINE k == Job[c].account
           v == [Seen(c, k) EXCEPT !.balance = @ - Total(c)]
<1>1. /\ pc[c] = "debiting" /\ CallSound(c) /\ Job[c].op = "withdraw"
      /\ Put(c, k, v) /\ Continue(c, "recording")
  BY Operation DEF Debit, LedgerInv
<1>2. /\ DOMAIN writes[c] = {k} /\ writes[c][k].here /\ Worth(writes[c][k]) = Worth(row[k])
      /\ row[c] = NoWithdrawal
  BY <1>1 DEF MoneyInv, WithdrawalMoney
<1>3. k \in Accts /\ Total(c) \in Int
  BY <1>1, Jobs
<1>4. Seen(c, k) = writes[c][k] /\ Seen(c, k) \in AccountRow
  BY <1>2, <1>3, SeenAccount DEF Seen
<1>5. v.here /\ Worth(v) + Total(c) = Worth(row[k])
  <2> DEFINE old == Seen(c, k)
  <2>1. old \in AccountRow /\ old.here /\ Worth(old) = Worth(row[k])
    BY <1>2, <1>4
  <2> HIDE DEF old
  <2>2. v.here = old.here /\ v.balance = old.balance - Total(c) /\ v.frozen = old.frozen
    BY <2>1 DEF old, AccountRow
  <2> HIDE DEF v
  <2> QED
    BY <1>3, <2>1, <2>2, Holdings DEF Worth
<1> HIDE DEF k, v
<1>6. /\ pc'[c] = "recording" /\ row' = row
      /\ DOMAIN writes'[c] = {k} /\ writes'[c][k] = v
  BY <1>1, <1>2, Continued, Written
<1>7. WithdrawalMoney(c)' /\ DepositMoney(c)'
  BY <1>1, <1>2, <1>5, <1>6 DEF WithdrawalMoney, DepositMoney, Total, k
<1> QED
  BY <1>1, <1>7, PutMoney

LEMMA RecordMoney ==
    ASSUME LedgerInv, MoneyInv, NEW c \in Calls, Record(c)
    PROVE  MoneyInv'
<1> DEFINE k == Job[c].account
           v == [amount |-> Job[c].amount, fee |-> Job[c].fee,
                 wallet |-> IF Job[c].amount > Cap THEN "cold" ELSE "hot"]
<1>1. /\ pc[c] = "recording" /\ CallSound(c) /\ Job[c].op = "withdraw"
      /\ Put(c, c, v) /\ Continue(c, "committing")
  BY Operation DEF Record, LedgerInv
<1>2. /\ DOMAIN writes[c] = {k} /\ writes[c][k].here
      /\ Worth(writes[c][k]) + Total(c) = Worth(row[k]) /\ row[c] = NoWithdrawal
  BY <1>1 DEF MoneyInv, WithdrawalMoney
<1>3. k # c
  BY <1>1, Jobs, Tables
<1>4. v.amount + v.fee = Total(c)
  BY DEF Total
<1> HIDE DEF k, v
<1>5. /\ pc'[c] = "committing" /\ row' = row
      /\ DOMAIN writes'[c] = {k, c} /\ writes'[c][c] = v /\ writes'[c][k] = writes[c][k]
  BY <1>1, <1>2, <1>3, Continued, Written
<1>6. WithdrawalMoney(c)' /\ DepositMoney(c)'
  BY <1>1, <1>2, <1>4, <1>5 DEF WithdrawalMoney, DepositMoney, Total, k
<1> QED
  BY <1>1, <1>6, PutMoney

LEMMA FindMoney ==
    ASSUME LedgerInv, MoneyInv, NEW c \in Calls, Find(c)
    PROVE  MoneyInv'
<1>1. pc[c] = "finding" /\ Job[c].op = "deposit"
  BY Operation DEF Find, LedgerInv
<1>2. CASE Fail(c)
  BY <1>2, FailMoney DEF Fail
<1>3. CASE Continue(c, "inserting") /\ UNCHANGED <<row, writes>>
  <2>1. pc'[c] = "inserting" /\ \A d \in Calls : d # c => pc'[d] = pc[d]
    BY <1>3, Continued
  <2>2. WithdrawalMoney(c)' /\ DepositMoney(c)'
    BY <1>1, <2>1 DEF WithdrawalMoney, DepositMoney
  <2> QED
    BY <1>3, <2>1, <2>2, QuietMoney
<1> QED
  BY <1>2, <1>3 DEF Find

LEMMA MarkMoney ==
    ASSUME LedgerInv, MoneyInv, NEW c \in Calls, Mark(c)
    PROVE  MoneyInv'
<1> DEFINE d == Job[c].deposit
<1>1. pc[c] = "marking" /\ CallSound(c) /\ Job[c].op = "deposit"
  BY Operation DEF Mark, LedgerInv
<1>2. CASE Put(c, d, "confirmed") /\ Continue(c, "crediting")
  <2> HIDE DEF d
  <2>1. pc'[c] = "crediting" /\ DOMAIN writes'[c] = {d}
    BY <1>1, <1>2, Continued, Written DEF CallSound
  <2>2. WithdrawalMoney(c)' /\ DepositMoney(c)'
    BY <1>1, <2>1 DEF WithdrawalMoney, DepositMoney, d
  <2> QED
    BY <1>2, <2>2, PutMoney
<1>3. CASE Return(c, "ok") /\ Rollback(c)
  BY <1>3, FailMoney
<1> QED
  BY <1>2, <1>3 DEF Mark

LEMMA CreditMoney ==
    ASSUME LedgerInv, MoneyInv, NEW c \in Calls, Credit(c)
    PROVE  MoneyInv'
<1> DEFINE d == Job[c].deposit
           k == Credited(c)
           v == IF Seen(c, k).here THEN [Seen(c, k) EXCEPT !.balance = @ + Amount[d]]
                ELSE Account(Amount[d], 0)
<1>1. /\ pc[c] = "crediting" /\ Job[c].op = "deposit"
      /\ Put(c, k, v) /\ Continue(c, "committing")
  BY Operation DEF Credit, LedgerInv, Credited
<1>2. DOMAIN writes[c] = {d}
  BY <1>1 DEF MoneyInv, DepositMoney
<1>3. d \in Deposits /\ k \in Accts /\ Amount[d] \in Nat
  BY <1>1, Jobs, LedgerAssumption DEF Accts, Credited
<1>4. k # d /\ Seen(c, k) = row[k] /\ row[k] \in AccountRow
  BY <1>2, <1>3, Tables, SeenAccount DEF Seen
<1>5. v.here /\ Worth(v) = Worth(row[k]) + Amount[d]
  <2>1. CASE row[k].here
    <3>1. v = [row[k] EXCEPT !.balance = @ + Amount[d]]
      BY <1>4, <2>1
    <3> HIDE DEF d, k
    <3>2. v.here /\ v.balance = row[k].balance + Amount[d] /\ v.frozen = row[k].frozen
      BY <1>4, <2>1, <3>1 DEF AccountRow
    <3> HIDE DEF v
    <3> QED
      BY <1>3, <1>4, <3>2, Holdings DEF Worth
  <2>2. CASE ~row[k].here
    <3>1. v = Account(Amount[d], 0) /\ Worth(row[k]) = 0
      BY <1>3, <1>4, <2>2 DEF MoneyInv, MissingEmpty
    <3> HIDE DEF d, k, v
    <3> QED
      BY <1>3, <3>1 DEF Account, Worth
  <2> QED
    BY <2>1, <2>2
<1> HIDE DEF d, k, v
<1>6. /\ pc'[c] = "committing" /\ row' = row
      /\ DOMAIN writes'[c] = {d, k} /\ writes'[c][k] = v
  BY <1>1, <1>2, Continued, Written
<1>7. WithdrawalMoney(c)' /\ DepositMoney(c)'
  BY <1>1, <1>5, <1>6 DEF WithdrawalMoney, DepositMoney, Credited, d, k
<1> QED
  BY <1>1, <1>7, PutMoney

\* A step of c that changes rows which no transaction has locked, and not what
\* they are worth, moves no money.
LEMMA WorthKept ==
    ASSUME LedgerInv, LedgerInv', MoneyInv, NEW c \in Calls, pc'[c] # "committing",
           \A d \in Calls : d # c => pc'[d] = pc[d] /\ writes'[d] = writes[d],
           \A d \in Calls : \A k \in DOMAIN writes[d] : d # c => row'[k] = row[k],
           \A k \in Accts : Worth(row'[k]) = Worth(row[k]) /\ row'[k].here = row[k].here,
           \A e \in Calls : row'[e] = row[e],
           \A d \in Deposits : row'[d] = "confirmed" <=> row[d] = "confirmed",
           WithdrawalMoney(c)', DepositMoney(c)'
    PROVE  MoneyInv'
<1>1. MissingEmpty'
  BY DEF MoneyInv, MissingEmpty
<1>2. \A d \in Calls : d # c => WithdrawalMoney(d)' /\ DepositMoney(d)'
  BY OthersMoney DEF MoneyInv
<1>3. ASSUME NEW cur \in Currencies
      PROVE  (SumOf(HeldIn(cur)) + SumOf(WithdrawnIn(cur))
                 = SumOf(OpenedIn(cur)) + SumOf(CreditedIn(cur)))'
  <2>1. HeldIn(cur)' = HeldIn(cur)
    <3>1. \A u \in Users \cup {FeeAccount} : <<u, cur>> \in Accts
      BY DEF Accts
    <3> QED
      BY <3>1 DEF HeldIn
  <2>2. WithdrawnIn(cur)' = WithdrawnIn(cur)
    BY DEF WithdrawnIn, Of
  <2>3. CreditedIn(cur)' = CreditedIn(cur)
    <3>1. \A e \in Of("deposit") : Job[e].deposit \in Deposits
      BY LedgerAssumption
    <3> QED
      BY <3>1 DEF CreditedIn
  <2>4. OpenedIn(cur)' = OpenedIn(cur)
    BY DEF OpenedIn
  <2> QED
    BY <2>1, <2>2, <2>3, <2>4 DEF MoneyInv, MoneyAccounted
<1> QED
  BY <1>1, <1>2, <1>3 DEF MoneyInv, MoneyAccounted

LEMMA InsertMoney ==
    ASSUME LedgerInv, LedgerInv', MoneyInv, NEW c \in Calls, Insert(c)
    PROVE  MoneyInv'
<1> DEFINE d == Job[c].deposit
<1>1. /\ pc[c] = "inserting" /\ Job[c].op = "deposit"
      /\ row' = [row EXCEPT ![d] = IF @ = "none" THEN "pending" ELSE @]
      /\ writes' = writes
  BY Operation DEF Insert, LedgerInv
<1>2. d \in Deposits
  BY <1>1, Jobs
<1>3. d \in Rows /\ d \notin Accts /\ d \notin Calls
  BY <1>2, Tables
<1>4. pc'[c] \in {"marking", "returned"} /\ \A e \in Calls : e # c => pc'[e] = pc[e]
  BY DEF Insert, Return, Continue, LedgerInv, Shapes
<1> HIDE DEF d
<1>5. /\ row'[d] = IF row[d] = "none" THEN "pending" ELSE row[d]
      /\ \A k \in Rows : k # d => row'[k] = row[k]
  BY <1>1, <1>3 DEF LedgerInv, Shapes
<1>6. \A e \in Calls : \A k \in DOMAIN writes[e] : row'[k] = row[k]
  <2> SUFFICES ASSUME NEW e \in Calls, NEW k \in DOMAIN writes[e]
               PROVE  row'[k] = row[k]
    OBVIOUS
  <2>1. WriteSound(e, k, writes[e][k])
    BY DEF LedgerInv
  <2>2. k \in Rows /\ (k = d => row[k] = "pending")
    BY <1>2, <2>1 DEF WriteSound
  <2> QED
    BY <1>5, <2>2
<1>7. /\ \A k \in Accts : row'[k] = row[k]
      /\ \A e \in Calls : row'[e] = row[e]
      /\ \A e \in Deposits : row'[e] = "confirmed" <=> row[e] = "confirmed"
  BY <1>3, <1>5, Tables
<1>8. WithdrawalMoney(c)' /\ DepositMoney(c)'
  BY <1>1, <1>4 DEF WithdrawalMoney, DepositMoney
<1> QED
  BY <1>1, <1>4, <1>6, <1>7, <1>8, WorthKept

LEMMA ShiftMoney ==
    ASSUME LedgerInv, LedgerInv', MoneyInv, NEW c \in Calls, Shift(c)
    PROVE  MoneyInv'
<1> DEFINE k == Job[c].account
           x == Job[c].amount
<1>1. /\ pc[c] = "shifting" /\ CallSound(c) /\ Free(c, k) /\ writes' = writes
      /\ Job[c].op \in {"freeze", "unfreeze"}
  BY Operation DEF Shift, LedgerInv
<1>2. k \in Accts /\ x \in Nat
  BY <1>1, Jobs
<1>3. k \in Rows /\ k \notin Deposits /\ k \notin Calls
  BY <1>2, Tables
<1>4. row[k] \in AccountRow
  BY <1>2, <1>3 DEF LedgerInv, RowSound
<1>5. pc'[c] = "returned" /\ \A e \in Calls : e # c => pc'[e] = pc[e]
  BY DEF Shift, Return, LedgerInv, Shapes
<1>6. /\ Worth(row'[k]) = Worth(row[k]) /\ row'[k].here = row[k].here
      /\ \A y \in Rows : y # k => row'[y] = row[y]
  <2>1. CASE Job[c].op = "freeze"
             /\ row' = [row EXCEPT ![k].balance = @ - x, ![k].frozen = @ + x]
    <3> DEFINE r == [row[k] EXCEPT !.balance = @ - x, !.frozen = @ + x]
    <3>1. r.here = row[k].here /\ Worth(r) = Worth(row[k])
      <4>1. /\ r.here = row[k].here
            /\ r.balance = row[k].balance - x /\ r.frozen = row[k].frozen + x
        BY <1>4 DEF AccountRow
      <4> HIDE DEF r, k, x
      <4> QED
        BY <1>2, <1>4, <4>1, Holdings DEF Worth
    <3>2. row' = [row EXCEPT ![k] = r]
      BY <2>1
    <3> HIDE DEF r, k
    <3> QED
      BY <1>3, <3>1, <3>2 DEF LedgerInv, Shapes
  <2>2. CASE Job[c].op = "unfreeze"
             /\ row' = [row EXCEPT ![k].balance = @ + x, ![k].frozen = @ - x]
    <3> DEFINE r == [row[k] EXCEPT !.balance = @ + x, !.frozen = @ - x]
    <3>1. r.here = row[k].here /\ Worth(r) = Worth(row[k])
      <4>1. /\ r.here = row[k].here
            /\ r.balance = row[k].balance + x /\ r.frozen = row[k].frozen - x
        BY <1>4 DEF AccountRow
      <4> HIDE DEF r, k, x
      <4> QED
        BY <1>2, <1>4, <4>1, Holdings DEF Worth
    <3>2. row' = [row EXCEPT ![k] = r]
      BY <2>2
    <3> HIDE DEF r, k
    <3> QED
      BY <1>3, <3>1, <3>2 DEF LedgerInv, Shapes
  <2>3. CASE row' = row
    BY <2>3
  <2> QED
    BY <1>1, <2>1, <2>2, <2>3 DEF Shift
<1> HIDE DEF k, x
<1>7. ASSUME NEW e \in Calls, NEW y \in DOMAIN writes[e], e # c
      PROVE  row'[y] = row[y]
  <2>1. y \in Rows /\ y # k
    BY <1>1, <1>7 DEF LedgerInv, WriteSound, Free
  <2> QED
    BY <1>6, <2>1
<1>8. /\ \A y \in Accts : Worth(row'[y]) = Worth(row[y]) /\ row'[y].here = row[y].here
      /\ \A e \in Calls : row'[e] = row[e]
      /\ \A e \in Deposits : row'[e] = row[e]
  BY <1>3, <1>6, Tables
<1>9. WithdrawalMoney(c)' /\ DepositMoney(c)'
  BY <1>5, ReturnedMoney
<1> QED
  BY <1>1, <1>5, <1>7, <1>8, <1>9, WorthKept

\* The sums after a step that changes what user u holds of a currency by x.
LEMMA HeldMoves ==
    ASSUME LedgerInv, LedgerInv', NEW cur \in Currencies,
           NEW u \in Users \cup {FeeAccount}, NEW x \in Int,
           Worth(row'[<<u, cur>>]) = Worth(row[<<u, cur>>]) + x,
           \A k \in Accts : k # <<u, cur>> => Worth(row'[k]) = Worth(row[k])
    PROVE  SumOf(HeldIn(cur)') = SumOf(HeldIn(cur)) + x /\ SumOf(HeldIn(cur)) \in Int
<1> DEFINE h == HeldIn(cur)
           k == HeldIn(cur)'
           U == Users \cup {FeeAccount}
<1>1. /\ IsFiniteSet(U)
      /\ \A v \in U : <<v, cur>> \in Accts /\ h[v] = Worth(row[<<v, cur>>]) /\ h[v] \in Int
  BY Summands
<1>2. k = [v \in U |-> Worth(row'[<<v, cur>>])]
  BY DEF HeldIn
<1>3. ASSUME NEW v \in U
      PROVE  /\ k[v] = Worth(row'[<<v, cur>>])
             /\ v # u => k[v] = h[v]
             /\ v = u => k[v] = h[v] + x
             /\ k[v] \in Int
  <2>1. k[v] = Worth(row'[<<v, cur>>])
    BY <1>2
  <2>2. v # u => <<v, cur>> # <<u, cur>>
    OBVIOUS
  <2> HIDE DEF h, k
  <2> QED
    BY <1>1, <2>1, <2>2
<1>4. DOMAIN h = U /\ DOMAIN k = U
  BY <1>2 DEF HeldIn
<1> HIDE DEF h, k
<1>5. /\ SumOver(h, U) \in Int
      /\ SumOver(k, U) = SumOver(h, U) + (k[u] - h[u])
  <2>1. /\ u \in U /\ \A v \in U : h[v] \in Int /\ k[v] \in Int
        /\ \A v \in U : v # u => k[v] = h[v]
    BY <1>1, <1>3
  <2> HIDE DEF U
  <2> QED
    BY <1>1, <2>1, SumChange
<1>6. k[u] - h[u] = x
  BY <1>1, <1>3
<1>7. SumOf(k) = SumOf(h) + x /\ SumOf(h) \in Int
  BY <1>4, <1>5, <1>6, SumIsOver
<1> QED
  BY <1>7 DEF h, k

\* The sums of a currency none of whose accounts changes.
LEMMA HeldStays ==
    ASSUME NEW cur \in Currencies,
           \A k \in Accts : k[2] = cur => row'[k] = row[k]
    PROVE  HeldIn(cur)' = HeldIn(cur)
<1>1. \A u \in Users \cup {FeeAccount} : <<u, cur>> \in Accts /\ <<u, cur>>[2] = cur
  BY DEF Accts
<1> QED
  BY <1>1 DEF HeldIn

\* The recorded withdrawals of a currency after c has been recorded.
LEMMA WithdrawnMoves ==
    ASSUME LedgerInv, LedgerInv', NEW cur \in Currencies, NEW c \in DOMAIN WithdrawnIn(cur),
           NEW x \in Int, row[c] = NoWithdrawal, row'[c].amount + row'[c].fee = x,
           \A e \in Calls : e # c => row'[e] = row[e]
    PROVE  SumOf(WithdrawnIn(cur)') = SumOf(WithdrawnIn(cur)) + x /\ SumOf(WithdrawnIn(cur)) \in Int
<1> DEFINE h == WithdrawnIn(cur)
           k == WithdrawnIn(cur)'
           U == DOMAIN WithdrawnIn(cur)
<1>1. IsFiniteSet(U) /\ U \subseteq Calls /\ \A e \in U : h[e] \in Int
  BY Summands
<1>2. /\ DOMAIN k = U
      /\ \A e \in U : k[e] = row'[e].amount + row'[e].fee /\ h[e] = row[e].amount + row[e].fee
  BY DEF WithdrawnIn
<1>3. h[c] = 0 /\ k[c] = x
  BY <1>2 DEF NoWithdrawal
<1>4. \A e \in U : e # c => k[e] = h[e]
  BY <1>1, <1>2
<1> HIDE DEF h, k, U
<1>5. SumOver(h, U) \in Int /\ SumOver(k, U) = SumOver(h, U) + (k[c] - h[c])
  <2>1. c \in U /\ \A e \in U : h[e] \in Int /\ k[e] \in Int
    BY <1>1, <1>3, <1>4 DEF U
  <2> QED
    BY <1>1, <1>4, <2>1, SumChange
<1>6. SumOf(k) = SumOf(h) + x /\ SumOf(h) \in Int
  BY <1>2, <1>3, <1>5, SumIsOver DEF h, U
<1> QED
  BY <1>6 DEF h, k

\* And the credited deposits, after d has been confirmed.
LEMMA CreditedMoves ==
    ASSUME LedgerInv, LedgerInv', NEW cur \in Currencies, NEW d \in DOMAIN CreditedIn(cur),
           row[d] # "confirmed", row'[d] = "confirmed",
           \A e \in Deposits : e # d => row'[e] = row[e]
    PROVE  /\ SumOf(CreditedIn(cur)') = SumOf(CreditedIn(cur)) + Amount[d]
           /\ SumOf(CreditedIn(cur)) \in Int
<1> DEFINE h == CreditedIn(cur)
           k == CreditedIn(cur)'
           U == DOMAIN CreditedIn(cur)
<1>1. IsFiniteSet(U) /\ U \subseteq Deposits /\ \A e \in U : h[e] \in Int
  BY Summands
<1>2. /\ DOMAIN k = U
      /\ \A e \in U : /\ k[e] = IF row'[e] = "confirmed" THEN Amount[e] ELSE 0
                      /\ h[e] = IF row[e] = "confirmed" THEN Amount[e] ELSE 0
  BY DEF CreditedIn
<1>3. h[d] = 0 /\ k[d] = Amount[d] /\ Amount[d] \in Int
  BY <1>1, <1>2, LedgerAssumption
<1>4. \A e \in U : e # d => k[e] = h[e]
  BY <1>1, <1>2
<1> HIDE DEF h, k, U
<1>5. SumOver(h, U) \in Int /\ SumOver(k, U) = SumOver(h, U) + (k[d] - h[d])
  <2>1. d \in U /\ \A e \in U : h[e] \in Int /\ k[e] \in Int
    BY <1>1, <1>3, <1>4 DEF U
  <2> QED
    BY <1>1, <1>4, <2>1, SumChange
<1>6. SumOf(k) = SumOf(h) + Amount[d] /\ SumOf(h) \in Int
  BY <1>2, <1>3, <1>5, SumIsOver DEF h, U
<1> QED
  BY <1>6 DEF h, k

\* The sums that no commit of this operation changes.
LEMMA SumsStay ==
    ASSUME LedgerInv, NEW cur \in Currencies
    PROVE  /\ (\A e \in DOMAIN WithdrawnIn(cur) : row'[e] = row[e])
                 => WithdrawnIn(cur)' = WithdrawnIn(cur)
           /\ (\A d \in DOMAIN CreditedIn(cur) : row'[d] = row[d])
                 => CreditedIn(cur)' = CreditedIn(cur)
           /\ SumOf(WithdrawnIn(cur)) \in Int /\ SumOf(CreditedIn(cur)) \in Int
           /\ OpenedIn(cur)' = OpenedIn(cur)
<1>1. SumOf(WithdrawnIn(cur)) \in Int /\ SumOf(CreditedIn(cur)) \in Int
  BY Summands, SumInteger, SumIsOver
<1>2. OpenedIn(cur)' = OpenedIn(cur)
  BY DEF OpenedIn
<1>3. (\A e \in DOMAIN WithdrawnIn(cur) : row'[e] = row[e])
         => WithdrawnIn(cur)' = WithdrawnIn(cur)
  BY DEF WithdrawnIn
<1>4. (\A d \in DOMAIN CreditedIn(cur) : row'[d] = row[d])
         => CreditedIn(cur)' = CreditedIn(cur)
  BY DEF CreditedIn
<1> QED
  BY <1>1, <1>2, <1>3, <1>4

\* Where the sums of a currency balance and both sides move alike, they still do.
LEMMA WithdrawalBalances ==
    ASSUME LedgerInv, LedgerInv', MoneyInv, NEW c \in Calls, pc[c] = "committing",
           Job[c].op = "withdraw",
           \A k \in Rows : row'[k] = IF k \in DOMAIN writes[c] THEN writes[c][k] ELSE row[k]
    PROVE  MoneyAccounted'
<1> DEFINE k == Job[c].account
           w == writes[c]
<1>1. /\ k \in Accts /\ Total(c) \in Int /\ row[c] = NoWithdrawal
      /\ DOMAIN w = {k, c} /\ Worth(w[k]) + Total(c) = Worth(row[k])
      /\ w[c].amount + w[c].fee = Total(c)
  BY Jobs DEF MoneyInv, WithdrawalMoney
<1>2. /\ row'[k] = w[k] /\ row'[c] = w[c]
      /\ \A y \in Rows : y # k /\ y # c => row'[y] = row[y]
  BY <1>1, Tables
<1>3. /\ k = <<k[1], k[2]>> /\ k[1] \in Users \cup {FeeAccount} /\ k[2] \in Currencies
  BY <1>1 DEF Accts
<1>4. row[k] \in AccountRow /\ w[k] \in AccountRow
  <2>1. WriteSound(c, k, w[k])
    BY <1>1 DEF LedgerInv
  <2> QED
    BY <1>1, <2>1, Tables DEF LedgerInv, RowSound, WriteSound
<1>5. /\ \A y \in Accts : y # k => row'[y] = row[y]
      /\ \A d \in Deposits : row'[d] = row[d]
      /\ \A e \in Calls : e # c => row'[e] = row[e]
  BY <1>1, <1>2, Tables
<1> HIDE DEF k, w
<1>6. ASSUME NEW cur \in Currencies
      PROVE  (SumOf(HeldIn(cur)) + SumOf(WithdrawnIn(cur))
                 = SumOf(OpenedIn(cur)) + SumOf(CreditedIn(cur)))'
  <2>1. /\ SumOf(HeldIn(cur)) + SumOf(WithdrawnIn(cur))
              = SumOf(OpenedIn(cur)) + SumOf(CreditedIn(cur))
    BY DEF MoneyInv, MoneyAccounted
  <2>2. CreditedIn(cur)' = CreditedIn(cur) /\ OpenedIn(cur)' = OpenedIn(cur)
    BY <1>5, Summands, SumsStay
  <2>3. CASE cur = k[2]
    <3> DEFINE u == k[1]
               x == -Total(c)
    <3>1. k = <<u, cur>> /\ u \in Users \cup {FeeAccount} /\ x \in Int
      BY <1>1, <1>3, <2>3
    <3>2. Worth(row'[k]) = Worth(row[k]) + x
      BY <1>1, <1>2, <1>4, Holdings DEF Worth
    <3> HIDE DEF u, x
    <3>3. SumOf(HeldIn(cur)') = SumOf(HeldIn(cur)) + x /\ SumOf(HeldIn(cur)) \in Int
      BY <1>5, <3>1, <3>2, HeldMoves
    <3>4. c \in DOMAIN WithdrawnIn(cur)
      BY <2>3 DEF WithdrawnIn, Of, k
    <3>5. SumOf(WithdrawnIn(cur)') = SumOf(WithdrawnIn(cur)) + Total(c)
          /\ SumOf(WithdrawnIn(cur)) \in Int
      BY <1>1, <1>2, <1>5, <3>4, WithdrawnMoves
    <3> DEFINE a == SumOf(HeldIn(cur))
               b == SumOf(WithdrawnIn(cur))
               a1 == SumOf(HeldIn(cur)')
               b1 == SumOf(WithdrawnIn(cur)')
               t == Total(c)
    <3>6. a \in Int /\ b \in Int /\ t \in Int /\ a1 = a - t /\ b1 = b + t
      BY <1>1, <3>3, <3>5 DEF x
    <3>7. a1 + b1 = a + b
      <4> HIDE DEF a, b, a1, b1, t
      <4> QED
        BY <3>6
    <3> QED
      BY <2>1, <2>2, <3>7
  <2>4. CASE cur # k[2]
    <3>1. HeldIn(cur)' = HeldIn(cur)
      <4>1. \A y \in Accts : y[2] = cur => row'[y] = row[y]
        BY <1>5, <2>4
      <4> QED
        BY <4>1, HeldStays
    <3>2. WithdrawnIn(cur)' = WithdrawnIn(cur)
      <4>1. \A e \in DOMAIN WithdrawnIn(cur) : e \in Calls /\ e # c
        BY <2>4 DEF WithdrawnIn, Of, k
      <4> QED
        BY <1>5, <4>1, SumsStay
    <3> QED
      BY <2>1, <2>2, <3>1, <3>2
  <2> QED
    BY <2>3, <2>4
<1> QED
  BY <1>6 DEF MoneyAccounted

\* And what users held at first.
LEMMA OpenedNumber == \A cur \in Currencies : SumOf(OpenedIn(cur)) \in Int
<1> SUFFICES ASSUME NEW cur \in Currencies PROVE SumOf(OpenedIn(cur)) \in Int
  OBVIOUS
<1> DEFINE h == OpenedIn(cur)
<1>1. DOMAIN h = Users /\ \A u \in Users : h[u] \in Int
  <2>1. ASSUME NEW u \in Users PROVE Opening[<<u, cur>>] \in [balance : Nat, frozen : Nat]
    BY LedgerAssumption
  <2> QED
    BY <2>1 DEF OpenedIn, Worth
<1> HIDE DEF h
<1>2. SumOf(h) \in Int
  BY <1>1, LedgerAssumption, SumInteger, SumIsOver
<1> QED
  BY <1>2 DEF h

\* The same of a deposit, which only events of its own currency name.
LEMMA DepositBalances ==
    ASSUME LedgerInv, LedgerInv', MoneyInv, NEW c \in Calls, pc[c] = "committing",
           Job[c].op = "deposit",
           \A k \in Rows : row'[k] = IF k \in DOMAIN writes[c] THEN writes[c][k] ELSE row[k]
    PROVE  MoneyAccounted'
<1> DEFINE d == Job[c].deposit
           k == Credited(c)
           w == writes[c]
<1>1. /\ d \in Deposits /\ k \in Accts /\ Amount[d] \in Nat
      /\ DOMAIN w = {d, k} /\ Worth(w[k]) = Worth(row[k]) + Amount[d]
  <2>1. d \in Deposits /\ k \in Accts /\ Amount[d] \in Nat
    BY Jobs, LedgerAssumption DEF Accts, Credited
  <2> QED
    BY <2>1 DEF MoneyInv, DepositMoney
<1>2. w[d] = "confirmed" /\ row[d] = "pending"
  BY <1>1 DEF LedgerInv, WriteSound
<1>3. /\ row'[k] = w[k] /\ row'[d] = "confirmed"
      /\ \A y \in Rows : y # k /\ y # d => row'[y] = row[y]
  BY <1>1, <1>2, Tables
<1>4. /\ \A y \in Accts : y # k => row'[y] = row[y]
      /\ \A e \in Deposits : e # d => row'[e] = row[e]
      /\ \A e \in Calls : row'[e] = row[e]
  BY <1>1, <1>3, Tables
<1> HIDE DEF k, w
<1>5. ASSUME NEW cur \in Currencies
      PROVE  (SumOf(HeldIn(cur)) + SumOf(WithdrawnIn(cur))
                 = SumOf(OpenedIn(cur)) + SumOf(CreditedIn(cur)))'
  <2>1. /\ SumOf(HeldIn(cur)) + SumOf(WithdrawnIn(cur))
              = SumOf(OpenedIn(cur)) + SumOf(CreditedIn(cur))
    BY DEF MoneyInv, MoneyAccounted
  <2>2. WithdrawnIn(cur)' = WithdrawnIn(cur) /\ OpenedIn(cur)' = OpenedIn(cur)
    <3>1. DOMAIN WithdrawnIn(cur) \subseteq Calls
      BY Summands
    <3> QED
      BY <1>4, <3>1, SumsStay
  <2>3. CASE cur = Job[c].currency
    <3> DEFINE u == Owner[d]
               x == Amount[d]
    <3>1. k = <<u, cur>> /\ u \in Users \cup {FeeAccount} /\ x \in Int
      BY <1>1, <2>3, LedgerAssumption DEF k, Credited
    <3> HIDE DEF u
    <3>2. SumOf(HeldIn(cur)') = SumOf(HeldIn(cur)) + x /\ SumOf(HeldIn(cur)) \in Int
      BY <1>1, <1>3, <1>4, <3>1, HeldMoves
    <3>3. d \in DOMAIN CreditedIn(cur)
      BY <2>3 DEF CreditedIn, Of
    <3>4. SumOf(CreditedIn(cur)') = SumOf(CreditedIn(cur)) + x
          /\ SumOf(CreditedIn(cur)) \in Int
      BY <1>2, <1>3, <1>4, <3>3, CreditedMoves
    <3>5. SumOf(WithdrawnIn(cur)) \in Int
      BY SumsStay
    <3> DEFINE a == SumOf(HeldIn(cur))
               b == SumOf(WithdrawnIn(cur))
               o == SumOf(OpenedIn(cur))
               e == SumOf(CreditedIn(cur))
               a1 == SumOf(HeldIn(cur)')
               e1 == SumOf(CreditedIn(cur)')
    <3>6. /\ a \in Int /\ b \in Int /\ e \in Int /\ x \in Int
          /\ a1 = a + x /\ e1 = e + x /\ a + b = o + e
      BY <2>1, <3>1, <3>2, <3>4, <3>5
    <3>7. o \in Int
      BY <3>6, OpenedNumber
    <3>8. a1 + b = o + e1
      <4> HIDE DEF a, b, a1, e, e1, o, x
      <4> QED
        BY <3>6, <3>7
    <3> QED
      BY <2>2, <3>8
  <2>4. CASE cur # Job[c].currency
    <3>1. HeldIn(cur)' = HeldIn(cur)
      <4>1. \A y \in Accts : y[2] = cur => row'[y] = row[y]
        BY <1>4, <2>4 DEF k, Credited
      <4> QED
        BY <4>1, HeldStays
    <3>2. CreditedIn(cur)' = CreditedIn(cur)
      <4>1. \A e \in DOMAIN CreditedIn(cur) : e \in Deposits /\ e # d
        BY <2>4, Summands, LedgerAssumption DEF CreditedIn, Of
      <4> QED
        BY <1>4, <4>1, SumsStay
    <3> QED
      BY <2>1, <2>2, <3>1, <3>2
  <2> QED
    BY <2>3, <2>4
<1> QED
  BY <1>5 DEF MoneyAccounted

LEMMA CommitMoney ==
    ASSUME LedgerInv, LedgerInv', MoneyInv, NEW c \in Calls, Commit(c)
    PROVE  MoneyInv'
<1>1. /\ pc[c] = "committing" /\ CallSound(c) /\ Job[c].op \in {"withdraw", "deposit"}
  BY Operation DEF Commit, LedgerInv
<1>2. \A k \in Rows : row'[k] = IF k \in DOMAIN writes[c] THEN writes[c][k] ELSE row[k]
  BY DEF Commit, Seen
<1>3. pc'[c] = "returned" /\ \A d \in Calls : d # c => pc'[d] = pc[d] /\ writes'[d] = writes[d]
  BY DEF Commit, Return, LedgerInv, Shapes
<1>4. MoneyAccounted'
  BY <1>1, <1>2, WithdrawalBalances, DepositBalances
<1>5. MissingEmpty'
  <2> SUFFICES ASSUME NEW k \in Accts, ~row'[k].here PROVE Worth(row'[k]) = 0
    BY DEF MissingEmpty
  <2>1. k \in Rows /\ k \notin Deposits /\ k \notin Calls
    BY Tables
  <2>2. k \notin DOMAIN writes[c]
    <3>1. ASSUME k \in DOMAIN writes[c] PROVE writes[c][k].here
      <4>1. CASE Job[c].op = "withdraw"
        BY <1>1, <2>1, <3>1, <4>1 DEF MoneyInv, WithdrawalMoney
      <4>2. CASE Job[c].op = "deposit"
        BY <1>1, <2>1, <3>1, <4>2, Jobs DEF MoneyInv, DepositMoney
      <4> QED
        BY <1>1, <4>1, <4>2
    <3> QED
      BY <1>2, <2>1, <3>1
  <2> QED
    BY <1>2, <2>1, <2>2 DEF MoneyInv, MissingEmpty
<1>6. ASSUME NEW d \in Calls, d # c
      PROVE  WithdrawalMoney(d)' /\ DepositMoney(d)'
  <2>1. \A k \in DOMAIN writes[d] : row'[k] = row[k]
    BY <1>2, <1>6 DEF LedgerInv, LocksExclusive, WriteSound
  <2>2. row'[d] = row[d]
    <3>1. d \notin DOMAIN writes[c]
      BY <1>6 DEF LedgerInv, WriteSound
    <3> QED
      BY <1>2, <3>1, Tables
  <2> QED
    BY <1>3, <1>6, <2>1, <2>2, OthersMoney DEF MoneyInv
<1> QED
  BY <1>3, <1>4, <1>5, <1>6, ReturnedMoney DEF MoneyInv

LEMMA UpdateBalanceMoney ==
    ASSUME LedgerInv, MoneyInv, NEW c \in Calls, UpdateBalance(c)
    PROVE  MoneyInv'
<1>1. pc[c] = "settling" /\ Job[c].op = "settle"
  BY Operation DEF UpdateBalance, LedgerInv
<1>2. CASE Fail(c)
  BY <1>2, FailMoney DEF Fail
<1>3. ASSUME NEW k, NEW v, NEW step, Put(c, k, v), Continue(c, step)
      PROVE  MoneyInv'
  <2>1. WithdrawalMoney(c)' /\ DepositMoney(c)'
    BY <1>1 DEF WithdrawalMoney, DepositMoney
  <2> QED
    BY <1>3, <2>1, PutMoney
<1> QED
  BY <1>2, <1>3 DEF UpdateBalance

LEMMA MoneyStep == LedgerInv /\ LedgerInv' /\ MoneyInv /\ [Next]_vars => MoneyInv'
<1> SUFFICES ASSUME LedgerInv, LedgerInv', MoneyInv, [Next]_vars PROVE MoneyInv'
  OBVIOUS
<1>1. ASSUME NEW c \in Calls, WalletStep(c)
      PROVE  MoneyInv'
  <2>1. CASE GiveUp(c)
    BY <2>1, FailMoney DEF GiveUp, Fail
  <2> QED
    BY <1>1, <2>1, ReadMoney, DebitMoney, RecordMoney, FindMoney, InsertMoney, MarkMoney,
       CreditMoney, CommitMoney, ShiftMoney DEF WalletStep
<1>2. ASSUME NEW c \in Calls, InsertTrade(c) \/ Abort(c)
      PROVE  MoneyInv'
  BY <1>2, FailMoney DEF InsertTrade, Abort, Fail
<1>3. ASSUME NEW c \in Calls, UpdateBalance(c)
      PROVE  MoneyInv'
  BY <1>3, UpdateBalanceMoney
<1>4. CASE UNCHANGED <<row, writes, pc>>
  <2>1. \A d \in Calls : WithdrawalMoney(d)' /\ DepositMoney(d)'
    BY <1>4, OthersMoney DEF MoneyInv
  <2>2. \A cur \in Currencies :
          /\ HeldIn(cur)' = HeldIn(cur) /\ OpenedIn(cur)' = OpenedIn(cur)
          /\ WithdrawnIn(cur)' = WithdrawnIn(cur) /\ CreditedIn(cur)' = CreditedIn(cur)
    BY <1>4 DEF HeldIn, WithdrawnIn, OpenedIn, CreditedIn
  <2> QED
    BY <1>4, <2>1, <2>2 DEF MoneyInv, MissingEmpty, MoneyAccounted
<1>5. (\E c \in Calls : Step(c) \/ Abort(c)) \/ UNCHANGED <<row, writes, pc>>
  BY DEF Next, vars, Expire
<1> QED
  BY <1>1, <1>2, <1>3, <1>4, <1>5 DEF Step

\* Whatever withdrawals, deposits, freezes and settlements run at once, and wherever
\* they are given up or aborted: what users hold in a currency and what was withdrawn
\* of it is what they held at first and what confirmed deposits brought.
THEOREM MoneyIsAccounted == Spec => []MoneyAccounted
<1>1. Init => MoneyInv
  BY MoneyInit
<1>2. LedgerInv /\ LedgerInv' /\ MoneyInv /\ [Next]_vars => MoneyInv'
  BY MoneyStep
<1>3. MoneyInv => MoneyAccounted
  BY DEF MoneyInv
<1> QED
  BY <1>1, <1>2, <1>3, LedgerInvariant, PTL DEF Spec
=============================================================================
