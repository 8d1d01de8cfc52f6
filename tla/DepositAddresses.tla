-------------------------- MODULE DepositAddresses --------------------------
(***************************************************************************)
(* GenerateDepositAddress of the wallet service.                           *)
(*                                                                         *)
(*   looking - indexing - inserting - answered                             *)
(*                                  - refused, and the user asks again     *)
(*                                                                         *)
(* The next index of a user, currency and chain is kept in memory and      *)
(* starts at 0 again with the process, and the gateway has a service of    *)
(* its own.  What it derives is an address of the user's account alone,    *)
(* whatever the currency, so that the table's UNIQUE (address, chain)      *)
(* refuses what another currency, another process or another user of the   *)
(* same account number has taken.                                          *)
(***************************************************************************)
EXTENDS Integers

CONSTANTS
    Askers,     \* calls of GenerateDepositAddress, each repeated until it succeeds
    User,       \* User[a]: the token's user
    Asset,      \* Asset[a]: currency and chain
    Process,    \* Process[a]: the wallet service or the gateway, which has one too
    ChainOf,    \* the chain of an asset
    AccountOf,  \* the account number that a user's id hashes to
    WalletFaults \* bound: how often a process is restarted or a lookup fails

ASSUME AddressesAssumption == WalletFaults \in Nat

VARIABLES
    stored,     \* rows of table deposit_addresses
    next,       \* addrIdx: the next index of a user and asset in each process
    progress,   \* progress[a]: the statement that a is at
    address,    \* address[a]: what a has derived or been given
    walletFaults,
    seeded      \* processes that have the master seed

addressVars == <<stored, next, progress, address, walletFaults, seeded>>

Processes == {Process[a] : a \in Askers}
KeyOf(a) == <<Process[a], User[a], Asset[a]>>
Keys == {KeyOf(a) : a \in Askers}
NoAddress == <<"none", 0>>

\* m/44'/60'/account'/0/index: different paths have different addresses.
Derived(user, index) == <<AccountOf[user], index>>

\* Without a master seed: a key of its own for each request.
Random(a) == <<a, walletFaults>>

Row(a, addr) == [user |-> User[a], asset |-> Asset[a], address |-> addr]

AddressesInit ==
    /\ stored = {}
    /\ next = [k \in Keys |-> 0]
    /\ progress = [a \in Askers |-> "looking"]
    /\ address = [a \in Askers |-> NoAddress]
    /\ walletFaults = 0
    /\ seeded \in SUBSET Processes

Ahead(a, step, addr) ==
    /\ progress' = [progress EXCEPT ![a] = step]
    /\ address' = [address EXCEPT ![a] = addr]

\* SELECT address: of several rows the server returns any.
Look(a) ==
    LET Mine == {r \in stored : r.user = User[a] /\ r.asset = Asset[a]}
    IN  /\ progress[a] = "looking"
        /\ IF Mine = {} THEN Ahead(a, "indexing", NoAddress)
           ELSE \E r \in Mine : Ahead(a, "answered", r.address)
        /\ UNCHANGED <<stored, next, walletFaults, seeded>>

\* Any error of the lookup is taken for an answer without rows.
LookInVain(a) ==
    /\ progress[a] = "looking" /\ walletFaults < WalletFaults
    /\ walletFaults' = walletFaults + 1
    /\ Ahead(a, "indexing", NoAddress)
    /\ UNCHANGED <<stored, next, seeded>>

\* Mutant: the index is not raised before its address is stored.
IndexKept(a) ==
    /\ Process[a] \in seeded /\ progress[a] = "indexing"
    /\ Ahead(a, "inserting", Derived(User[a], next[KeyOf(a)]))
    /\ UNCHANGED <<stored, next, walletFaults, seeded>>

\* Under idxMu.
Index(a) ==
    /\ Process[a] \in seeded /\ progress[a] = "indexing"
    /\ Ahead(a, "inserting", Derived(User[a], next[KeyOf(a)]))
    /\ next' = [next EXCEPT ![KeyOf(a)] = @ + 1]
    /\ UNCHANGED <<stored, walletFaults, seeded>>

TakeRandom(a) ==
    /\ Process[a] \notin seeded /\ progress[a] = "indexing"
    /\ Ahead(a, "inserting", Random(a))
    /\ UNCHANGED <<stored, next, walletFaults, seeded>>

\* Mutant: the error of the INSERT is ignored.
InsertAnyway(a) ==
    /\ progress[a] = "inserting"
    /\ stored' = IF \E r \in stored : r.address = address[a] /\ ChainOf[r.asset] = ChainOf[Asset[a]]
                 THEN stored ELSE stored \cup {Row(a, address[a])}
    /\ Ahead(a, "answered", address[a])
    /\ UNCHANGED <<next, walletFaults, seeded>>

\* An answer lost with the caller's context leaves the row.
Insert(a) ==
    /\ progress[a] = "inserting"
    /\ IF \E r \in stored : r.address = address[a] /\ ChainOf[r.asset] = ChainOf[Asset[a]]
       THEN Ahead(a, "refused", NoAddress) /\ UNCHANGED stored
       ELSE /\ stored' = stored \cup {Row(a, address[a])}
            /\ Ahead(a, "answered", address[a]) \/ Ahead(a, "refused", NoAddress)
    /\ UNCHANGED <<next, walletFaults, seeded>>

AskAgain(a) ==
    /\ progress[a] = "refused"
    /\ Ahead(a, "looking", NoAddress)
    /\ UNCHANGED <<stored, next, walletFaults, seeded>>

RestartWallet(p) ==
    LET Cut(a) == Process[a] = p /\ progress[a] # "answered"
    IN  /\ walletFaults < WalletFaults
        /\ walletFaults' = walletFaults + 1
        /\ next' = [k \in Keys |-> IF k[1] = p THEN 0 ELSE next[k]]
        /\ progress' = [a \in Askers |-> IF Cut(a) THEN "refused" ELSE progress[a]]
        /\ address' = [a \in Askers |-> IF Cut(a) THEN NoAddress ELSE address[a]]
        /\ UNCHANGED <<stored, seeded>>

Ask(a) == Look(a) \/ Index(a) \/ TakeRandom(a) \/ Insert(a) \/ AskAgain(a)

AddressesNext ==
    (\E p \in Processes : RestartWallet(p)) \/ (\E a \in Askers : Ask(a) \/ LookInVain(a))

\* Every goroutine of the server runs on, and the user keeps asking.
AddressesFairness == \A a \in Askers : WF_addressVars(Ask(a))

AddressesSpec == AddressesInit /\ [][AddressesNext]_addressVars /\ AddressesFairness

(***************************************************************************)
(* Properties.                                                             *)
(***************************************************************************)
\* An address that was given out is a row of the user, currency and chain it
\* was given for, and of no other on that chain: a deposit to it is credited
\* to whoever it was given to, although account numbers may coincide, indexes
\* start anew with the process and currencies share addresses.
AnsweredIsStored ==
    \A a \in Askers : progress[a] = "answered" =>
        /\ Row(a, address[a]) \in stored
        /\ \A r \in stored : r.address = address[a] /\ ChainOf[r.asset] = ChainOf[Asset[a]]
                             => r = Row(a, address[a])

\* Whoever keeps asking is given an address, whatever is restarted: each
\* refused attempt raises the index, until one that the account has not used.
RetrySucceeds ==
    \A a \in Askers : progress[a] # "looking" ~> progress[a] = "answered"
=============================================================================
