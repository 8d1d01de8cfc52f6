------------------------------ MODULE Scanner ------------------------------
(***************************************************************************)
(* The blockchain monitor: one goroutine that polls an Ethereum node and   *)
(* publishes an event for each transaction to an address it watches.       *)
(*                                                                         *)
(* Nodes behind the RPC url may lag behind one another, report height 0    *)
(* while they synchronise, and fail to return a block.  The scanner        *)
(* keeps the last block it has reached in memory, with 0 for none.         *)
(***************************************************************************)
EXTENDS Integers, FiniteSets

CONSTANTS
    MaxHeight,  \* bound: height of the chain
    Payments,   \* blocks that hold a transaction to a watched address
    Valued,     \* blocks whose transaction transfers ether
    MonitorRestarts \* bound: how often the monitor is restarted

ASSUME ScannerAssumption ==
    /\ MaxHeight \in Nat /\ MonitorRestarts \in Nat
    /\ Valued \subseteq Payments /\ Payments \subseteq 1 .. MaxHeight

VARIABLES
    tip,        \* height of the chain
    lastBlock,
    since,      \* where the last scan that had no last block began
    tried,      \* blocks asked for since then
    reported,   \* [block, confirmations, times]: what was published
    monitorStarts

scannerVars == <<tip, lastBlock, since, tried, reported, monitorStarts>>

ScannerInit ==
    /\ tip = 1
    /\ lastBlock = 0 /\ since = 0 /\ tried = {}
    /\ reported = {}
    /\ monitorStarts = 0

MineBlock ==
    /\ tip < MaxHeight
    /\ tip' = tip + 1
    /\ UNCHANGED <<lastBlock, since, tried, reported, monitorStarts>>

\* The sentinel: nothing is scanned.
Begin(height) ==
    /\ lastBlock = 0
    /\ lastBlock' = height /\ since' = height /\ tried' = {}
    /\ UNCHANGED <<tip, reported, monitorStarts>>

\* The condition on the address and the one on the value each report.
Events(b, height) ==
    [block |-> b, confirmations |-> height - b + 1, times |-> IF b \in Valued THEN 2 ELSE 1]

\* Mutant: the scan ends one block below the one it takes for scanned.
ScanShort(height) ==
    /\ lastBlock # 0
    /\ tried' = tried \cup (lastBlock + 1 .. height - 1)
    /\ lastBlock' = height
    /\ UNCHANGED <<tip, since, reported, monitorStarts>>

\* Blocks that cannot be had are passed over, and an event that cannot be
\* published is dropped: `lost` is both.  A node that lags takes the last block
\* back, and a scan of its successors follows.
Scan(height) ==
    /\ lastBlock # 0
    /\ tried' = tried \cup (lastBlock + 1 .. height)
    /\ \E lost \in SUBSET (Payments \cap (lastBlock + 1 .. height)) :
          reported' = reported \cup {Events(b, height) :
                        b \in (Payments \cap (lastBlock + 1 .. height)) \ lost}
    /\ lastBlock' = height
    /\ UNCHANGED <<tip, since, monitorStarts>>

ScanNewBlocks == \E height \in 0 .. tip : Begin(height) \/ Scan(height)

\* Also within a scan: what it has published of the blocks is published.
RestartMonitor ==
    /\ monitorStarts < MonitorRestarts
    /\ monitorStarts' = monitorStarts + 1
    /\ lastBlock' = 0 /\ since' = 0 /\ tried' = {}
    /\ UNCHANGED <<tip, reported>>

ScannerNext == MineBlock \/ ScanNewBlocks \/ RestartMonitor

ScannerSpec == ScannerInit /\ [][ScannerNext]_scannerVars

(***************************************************************************)
(* Properties.                                                             *)
(***************************************************************************)
\* Within one life of the monitor, and until a scan begins anew because a node
\* answered 0: every block between the one the scanning began at and the one it
\* has reached was asked for, though nodes lag behind one another and the last
\* block moves back and on again.  A block that a node did not return counts as
\* asked for, and is not asked for again.
ScanFaithful == since + 1 .. lastBlock \subseteq tried
=============================================================================
