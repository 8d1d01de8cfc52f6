------------------------------ MODULE MultiSig ------------------------------
(***************************************************************************)
(* Signing requests of the cold wallet.  Every method runs under the lock; *)
(* a request's shares are in the order in which they were given, and one   *)
(* signer may give several.                                                *)
(***************************************************************************)
EXTENDS Clock, Sequences, SequencesExt

CONSTANTS
    Signings,   \* requests
    Signers,    \* indexes of the signers there are
    Thresholds, \* numbers of shares that callers ask for
    SigningLifetime \* 24 hours

ASSUME MultiSigAssumption ==
    Thresholds \subseteq Int /\ SigningLifetime \in Nat

VARIABLE signing

signingVars == <<signing>>

NoRequest == [status |-> "none", threshold |-> 0, shares |-> << >>, expires |-> 0]

SigningInit == now = 0 /\ signing = [r \in Signings |-> NoRequest]

\* A sweep of the hot wallet is one of these.
InitiateSigning(r, threshold) ==
    /\ signing[r].status = "none"
    /\ signing' = [signing EXCEPT ![r] =
          [status |-> "pending", threshold |-> threshold, shares |-> << >>,
           expires |-> now + SigningLifetime]]
    /\ UNCHANGED now

Expired(r) == now > signing[r].expires

\* Mutant: a share that comes too late is counted before it is looked at.
SignLate(r, s) ==
    /\ signing[r].status = "pending"
    /\ LET shares == Append(signing[r].shares, [signer |-> s, at |-> now])
           status == IF Len(shares) >= signing[r].threshold THEN "ready"
                     ELSE IF Expired(r) THEN "expired" ELSE "pending"
       IN  signing' = [signing EXCEPT ![r].shares = shares, ![r].status = status]
    /\ UNCHANGED now

\* A request expires when someone signs it too late.
Sign(r, s) ==
    /\ signing[r].status = "pending"
    /\ IF Expired(r) THEN signing' = [signing EXCEPT ![r].status = "expired"]
       ELSE LET shares == Append(signing[r].shares, [signer |-> s, at |-> now])
                status == IF Len(shares) >= signing[r].threshold THEN "ready" ELSE "pending"
            IN  signing' = [signing EXCEPT ![r].shares = shares, ![r].status = status]
    /\ UNCHANGED now

\* Whatever its status: what it was broadcast on is the caller's matter.
MarkBroadcast(r) ==
    /\ signing[r].status # "none"
    /\ signing' = [signing EXCEPT ![r].status = "broadcast"]
    /\ UNCHANGED now

SigningNext ==
    \/ Tick /\ UNCHANGED signingVars
    \/ \E r \in Signings :
          \/ \E t \in Thresholds : InitiateSigning(r, t)
          \/ \E s \in Signers : Sign(r, s)
          \/ MarkBroadcast(r)

SigningSpec == SigningInit /\ [][SigningNext]_<<now, signingVars>>

(***************************************************************************)
(* Properties.                                                             *)
(***************************************************************************)
\* The requests that GetReadyRequests offers to broadcast have the shares that
\* were asked for, all of them given in time and none after they were enough.
ReadyIsSigned ==
    \A r \in Signings :
        LET q == signing[r]
        IN  /\ q.status = "ready" => Len(q.shares) >= q.threshold
            /\ \A i \in DOMAIN q.shares : q.shares[i].at <= q.expires
            /\ \A i \in DOMAIN q.shares : i > 1 => i <= q.threshold
=============================================================================
