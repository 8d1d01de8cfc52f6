--------------------------------- MODULE Kyc ---------------------------------
(***************************************************************************)
(* The KYC service: one row per user, submitted, approved and rejected by  *)
(* calls that run at the same time.  Approval is two statements outside a  *)
(* transaction; the error of the second is thrown away.                    *)
(***************************************************************************)
CONSTANT Applicants \* users

VARIABLES
    status,    \* status[u]: of the row of table kyc_verifications, or "none"
    level,     \* level[u]: users.kyc_level is 1
    approving, \* approvals between their two statements
    unraised,  \* users for whom a second statement has failed
    told       \* told[u]: the answer to the last GetStatus

kycVars == <<status, level, approving, unraised, told>>

KycInit ==
    /\ status = [u \in Applicants |-> "none"]
    /\ level = [u \in Applicants |-> FALSE]
    /\ approving = {} /\ unraised = {}
    /\ told = [u \in Applicants |-> "none"]

\* ON CONFLICT (user_id) the row begins anew.
Submit(u) ==
    /\ status' = [status EXCEPT ![u] = "pending"]
    /\ UNCHANGED <<level, approving, unraised, told>>

\* Neither asks whether there is a row, or what state it is in.
Review(u, verdict) == status' = [status EXCEPT ![u] = IF @ = "none" THEN @ ELSE verdict]

Approve(u) ==
    /\ u \notin approving
    /\ Review(u, "approved")
    /\ approving' = approving \cup {u}
    /\ UNCHANGED <<level, unraised, told>>

RaiseLevel(u) ==
    /\ u \in approving
    /\ approving' = approving \ {u}
    /\ \/ level' = [level EXCEPT ![u] = TRUE] /\ UNCHANGED unraised
       \/ unraised' = unraised \cup {u} /\ UNCHANGED level
    /\ UNCHANGED <<status, told>>

Reject(u) ==
    /\ Review(u, "rejected")
    /\ UNCHANGED <<level, approving, unraised, told>>

\* review_notes is NULL until a review, and NULL is not read into a string.
GetStatus(u) ==
    /\ told' = [told EXCEPT ![u] =
                    IF status[u] \in {"none", "pending"} THEN "error" ELSE status[u]]
    /\ UNCHANGED <<status, level, approving, unraised>>

KycNext == \E u \in Applicants :
            Submit(u) \/ Approve(u) \/ RaiseLevel(u) \/ Reject(u) \/ GetStatus(u)

KycSpec == KycInit /\ [][KycNext]_kycVars

(***************************************************************************)
(* Properties.                                                             *)
(***************************************************************************)
\* Whoever is told to be approved, or stands as approved, has the level of it,
\* unless that statement of his approval is still to come or was lost; what
\* happens between the two statements of an approval does not undo it.
ApprovedIsRaised ==
    \A u \in Applicants :
        "approved" \in {status[u], told[u]} => level[u] \/ u \in approving \cup unraised
=============================================================================
