----------------------------- MODULE UserAccess -----------------------------
(***************************************************************************)
(* The user services behind the gateway: users, their logins and requests  *)
(* (Gateway, which extends Users), and the KYC service.  They share no     *)
(* state: the RPC that would join the two changes the account's status     *)
(* and leaves the KYC level alone.                                         *)
(***************************************************************************)
EXTENDS Gateway, Kyc

AccessSpec == GatewaySpec /\ KycSpec

\* The user services and the gateway: registrations are whole or refused, whoever
\* acts does so in the name of an active login, and an approved user is raised.
AccessSound == UsersSound /\ ApprovedIsRaised
=============================================================================
