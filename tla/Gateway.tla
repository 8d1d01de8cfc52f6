------------------------------- MODULE Gateway -------------------------------
(***************************************************************************)
(* What a request to the API gateway or to a gRPC server may do, and in    *)
(* whose name.                                                             *)
(*                                                                         *)
(*   admitted - answered, and the next request of the connection           *)
(*                                                                         *)
(* An HTTP request passes the limiter of its address, then, where it is    *)
(* private, the check of its token; its handler runs later, in the name of *)
(* the token's user.  (The limiter comes before the token, so no request   *)
(* is ever counted against a user.)  A gRPC server acts for the user that  *)
(* its message names; the services behind are the same.                    *)
(***************************************************************************)
EXTENDS Users, Sequences

CONSTANTS
    Members,     \* users from before, who come by gRPC only
    Connections, \* each has one request at a time
    Ops,         \* the operations that they ask for
    MaxOrders    \* bound

ASSUME GatewayAssumption == MaxOrders \in Nat

VARIABLES
    request, \* request[c]: [step, op, rpc, token, by, at, seen]
    owner    \* owner[o]: the user of order o

gatewayVars == <<request, owner>>
accessVars == <<userVars, gatewayVars>>

Public == {"GetDepth", "GetTrades", "GetKlines", "GetTicker"}
OrderOps == {"PlaceOrder", "CancelOrder", "GetOrder", "GetOpenOrders"}
WalletOps == {"GetDepositAddress", "Withdraw", "GetBalances"}

NoUser == "nobody"
NoToken == [user |-> NoUser, seen |-> 0, exp |-> 0]
Fresh == [step |-> "answered", op |-> "none", rpc |-> FALSE, token |-> NoToken,
          by |-> NoUser, at |-> 0, seen |-> {}]

GatewayInit ==
    /\ UsersInit
    /\ request = [c \in Connections |-> Fresh]
    /\ owner = << >>

Arriving(c, op) == request[c].step = "answered" /\ op \in Ops

Admit(c, op, token, id) ==
    request' = [request EXCEPT ![c] =
        [Fresh EXCEPT !.step = "admitted", !.op = op, !.token = token, !.by = id, !.at = clock]]

Answer(c, seen) ==
    request' = [request EXCEPT ![c].step = "answered", ![c].op = "none", ![c].seen = seen]

Refuse(c) == request' = [request EXCEPT ![c] = Fresh]

\* Too many of the address's requests, at any moment.
RateLimit(c) ==
    /\ request[c].step = "answered"
    /\ Refuse(c)
    /\ UNCHANGED <<userVars, owner>>

JWTAuth(c, op, token) ==
    /\ Arriving(c, op) /\ op \notin Public
    /\ IF Verified(token) THEN Admit(c, op, token, token.user) ELSE Refuse(c)
    /\ UNCHANGED <<userVars, owner>>

\* The routes outside the group that asks for a token.
AdmitPublic(c, op) ==
    /\ Arriving(c, op) /\ op \in Public
    /\ Admit(c, op, NoToken, NoUser)
    /\ UNCHANGED <<userVars, owner>>

\* A gRPC server believes its caller: whose request it is, the message says.
Call(c, op, id) ==
    /\ Arriving(c, op)
    /\ request' = [request EXCEPT ![c] =
           [Fresh EXCEPT !.step = "admitted", !.op = op, !.rpc = TRUE, !.by = id, !.at = clock]]
    /\ UNCHANGED <<userVars, owner>>

OrderCall(c, op, id) == op \in OrderOps /\ Call(c, op, id)
WalletCall(c, op, id) == op \in WalletOps /\ Call(c, op, id)
MarketCall(c, op) == op \in Public /\ Call(c, op, NoUser)

Admitted(c, op) == request[c].step = "admitted" /\ request[c].op = op
OwnOrders(c) == {o \in 1 .. Len(owner) : owner[o] = request[c].by}

\* A body that is no JSON, a number that is none, an error of the service.
Fail(c) ==
    /\ request[c].step = "admitted"
    /\ request[c].op \notin {"GetBalances", "GetAccount", "GetKlines"}
    /\ Answer(c, {})
    /\ UNCHANGED <<userVars, owner>>

Existing == Members \cup {r \in Registrants : user[r] # "none"}

\* The tables of orders and accounts refer to the user's row.
PlaceOrder(c) ==
    /\ Admitted(c, "PlaceOrder") /\ Len(owner) < MaxOrders
    /\ request[c].by \in Existing
    /\ owner' = Append(owner, request[c].by)
    /\ Answer(c, {Len(owner) + 1})
    /\ UNCHANGED userVars

\* The service compares the owner.
CancelOrder(c) ==
    /\ Admitted(c, "CancelOrder")
    /\ \E o \in OwnOrders(c) : Answer(c, {o})
    /\ UNCHANGED <<userVars, owner>>

\* Mutant: the handler leaves it to the service to compare the owner.
GetOrderOfAnyone(c) ==
    /\ Admitted(c, "GetOrder")
    /\ \E o \in 1 .. Len(owner) : Answer(c, {o})
    /\ UNCHANGED <<userVars, owner>>

\* The service finds an order of anyone: the handler compares the owner.
GetOrder(c) ==
    /\ Admitted(c, "GetOrder") /\ ~request[c].rpc
    /\ \E o \in 1 .. Len(owner) : Answer(c, {o} \cap OwnOrders(c))
    /\ UNCHANGED <<userVars, owner>>

\* The gRPC server does not compare it.
GetOrderRPC(c) ==
    /\ Admitted(c, "GetOrder") /\ request[c].rpc
    /\ \E o \in 1 .. Len(owner) : Answer(c, {o})
    /\ UNCHANGED <<userVars, owner>>

GetOpenOrders(c) ==
    /\ Admitted(c, "GetOpenOrders")
    /\ \E open \in SUBSET OwnOrders(c) : Answer(c, open)
    /\ UNCHANGED <<userVars, owner>>

\* What withdrawals and addresses do is in Wallet and DepositAddresses; balances
\* are answered with a constant.
ServeWallet(c) ==
    /\ request[c].step = "admitted" /\ request[c].op \in WalletOps
    /\ Answer(c, {})
    /\ UNCHANGED <<userVars, owner>>

\* Market data is MarketData's; the account is answered with a constant.
ServeMarket(c) ==
    /\ request[c].step = "admitted" /\ request[c].op \notin OrderOps \cup WalletOps
    /\ Answer(c, {})
    /\ UNCHANGED <<userVars, owner>>

Arrive(c) ==
    \/ RateLimit(c)
    \/ \E op \in Ops : AdmitPublic(c, op)
    \/ \E op \in Ops, token \in tokens \cup {NoToken} : JWTAuth(c, op, token)
    \/ \E op \in Ops, id \in Registrants \cup Members : OrderCall(c, op, id) \/ WalletCall(c, op, id)
    \/ \E op \in Ops : MarketCall(c, op)

Serving(c) ==
    \/ Fail(c) \/ PlaceOrder(c) \/ CancelOrder(c)
    \/ GetOrder(c) \/ GetOrderRPC(c) \/ GetOpenOrders(c)
    \/ ServeWallet(c) \/ ServeMarket(c)

GatewayNext ==
    \/ UsersNext /\ UNCHANGED gatewayVars
    \/ \E c \in Connections : Arrive(c) \/ Serving(c)

GatewaySpec == GatewayInit /\ [][GatewayNext]_accessVars

(***************************************************************************)
(* Properties.                                                             *)
(***************************************************************************)
\* A registration that was answered with success has made its user, the only
\* one of the e-mail, and outside production the accounts it trades from; no
\* accounts are without a user.
RegisteredIsWhole ==
    /\ \A r \in Registrants : registering[r] = "ok" =>
         /\ user[r] # "none"
         /\ \A q \in Registrants \ {r} : EmailOf[q] = EmailOf[r] => user[q] = "none"
         /\ production \/ r \in funded
    /\ \A r \in funded : user[r] # "none"

\* Every token, and every HTTP request in a user's name, goes back to a login
\* that found the user active, however long its password's check took; the
\* request was admitted before the token expired, and it has seen or cancelled
\* orders of that user only.  A user whose status has changed is heard until then.
ActsForItsUser ==
    /\ \A t \in tokens : user[t.user] # "active" => t.seen <= lastActive[t.user]
    /\ \A c \in Connections : request[c].by # NoUser /\ ~request[c].rpc =>
         /\ request[c].token \in tokens /\ request[c].token.user = request[c].by
         /\ request[c].at < request[c].token.exp
         /\ \A o \in request[c].seen : owner[o] = request[c].by

UsersSound == RegisteredIsWhole /\ ActsForItsUser
=============================================================================
