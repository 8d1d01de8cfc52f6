---------------------------- MODULE AccessProofs ----------------------------
(***************************************************************************)
(* Proofs about the user services and the gateway, for every number of     *)
(* registrations, connections, tokens and orders.                          *)
(***************************************************************************)
EXTENDS UserAccess, SequenceTheorems, TLAPS

(***************************************************************************)
(* The invariant of the users: the database's UNIQUE (email), the order of *)
(* the statements of a registration, and the times that logins have seen.  *)
(***************************************************************************)
UserTypes ==
    /\ clock \in Nat
    /\ user = [r \in Registrants |-> user[r]]
    /\ registering = [r \in Registrants |-> registering[r]]
    /\ lastActive = [r \in Registrants |-> lastActive[r]]
    /\ \A r \in Registrants : lastActive[r] \in Nat

OneOfEach ==
    \A r, q \in Registrants :
        user[r] # "none" /\ user[q] # "none" /\ EmailOf[r] = EmailOf[q] => r = q

StepsInOrder ==
    /\ \A r \in Registrants : registering[r] \in {"funding", "ok"} => user[r] # "none"
    /\ \A r \in Registrants : registering[r] = "ok" => production \/ r \in funded
    /\ \A r \in funded : r \in Registrants /\ user[r] # "none"

\* Of a login or a token: its user was active when it was seen.
SeenActive(l) ==
    /\ l.user \in Registrants
    /\ l.seen \in Nat /\ l.seen <= clock
    /\ user[l.user] # "active" => l.seen <= lastActive[l.user]

AllSeenActive == \A l \in logins \cup tokens : SeenActive(l)

UsersInv == UserTypes /\ OneOfEach /\ StepsInOrder /\ AllSeenActive

(***************************************************************************)
(* The invariant of the requests.                                          *)
(***************************************************************************)
Callers == Registrants \cup Members \cup {NoUser}

Whole(q) == q = [step |-> q.step, op |-> q.op, rpc |-> q.rpc, token |-> q.token,
                 by |-> q.by, at |-> q.at, seen |-> q.seen]

InName(q) ==
    q.by # NoUser /\ ~q.rpc =>
        /\ q.token \in tokens /\ q.token.user = q.by
        /\ q.at < q.token.exp
        /\ \A o \in q.seen : owner[o] = q.by

RequestSound(q) ==
    /\ Whole(q)
    /\ q.by \in Callers
    /\ q.seen \subseteq 1 .. Len(owner)
    /\ InName(q)

RequestsInv ==
    /\ owner \in Seq(Callers)
    /\ request = [c \in Connections |-> request[c]]
    /\ \A c \in Connections : RequestSound(request[c])

(***************************************************************************)
(* A step of the users keeps their invariant.                              *)
(***************************************************************************)
LEMMA UsersInit0 == UsersInit => UsersInv
BY UsersAssumption DEF UsersInit, UsersInv, UserTypes, OneOfEach, StepsInOrder, AllSeenActive

LEMMA Continued ==
    ASSUME UserTypes, NEW r \in Registrants, NEW step, Continue(r, step)
    PROVE  /\ registering'[r] = step
           /\ \A q \in Registrants : q # r => registering'[q] = registering[q]
           /\ registering' = [q \in Registrants |-> registering'[q]]
BY DEF UserTypes, Continue

\* What leaves users and times alone leaves what logins have seen alone.
LEMMA SeenStays ==
    ASSUME AllSeenActive, UNCHANGED <<user, lastActive, clock>>,
           \A l \in logins' \cup tokens' : l \in logins \cup tokens \/ SeenActive(l)
    PROVE  AllSeenActive'
BY DEF AllSeenActive, SeenActive

LEMMA CheckEmailSound == ASSUME UsersInv, NEW r \in Registrants, CheckEmail(r) PROVE UsersInv'
<1>1. /\ UNCHANGED <<production, user, funded, lastActive, logins, tokens, clock>>
      /\ UserTypes
  BY DEF CheckEmail, UsersInv
<1>2. PICK step : Continue(r, step) /\ step \in {"refused", "inserting"}
  BY DEF CheckEmail
<1>3. UserTypes'
  BY <1>1, <1>2, Continued DEF UserTypes
<1>4. OneOfEach' /\ AllSeenActive'
  BY <1>1, SeenStays DEF UsersInv, OneOfEach
<1>5. StepsInOrder'
  BY <1>1, <1>2, Continued DEF UsersInv, StepsInOrder
<1> QED
  BY <1>3, <1>4, <1>5 DEF UsersInv

LEMMA InsertUserSound == ASSUME UsersInv, NEW r \in Registrants, InsertUser(r) PROVE UsersInv'
<1>1. /\ UNCHANGED <<production, funded, lastActive, logins, tokens, clock>>
      /\ UserTypes /\ registering[r] = "inserting"
  BY DEF InsertUser, UsersInv
<1>2. CASE Continue(r, "refused") /\ user' = user
  <2>1. Continue(r, "refused") /\ user' = user
    BY <1>2
  <2>2. UserTypes'
    BY <1>1, <2>1, Continued DEF UserTypes
  <2>3. OneOfEach' /\ AllSeenActive'
    BY <1>1, <2>1, SeenStays DEF UsersInv, OneOfEach
  <2>4. StepsInOrder'
    BY <1>1, <2>1, Continued DEF UsersInv, StepsInOrder
  <2> QED
    BY <2>2, <2>3, <2>4 DEF UsersInv
<1>3. CASE /\ ~Taken(r)
           /\ user' = [user EXCEPT ![r] = "active"]
           /\ Continue(r, IF production THEN "ok" ELSE "funding") \/ Continue(r, "refused")
  <2>1. /\ user' = [user EXCEPT ![r] = "active"]
        /\ Continue(r, IF production THEN "ok" ELSE "funding") \/ Continue(r, "refused")
    BY <1>3
  <2>2. /\ user'[r] = "active" /\ user' = [q \in Registrants |-> user'[q]]
        /\ \A q \in Registrants : q # r => user'[q] = user[q]
    BY <1>1, <2>1 DEF UserTypes
  <2>3. PICK step : Continue(r, step) /\ (step = "ok" => production)
    BY <2>1
  <2>4. UserTypes'
    BY <1>1, <2>2, <2>3, Continued DEF UserTypes
  <2>5. OneOfEach'
    BY <1>3, <2>2 DEF UsersInv, OneOfEach, Taken
  <2>6. StepsInOrder'
    BY <1>1, <2>2, <2>3, Continued DEF UsersInv, StepsInOrder
  <2>7. AllSeenActive'
    BY <1>1, <2>2 DEF UsersInv, AllSeenActive, SeenActive
  <2> QED
    BY <2>4, <2>5, <2>6, <2>7 DEF UsersInv
<1> QED
  BY <1>2, <1>3 DEF InsertUser

LEMMA InsertAccountsSound ==
    ASSUME UsersInv, NEW r \in Registrants, InsertAccounts(r) PROVE UsersInv'
<1>1. /\ UNCHANGED <<production, user, lastActive, logins, tokens, clock>>
      /\ UserTypes /\ registering[r] = "funding"
  BY DEF InsertAccounts, UsersInv
<1>2. PICK step : Continue(r, step) /\ (step = "ok" => funded' = funded \cup {r})
  BY DEF InsertAccounts
<1>3. funded' = funded \/ funded' = funded \cup {r}
  BY DEF InsertAccounts
<1>4. UserTypes'
  BY <1>1, <1>2, Continued DEF UserTypes
<1>5. OneOfEach' /\ AllSeenActive'
  BY <1>1, SeenStays DEF UsersInv, OneOfEach
<1>6. StepsInOrder'
  BY <1>1, <1>2, <1>3, Continued DEF UsersInv, StepsInOrder
<1> QED
  BY <1>4, <1>5, <1>6 DEF UsersInv

LEMMA LoginReadSound == ASSUME UsersInv, NEW r \in Registrants, LoginRead(r) PROVE UsersInv'
<1>1. UNCHANGED <<production, user, funded, registering, lastActive, tokens, clock>>
  BY DEF LoginRead
<1>2. SeenActive([user |-> r, seen |-> clock])
  BY DEF LoginRead, SeenActive, UsersInv, UserTypes
<1>3. AllSeenActive'
  BY <1>1, <1>2, SeenStays DEF LoginRead, UsersInv
<1> QED
  BY <1>1, <1>3 DEF UsersInv, UserTypes, OneOfEach, StepsInOrder

LEMMA LoginAnswerSound == ASSUME UsersInv, NEW l \in logins, LoginAnswer(l) PROVE UsersInv'
<1>1. UNCHANGED <<production, user, funded, registering, lastActive, clock>>
  BY DEF LoginAnswer
<1>2. SeenActive(Issued(l))
  BY DEF SeenActive, Issued, UsersInv, AllSeenActive
<1>3. AllSeenActive'
  BY <1>1, <1>2, SeenStays DEF LoginAnswer, UsersInv
<1> QED
  BY <1>1, <1>3 DEF UsersInv, UserTypes, OneOfEach, StepsInOrder

LEMMA UpdateStatusSound ==
    ASSUME UsersInv, NEW r \in Registrants, NEW status0 \in Statuses, UpdateStatus(r, status0)
    PROVE  UsersInv'
<1>1. /\ UNCHANGED <<production, funded, registering, logins, tokens, clock>>
      /\ UserTypes
  BY DEF UpdateStatus, UsersInv
<1>2. /\ user' = [q \in Registrants |-> user'[q]]
      /\ lastActive' = [q \in Registrants |-> lastActive'[q]]
      /\ \A q \in Registrants : q # r => user'[q] = user[q] /\ lastActive'[q] = lastActive[q]
      /\ user'[r] = "none" <=> user[r] = "none"
      /\ lastActive'[r] = IF user[r] = "active" THEN clock ELSE lastActive[r]
  BY <1>1 DEF UpdateStatus, UserTypes, Statuses
<1>3. UserTypes'
  BY <1>1, <1>2 DEF UserTypes
<1>4. OneOfEach'
  BY <1>2 DEF UsersInv, OneOfEach
<1>5. StepsInOrder'
  BY <1>1, <1>2 DEF UsersInv, StepsInOrder
<1>6. ASSUME NEW l \in logins \cup tokens PROVE SeenActive(l)'
  BY <1>1, <1>2 DEF UsersInv, AllSeenActive, SeenActive
<1> QED
  BY <1>1, <1>3, <1>4, <1>5, <1>6 DEF UsersInv, AllSeenActive

LEMMA ElapseSound == ASSUME UsersInv, Elapse PROVE UsersInv'
BY DEF Elapse, UsersInv, UserTypes, OneOfEach, StepsInOrder, AllSeenActive, SeenActive

LEMMA UsersStep == UsersInv /\ UsersNext => UsersInv'
BY CheckEmailSound, InsertUserSound, InsertAccountsSound, LoginReadSound, LoginAnswerSound,
   UpdateStatusSound, ElapseSound DEF UsersNext, UpdateKYC, Statuses

\* A token stays in the world when it has expired.
LEMMA TokensStay == UsersNext => tokens \subseteq tokens'
BY DEF UsersNext, CheckEmail, InsertUser, InsertAccounts, LoginRead, LoginAnswer, UpdateKYC,
       UpdateStatus, Elapse

(***************************************************************************)
(* A step of a connection keeps the requests' invariant.                   *)
(***************************************************************************)
LEMMA FreshSound == RequestSound(Fresh)
BY DEF RequestSound, Whole, Callers, InName, Fresh

LEMMA RequestWritten ==
    ASSUME RequestsInv, NEW c \in Connections, NEW q, RequestSound(q),
           request' = [request EXCEPT ![c] = q], UNCHANGED <<tokens, owner>>
    PROVE  RequestsInv'
<1>1. /\ request' = [d \in Connections |-> request'[d]]
      /\ \A d \in Connections : request'[d] = IF d = c THEN q ELSE request[d]
  BY DEF RequestsInv
<1>2. \A d \in Connections : RequestSound(request'[d])
  BY <1>1 DEF RequestsInv
<1>3. \A d \in Connections : RequestSound(request[d])'
  BY <1>2 DEF RequestSound, Whole, InName
<1> QED
  BY <1>1, <1>3 DEF RequestsInv

LEMMA AnswerFields ==
    ASSUME NEW st, NEW op, NEW rpc, NEW token, NEW by, NEW at, NEW seen0, NEW q,
           q = [step |-> st, op |-> op, rpc |-> rpc, token |-> token,
                by |-> by, at |-> at, seen |-> seen0],
           NEW seen, NEW new, new = [q EXCEPT !.step = "answered", !.op = "none", !.seen = seen]
    PROVE  new = [step |-> "answered", op |-> "none", rpc |-> rpc, token |-> token,
                  by |-> by, at |-> at, seen |-> seen]
<1>1. new = [f \in {"step", "op", "rpc", "token", "by", "at", "seen"} |-> new[f]]
  OBVIOUS
<1>2. /\ new.step = "answered" /\ new.op = "none" /\ new.rpc = rpc /\ new.token = token
      /\ new.by = by /\ new.at = at /\ new.seen = seen
  OBVIOUS
<1> QED
  BY <1>1, <1>2

\* The request that an answer leaves.
Answered(q, seen) == [step |-> "answered", op |-> "none", rpc |-> q.rpc, token |-> q.token,
                      by |-> q.by, at |-> q.at, seen |-> seen]

LEMMA AnswerWrites ==
    ASSUME RequestsInv, NEW c \in Connections, NEW seen, Answer(c, seen)
    PROVE  request' = [request EXCEPT ![c] = Answered(request[c], seen)]
<1> DEFINE q == request[c]
           new == [q EXCEPT !.step = "answered", !.op = "none", !.seen = seen]
<1>1. request' = [request EXCEPT ![c] = new]
  BY DEF Answer, RequestsInv
<1>2. Whole(q)
  BY DEF RequestsInv, RequestSound
<1>3. new = [q EXCEPT !.step = "answered", !.op = "none", !.seen = seen]
  OBVIOUS
<1> HIDE DEF q, new
<1>4. new = Answered(q, seen)
  BY <1>2, <1>3, AnswerFields DEF Whole, Answered
<1> QED
  BY <1>1, <1>4 DEF q

\* An answer with orders of its user, to a request that acts in his name.
LEMMA AnswerSound ==
    ASSUME RequestsInv, NEW c \in Connections, NEW seen, seen \subseteq 1 .. Len(owner),
           ~request[c].rpc => \A o \in seen : owner[o] = request[c].by,
           Answer(c, seen), UNCHANGED <<tokens, owner>>
    PROVE  RequestsInv'
<1>1. RequestSound(request[c])
  BY DEF RequestsInv
<1>2. RequestSound(Answered(request[c], seen))
  BY <1>1 DEF RequestSound, Whole, InName, Answered
<1> QED
  BY <1>2, AnswerWrites, RequestWritten

LEMMA AdmitSound ==
    ASSUME UsersInv, RequestsInv, NEW c \in Connections, NEW op, NEW token, NEW id,
           \/ token \in tokens /\ Verified(token) /\ id = token.user
           \/ id = NoUser,
           Admit(c, op, token, id), UNCHANGED <<tokens, owner>>
    PROVE  RequestsInv'
<1> DEFINE new == [Fresh EXCEPT !.step = "admitted", !.op = op, !.token = token,
                                !.by = id, !.at = clock]
<1>1. request' = [request EXCEPT ![c] = new]
  BY DEF Admit
<1>2. new = [step |-> "admitted", op |-> op, rpc |-> FALSE, token |-> token,
             by |-> id, at |-> clock, seen |-> {}]
  <2>1. new = [f \in {"step", "op", "rpc", "token", "by", "at", "seen"} |-> new[f]]
    BY DEF Fresh
  <2>2. /\ new.step = "admitted" /\ new.op = op /\ new.rpc = FALSE /\ new.token = token
        /\ new.by = id /\ new.at = clock /\ new.seen = {}
    BY DEF Fresh
  <2> HIDE DEF new
  <2> QED
    BY <2>1, <2>2
<1>3. id \in Callers
  BY DEF Callers, UsersInv, AllSeenActive, SeenActive
<1> HIDE DEF new
<1>4. RequestSound(new)
  BY <1>2, <1>3 DEF RequestSound, Whole, InName, Verified
<1> QED
  BY <1>1, <1>4, RequestWritten

LEMMA CallSound ==
    ASSUME RequestsInv, NEW c \in Connections, NEW op, NEW id \in Callers, Call(c, op, id)
    PROVE  RequestsInv'
<1> DEFINE new == [Fresh EXCEPT !.step = "admitted", !.op = op, !.rpc = TRUE,
                                !.by = id, !.at = clock]
<1>1. request' = [request EXCEPT ![c] = new] /\ UNCHANGED <<tokens, owner>>
  BY DEF Call, userVars
<1>2. new = [step |-> "admitted", op |-> op, rpc |-> TRUE, token |-> NoToken,
             by |-> id, at |-> clock, seen |-> {}]
  <2>1. new = [f \in {"step", "op", "rpc", "token", "by", "at", "seen"} |-> new[f]]
    BY DEF Fresh
  <2>2. /\ new.step = "admitted" /\ new.op = op /\ new.rpc = TRUE /\ new.token = NoToken
        /\ new.by = id /\ new.at = clock /\ new.seen = {}
    BY DEF Fresh
  <2> HIDE DEF new
  <2> QED
    BY <2>1, <2>2
<1> HIDE DEF new
<1>3. RequestSound(new)
  BY <1>2 DEF RequestSound, Whole, InName
<1> QED
  BY <1>1, <1>3, RequestWritten

LEMMA ArriveSound ==
    ASSUME UsersInv, RequestsInv, NEW c \in Connections, Arrive(c) PROVE RequestsInv'
<1>1. ASSUME Refuse(c), UNCHANGED <<tokens, owner>> PROVE RequestsInv'
  BY <1>1, FreshSound, RequestWritten DEF Refuse
<1>2. CASE RateLimit(c)
  BY <1>1, <1>2 DEF RateLimit, userVars
<1>3. ASSUME NEW op \in Ops, AdmitPublic(c, op) PROVE RequestsInv'
  BY <1>3, AdmitSound DEF AdmitPublic, userVars
<1>4. ASSUME NEW op \in Ops, NEW token \in tokens \cup {NoToken}, JWTAuth(c, op, token)
      PROVE  RequestsInv'
  <2>1. UNCHANGED <<tokens, owner>>
    BY <1>4 DEF JWTAuth, userVars
  <2>2. CASE Verified(token)
    <3>1. Admit(c, op, token, token.user) /\ token \in tokens
      BY <1>4, <2>2 DEF JWTAuth, Verified
    <3> QED
      BY <2>1, <2>2, <3>1, AdmitSound
  <2>3. CASE ~Verified(token)
    BY <1>1, <1>4, <2>1, <2>3 DEF JWTAuth
  <2> QED
    BY <2>2, <2>3
<1>5. ASSUME NEW op \in Ops, NEW id \in Registrants \cup Members,
             OrderCall(c, op, id) \/ WalletCall(c, op, id)
      PROVE  RequestsInv'
  BY <1>5, CallSound DEF OrderCall, WalletCall, Callers
<1>6. ASSUME NEW op \in Ops, MarketCall(c, op) PROVE RequestsInv'
  BY <1>6, CallSound DEF MarketCall, Callers
<1> QED
  BY <1>2, <1>3, <1>4, <1>5, <1>6 DEF Arrive

LEMMA PlaceOrderSound ==
    ASSUME RequestsInv, NEW c \in Connections, PlaceOrder(c) PROVE RequestsInv'
<1> DEFINE n == Len(owner) + 1
           new == Answered(request[c], {n})
<1>1. /\ owner' = Append(owner, request[c].by) /\ UNCHANGED tokens
      /\ request' = [request EXCEPT ![c] = new]
  BY AnswerWrites DEF PlaceOrder, userVars
<1>2. /\ owner \in Seq(Callers) /\ request[c].by \in Callers /\ RequestSound(request[c])
      /\ request = [d \in Connections |-> request[d]]
  BY DEF RequestsInv, RequestSound
<1>3. /\ owner' \in Seq(Callers) /\ Len(owner') = n /\ Len(owner) \in Nat
      /\ owner'[n] = request[c].by
      /\ \A o \in 1 .. Len(owner) : owner'[o] = owner[o]
  BY <1>1, <1>2
<1>4. /\ request' = [d \in Connections |-> request'[d]]
      /\ request'[c] = new
      /\ \A d \in Connections : d # c => request'[d] = request[d]
  BY <1>1, <1>2
<1>5. RequestSound(request[c])'
  BY <1>1, <1>2, <1>3, <1>4 DEF RequestSound, Whole, InName, Answered
<1>6. ASSUME NEW d \in Connections, d # c PROVE RequestSound(request[d])'
  <2>1. RequestSound(request[d]) /\ request'[d] = request[d]
    BY <1>4, <1>6 DEF RequestsInv
  <2> DEFINE q == request[d]
  <2>2. /\ Whole(q) /\ q.by \in Callers /\ q.seen \subseteq 1 .. Len(owner) /\ InName(q)
    BY <2>1 DEF RequestSound
  <2>3. request'[d] = q
    BY <2>1
  <2> HIDE DEF q
  <2>4. q.seen \subseteq 1 .. Len(owner') /\ \A o \in q.seen : owner'[o] = owner[o]
    BY <1>3, <2>2
  <2>5. InName(request[d])'
    BY <1>1, <2>2, <2>3, <2>4 DEF InName
  <2>6. Whole(request[d])'
    BY <2>2, <2>3 DEF Whole
  <2> QED
    BY <2>2, <2>3, <2>4, <2>5, <2>6 DEF RequestSound
<1> QED
  BY <1>3, <1>4, <1>5, <1>6 DEF RequestsInv

LEMMA ServingSound ==
    ASSUME RequestsInv, NEW c \in Connections, Serving(c) PROVE RequestsInv'
<1>1. ASSUME NEW seen, seen \subseteq OwnOrders(c), Answer(c, seen), UNCHANGED <<tokens, owner>>
      PROVE  RequestsInv'
  BY <1>1, AnswerSound DEF OwnOrders
<1>2. CASE Fail(c) \/ ServeWallet(c) \/ ServeMarket(c)
  <2>1. Answer(c, {}) /\ UNCHANGED <<tokens, owner>>
    BY <1>2 DEF Fail, ServeWallet, ServeMarket, userVars
  <2> QED
    BY <1>1, <2>1
<1>3. CASE CancelOrder(c)
  <2>1. PICK o \in OwnOrders(c) : Answer(c, {o})
    BY <1>3 DEF CancelOrder
  <2>2. UNCHANGED <<tokens, owner>>
    BY <1>3 DEF CancelOrder, userVars
  <2> QED
    BY <1>1, <2>1, <2>2
<1>4. CASE GetOrder(c)
  <2>1. PICK o \in 1 .. Len(owner) : Answer(c, {o} \cap OwnOrders(c))
    BY <1>4 DEF GetOrder
  <2>2. UNCHANGED <<tokens, owner>>
    BY <1>4 DEF GetOrder, userVars
  <2> QED
    BY <1>1, <2>1, <2>2
<1>5. CASE GetOrderRPC(c)
  <2>1. PICK o \in 1 .. Len(owner) : Answer(c, {o})
    BY <1>5 DEF GetOrderRPC
  <2>2. UNCHANGED <<tokens, owner>> /\ request[c].rpc
    BY <1>5 DEF GetOrderRPC, userVars
  <2> QED
    BY <2>1, <2>2, AnswerSound
<1>6. CASE GetOpenOrders(c)
  <2>1. PICK open \in SUBSET OwnOrders(c) : Answer(c, open)
    BY <1>6 DEF GetOpenOrders
  <2>2. UNCHANGED <<tokens, owner>>
    BY <1>6 DEF GetOpenOrders, userVars
  <2> QED
    BY <1>1, <2>1, <2>2
<1> QED
  BY <1>2, <1>3, <1>4, <1>5, <1>6, PlaceOrderSound DEF Serving

(***************************************************************************)
(* Both together, and the theorem.                                         *)
(***************************************************************************)
LEMMA GatewayStep ==
    UsersInv /\ RequestsInv /\ [GatewayNext]_accessVars => (UsersInv /\ RequestsInv)'
<1> SUFFICES ASSUME UsersInv, RequestsInv, [GatewayNext]_accessVars
             PROVE  (UsersInv /\ RequestsInv)'
  OBVIOUS
<1>1. CASE UNCHANGED accessVars
  BY <1>1 DEF accessVars, userVars, gatewayVars, UsersInv, UserTypes, OneOfEach, StepsInOrder,
              AllSeenActive, SeenActive, RequestsInv, RequestSound, Whole, InName
<1>2. CASE UsersNext /\ UNCHANGED gatewayVars
  <2>1. UsersInv' /\ tokens \subseteq tokens' /\ UNCHANGED <<request, owner>>
    BY <1>2, UsersStep, TokensStay DEF gatewayVars
  <2> QED
    BY <2>1 DEF RequestsInv, RequestSound, Whole, InName
<1>3. ASSUME NEW c \in Connections, Arrive(c) \/ Serving(c)
      PROVE  (UsersInv /\ RequestsInv)'
  <2>1. UNCHANGED userVars
    BY <1>3 DEF Arrive, RateLimit, AdmitPublic, JWTAuth, OrderCall, WalletCall, MarketCall, Call,
                Serving, Fail, PlaceOrder, CancelOrder, GetOrder, GetOrderRPC, GetOpenOrders,
                ServeWallet, ServeMarket
  <2>2. UsersInv'
    BY <2>1 DEF userVars, UsersInv, UserTypes, OneOfEach, StepsInOrder, AllSeenActive, SeenActive
  <2> QED
    BY <1>3, <2>2, ArriveSound, ServingSound
<1> QED
  BY <1>1, <1>2, <1>3 DEF GatewayNext

LEMMA GatewaySound == GatewaySpec => []UsersSound
<1>1. GatewayInit => UsersInv /\ RequestsInv
  <2>1. GatewayInit => RequestsInv
    BY FreshSound, EmptySeq DEF GatewayInit, RequestsInv
  <2> QED
    BY <2>1, UsersInit0 DEF GatewayInit
<1>2. UsersInv /\ RequestsInv => UsersSound
  <2> SUFFICES ASSUME UsersInv, RequestsInv PROVE UsersSound
    OBVIOUS
  <2>1. RegisteredIsWhole
    BY DEF UsersInv, OneOfEach, StepsInOrder, RegisteredIsWhole
  <2>2. ActsForItsUser
    BY DEF UsersInv, AllSeenActive, SeenActive, RequestsInv, RequestSound, InName, ActsForItsUser
  <2> QED
    BY <2>1, <2>2 DEF UsersSound
<1> QED
  BY <1>1, <1>2, GatewayStep, PTL DEF GatewaySpec

KycInv ==
    /\ status = [u \in Applicants |-> status[u]]
    /\ level = [u \in Applicants |-> level[u]]
    /\ told = [u \in Applicants |-> told[u]]
    /\ ApprovedIsRaised

LEMMA KycStep == KycInv /\ [KycNext]_kycVars => KycInv'
<1> SUFFICES ASSUME KycInv, [KycNext]_kycVars PROVE KycInv'
  OBVIOUS
<1>1. CASE UNCHANGED kycVars
  BY <1>1 DEF kycVars, KycInv, ApprovedIsRaised
<1>2. ASSUME NEW u \in Applicants, Submit(u) \/ Approve(u) \/ RaiseLevel(u) \/ Reject(u) \/ GetStatus(u)
      PROVE  KycInv'
  <2>1. CASE Submit(u)
    BY <2>1 DEF Submit, KycInv, ApprovedIsRaised
  <2>2. CASE Approve(u)
    BY <2>2 DEF Approve, Review, KycInv, ApprovedIsRaised
  <2>3. CASE RaiseLevel(u)
    BY <2>3 DEF RaiseLevel, KycInv, ApprovedIsRaised
  <2>4. CASE Reject(u)
    BY <2>4 DEF Reject, Review, KycInv, ApprovedIsRaised
  <2>5. CASE GetStatus(u)
    BY <2>5 DEF GetStatus, KycInv, ApprovedIsRaised
  <2> QED
    BY <1>2, <2>1, <2>2, <2>3, <2>4, <2>5
<1> QED
  BY <1>1, <1>2 DEF KycNext

\* Successful registrations are whole and alone on their e-mail, every token
\* and every HTTP request goes back to a login that found its user active and
\* saw orders of that user only, and an approved user is raised, for every
\* number of calls, whatever order their statements are executed in.
THEOREM AccessIsSound == AccessSpec => []AccessSound
<1>1. KycInit => KycInv
  BY DEF KycInit, KycInv, ApprovedIsRaised
<1>2. KycSpec => []ApprovedIsRaised
  <2>1. KycInv => ApprovedIsRaised
    BY DEF KycInv
  <2> QED
    BY <1>1, <2>1, KycStep, PTL DEF KycSpec
<1>3. UsersSound /\ ApprovedIsRaised => AccessSound
  BY DEF AccessSound
<1> QED
  BY <1>2, <1>3, GatewaySound, PTL DEF AccessSpec
=============================================================================
