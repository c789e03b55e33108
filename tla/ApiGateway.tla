----------------------------- MODULE ApiGateway -----------------------------
(***************************************************************************)
(* api-gateway: a request passes the rate limiter and is forwarded to a    *)
(* service over HTTP; what the service answers is passed on, and when no   *)
(* answer comes within DOWNSTREAM_TIMEOUT the client is told that the      *)
(* service is unavailable.  Nothing withdraws the forwarded request then.  *)
(* Buyers want one order each and ask again until they are told that it    *)
(* was created or refused; browsers read, again and again.                 *)
(***************************************************************************)
EXTENDS RateLimiter

CONSTANTS
    Buyers,         \* clients that send POST /orders; the others read
    MaxAttempts     \* bound: requests of one buyer that are forwarded

ASSUME GatewayAssumption == Buyers \subseteq Clients /\ MaxAttempts \in Nat

VARIABLES
    call,       \* per client: the forwarded request and its answer
    told,       \* per buyer: the answer to its last request
    attempts,   \* per buyer: requests forwarded
    unanswered, \* per buyer: forwarded requests the gateway has no answer to
    late,       \* per buyer: those of them order-service still works on
    orders      \* per buyer: orders in order-service's table

proxyVars == <<call, told, attempts, unanswered, late, orders>>
gatewayVars == <<limiterVars, proxyVars>>

Verdicts == {"created", "refused", "read"}
CallStates == {"none", "sent"} \cup Verdicts
Told == {"nothing", "limited", "unavailable", "broken", "created", "refused"}

TypeOK ==
    /\ LimiterTypeOK
    /\ call \in [Clients -> CallStates]
    /\ told \in [Buyers -> Told]
    /\ attempts \in [Buyers -> Nat] /\ unanswered \in [Buyers -> Nat]
    /\ late \in [Buyers -> Nat] /\ orders \in [Buyers -> Nat]

Init ==
    /\ LimiterInit
    /\ call = [c \in Clients |-> "none"]
    /\ told = [b \in Buyers |-> "nothing"]
    /\ attempts = [b \in Buyers |-> 0]
    /\ unanswered = [b \in Buyers |-> 0]
    /\ late = [b \in Buyers |-> 0]
    /\ orders = [b \in Buyers |-> 0]

Forwarding(c) == call[c] # "none"

(* What a reader is told is not kept. *)
Tell(c, answer) == told' = IF c \in Buyers THEN [told EXCEPT ![c] = answer] ELSE told

-----------------------------------------------------------------------------
(* The guards *)

(* A buyer that was told the outcome of its order does not ask again. *)
Wants(c) ==
    c \in Buyers => told[c] \notin {"created", "refused"} /\ attempts[c] < MaxAttempts

Arrive(c) ==
    /\ Wants(c)
    /\ Count(c)
    /\ UNCHANGED proxyVars

Guard(c) == Throttle(c) /\ UNCHANGED proxyVars

(* 429 *)
TurnAway(c) ==
    /\ step[c] = "limited"
    /\ End(c)
    /\ Tell(c, "limited")
    /\ UNCHANGED <<call, attempts, unanswered, late, orders>>

-----------------------------------------------------------------------------
(* ProxyController, ProxyService *)

Send(c) ==
    /\ step[c] = "admitted"
    /\ call[c] = "none"
    /\ call' = [call EXCEPT ![c] = "sent"]

(* POST /orders: the body goes to order-service with the customer's id. *)
CreateOrder(b) ==
    /\ b \in Buyers
    /\ Send(b)
    /\ attempts' = [attempts EXCEPT ![b] = @ + 1]
    /\ UNCHANGED <<limiterVars, told, unanswered, late, orders>>

(* GET /products, /products/:id, /users/me and /orders/:id. *)
Read(c) ==
    /\ c \notin Buyers
    /\ Send(c)
    /\ UNCHANGED <<limiterVars, told, attempts, unanswered, late, orders>>

(* The status and the body of the downstream service. *)
PassedOn(verdict) == verdict

(* forward: the service has answered. *)
Answer(c) ==
    /\ call[c] \in Verdicts
    /\ End(c)
    /\ Tell(c, PassedOn(call[c]))
    /\ call' = [call EXCEPT ![c] = "none"]
    /\ UNCHANGED <<attempts, unanswered, late, orders>>

(* The gateway stops waiting: order-service may still be at work, or have  *)
(* done it.                                                                *)
Abandon(c) ==
    /\ call' = [call EXCEPT ![c] = "none"]
    /\ unanswered' = IF c \in Buyers THEN [unanswered EXCEPT ![c] = @ + 1] ELSE unanswered
    /\ late' = IF c \in Buyers /\ call[c] = "sent" THEN [late EXCEPT ![c] = @ + 1] ELSE late
    /\ UNCHANGED <<attempts, orders>>

(* Mutant: HttpModule without a timeout. *)
NeverExpired(c) == FALSE

(* axios gives up after DOWNSTREAM_TIMEOUT, or when the connection fails.  *)
Expired(c) == Forwarding(c)

(* Mutant: the gateway sends the request again instead. *)
SendAgain(c) ==
    /\ Expired(c)
    /\ step[c] = "admitted"
    /\ c \in Buyers => attempts[c] < MaxAttempts
    /\ attempts' = IF c \in Buyers THEN [attempts EXCEPT ![c] = @ + 1] ELSE attempts
    /\ late' = IF c \in Buyers /\ call[c] = "sent" THEN [late EXCEPT ![c] = @ + 1] ELSE late
    /\ call' = [call EXCEPT ![c] = "sent"]
    /\ UNCHANGED <<limiterVars, told, unanswered, orders>>

(* forward: an error without a response is answered with 502. *)
GiveUp(c) ==
    /\ Expired(c)
    /\ End(c)
    /\ Tell(c, "unavailable")
    /\ Abandon(c)

(* The connection is refused: nothing reached the service. *)
Unreachable(c) ==
    /\ call[c] = "sent"
    /\ End(c)
    /\ Tell(c, "unavailable")
    /\ call' = [call EXCEPT ![c] = "none"]
    /\ UNCHANGED <<attempts, unanswered, late, orders>>

(* The replica dies, or a Redis command of the limiter fails. *)
Fail(c) ==
    /\ Break(c)
    /\ Tell(c, "broken")
    /\ IF Forwarding(c) THEN Abandon(c) ELSE UNCHANGED <<call, attempts, unanswered, late, orders>>

-----------------------------------------------------------------------------
(* The services behind the gateway: order-service creates one order per    *)
(* request, whoever is still waiting for it; requestId is not looked at.   *)

Insert(b) == orders' = [orders EXCEPT ![b] = @ + 1]

ServeOrder(b) ==
    /\ b \in Buyers /\ call[b] = "sent"
    /\ \/ call' = [call EXCEPT ![b] = "created"] /\ Insert(b)
       \/ call' = [call EXCEPT ![b] = "refused"] /\ UNCHANGED orders
    /\ UNCHANGED <<limiterVars, told, attempts, unanswered, late>>

ServeLate(b) ==
    /\ late[b] > 0
    /\ late' = [late EXCEPT ![b] = @ - 1]
    /\ Insert(b) \/ UNCHANGED orders
    /\ UNCHANGED <<limiterVars, call, told, attempts, unanswered>>

ServeRead(c) ==
    /\ c \notin Buyers /\ call[c] = "sent"
    /\ call' = [call EXCEPT ![c] = "read"]
    /\ UNCHANGED <<limiterVars, told, attempts, unanswered, late, orders>>

-----------------------------------------------------------------------------
Forward(c) == CreateOrder(c) \/ Read(c) \/ Answer(c)

Next ==
    \/ \E c \in Clients :
        \/ Arrive(c) \/ Guard(c) \/ TurnAway(c)
        \/ Forward(c) \/ GiveUp(c) \/ Unreachable(c) \/ Fail(c)
        \/ ServeOrder(c) \/ ServeRead(c)
    \/ \E b \in Buyers : ServeLate(b)
    \/ Tick /\ UNCHANGED proxyVars

Spec == Init /\ [][Next]_gatewayVars

(* Time passes, and Node runs a request on as soon as Redis or the service *)
(* has answered, or the timeout fires.  Nothing is assumed of clients, nor *)
(* of the services: they may hang.                                         *)
FairSpec ==
    /\ Spec
    /\ WF_gatewayVars(Tick /\ UNCHANGED proxyVars)
    /\ \A c \in Clients :
        /\ WF_gatewayVars(Guard(c) \/ TurnAway(c) \/ Forward(c))
        /\ WF_gatewayVars(GiveUp(c))

-----------------------------------------------------------------------------
(* Properties *)

(* A buyer that was told, or is being told, that its order was created. *)
Confirmed(b) == IF "created" \in {told[b], call[b]} THEN 1 ELSE 0

(* A buyer has the order it was told of, and beyond it at most one for     *)
(* each request the gateway had no answer to: limits, refusals, dead       *)
(* replicas and repeated requests add none.                                *)
AnswersAreTrue ==
    \A b \in Buyers :
        /\ Confirmed(b) <= orders[b]
        /\ orders[b] + late[b] <= Confirmed(b) + unanswered[b]

(* A client over the limit gets a new window, however often it and others  *)
(* ask meanwhile, unless a request ended between INCR and EXPIRE.          *)
LimitEnds == hits > Limit ~> hits <= Limit \/ breaks > 0

(* Every request is answered, although the services may hang and replicas  *)
(* die (DOWNSTREAM_TIMEOUT).                                               *)
RequestsEnd == \A c \in Clients : step[c] # "idle" ~> step[c] = "idle"
=============================================================================
