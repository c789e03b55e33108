---------------------------- MODULE OrderPromise ----------------------------
(***************************************************************************)
(* What the platform promises about an order, its stock and the card it is *)
(* paid with, independent of the services that keep it: no charge without  *)
(* the order, no reservation without the charge, no confirmation without   *)
(* the reservation, no refund without a failed reservation.                *)
(***************************************************************************)
CONSTANT Ids            \* orders

VARIABLES order, stock, card

promiseVars == <<order, stock, card>>

PromiseInit ==
    /\ order = [o \in Ids |-> "none"]
    /\ stock = [o \in Ids |-> "unknown"]
    /\ card  = [o \in Ids |-> "untouched"]

Placed(o) == order[o] # "none"

Place(o) ==
    /\ ~Placed(o)
    /\ order' = [order EXCEPT ![o] = "open"]
    /\ UNCHANGED <<stock, card>>

Charge(o) ==
    /\ Placed(o) /\ card[o] = "untouched"
    /\ card' = [card EXCEPT ![o] = "charged"]
    /\ UNCHANGED <<order, stock>>

(* The stock is decided once. *)
Decide(o) ==
    /\ card[o] = "charged" /\ stock[o] = "unknown"
    /\ \E s \in {"reserved", "failed"} : stock' = [stock EXCEPT ![o] = s]
    /\ UNCHANGED <<order, card>>

Confirm(o) ==
    /\ Placed(o) /\ stock[o] = "reserved"
    /\ order' = [order EXCEPT ![o] = "confirmed"]
    /\ UNCHANGED <<stock, card>>

(* The customer's choice, or the answer to a failed reservation. *)
Cancel(o) ==
    /\ Placed(o)
    /\ order' = [order EXCEPT ![o] = "cancelled"]
    /\ UNCHANGED <<stock, card>>

PayBack(o) ==
    /\ card[o] = "charged" /\ stock[o] = "failed"
    /\ card' = [card EXCEPT ![o] = "refunded"]
    /\ UNCHANGED <<order, stock>>

PromiseNext ==
    \E o \in Ids : Place(o) \/ Charge(o) \/ Decide(o) \/ Confirm(o) \/ Cancel(o) \/ PayBack(o)

Promise == PromiseInit /\ [][PromiseNext]_promiseVars
=============================================================================
