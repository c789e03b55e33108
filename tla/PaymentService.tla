--------------------------- MODULE PaymentService ---------------------------
(***************************************************************************)
(* PaymentsService: charges and refunds, the payments, ledger_entries and  *)
(* outbox tables, and the provider (Stripe).  A call talks to the provider *)
(* between a read and the transaction that records the answer, and appends *)
(* its outbox row on a second connection, outside that transaction, so the *)
(* row is visible before the payment is and survives a rollback.           *)
(* Amounts are small integers; every order costs Amount.                   *)
(***************************************************************************)
EXTENDS Integers, FiniteSets

CONSTANTS
    Orders,     \* order ids
    Calls,      \* calls of the service, [id, kind, order, key, card, amount]
    Amount,     \* what an order costs
    PoolSize,   \* connections of the pool the calls share
    MaxFaults   \* bound: how often each kind of fault happens

CallKinds == {"charge", "request", "required", "compensation"}
CallFaults == {"timeout", "database", "crash"}
CallIds == {c.id : c \in Calls}
Keys == Orders \cup {c.key : c \in Calls}
Cards == {c.card : c \in Calls}

ASSUME PaymentAssumption ==
    /\ Calls \subseteq [id : CallIds, kind : CallKinds, order : Orders, key : Keys,
                       card : Cards, amount : Nat]
    /\ \A c, d \in Calls : c.id = d.id => c = d
    \* clients do not use one key for two orders
    /\ \A c, d \in Calls : c.key = d.key => c.order = d.order
    /\ IsFiniteSet(Calls)
    /\ Amount \in Nat \ {0} /\ PoolSize \in Nat \ {0}
    /\ MaxFaults \in [CallFaults -> Nat]

VARIABLES
    \* payments (one row per order, UNIQUE orderId) and the sum of its refund entries
    status, refunded, transaction, ledger,
    outbox,     \* rows [call, order, type]
    \* the provider: charges [key, order, card, accepted] and refunds paid per order
    charges, paidBack,
    \* calls: step, amount to refund, refundedAmount as read, provider's answer
    pc, amount, seen, answer,
    faults

tables == <<status, refunded, transaction, ledger>>
provider == <<charges, paidBack>>
locals == <<amount, seen, answer>>
payVars == <<status, refunded, transaction, ledger, outbox, charges, paidBack,
             pc, amount, seen, answer, faults>>

NoRow == "NONE"
PaymentStatus == {"PROCESSED", "FAILED", "PARTIALLY_REFUNDED", "REFUNDED"}
EventType == {"PaymentSucceeded", "PaymentFailed", "RefundIssued"}
Answers == {"none", "success", "incomplete", "error", "refused", "lost"}
ChargeRecord == [key : Keys, order : Orders, card : Cards, accepted : BOOLEAN]
Steps == {"new", "checked", "read", "answered", "begun", "written", "announced",
          "done", "skipped", "failed", "dead"}
Ended == {"done", "skipped", "failed", "dead"}

TypeOK ==
    /\ status \in [Orders -> PaymentStatus \cup {NoRow}]
    /\ refunded \in [Orders -> Int] /\ ledger \in [Orders -> Int]
    /\ transaction \in [Orders -> BOOLEAN]
    /\ outbox \subseteq [call : CallIds, order : Orders, type : EventType]
    /\ charges \subseteq ChargeRecord
    /\ paidBack \in [Orders -> Int]
    /\ pc \in [Calls -> Steps]
    /\ amount \in [Calls -> Int] /\ seen \in [Calls -> Int]
    /\ answer \in [Calls -> Answers]
    /\ faults \in [CallFaults -> Nat]

Init ==
    /\ status = [o \in Orders |-> NoRow]
    /\ refunded = [o \in Orders |-> 0]
    /\ ledger = [o \in Orders |-> 0]
    /\ transaction = [o \in Orders |-> FALSE]
    /\ outbox = {}
    /\ charges = {}
    /\ paidBack = [o \in Orders |-> 0]
    \* processRefundRequired checks nothing
    /\ pc = [c \in Calls |-> IF c.kind = "required" THEN "checked" ELSE "new"]
    /\ amount = [c \in Calls |-> c.amount]
    /\ seen = [c \in Calls |-> 0]
    /\ answer = [c \in Calls |-> "none"]
    /\ faults = [f \in CallFaults |-> 0]

Exists(o) == status[o] # NoRow
IsCharge(c) == c.kind = "charge"
Goto(c, step) == pc' = [pc EXCEPT ![c] = step]
End(c, step) == Goto(c, step) /\ UNCHANGED <<tables, outbox, provider, locals, faults>>

Fault(kind) ==
    /\ faults[kind] < MaxFaults[kind]
    /\ faults' = [faults EXCEPT ![kind] = @ + 1]

(* A transaction holds a connection until it ends; every other statement   *)
(* needs a free one for a moment.                                          *)
InTransaction == {c \in Calls : pc[c] \in {"begun", "written", "announced"}}
FreeConnection == Cardinality(InTransaction) < PoolSize

(* Mutant: a rejected insert is not rolled back. *)
LockKept(o) ==
    \E c \in Calls :
        /\ c.order = o
        /\ \/ pc[c] \in {"written", "announced"}
           \/ pc[c] = "failed" /\ answer[c] # "none"

RowLocked(o) == \E c \in Calls : c.order = o /\ pc[c] \in {"written", "announced"}

-----------------------------------------------------------------------------
(* charge: look up, ask the provider *)

FindExisting(c) ==
    /\ IsCharge(c) /\ pc[c] = "new"
    /\ FreeConnection
    /\ Exists(c.order)
    /\ End(c, "skipped")

FindNone(c) ==
    /\ IsCharge(c) /\ pc[c] = "new"
    /\ FreeConnection
    /\ ~Exists(c.order)
    /\ End(c, "read")

(* Mutant: the client's idempotency key is passed on. *)
ClientKey(c) == c.key

(* The idempotency key the provider sees. *)
ProviderKey(c) == c.order

(* What the provider remembers under the key of c's request. *)
Earlier(c) == {p \in charges : p.key = ProviderKey(c)}

(* The provider's charges after it served c's request with outcome a: a     *)
(* request it has served before gets the answer it got then.               *)
Charged(c, a) ==
    IF Earlier(c) = {}
    THEN charges' = charges \cup
            {[key |-> ProviderKey(c), order |-> c.order, card |-> c.card, accepted |-> a]}
    ELSE (\E p \in Earlier(c) : p.card = c.card /\ p.accepted = a) /\ charges' = charges

(* Mutant: only an exception counts as a failure. *)
IncompleteIsSuccess(accepted) == {"success"}

(* "succeeded" and "processing" are a success, taken together here; what   *)
(* the provider did not accept is an intent with an id that needs an       *)
(* action, or a card error.                                                *)
AnswerFor(accepted) == IF accepted THEN {"success"} ELSE {"incomplete", "error"}

AskCharge(c) ==
    /\ IsCharge(c) /\ pc[c] = "read"
    /\ \E a \in BOOLEAN :
        /\ Charged(c, a)
        /\ \E s \in AnswerFor(a) : answer' = [answer EXCEPT ![c] = s]
    /\ Goto(c, "answered")
    /\ UNCHANGED <<tables, outbox, paidBack, amount, seen, faults>>

(* A request of another call is with the provider, whether its caller      *)
(* still waits for it or not.                                              *)
InProgress(d) == pc[d] = "read" \/ (pc[d] = "dead" /\ answer[d] = "none")

(* The provider refuses the request for its key and charges nothing: it    *)
(* has served it for another card, or is still at another request.  The    *)
(* REST call sends the customer's card, OrderCreated 'tok_mock_default',   *)
(* both under the order's id.                                              *)
RefuseKey(c) ==
    /\ IsCharge(c) /\ pc[c] = "read"
    /\ \/ \E p \in Earlier(c) : p.card # c.card
       \/ \E d \in Calls \ {c} :
            IsCharge(d) /\ ProviderKey(d) = ProviderKey(c) /\ InProgress(d)
    /\ answer' = [answer EXCEPT ![c] = "refused"]
    /\ Goto(c, "answered")
    /\ UNCHANGED <<tables, outbox, provider, amount, seen, faults>>

(* The request or its answer is lost, or turned away unread (429, a card   *)
(* token the provider does not know).                                      *)
ChargeTimesOut(c) ==
    /\ IsCharge(c) /\ pc[c] = "read"
    /\ Fault("timeout")
    /\ UNCHANGED charges \/ \E a \in BOOLEAN : Charged(c, a)
    /\ answer' = [answer EXCEPT ![c] = "lost"]
    /\ Goto(c, "answered")
    /\ UNCHANGED <<tables, outbox, paidBack, amount, seen>>

-----------------------------------------------------------------------------
(* refunds: check, read, ask the provider *)

(* Mutant: what was refunded for what is left. *)
AlreadyRefunded(o) == refunded[o]

Available(o) == Amount - refunded[o]

(* requestRefund *)
CheckRequest(c) ==
    LET wanted == IF c.amount = 0 THEN Available(c.order) ELSE c.amount
    IN  /\ c.kind = "request" /\ pc[c] = "new"
        /\ FreeConnection
        /\ IF /\ status[c.order] \in {"PROCESSED", "PARTIALLY_REFUNDED"}
              /\ wanted > 0 /\ wanted <= Available(c.order)
           THEN Goto(c, "checked") /\ amount' = [amount EXCEPT ![c] = wanted]
           ELSE Goto(c, "failed") /\ UNCHANGED amount
        /\ UNCHANGED <<tables, outbox, provider, seen, answer, faults>>

(* processInventoryReservationFailed: the inventory service answers a      *)
(* PaymentSucceeded it was sent.                                           *)
CheckCompensation(c) ==
    /\ c.kind = "compensation" /\ pc[c] = "new"
    /\ \E e \in outbox : e.order = c.order /\ e.type = "PaymentSucceeded"
    /\ FreeConnection
    /\ IF Exists(c.order)
       THEN Goto(c, "checked") /\ amount' = [amount EXCEPT ![c] = Available(c.order)]
       ELSE Goto(c, "skipped") /\ UNCHANGED amount
    /\ UNCHANGED <<tables, outbox, provider, seen, answer, faults>>

(* executeRefund reads the payment again. *)
ReadPayment(c) ==
    /\ ~IsCharge(c) /\ pc[c] = "checked"
    /\ FreeConnection
    /\ Exists(c.order) /\ transaction[c.order]
    /\ seen' = [seen EXCEPT ![c] = refunded[c.order]]
    /\ Goto(c, "read")
    /\ UNCHANGED <<tables, outbox, provider, amount, answer, faults>>

(* No payment, or none with a transaction at the provider. *)
ReadFails(c) ==
    /\ ~IsCharge(c) /\ pc[c] = "checked"
    /\ FreeConnection
    /\ ~(Exists(c.order) /\ transaction[c.order])
    /\ End(c, "failed")

(* The provider pays back what is left of an accepted charge; the          *)
(* idempotency key holds the time, so it never recognises a request.       *)
Refundable(c) ==
    /\ \E p \in charges : p.order = c.order /\ p.accepted
    /\ amount[c] > 0 /\ paidBack[c.order] + amount[c] <= Amount

(* A refund that Stripe reports as pending or canceled is a success to the *)
(* strategy ("failed" alone is not), and is taken for one that was paid.   *)
PayBack(c) == paidBack' = [paidBack EXCEPT ![c.order] = @ + amount[c]]

AskRefund(c) ==
    /\ ~IsCharge(c) /\ pc[c] = "read"
    /\ IF Refundable(c)
       THEN PayBack(c) /\ Goto(c, "answered") /\ answer' = [answer EXCEPT ![c] = "success"]
       ELSE Goto(c, "failed") /\ UNCHANGED <<paidBack, answer>>
    /\ UNCHANGED <<tables, outbox, charges, amount, seen, faults>>

(* Mutant: an error of the provider is taken for a refund. *)
RefundErrorIgnored(c) ==
    /\ ~IsCharge(c) /\ pc[c] = "read"
    /\ Fault("timeout")
    /\ answer' = [answer EXCEPT ![c] = "success"]
    /\ Goto(c, "answered")
    /\ UNCHANGED <<tables, outbox, provider, amount, seen>>

(* The request or its answer is lost: executeRefund throws. *)
RefundTimesOut(c) ==
    /\ ~IsCharge(c) /\ pc[c] = "read"
    /\ Fault("timeout")
    /\ UNCHANGED paidBack \/ (Refundable(c) /\ PayBack(c))
    /\ Goto(c, "failed")
    /\ UNCHANGED <<tables, outbox, charges, locals>>

-----------------------------------------------------------------------------
(* The transaction *)

Begin(c) ==
    /\ pc[c] = "answered"
    /\ FreeConnection
    /\ End(c, "begun")

(* Its first write: the insert waits for a row with the same orderId, the  *)
(* update for the lock on the row, with the connection in hand.            *)
Write(c) ==
    /\ pc[c] = "begun"
    /\ ~RowLocked(c.order)
    /\ IsCharge(c) => ~Exists(c.order)
    /\ End(c, "written")

(* UQ_payments_orderId: another call has paid the order; charge throws. *)
InsertRejected(c) ==
    /\ pc[c] = "begun"
    /\ ~RowLocked(c.order)
    /\ IsCharge(c) /\ Exists(c.order)
    /\ End(c, "failed")

(* Every answer but "success" is success: false to the service. *)
EventOf(c) ==
    IF IsCharge(c) THEN IF answer[c] = "success" THEN "PaymentSucceeded" ELSE "PaymentFailed"
    ELSE "RefundIssued"

(* OutboxService.append: on a connection of its own. *)
AppendOutbox(c) ==
    /\ pc[c] = "written"
    /\ FreeConnection
    /\ outbox' = outbox \cup {[call |-> c.id, order |-> c.order, type |-> EventOf(c)]}
    /\ Goto(c, "announced")
    /\ UNCHANGED <<tables, provider, locals, faults>>

(* Mutant: the append is not awaited. *)
MayCommitEarly(c) == pc[c] \in {"written", "announced"}

MayCommit(c) == pc[c] = "announced"

(* The payment, with its CHARGE entry; what the strategy caught has no     *)
(* transaction id.                                                         *)
CommitCharge(c) ==
    /\ IsCharge(c) /\ MayCommit(c)
    /\ status' = [status EXCEPT ![c.order] =
                    IF answer[c] = "success" THEN "PROCESSED" ELSE "FAILED"]
    /\ transaction' = [transaction EXCEPT ![c.order] = answer[c] \in {"success", "incomplete"}]
    /\ Goto(c, "done")
    /\ UNCHANGED <<refunded, ledger, outbox, provider, locals, faults>>

(* refundedAmount as it was read before the provider was asked, plus the    *)
(* amount; and a REFUND entry.                                             *)
CommitRefund(c) ==
    LET total == seen[c] + amount[c]
    IN  /\ ~IsCharge(c) /\ MayCommit(c)
        /\ refunded' = [refunded EXCEPT ![c.order] = total]
        /\ status' = [status EXCEPT ![c.order] =
                        IF total >= Amount THEN "REFUNDED" ELSE "PARTIALLY_REFUNDED"]
        /\ ledger' = [ledger EXCEPT ![c.order] = @ + amount[c]]
        /\ Goto(c, "done")
        /\ UNCHANGED <<transaction, outbox, provider, locals, faults>>

(* A statement of the transaction fails, the append included: rollback. *)
TransactionFails(c) ==
    /\ c \in InTransaction
    /\ Fault("database")
    /\ Goto(c, "failed")
    /\ UNCHANGED <<tables, outbox, provider, locals>>

(* The replica dies under the call. *)
Dies(c) ==
    /\ pc[c] \in {"read", "answered", "begun", "written", "announced"}
    /\ Fault("crash")
    /\ Goto(c, "dead")
    /\ UNCHANGED <<tables, outbox, provider, locals>>

-----------------------------------------------------------------------------
Charge(c) == FindExisting(c) \/ FindNone(c) \/ AskCharge(c) \/ RefuseKey(c)
Refund(c) ==
    CheckRequest(c) \/ CheckCompensation(c) \/ ReadPayment(c) \/ ReadFails(c) \/ AskRefund(c)
Record(c) ==
    Begin(c) \/ Write(c) \/ InsertRejected(c) \/ AppendOutbox(c)
    \/ CommitCharge(c) \/ CommitRefund(c)
Disturb(c) == ChargeTimesOut(c) \/ RefundTimesOut(c) \/ TransactionFails(c) \/ Dies(c)

Next == \E c \in Calls : Charge(c) \/ Refund(c) \/ Record(c) \/ Disturb(c)

Spec == Init /\ [][Next]_payVars

(* Node runs every call on as soon as what it waits for is there. *)
FairSpec == Spec /\ \A c \in Calls : WF_payVars(Charge(c) \/ Refund(c) \/ Record(c))

-----------------------------------------------------------------------------
(* Properties *)

Accepted(o) == {p \in charges : p.order = o /\ p.accepted}

(* DESIGN_ARCHITECTURE.MD.md:198: charging is "safe to retry": concurrent  *)
(* and repeated charge calls of an order, timeouts and crashes charge the  *)
(* card at most once.                                                      *)
ChargedOnce == \A o \in Orders : Cardinality(Accepted(o)) <= 1

(* The call that announced e has not heard what became of its charge. *)
Misled(e) == \E c \in Calls : c.id = e.call /\ answer[c] \in {"refused", "lost"}

(* What is announced is what the provider did: PaymentSucceeded only for a *)
(* charge it accepted, even when the transaction that announces it rolls   *)
(* back; PaymentFailed only where it accepted none, whichever of the       *)
(* order's calls wins, unless the call that announces it lost its answer   *)
(* or was refused for its key (the strategy's catch takes both for a       *)
(* failure).                                                               *)
OutcomeIsTrue ==
    \A e \in outbox :
        /\ e.type = "PaymentSucceeded" => Accepted(e.order) # {}
        /\ e.type = "PaymentFailed" /\ ~Misled(e) => Accepted(e.order) = {}

(* Books and outbox agree, although the outbox row is inserted outside the *)
(* transaction of the books: a payment's outcome and each refund in the    *)
(* books was announced, and a call that failed or died has announced       *)
(* nothing, as long as no statement fails and no replica dies after the    *)
(* insert (a second charge of an order fails before it gets there).        *)
BooksAreAnnounced ==
    \A o \in Orders :
        /\ status[o] \in {"PROCESSED", "PARTIALLY_REFUNDED", "REFUNDED"} /\ transaction[o] =>
            \E e \in outbox : e.order = o /\ e.type \in {"PaymentSucceeded", "RefundIssued"}
        /\ status[o] = "FAILED" => \E e \in outbox : e.order = o /\ e.type = "PaymentFailed"
        /\ ledger[o] > 0 => \E e \in outbox : e.order = o /\ e.type = "RefundIssued"
AnnouncedIsCommitted ==
    faults["database"] + faults["crash"] = 0 =>
        \A c \in Calls : pc[c] \in {"failed", "dead"} => \A e \in outbox : e.call # c.id
BooksAndOutboxAgree == BooksAreAnnounced /\ AnnouncedIsCommitted

RefundsInFlight(o) ==
    {c \in Calls : ~IsCharge(c) /\ c.order = o /\ pc[c] \in {"answered", "begun", "written", "announced"}}

(* The books never claim more than the provider paid back: neither         *)
(* overlapping refunds, nor lost answers, nor rollbacks inflate the ledger *)
(* or refundedAmount, and a payment is REFUNDED only when all was returned.*)
(* Until something fails they claim no less either: what was paid back is  *)
(* in the ledger as soon as no refund of the order is on its way.          *)
BooksWithinProvider ==
    \A o \in Orders :
        /\ refunded[o] <= ledger[o] /\ ledger[o] <= paidBack[o]
        /\ status[o] = "REFUNDED" => paidBack[o] = Amount
        /\ (\A f \in CallFaults : faults[f] = 0) /\ RefundsInFlight(o) = {} =>
                ledger[o] = paidBack[o]

(* With more connections than calls that can hold one, every call ends,    *)
(* none waits forever for the row's lock or for the connection its outbox  *)
(* row needs.  With as few connections as calls it fails.                  *)
EveryCallEnds == \A c \in Calls : c.kind # "compensation" => <>(pc[c] \in Ended)
=============================================================================
