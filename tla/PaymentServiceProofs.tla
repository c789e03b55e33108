------------------------ MODULE PaymentServiceProofs ------------------------
(* Theorems about PaymentService, for every set of orders and calls, every  *)
(* pool and every number of faults.                                         *)
EXTENDS PaymentService, FiniteSetTheorems, TLAPS

LEMMA CallFields ==
    \A c \in Calls :
        /\ c.id \in CallIds /\ c.kind \in CallKinds /\ c.order \in Orders
        /\ c.key \in Keys /\ c.card \in Cards /\ c.amount \in Nat /\ c.order \in Keys
  BY PaymentAssumption DEF Keys

LEMMA FaultType ==
    ASSUME TypeOK, NEW kind \in CallFaults, Fault(kind)
    PROVE  faults' \in [CallFaults -> Nat]
  BY DEF TypeOK, Fault

LEMMA StepType ==
    ASSUME TypeOK, NEW c \in Calls, NEW s \in Steps, Goto(c, s)
    PROVE  pc' \in [Calls -> Steps]
  BY DEF TypeOK, Goto

LEMMA ChargedType ==
    ASSUME TypeOK, NEW c \in Calls, NEW a \in BOOLEAN, Charged(c, a)
    PROVE  charges' \subseteq ChargeRecord
  BY CallFields DEF TypeOK, Charged, ProviderKey, Earlier, ChargeRecord

LEMMA TypeInit == Init => TypeOK
  BY PaymentAssumption DEF Init, TypeOK, NoRow, Steps, Answers, ChargeRecord

LEMMA EndStep ==
    ASSUME TypeOK, NEW c \in Calls, NEW s \in Steps, End(c, s)
    PROVE  TypeOK'
  BY StepType DEF TypeOK, End, tables, provider, locals

LEMMA TypeStep == TypeOK /\ [Next]_payVars => TypeOK'
<1> SUFFICES ASSUME TypeOK, [Next]_payVars PROVE TypeOK'
  OBVIOUS
<1>0. /\ Steps = {"new", "checked", "read", "answered", "begun", "written", "announced",
                  "done", "skipped", "failed", "dead"}
      /\ CallFaults = {"timeout", "database", "crash"}
      /\ Amount \in Nat
  BY PaymentAssumption DEF Steps, CallFaults
<1> USE CallFields DEF tables, provider, locals
<1>1. ASSUME NEW c \in Calls, FindExisting(c) \/ FindNone(c) PROVE TypeOK'
  BY <1>1, <1>0, EndStep DEF FindExisting, FindNone
<1>2. ASSUME NEW c \in Calls, AskCharge(c) PROVE TypeOK'
  <2>1. answer' \in [Calls -> Answers]
    BY <1>2 DEF AskCharge, AnswerFor, Answers, TypeOK
  <2>2. charges' \subseteq ChargeRecord
    BY <1>2, ChargedType DEF AskCharge
  <2> QED BY <1>2, <1>0, <2>1, <2>2, StepType DEF AskCharge, TypeOK
<1>3. ASSUME NEW c \in Calls, ChargeTimesOut(c) PROVE TypeOK'
  <2>1. answer' \in [Calls -> Answers]
    BY <1>3 DEF ChargeTimesOut, Answers, TypeOK
  <2>2. charges' \subseteq ChargeRecord
    BY <1>3, ChargedType DEF ChargeTimesOut, TypeOK
  <2> QED BY <1>3, <1>0, <2>1, <2>2, StepType, FaultType DEF ChargeTimesOut, TypeOK
<1>15. ASSUME NEW c \in Calls, RefuseKey(c) PROVE TypeOK'
  <2>1. answer' \in [Calls -> Answers]
    BY <1>15 DEF RefuseKey, Answers, TypeOK
  <2> QED BY <1>15, <1>0, <2>1, StepType DEF RefuseKey, TypeOK
<1>4. ASSUME NEW c \in Calls, CheckRequest(c) \/ CheckCompensation(c) PROVE TypeOK'
  <2>1. Available(c.order) \in Int /\ c.amount \in Int
    BY <1>0 DEF Available, TypeOK
  <2>2. amount' \in [Calls -> Int]
    BY <1>4, <2>1 DEF CheckRequest, CheckCompensation, TypeOK
  <2>3. pc' \in [Calls -> Steps]
    BY <1>4, <1>0, StepType DEF CheckRequest, CheckCompensation
  <2> QED BY <1>4, <2>2, <2>3 DEF CheckRequest, CheckCompensation, TypeOK
<1>5. ASSUME NEW c \in Calls, ReadPayment(c) PROVE TypeOK'
  BY <1>5, <1>0, StepType DEF ReadPayment, TypeOK
<1>6. ASSUME NEW c \in Calls, ReadFails(c) PROVE TypeOK'
  BY <1>6, <1>0, EndStep DEF ReadFails
<1>7. ASSUME NEW c \in Calls, AskRefund(c) PROVE TypeOK'
  <2>1. pc' \in [Calls -> Steps]
    BY <1>7, <1>0, StepType DEF AskRefund
  <2>2. answer' \in [Calls -> Answers] /\ paidBack' \in [Orders -> Int]
    BY <1>7 DEF AskRefund, PayBack, Answers, TypeOK
  <2> QED BY <1>7, <2>1, <2>2 DEF AskRefund, TypeOK
<1>8. ASSUME NEW c \in Calls, RefundTimesOut(c) PROVE TypeOK'
  BY <1>8, <1>0, StepType, FaultType DEF RefundTimesOut, PayBack, TypeOK
<1>9. ASSUME NEW c \in Calls, Begin(c) \/ Write(c) \/ InsertRejected(c) PROVE TypeOK'
  BY <1>9, <1>0, EndStep DEF Begin, Write, InsertRejected
<1>10. ASSUME NEW c \in Calls, AppendOutbox(c) PROVE TypeOK'
  <2>1. EventOf(c) \in EventType
    BY DEF EventOf, EventType
  <2> QED BY <1>10, <1>0, <2>1, StepType DEF AppendOutbox, TypeOK
<1>11. ASSUME NEW c \in Calls, CommitCharge(c) PROVE TypeOK'
  <2>1. status' \in [Orders -> PaymentStatus \cup {NoRow}]
    BY <1>11 DEF CommitCharge, PaymentStatus, TypeOK
  <2>2. transaction' \in [Orders -> BOOLEAN]
    BY <1>11 DEF CommitCharge, TypeOK
  <2> QED BY <1>11, <1>0, <2>1, <2>2, StepType DEF CommitCharge, TypeOK
<1>12. ASSUME NEW c \in Calls, CommitRefund(c) PROVE TypeOK'
  <2>1. status' \in [Orders -> PaymentStatus \cup {NoRow}]
    BY <1>12 DEF CommitRefund, PaymentStatus, TypeOK
  <2>2. refunded' \in [Orders -> Int] /\ ledger' \in [Orders -> Int]
    BY <1>12 DEF CommitRefund, TypeOK
  <2> QED BY <1>12, <1>0, <2>1, <2>2, StepType DEF CommitRefund, TypeOK
<1>13. ASSUME NEW c \in Calls, TransactionFails(c) \/ Dies(c) PROVE TypeOK'
  BY <1>13, <1>0, StepType, FaultType DEF TransactionFails, Dies, TypeOK
<1>14. CASE UNCHANGED payVars
  BY <1>14 DEF payVars, TypeOK
<1> QED
  BY <1>1, <1>2, <1>3, <1>4, <1>5, <1>6, <1>7, <1>8, <1>9, <1>10, <1>11, <1>12,
     <1>13, <1>14, <1>15 DEF Next, Charge, Refund, Record, Disturb

(* Every variable keeps its type. *)
THEOREM TypeCorrect == Spec => []TypeOK
  BY TypeInit, TypeStep, PTL DEF Spec

-----------------------------------------------------------------------------
(* The card is charged at most once *)

(* The provider knows every charge by its order, and each key once. *)
KeyInv ==
    /\ \A p \in charges : p.key = p.order
    /\ \A p, q \in charges : p.key = q.key => p = q

LEMMA ChargedKeepsKeys ==
    ASSUME TypeOK, KeyInv, NEW c \in Calls, NEW a \in BOOLEAN, Charged(c, a)
    PROVE  KeyInv'
  BY CallFields DEF TypeOK, KeyInv, Charged, ProviderKey, Earlier

LEMMA KeyStep == TypeOK /\ KeyInv /\ [Next]_payVars => KeyInv'
<1> SUFFICES ASSUME TypeOK, KeyInv, [Next]_payVars PROVE KeyInv'
  OBVIOUS
<1>1. ASSUME NEW c \in Calls, AskCharge(c) \/ ChargeTimesOut(c) PROVE KeyInv'
  BY <1>1, ChargedKeepsKeys DEF AskCharge, ChargeTimesOut, KeyInv
<1>2. ASSUME UNCHANGED charges PROVE KeyInv'
  BY <1>2 DEF KeyInv
<1>3. ASSUME NEW c \in Calls, ~(AskCharge(c) \/ ChargeTimesOut(c)),
             Charge(c) \/ Refund(c) \/ Record(c) \/ Disturb(c)
      PROVE  UNCHANGED charges
  BY <1>3 DEF Charge, Refund, Record, Disturb, FindExisting, FindNone, RefuseKey, CheckRequest,
     CheckCompensation, ReadPayment, ReadFails, AskRefund, Begin, Write, InsertRejected,
     AppendOutbox, CommitCharge, CommitRefund, RefundTimesOut, TransactionFails, Dies,
     End, provider
<1>4. UNCHANGED payVars => UNCHANGED charges
  BY DEF payVars
<1> QED BY <1>1, <1>2, <1>3, <1>4 DEF Next

(* However many calls, retries, timeouts and crashes there are, the         *)
(* provider accepts one charge of an order.                                 *)
THEOREM CardIsChargedOnce == Spec => []ChargedOnce
<1>1. Init => KeyInv
  BY DEF Init, KeyInv
<1>2. ASSUME TypeOK, KeyInv PROVE ChargedOnce
  <2>1. ASSUME NEW o \in Orders PROVE Cardinality(Accepted(o)) <= 1
    <3>1. \A p, q \in Accepted(o) : p = q
      BY <1>2 DEF KeyInv, Accepted
    <3>2. CASE Accepted(o) = {}
      BY <3>2, FS_EmptySet
    <3>3. CASE Accepted(o) # {}
      <4>1. PICK p \in Accepted(o) : TRUE
        BY <3>3
      <4>2. Accepted(o) = {p}
        BY <3>1, <4>1
      <4> QED BY <4>2, FS_Singleton
    <3> QED BY <3>2, <3>3
  <2> QED BY <2>1 DEF ChargedOnce
<1> QED BY <1>1, <1>2, TypeInit, TypeStep, KeyStep, PTL DEF Spec

-----------------------------------------------------------------------------
(* What is announced is what the provider did *)

Rejected(o) == {p \in charges : p.order = o /\ ~ p.accepted}
Answered == {"answered", "begun", "written", "announced"}
Announced == {"announced", "done", "failed", "dead"}

(* A success is an accepted charge, and a failure of which the caller was   *)
(* told is a rejected one: in a call's hands as in the outbox.              *)
AnswerInv ==
    \A c \in Calls : IsCharge(c) =>
        /\ pc[c] \in Answered => answer[c] # "none"
        /\ answer[c] = "success" => Accepted(c.order) # {}
        /\ answer[c] \in {"incomplete", "error"} => Rejected(c.order) # {}

OutboxInv ==
    \A e \in outbox :
        /\ e.type = "PaymentSucceeded" => Accepted(e.order) # {}
        /\ e.type = "PaymentFailed" /\ ~Misled(e) => Rejected(e.order) # {}

(* Who has announced asks the provider no more. *)
AnnouncerInv == \A e \in outbox, c \in Calls : c.id = e.call => pc[c] \in Announced

LEMMA ChargesGrow ==
    ASSUME charges \subseteq charges', NEW o
    PROVE  /\ Accepted(o) # {} => Accepted(o)' # {}
           /\ Rejected(o) # {} => Rejected(o)' # {}
  BY DEF Accepted, Rejected

LEMMA ChargesStay ==
    ASSUME TypeOK, [Next]_payVars
    PROVE  charges \subseteq charges'
<1>1. ASSUME NEW c \in Calls, AskCharge(c) \/ ChargeTimesOut(c) PROVE charges \subseteq charges'
  BY <1>1 DEF AskCharge, ChargeTimesOut, Charged
<1>2. ASSUME NEW c \in Calls, ~(AskCharge(c) \/ ChargeTimesOut(c)),
             Charge(c) \/ Refund(c) \/ Record(c) \/ Disturb(c)
      PROVE  UNCHANGED charges
  BY <1>2 DEF Charge, Refund, Record, Disturb, FindExisting, FindNone, RefuseKey, CheckRequest,
     CheckCompensation, ReadPayment, ReadFails, AskRefund, Begin, Write, InsertRejected,
     AppendOutbox, CommitCharge, CommitRefund, RefundTimesOut, TransactionFails, Dies,
     End, provider
<1>3. UNCHANGED payVars => UNCHANGED charges
  BY DEF payVars
<1> QED BY <1>1, <1>2, <1>3 DEF Next

LEMMA AnswerIsCharged ==
    ASSUME TypeOK, KeyInv, NEW c \in Calls, NEW a \in BOOLEAN, Charged(c, a)
    PROVE  /\ a => Accepted(c.order)' # {}
           /\ ~ a => Rejected(c.order)' # {}
<1>1. CASE Earlier(c) # {}
  <2>1. PICK p \in charges : p.key = c.order /\ p.accepted = a /\ charges' = charges
    BY <1>1 DEF Charged, Earlier, ProviderKey
  <2>2. p.order = c.order
    BY <2>1 DEF KeyInv
  <2> QED BY <2>1, <2>2 DEF Accepted, Rejected
<1>2. CASE Earlier(c) = {}
  <2> DEFINE new == [key |-> c.order, order |-> c.order, card |-> c.card, accepted |-> a]
  <2>1. new \in charges'
    BY <1>2 DEF Charged, ProviderKey
  <2>2. new.order = c.order /\ new.accepted = a
    OBVIOUS
  <2> QED BY <2>1, <2>2 DEF Accepted, Rejected
<1> QED BY <1>1, <1>2

(* A call that has announced stays there, with its answer. *)
LEMMA AnnouncedStays ==
    ASSUME TypeOK, [Next]_payVars, NEW d \in Calls, pc[d] \in Announced
    PROVE  pc'[d] \in Announced /\ answer'[d] = answer[d]
<1>1. ASSUME NEW c \in Calls, c # d, Charge(c) \/ Refund(c) \/ Record(c) \/ Disturb(c)
      PROVE  pc'[d] = pc[d] /\ answer'[d] = answer[d]
  BY <1>1 DEF Charge, Refund, Record, Disturb, FindExisting, FindNone, RefuseKey, AskCharge,
     CheckRequest, CheckCompensation, ReadPayment, ReadFails, AskRefund, Begin, Write,
     InsertRejected, AppendOutbox, CommitCharge, CommitRefund, ChargeTimesOut,
     RefundTimesOut, TransactionFails, Dies, End, Goto, locals, TypeOK
<1>2. ASSUME Charge(d) \/ Refund(d) \/ Record(d) \/ Disturb(d)
      PROVE  CommitCharge(d) \/ CommitRefund(d) \/ TransactionFails(d) \/ Dies(d)
  BY <1>2 DEF Charge, Refund, Record, Disturb, FindExisting, FindNone, RefuseKey, AskCharge,
     CheckRequest, CheckCompensation, ReadPayment, ReadFails, AskRefund, Begin, Write,
     InsertRejected, AppendOutbox, ChargeTimesOut, RefundTimesOut, Announced
<1>3. ASSUME CommitCharge(d) \/ CommitRefund(d) \/ TransactionFails(d) \/ Dies(d)
      PROVE  answer' = answer /\ \E s \in Announced : pc' = [pc EXCEPT ![d] = s]
  BY <1>3 DEF CommitCharge, CommitRefund, TransactionFails, Dies, Goto, locals, Announced
<1>4. UNCHANGED payVars => pc' = pc /\ answer' = answer
  BY DEF payVars
<1>5. CASE \E c \in Calls : Charge(c) \/ Refund(c) \/ Record(c) \/ Disturb(c)
  <2>1. PICK c \in Calls : Charge(c) \/ Refund(c) \/ Record(c) \/ Disturb(c)
    BY <1>5
  <2>2. CASE c # d
    BY <1>1, <2>1, <2>2
  <2>3. CASE c = d
    BY <1>2, <1>3, <2>1, <2>3 DEF TypeOK
  <2> QED BY <2>2, <2>3
<1> QED BY <1>4, <1>5 DEF Next

(* A step that gives no charge a new answer and takes none to Answered.     *)
LEMMA AnswerKept ==
    ASSUME TypeOK, AnswerInv, [Next]_payVars, NEW c \in Calls, IsCharge(c),
           answer'[c] = answer[c], pc'[c] \in Answered => pc[c] \in Answered
    PROVE  /\ pc'[c] \in Answered => answer'[c] # "none"
           /\ answer'[c] = "success" => Accepted(c.order)' # {}
           /\ answer'[c] \in {"incomplete", "error"} => Rejected(c.order)' # {}
<1>1. /\ Accepted(c.order) # {} => Accepted(c.order)' # {}
      /\ Rejected(c.order) # {} => Rejected(c.order)' # {}
  BY ChargesStay, ChargesGrow
<1> QED BY <1>1 DEF AnswerInv

LEMMA AnswerStep == TypeOK /\ KeyInv /\ AnswerInv /\ [Next]_payVars => AnswerInv'
<1> SUFFICES ASSUME TypeOK, KeyInv, AnswerInv, [Next]_payVars, NEW d \in Calls, IsCharge(d)
             PROVE  /\ pc'[d] \in Answered => answer'[d] # "none"
                    /\ answer'[d] = "success" => Accepted(d.order)' # {}
                    /\ answer'[d] \in {"incomplete", "error"} => Rejected(d.order)' # {}
  BY DEF AnswerInv, IsCharge
<1>1. ASSUME NEW c \in Calls, AskCharge(c), c = d
      PROVE  /\ answer'[d] # "none"
             /\ answer'[d] = "success" => Accepted(d.order)' # {}
             /\ answer'[d] \in {"incomplete", "error"} => Rejected(d.order)' # {}
  <2>1. PICK a \in BOOLEAN : Charged(c, a)
                /\ \E s \in AnswerFor(a) : answer' = [answer EXCEPT ![c] = s]
    BY <1>1 DEF AskCharge
  <2>2. answer'[d] \in AnswerFor(a)
    BY <1>1, <2>1 DEF TypeOK
  <2>3. /\ answer'[d] # "none"
        /\ answer'[d] = "success" => a
        /\ answer'[d] \in {"incomplete", "error"} => ~ a
    BY <2>2 DEF AnswerFor
  <2> QED BY <1>1, <2>1, <2>3, AnswerIsCharged
<1>2. ASSUME NEW c \in Calls, ChargeTimesOut(c) \/ RefuseKey(c), c = d
      PROVE  answer'[d] \in {"refused", "lost"}
  BY <1>2 DEF ChargeTimesOut, RefuseKey, TypeOK
<1>3. ASSUME NEW c \in Calls, Charge(c) \/ Refund(c) \/ Record(c) \/ Disturb(c),
             ~ (c = d /\ (AskCharge(c) \/ RefuseKey(c) \/ ChargeTimesOut(c)))
      PROVE  answer'[d] = answer[d] /\ (pc'[d] \in Answered => pc[d] \in Answered)
  <2>1. CASE c # d
    BY <1>3, <2>1 DEF Charge, Refund, Record, Disturb, FindExisting, FindNone, RefuseKey, AskCharge,
       CheckRequest, CheckCompensation, ReadPayment, ReadFails, AskRefund, Begin, Write,
       InsertRejected, AppendOutbox, CommitCharge, CommitRefund, ChargeTimesOut,
       RefundTimesOut, TransactionFails, Dies, End, Goto, locals, TypeOK
  <2>2. CASE c = d
    <3>1. FindExisting(d) \/ FindNone(d) \/ Record(d) \/ TransactionFails(d) \/ Dies(d)
      BY <1>3, <2>2 DEF Charge, Refund, Disturb, CheckRequest, CheckCompensation, ReadPayment,
         ReadFails, AskRefund, RefundTimesOut, IsCharge
    <3> QED
      BY <3>1 DEF Record, FindExisting, FindNone, Begin, Write, InsertRejected, AppendOutbox,
         CommitCharge, CommitRefund, TransactionFails, Dies, End, Goto, locals, TypeOK, Answered
  <2> QED BY <2>1, <2>2
<1>4. CASE UNCHANGED payVars
  BY <1>4, AnswerKept DEF payVars
<1> QED BY <1>1, <1>2, <1>3, <1>4, AnswerKept DEF Next

LEMMA NewRow ==
    ASSUME TypeOK, AnswerInv, NEW c \in Calls, AppendOutbox(c), NEW e \in outbox', e \notin outbox
    PROVE  /\ e.call = c.id
           /\ e.type = "PaymentSucceeded" => Accepted(e.order) # {}
           /\ e.type = "PaymentFailed" /\ answer[c] \notin {"refused", "lost"} =>
                Rejected(e.order) # {}
<1>1. /\ e.call = c.id /\ e.order = c.order /\ e.type = EventOf(c)
      /\ pc[c] \in Answered
  BY DEF AppendOutbox, Answered
<1>2. e.type \in {"PaymentSucceeded", "PaymentFailed"} => IsCharge(c)
  BY <1>1 DEF EventOf
<1>3. answer[c] \in Answers
  BY DEF TypeOK
<1> QED BY <1>1, <1>2, <1>3 DEF AnswerInv, EventOf, Answers

(* The outbox grows by the rows of AppendOutbox alone. *)
LEMMA OutboxGrows ==
    ASSUME [Next]_payVars, NEW e \in outbox', e \notin outbox
    PROVE  \E c \in Calls : AppendOutbox(c)
<1>1. ASSUME NEW c \in Calls, Charge(c) \/ Refund(c) \/ Record(c) \/ Disturb(c),
             ~ AppendOutbox(c)
      PROVE  outbox' = outbox
  BY <1>1 DEF Charge, Refund, Record, Disturb, FindExisting, FindNone, RefuseKey, AskCharge,
     CheckRequest, CheckCompensation, ReadPayment, ReadFails, AskRefund, Begin, Write,
     InsertRejected, CommitCharge, CommitRefund, ChargeTimesOut, RefundTimesOut,
     TransactionFails, Dies, End
<1>2. UNCHANGED payVars => outbox' = outbox
  BY DEF payVars
<1> QED BY <1>1, <1>2 DEF Next

LEMMA AnnouncerStep == TypeOK /\ AnnouncerInv /\ [Next]_payVars => AnnouncerInv'
<1> SUFFICES ASSUME TypeOK, AnnouncerInv, [Next]_payVars, NEW e \in outbox', NEW d \in Calls,
                    d.id = e.call
             PROVE  pc'[d] \in Announced
  BY DEF AnnouncerInv
<1>1. CASE e \in outbox
  BY <1>1, AnnouncedStays DEF AnnouncerInv
<1>2. CASE e \notin outbox
  <2>1. PICK c \in Calls : AppendOutbox(c)
    BY <1>2, OutboxGrows
  <2>2. e.call = c.id /\ pc' = [pc EXCEPT ![c] = "announced"]
    BY <1>2, <2>1 DEF AppendOutbox, Goto
  <2>3. d = c
    BY <2>2, PaymentAssumption
  <2> QED BY <2>2, <2>3 DEF TypeOK, Announced
<1> QED BY <1>1, <1>2

LEMMA OutboxStep ==
    TypeOK /\ AnswerInv /\ AnnouncerInv /\ OutboxInv /\ [Next]_payVars => OutboxInv'
<1> SUFFICES ASSUME TypeOK, AnswerInv, AnnouncerInv, OutboxInv, [Next]_payVars,
                    NEW e \in outbox'
             PROVE  /\ e.type = "PaymentSucceeded" => Accepted(e.order)' # {}
                    /\ e.type = "PaymentFailed" /\ ~Misled(e)' => Rejected(e.order)' # {}
  BY DEF OutboxInv
<1>1. /\ Accepted(e.order) # {} => Accepted(e.order)' # {}
      /\ Rejected(e.order) # {} => Rejected(e.order)' # {}
  BY ChargesStay, ChargesGrow
<1>2. CASE e \in outbox
  <2>1. Misled(e) => Misled(e)'
    BY <1>2, AnnouncedStays DEF Misled, AnnouncerInv
  <2> QED BY <1>1, <1>2, <2>1 DEF OutboxInv
<1>3. CASE e \notin outbox
  <2>1. PICK c \in Calls : AppendOutbox(c)
    BY <1>3, OutboxGrows
  <2>2. /\ e.call = c.id
        /\ e.type = "PaymentSucceeded" => Accepted(e.order) # {}
        /\ e.type = "PaymentFailed" /\ answer[c] \notin {"refused", "lost"} =>
                Rejected(e.order) # {}
    BY <1>3, <2>1, NewRow
  <2>3. answer[c] \in {"refused", "lost"} => Misled(e)'
    BY <2>1, <2>2 DEF AppendOutbox, locals, Misled
  <2> QED BY <1>1, <2>2, <2>3
<1> QED BY <1>2, <1>3

(* Whatever overlaps and fails, a PaymentSucceeded row stands for a charge  *)
(* the provider accepted, and a PaymentFailed row for an order the provider *)
(* rejected, unless the very call that announces it lost its answer or was  *)
(* refused for its key.                                                     *)
THEOREM AnnouncedOutcomesAreTrue == Spec => []OutcomeIsTrue
<1>1. Init => KeyInv /\ AnswerInv /\ AnnouncerInv /\ OutboxInv
  BY DEF Init, KeyInv, AnswerInv, AnnouncerInv, OutboxInv, Answered
<1>2. ASSUME KeyInv, OutboxInv PROVE OutcomeIsTrue
  <2>1. ASSUME NEW e \in outbox, Rejected(e.order) # {} PROVE Accepted(e.order) = {}
    BY <1>2, <2>1 DEF KeyInv, Accepted, Rejected
  <2> QED BY <1>2, <2>1 DEF OutboxInv, OutcomeIsTrue
<1> QED
  BY <1>1, <1>2, TypeInit, TypeStep, KeyStep, AnswerStep, AnnouncerStep, OutboxStep, PTL DEF Spec

-----------------------------------------------------------------------------
(* The books are announced *)

(* A call about to commit has its row in the outbox. *)
ReadyInv ==
    \A c \in Calls : pc[c] = "announced" =>
        \E e \in outbox : e.order = c.order /\ e.type = EventOf(c)

LEMMA ReadyStep == TypeOK /\ ReadyInv /\ [Next]_payVars => ReadyInv'
<1> SUFFICES ASSUME TypeOK, ReadyInv, [Next]_payVars PROVE ReadyInv'
  OBVIOUS
\* a step that neither announces a call nor gives an announced one a new answer
<1>1. ASSUME \A d \in Calls : pc'[d] = "announced" => pc[d] = "announced" /\ answer'[d] = answer[d],
             outbox' = outbox
      PROVE  ReadyInv'
  BY <1>1 DEF ReadyInv, EventOf, IsCharge
<1>2. ASSUME NEW c \in Calls, AppendOutbox(c) PROVE ReadyInv'
  <2> DEFINE row == [call |-> c.id, order |-> c.order, type |-> EventOf(c)]
  <2>1. outbox' = outbox \cup {row} /\ answer' = answer
    BY <1>2 DEF AppendOutbox, locals
  <2>2. row \in outbox' /\ row.order = c.order /\ row.type = EventOf(c)
    BY <2>1
  <2>3. \A d \in Calls : d # c => pc'[d] = pc[d]
    BY <1>2 DEF AppendOutbox, Goto, TypeOK
  <2>4. \A d \in Calls : EventOf(d)' = EventOf(d)
    BY <2>1 DEF EventOf, IsCharge
  <2> HIDE DEF row
  <2> QED BY <2>1, <2>2, <2>3, <2>4 DEF ReadyInv
<1>3. ASSUME NEW c \in Calls, AskCharge(c) \/ RefuseKey(c) \/ ChargeTimesOut(c) \/ AskRefund(c)
      PROVE  ReadyInv'
  <2>1. \A d \in Calls : d # c => pc'[d] = pc[d] /\ answer'[d] = answer[d]
    BY <1>3 DEF AskCharge, RefuseKey, ChargeTimesOut, AskRefund, Goto, TypeOK
  <2>2. pc'[c] # "announced" /\ outbox' = outbox
    BY <1>3 DEF AskCharge, RefuseKey, ChargeTimesOut, AskRefund, Goto, TypeOK
  <2> QED BY <2>1, <2>2, <1>1
<1>4. ASSUME NEW c \in Calls, Charge(c) \/ Refund(c) \/ Record(c) \/ Disturb(c),
             ~(AskCharge(c) \/ RefuseKey(c) \/ ChargeTimesOut(c) \/ AskRefund(c)
               \/ AppendOutbox(c))
      PROVE  ReadyInv'
  <2>1. answer' = answer /\ outbox' = outbox
    BY <1>4 DEF Charge, Refund, Record, Disturb, FindExisting, FindNone, RefuseKey, CheckRequest,
       CheckCompensation, ReadPayment, ReadFails, Begin, Write, InsertRejected, CommitCharge,
       CommitRefund, RefundTimesOut, TransactionFails, Dies, End, locals
  <2>2. \E s \in Steps \ {"announced"} : Goto(c, s)
    BY <1>4 DEF Charge, Refund, Record, Disturb, FindExisting, FindNone, RefuseKey, CheckRequest,
       CheckCompensation, ReadPayment, ReadFails, Begin, Write, InsertRejected, CommitCharge,
       CommitRefund, RefundTimesOut, TransactionFails, Dies, End, Steps
  <2>3. \A d \in Calls : pc'[d] = "announced" => pc[d] = "announced"
    BY <2>2 DEF Goto, TypeOK
  <2> QED BY <2>1, <2>3, <1>1
<1>5. CASE UNCHANGED payVars
  BY <1>5, <1>1 DEF payVars
<1> QED BY <1>2, <1>3, <1>4, <1>5 DEF Next

LEMMA BooksStep == TypeOK /\ ReadyInv /\ BooksAreAnnounced /\ [Next]_payVars => BooksAreAnnounced'
<1> SUFFICES ASSUME TypeOK, ReadyInv, BooksAreAnnounced, [Next]_payVars
             PROVE  BooksAreAnnounced'
  OBVIOUS
<1>1. ASSUME outbox \subseteq outbox', UNCHANGED <<status, transaction, ledger>>
      PROVE  BooksAreAnnounced'
  BY <1>1 DEF BooksAreAnnounced
<1>2. ASSUME NEW c \in Calls, CommitCharge(c) PROVE BooksAreAnnounced'
  <2>1. PICK e \in outbox : e.order = c.order /\ e.type = EventOf(c)
    BY <1>2 DEF CommitCharge, MayCommit, ReadyInv
  <2>2. /\ outbox' = outbox /\ ledger' = ledger
        /\ status'[c.order] = IF answer[c] = "success" THEN "PROCESSED" ELSE "FAILED"
        /\ \A o \in Orders : o # c.order =>
                status'[o] = status[o] /\ transaction'[o] = transaction[o]
    BY <1>2, CallFields DEF CommitCharge, TypeOK
  <2>3. e.type = IF answer[c] = "success" THEN "PaymentSucceeded" ELSE "PaymentFailed"
    BY <1>2, <2>1 DEF CommitCharge, EventOf
  <2> QED BY <2>1, <2>2, <2>3 DEF BooksAreAnnounced
<1>3. ASSUME NEW c \in Calls, CommitRefund(c) PROVE BooksAreAnnounced'
  <2>1. PICK e \in outbox : e.order = c.order /\ e.type = "RefundIssued"
    BY <1>3 DEF CommitRefund, MayCommit, ReadyInv, EventOf
  <2>2. /\ outbox' = outbox /\ transaction' = transaction
        /\ status'[c.order] \in {"REFUNDED", "PARTIALLY_REFUNDED"}
        /\ \A o \in Orders : o # c.order => status'[o] = status[o] /\ ledger'[o] = ledger[o]
    BY <1>3, CallFields DEF CommitRefund, TypeOK
  <2> QED BY <2>1, <2>2 DEF BooksAreAnnounced
<1>4. ASSUME NEW c \in Calls, Charge(c) \/ Refund(c) \/ Record(c) \/ Disturb(c),
             ~(CommitCharge(c) \/ CommitRefund(c))
      PROVE  outbox \subseteq outbox' /\ UNCHANGED <<status, transaction, ledger>>
  BY <1>4 DEF Charge, Refund, Record, Disturb, FindExisting, FindNone, RefuseKey, AskCharge, CheckRequest,
     CheckCompensation, ReadPayment, ReadFails, AskRefund, Begin, Write, InsertRejected, AppendOutbox,
     ChargeTimesOut, RefundTimesOut, TransactionFails, Dies, End, tables
<1>5. UNCHANGED payVars => outbox \subseteq outbox' /\ UNCHANGED <<status, transaction, ledger>>
  BY DEF payVars, tables
<1> QED BY <1>1, <1>2, <1>3, <1>4, <1>5 DEF Next

(* Until a statement fails or a replica dies, only calls that are about to  *)
(* commit or have committed are in the outbox.                              *)
Undisturbed == faults["database"] + faults["crash"] = 0
AnnouncedInv ==
    Undisturbed =>
        \A c \in Calls, e \in outbox : e.call = c.id => pc[c] \in {"announced", "done"}

(* A failure that has happened has happened. *)
LEMMA FailuresStay ==
    ASSUME TypeOK, [Next]_payVars, Undisturbed'
    PROVE  /\ Undisturbed
           /\ \A c \in Calls : ~TransactionFails(c) /\ ~Dies(c)
<1>1. "database" \in CallFaults /\ "crash" \in CallFaults
  BY DEF CallFaults
<1>2. ASSUME NEW kind \in CallFaults, Fault(kind)
      PROVE  Undisturbed /\ kind \notin {"database", "crash"}
  BY <1>1, <1>2 DEF Fault, TypeOK, Undisturbed
<1>3. ASSUME NEW c \in Calls, Charge(c) \/ Refund(c) \/ Record(c) \/ Disturb(c)
      PROVE  UNCHANGED faults \/ \E kind \in CallFaults : Fault(kind)
  BY <1>3 DEF Charge, Refund, Record, Disturb, FindExisting, FindNone, RefuseKey, AskCharge, CheckRequest,
     CheckCompensation, ReadPayment, ReadFails, AskRefund, Begin, Write, InsertRejected,
     AppendOutbox, CommitCharge, CommitRefund, ChargeTimesOut, RefundTimesOut, TransactionFails,
     Dies, End, CallFaults
<1>4. UNCHANGED payVars => UNCHANGED faults
  BY DEF payVars
<1>5. Undisturbed
  BY <1>2, <1>3, <1>4 DEF Next, Undisturbed
<1>6. ASSUME NEW c \in Calls, TransactionFails(c) \/ Dies(c) PROVE FALSE
  BY <1>1, <1>2, <1>6 DEF TransactionFails, Dies
<1> QED BY <1>5, <1>6

LEMMA AnnouncedStep == TypeOK /\ AnnouncedInv /\ [Next]_payVars => AnnouncedInv'
<1> SUFFICES ASSUME TypeOK, AnnouncedInv, [Next]_payVars, Undisturbed',
                    NEW d \in Calls, NEW e \in outbox', e.call = d.id
             PROVE  pc'[d] \in {"announced", "done"}
  BY DEF AnnouncedInv
<1>1. Undisturbed /\ \A c \in Calls : ~TransactionFails(c) /\ ~Dies(c)
  BY FailuresStay
<1>2. e \in outbox => pc[d] \in {"announced", "done"}
  BY <1>1 DEF AnnouncedInv
<1>3. ASSUME NEW c \in Calls, AppendOutbox(c) PROVE pc'[d] \in {"announced", "done"}
  <2>1. pc' = [pc EXCEPT ![c] = "announced"]
    BY <1>3 DEF AppendOutbox, Goto
  <2>2. e \in outbox \/ e.call = c.id
    BY <1>3 DEF AppendOutbox
  <2>3. e.call = c.id => d = c
    BY PaymentAssumption
  <2> QED BY <1>2, <2>1, <2>2, <2>3 DEF TypeOK
<1>4. ASSUME NEW c \in Calls, ~AppendOutbox(c), Charge(c) \/ Refund(c) \/ Record(c) \/ Disturb(c)
      PROVE  /\ outbox' = outbox
             /\ pc[d] \in {"announced", "done"} => pc'[d] \in {"announced", "done"}
  <2>1. outbox' = outbox
    BY <1>4 DEF Charge, Refund, Record, Disturb, FindExisting, FindNone, RefuseKey, AskCharge, CheckRequest,
       CheckCompensation, ReadPayment, ReadFails, AskRefund, Begin, Write, InsertRejected,
       CommitCharge, CommitRefund, ChargeTimesOut, RefundTimesOut, TransactionFails, Dies, End
  <2>2. CASE c # d
    BY <1>4, <2>2 DEF Charge, Refund, Record, Disturb, FindExisting, FindNone, RefuseKey, AskCharge,
       CheckRequest, CheckCompensation, ReadPayment, ReadFails, AskRefund, Begin, Write,
       InsertRejected, CommitCharge, CommitRefund, ChargeTimesOut, RefundTimesOut,
       TransactionFails, Dies, End, Goto, TypeOK
  <2>3. CASE c = d
    <3>1. ASSUME pc[d] \in {"announced", "done"} PROVE CommitCharge(d) \/ CommitRefund(d)
      BY <1>1, <1>4, <2>3, <3>1 DEF Charge, Refund, Record, Disturb, FindExisting, FindNone, RefuseKey,
         AskCharge, CheckRequest, CheckCompensation, ReadPayment, ReadFails, AskRefund, Begin,
         Write, InsertRejected, ChargeTimesOut, RefundTimesOut
    <3>2. CommitCharge(d) \/ CommitRefund(d) => pc' = [pc EXCEPT ![d] = "done"]
      BY DEF CommitCharge, CommitRefund, Goto
    <3> QED BY <2>1, <3>1, <3>2 DEF TypeOK
  <2> QED BY <2>1, <2>2, <2>3
<1>5. CASE UNCHANGED payVars
  BY <1>2, <1>5 DEF payVars
<1> QED BY <1>2, <1>3, <1>4, <1>5 DEF Next

(* Whatever overlaps and fails, a payment or a refund that is in the books  *)
(* has its event in the outbox; and until a statement fails or a replica    *)
(* dies, no call that failed has announced anything.                        *)
THEOREM OutboxAgreesWithBooks == Spec => []BooksAndOutboxAgree
<1>1. Init => ReadyInv /\ BooksAreAnnounced /\ AnnouncedInv
  BY DEF Init, ReadyInv, BooksAreAnnounced, AnnouncedInv, NoRow
<1>2. AnnouncedInv => AnnouncedIsCommitted
  BY DEF AnnouncedInv, AnnouncedIsCommitted, Undisturbed
<1> QED
  BY <1>1, <1>2, TypeInit, TypeStep, ReadyStep, BooksStep, AnnouncedStep, PTL
     DEF Spec, BooksAndOutboxAgree

-----------------------------------------------------------------------------
(* The books stay within what the provider paid back *)

(* What the refunds in flight of an order have been paid, unit by unit: a   *)
(* set, so that its cardinality is their sum.                               *)
Units(o) ==
    {u \in Calls \X (1 .. Amount) : u[1] \in RefundsInFlight(o) /\ u[2] <= amount[u[1]]}
UnitsOf(c) == {c} \X (1 .. amount[c])

Calm == \A f \in CallFaults : faults[f] = 0

(* A refund in flight was paid part of the price, and has read no more than *)
(* the books hold now.                                                      *)
RefundInv ==
    \A c \in Calls : ~IsCharge(c) =>
        /\ pc[c] \in Answered => amount[c] \in 1 .. Amount
        /\ pc[c] \in Answered \cup {"read"} => seen[c] <= ledger[c.order]

(* The provider paid the ledger and what is in flight, or more after a      *)
(* fault, and never more than the price.                                    *)
SumInv ==
    \A o \in Orders :
        /\ 0 <= ledger[o] /\ refunded[o] <= ledger[o]
        /\ ledger[o] + Cardinality(Units(o)) <= paidBack[o]
        /\ paidBack[o] <= Amount
        /\ status[o] = "REFUNDED" => paidBack[o] = Amount
        /\ Calm => ledger[o] + Cardinality(Units(o)) = paidBack[o]

LEMMA UnitSet ==
    ASSUME NEW S \in SUBSET (Calls \X (1 .. Amount))
    PROVE  IsFiniteSet(S) /\ Cardinality(S) \in Nat
<1>1. IsFiniteSet(1 .. Amount)
  BY PaymentAssumption, FS_Interval
<1>2. IsFiniteSet(Calls \X (1 .. Amount))
  BY <1>1, PaymentAssumption, FS_Product
<1> QED BY <1>2, FS_Subset, FS_CardinalityType

LEMMA UnitsType ==
    ASSUME NEW o
    PROVE  Units(o) \in SUBSET (Calls \X (1 .. Amount)) /\ Units(o)' \in SUBSET (Calls \X (1 .. Amount))
  BY DEF Units

LEMMA UnitsOfCall ==
    ASSUME NEW c \in Calls, amount[c] \in 1 .. Amount
    PROVE  UnitsOf(c) \in SUBSET (Calls \X (1 .. Amount)) /\ Cardinality(UnitsOf(c)) = amount[c]
<1>1. amount[c] \in Nat /\ amount[c] >= 1 /\ Amount \in Nat
  BY PaymentAssumption
<1>2. IsFiniteSet(1 .. amount[c]) /\ Cardinality(1 .. amount[c]) = amount[c]
  <2>1. amount[c] \in Int /\ 1 \in Int
    BY <1>1
  <2>2. /\ IsFiniteSet(1 .. amount[c])
        /\ Cardinality(1 .. amount[c]) = IF 1 > amount[c] THEN 0 ELSE amount[c] - 1 + 1
    BY <2>1, FS_Interval, Zenon
  <2> QED BY <1>1, <2>2
<1>3. IsFiniteSet({c}) /\ Cardinality({c}) = 1
  BY FS_Singleton
<1>4. Cardinality({c} \X (1 .. amount[c])) = Cardinality({c}) * Cardinality(1 .. amount[c])
  BY <1>2, <1>3, FS_Product, Zenon
<1>5. Cardinality(UnitsOf(c)) = amount[c]
  BY <1>1, <1>2, <1>3, <1>4 DEF UnitsOf
<1>6. 1 .. amount[c] \subseteq 1 .. Amount
  BY <1>1
<1> QED BY <1>5, <1>6 DEF UnitsOf

(* The sum over the refunds in flight with one more. *)
LEMMA OneMoreRefund ==
    ASSUME NEW S \in SUBSET (Calls \X (1 .. Amount)), NEW T,
           NEW c \in Calls, amount[c] \in 1 .. Amount,
           T = S \cup UnitsOf(c), S \cap UnitsOf(c) = {}
    PROVE  Cardinality(T) = Cardinality(S) + amount[c]
<1>1. IsFiniteSet(S) /\ Cardinality(S) \in Nat
  BY UnitSet
<1>2. IsFiniteSet(UnitsOf(c)) /\ Cardinality(UnitsOf(c)) = amount[c]
  BY UnitsOfCall, UnitSet
<1>3. Cardinality(S \cup UnitsOf(c)) =
        Cardinality(S) + Cardinality(UnitsOf(c)) - Cardinality(S \cap UnitsOf(c))
  BY <1>1, <1>2, FS_Union, Zenon
<1>4. Cardinality(S \cap UnitsOf(c)) = 0
  BY FS_EmptySet
<1>5. amount[c] \in Nat
  OBVIOUS
<1> QED BY <1>1, <1>2, <1>3, <1>4, <1>5

(* A step that starts and ends no refund. *)
LEMMA SameUnits ==
    ASSUME \A c \in Calls : ~IsCharge(c) =>
               /\ pc'[c] \in Answered <=> pc[c] \in Answered
               /\ pc[c] \in Answered => amount'[c] = amount[c],
           NEW o \in Orders
    PROVE  Units(o)' = Units(o)
<1>1. RefundsInFlight(o)' = RefundsInFlight(o)
  BY DEF RefundsInFlight, Answered, IsCharge
<1>2. \A c \in RefundsInFlight(o) : amount'[c] = amount[c]
  BY DEF RefundsInFlight, Answered
<1> QED BY <1>1, <1>2 DEF Units

(* It leaves the sums as they are if it pays and records nothing.           *)
LEMMA SumFrame ==
    ASSUME TypeOK, SumInv,
           UNCHANGED <<refunded, ledger, paidBack>>, Calm' => Calm,
           \A o \in Orders : status'[o] = "REFUNDED" => status[o] = "REFUNDED",
           \A c \in Calls : ~IsCharge(c) =>
               /\ pc'[c] \in Answered <=> pc[c] \in Answered
               /\ pc[c] \in Answered => amount'[c] = amount[c]
    PROVE  SumInv'
  BY SameUnits DEF SumInv

(* Until something fails nothing has failed. *)
LEMMA CalmStays ==
    ASSUME TypeOK, [Next]_payVars, Calm'
    PROVE  Calm /\ \A c \in Calls : ~Disturb(c)
<1>1. ASSUME NEW kind \in CallFaults, Fault(kind) PROVE FALSE
  BY <1>1 DEF Fault, TypeOK, Calm
<1>2. ASSUME NEW c \in Calls, Disturb(c) PROVE FALSE
  BY <1>1, <1>2 DEF Disturb, ChargeTimesOut, RefundTimesOut, TransactionFails, Dies, CallFaults
<1>3. ASSUME NEW c \in Calls, Charge(c) \/ Refund(c) \/ Record(c) PROVE faults' = faults
  BY <1>3 DEF Charge, Refund, Record, FindExisting, FindNone, RefuseKey, AskCharge, CheckRequest,
     CheckCompensation, ReadPayment, ReadFails, AskRefund, Begin, Write, InsertRejected,
     AppendOutbox, CommitCharge, CommitRefund, End
<1>4. UNCHANGED payVars => faults' = faults
  BY DEF payVars
<1>5. faults' = faults
  BY <1>2, <1>3, <1>4 DEF Next
<1> QED BY <1>2, <1>5 DEF Calm

(* The steps that leave the books of the refunds and what is paid back      *)
(* alone, and a refund in flight or out of it.                              *)
Quiet(c) ==
    \/ FindExisting(c) \/ FindNone(c) \/ AskCharge(c) \/ RefuseKey(c) \/ ChargeTimesOut(c)
    \/ CheckRequest(c) \/ CheckCompensation(c) \/ ReadPayment(c) \/ ReadFails(c)
    \/ Begin(c) \/ Write(c) \/ InsertRejected(c) \/ AppendOutbox(c) \/ CommitCharge(c)

LEMMA QuietStep ==
    ASSUME TypeOK, RefundInv, SumInv, [Next]_payVars, NEW c \in Calls, Quiet(c)
    PROVE  RefundInv' /\ SumInv'
<1>1. UNCHANGED <<refunded, ledger, paidBack>>
  BY DEF Quiet, FindExisting, FindNone, RefuseKey, AskCharge, ChargeTimesOut, CheckRequest, CheckCompensation,
     ReadPayment, ReadFails, Begin, Write, InsertRejected, AppendOutbox, CommitCharge, End, tables,
     provider
<1>2. \A d \in Calls : d # c => pc'[d] = pc[d] /\ amount'[d] = amount[d] /\ seen'[d] = seen[d]
  BY DEF Quiet, FindExisting, FindNone, RefuseKey, AskCharge, ChargeTimesOut, CheckRequest, CheckCompensation,
     ReadPayment, ReadFails, Begin, Write, InsertRejected, AppendOutbox, CommitCharge, End, locals,
     Goto, TypeOK
<1>3. ~IsCharge(c) => (pc'[c] \in Answered <=> pc[c] \in Answered)
  BY DEF Quiet, FindExisting, FindNone, RefuseKey, AskCharge, ChargeTimesOut, CheckRequest, CheckCompensation,
     ReadPayment, ReadFails, Begin, Write, InsertRejected, AppendOutbox, CommitCharge, End, Goto,
     TypeOK, Answered
<1>4. ~IsCharge(c) /\ pc[c] \in Answered => amount'[c] = amount[c] /\ seen'[c] = seen[c]
  BY DEF Quiet, FindExisting, FindNone, RefuseKey, AskCharge, ChargeTimesOut, CheckRequest, CheckCompensation,
     ReadPayment, ReadFails, Begin, Write, InsertRejected, AppendOutbox, CommitCharge, End, locals,
     Answered
<1>5. ~IsCharge(c) /\ pc'[c] = "read" => seen'[c] = refunded[c.order]
  BY DEF Quiet, FindExisting, FindNone, RefuseKey, AskCharge, ChargeTimesOut, CheckRequest, CheckCompensation,
     ReadPayment, ReadFails, Begin, Write, InsertRejected, AppendOutbox, CommitCharge, End, Goto,
     TypeOK
<1>6. \A o \in Orders : status'[o] = "REFUNDED" => status[o] = "REFUNDED"
  BY DEF Quiet, FindExisting, FindNone, RefuseKey, AskCharge, ChargeTimesOut, CheckRequest, CheckCompensation,
     ReadPayment, ReadFails, Begin, Write, InsertRejected, AppendOutbox, CommitCharge, End, tables,
     TypeOK
<1>7. RefundInv'
  <2> SUFFICES ASSUME NEW d \in Calls, ~IsCharge(d)
               PROVE  /\ pc'[d] \in Answered => amount'[d] \in 1 .. Amount
                      /\ pc'[d] \in Answered \cup {"read"} => seen'[d] <= ledger'[d.order]
    BY DEF RefundInv, IsCharge
  <2>1. CASE d # c
    BY <1>1, <1>2, <2>1 DEF RefundInv
  <2>2. CASE d = c
    BY <1>1, <1>3, <1>4, <1>5, <2>2, CallFields DEF RefundInv, SumInv
  <2> QED BY <2>1, <2>2
<1>8. SumInv'
  BY <1>1, <1>2, <1>3, <1>4, <1>6, CalmStays, SumFrame
<1> QED BY <1>7, <1>8

(* The sums are integers. *)
LEMMA SumType ==
    ASSUME TypeOK, NEW o \in Orders
    PROVE  /\ refunded[o] \in Int /\ ledger[o] \in Int /\ paidBack[o] \in Int /\ Amount \in Nat
           /\ Cardinality(Units(o)) \in Nat /\ Cardinality(Units(o)') \in Nat
  BY UnitsType, UnitSet, PaymentAssumption DEF TypeOK

LEMMA AskRefundStep ==
    ASSUME TypeOK, RefundInv, SumInv, NEW c \in Calls, AskRefund(c)
    PROVE  RefundInv' /\ SumInv'
<1>1. /\ ~IsCharge(c) /\ pc[c] = "read" /\ c.order \in Orders
      /\ UNCHANGED <<status, refunded, ledger, amount, seen, faults>>
  BY CallFields DEF AskRefund, tables
<1>2. CASE ~Refundable(c)
  <2>1. pc' = [pc EXCEPT ![c] = "failed"] /\ paidBack' = paidBack
    BY <1>2 DEF AskRefund, Goto
  <2>2. \A d \in Calls : pc'[d] = pc[d] \/ (d = c /\ pc'[d] = "failed")
    BY <2>1 DEF TypeOK
  <2>3. RefundInv'
    BY <1>1, <2>2 DEF RefundInv, Answered, IsCharge
  <2>4. SumInv'
    BY <1>1, <2>1, <2>2, SumFrame DEF Answered, Calm
  <2> QED BY <2>3, <2>4
<1>3. CASE Refundable(c)
  <2>1. /\ pc' = [pc EXCEPT ![c] = "answered"] /\ paidBack' = [paidBack EXCEPT ![c.order] = @ + amount[c]]
        /\ amount[c] > 0 /\ paidBack[c.order] + amount[c] <= Amount
    BY <1>3 DEF AskRefund, Goto, PayBack, Refundable
  <2>2. amount[c] \in 1 .. Amount
    <3>1. amount[c] \in Int
      BY DEF TypeOK
    <3>2. 0 <= paidBack[c.order]
      BY <1>1, SumType DEF SumInv
    <3> QED BY <1>1, <2>1, <3>1, <3>2, SumType
  <2>3. \A d \in Calls : pc'[d] = IF d = c THEN "answered" ELSE pc[d]
    BY <2>1 DEF TypeOK
  <2>4. RefundInv'
    BY <1>1, <2>2, <2>3 DEF RefundInv, Answered, IsCharge
  <2>5. ASSUME NEW o \in Orders, o # c.order PROVE Units(o)' = Units(o)
    <3>1. RefundsInFlight(o)' = RefundsInFlight(o)
      BY <2>3, <2>5 DEF RefundsInFlight, IsCharge
    <3> QED BY <1>1, <3>1 DEF Units
  <2>6. Cardinality(Units(c.order)') = Cardinality(Units(c.order)) + amount[c]
    <3>1. c \notin RefundsInFlight(c.order) /\ RefundsInFlight(c.order)' = RefundsInFlight(c.order) \cup {c}
      BY <1>1, <2>3 DEF RefundsInFlight, IsCharge
    <3>2. Units(c.order)' = Units(c.order) \cup UnitsOf(c)
      BY <1>1, <2>2, <3>1, PaymentAssumption DEF Units, UnitsOf
    <3>3. Units(c.order) \cap UnitsOf(c) = {}
      BY <3>1 DEF Units, UnitsOf
    <3> QED BY <2>2, <3>2, <3>3, UnitsType, OneMoreRefund
  <2>7. ASSUME NEW o \in Orders
        PROVE  /\ 0 <= ledger'[o] /\ refunded'[o] <= ledger'[o]
               /\ ledger'[o] + Cardinality(Units(o)') <= paidBack'[o]
               /\ paidBack'[o] <= Amount
               /\ status'[o] = "REFUNDED" => paidBack'[o] = Amount
               /\ Calm' => ledger'[o] + Cardinality(Units(o)') = paidBack'[o]
    <3>1. Calm' => Calm
      BY <1>1 DEF Calm
    <3>2. CASE o # c.order
      <4>1. paidBack'[o] = paidBack[o]
        BY <2>1, <3>2 DEF TypeOK
      <4> QED BY <1>1, <2>5, <3>1, <3>2, <4>1 DEF SumInv
    <3>3. CASE o = c.order
      <4>1. paidBack'[o] = paidBack[o] + amount[c] /\ amount[c] \in Int
        BY <1>1, <2>1, <3>3 DEF TypeOK
      <4>2. status[o] # "REFUNDED"
        BY <2>1, <3>3, <4>1, SumType DEF SumInv
      <4> QED BY <1>1, <2>1, <2>6, <3>1, <3>3, <4>1, <4>2, SumType DEF SumInv
    <3> QED BY <3>2, <3>3
  <2>8. SumInv'
    BY <2>7 DEF SumInv
  <2> QED BY <2>4, <2>8
<1> QED BY <1>2, <1>3

LEMMA RefundLostStep ==
    ASSUME TypeOK, RefundInv, SumInv, [Next]_payVars, NEW c \in Calls, RefundTimesOut(c)
    PROVE  RefundInv' /\ SumInv'
<1>1. /\ ~IsCharge(c) /\ pc[c] = "read" /\ c.order \in Orders /\ pc' = [pc EXCEPT ![c] = "failed"]
      /\ UNCHANGED <<status, refunded, ledger, amount, seen>>
  BY CallFields DEF RefundTimesOut, tables, locals, Goto
<1>2. \A d \in Calls : pc'[d] = pc[d] \/ (d = c /\ pc'[d] = "failed")
  BY <1>1 DEF TypeOK
<1>3. RefundInv'
  BY <1>1, <1>2 DEF RefundInv, Answered, IsCharge
<1>4. ~Calm'
  BY CalmStays DEF Disturb
<1>5. \A o \in Orders : Units(o)' = Units(o)
  BY <1>1, <1>2, SameUnits DEF Answered
<1>6. ASSUME NEW o \in Orders
      PROVE  /\ paidBack'[o] \in Int /\ paidBack[o] <= paidBack'[o] /\ paidBack'[o] <= Amount
             /\ status'[o] = "REFUNDED" => paidBack'[o] = Amount
  <2>1. paidBack[o] \in Int /\ amount[c] \in Int /\ paidBack[o] <= Amount
    BY DEF TypeOK, SumInv
  <2>2. status[o] = "REFUNDED" => paidBack[o] = Amount
    BY DEF SumInv
  <2>3. CASE paidBack' = paidBack
    BY <1>1, <2>1, <2>2, <2>3
  <2>4. CASE Refundable(c) /\ PayBack(c)
    <3>1. /\ amount[c] > 0 /\ paidBack[c.order] + amount[c] <= Amount
          /\ paidBack'[o] = IF o = c.order THEN paidBack[o] + amount[c] ELSE paidBack[o]
      BY <2>4 DEF Refundable, PayBack, TypeOK
    <3> QED BY <1>1, <2>1, <2>2, <3>1, SumType
  <2> QED BY <2>3, <2>4 DEF RefundTimesOut
<1>7. SumInv'
  BY <1>1, <1>4, <1>5, <1>6, SumType DEF SumInv
<1> QED BY <1>3, <1>7

(* A refund that ends without its entry leaves the provider ahead. *)
LEMMA RefundDroppedStep ==
    ASSUME TypeOK, RefundInv, SumInv, [Next]_payVars, NEW c \in Calls, TransactionFails(c) \/ Dies(c)
    PROVE  RefundInv' /\ SumInv'
<1>1. UNCHANGED <<status, refunded, ledger, paidBack, amount, seen>>
  BY DEF TransactionFails, Dies, tables, provider, locals
<1>2. \A d \in Calls : pc'[d] = pc[d] \/ pc'[d] \in {"failed", "dead"}
  BY DEF TransactionFails, Dies, Goto, TypeOK
<1>3. RefundInv'
  BY <1>1, <1>2 DEF RefundInv, Answered, IsCharge
<1>4. ~Calm'
  BY CalmStays DEF Disturb
<1>5. ASSUME NEW o \in Orders PROVE Cardinality(Units(o)') <= Cardinality(Units(o))
  <2>1. RefundsInFlight(o)' \subseteq RefundsInFlight(o)
    BY <1>2 DEF RefundsInFlight, IsCharge
  <2>2. Units(o)' \subseteq Units(o)
    BY <1>1, <2>1 DEF Units
  <2>3. IsFiniteSet(Units(o))
    BY UnitsType, UnitSet
  <2> QED BY <2>2, <2>3, FS_Subset
<1>6. SumInv'
  BY <1>1, <1>4, <1>5, SumType DEF SumInv
<1> QED BY <1>3, <1>6

LEMMA CommitRefundStep ==
    ASSUME TypeOK, RefundInv, SumInv, NEW c \in Calls, CommitRefund(c)
    PROVE  RefundInv' /\ SumInv'
<1> DEFINE total == seen[c] + amount[c]
<1>1. /\ ~IsCharge(c) /\ pc[c] = "announced" /\ c.order \in Orders
      /\ pc' = [pc EXCEPT ![c] = "done"]
      /\ UNCHANGED <<paidBack, amount, seen, faults>>
  BY CallFields DEF CommitRefund, MayCommit, provider, locals, Goto
<1>2. \A o \in Orders :
          /\ refunded'[o] = IF o = c.order THEN total ELSE refunded[o]
          /\ ledger'[o] = IF o = c.order THEN ledger[o] + amount[c] ELSE ledger[o]
          /\ o # c.order => status'[o] = status[o]
  BY DEF CommitRefund, TypeOK
<1>3. status'[c.order] = "REFUNDED" => total >= Amount
  BY <1>1 DEF CommitRefund, TypeOK
<1>4. amount[c] \in 1 .. Amount /\ seen[c] <= ledger[c.order] /\ seen[c] \in Int
  BY <1>1 DEF RefundInv, Answered, TypeOK
<1>5. amount[c] \in Nat /\ amount[c] > 0
  BY <1>4
<1>6. \A d \in Calls : pc'[d] = IF d = c THEN "done" ELSE pc[d]
  BY <1>1 DEF TypeOK
<1>7. RefundInv'
  <2> SUFFICES ASSUME NEW d \in Calls, ~IsCharge(d)
               PROVE  /\ pc'[d] \in Answered => amount'[d] \in 1 .. Amount
                      /\ pc'[d] \in Answered \cup {"read"} => seen'[d] <= ledger'[d.order]
    BY DEF RefundInv, IsCharge
  <2>1. d.order \in Orders /\ ledger[d.order] \in Int /\ seen[d] \in Int
    BY CallFields DEF TypeOK
  <2>2. ledger[d.order] <= ledger'[d.order] /\ ledger'[d.order] \in Int
    BY <1>2, <1>5, <2>1
  <2> QED BY <1>1, <1>6, <2>1, <2>2 DEF RefundInv, Answered
<1>8. ASSUME NEW o \in Orders, o # c.order PROVE Units(o)' = Units(o)
  <2>1. RefundsInFlight(o)' = RefundsInFlight(o)
    BY <1>6, <1>8 DEF RefundsInFlight, IsCharge
  <2> QED BY <1>1, <2>1 DEF Units
<1>9. Cardinality(Units(c.order)) = Cardinality(Units(c.order)') + amount[c]
  <2>1. /\ c \notin RefundsInFlight(c.order)'
        /\ RefundsInFlight(c.order) = RefundsInFlight(c.order)' \cup {c}
    BY <1>1, <1>6 DEF RefundsInFlight, IsCharge
  <2>2. Units(c.order) = Units(c.order)' \cup UnitsOf(c)
    BY <1>1, <1>4, <2>1, PaymentAssumption DEF Units, UnitsOf
  <2>3. Units(c.order)' \cap UnitsOf(c) = {}
    BY <2>1 DEF Units, UnitsOf
  <2> QED BY <1>4, <2>2, <2>3, UnitsType, OneMoreRefund
<1>10. ASSUME NEW o \in Orders
       PROVE  /\ 0 <= ledger'[o] /\ refunded'[o] <= ledger'[o]
              /\ ledger'[o] + Cardinality(Units(o)') <= paidBack'[o]
              /\ paidBack'[o] <= Amount
              /\ status'[o] = "REFUNDED" => paidBack'[o] = Amount
              /\ Calm' => ledger'[o] + Cardinality(Units(o)') = paidBack'[o]
  <2>1. Calm' => Calm
    BY <1>1 DEF Calm
  <2>2. CASE o # c.order
    BY <1>1, <1>2, <1>8, <2>1, <2>2 DEF SumInv
  <2>3. CASE o = c.order
    <3>1. /\ ledger'[o] = ledger[o] + amount[c] /\ refunded'[o] = total /\ paidBack'[o] = paidBack[o]
          /\ status'[o] = "REFUNDED" => total >= Amount
      BY <1>1, <1>2, <1>3, <2>3
    <3>2. ledger'[o] + Cardinality(Units(o)') = ledger[o] + Cardinality(Units(o))
      BY <1>5, <1>9, <2>3, <3>1, SumType
    <3> QED BY <1>4, <1>5, <2>1, <2>3, <3>1, <3>2, SumType DEF SumInv
  <2> QED BY <2>2, <2>3
<1>11. SumInv'
  BY <1>10 DEF SumInv
<1> QED BY <1>7, <1>11

(* Whatever overlaps and fails, neither the ledger nor refundedAmount       *)
(* exceeds what the provider paid back; and until something fails the       *)
(* ledger holds all of it as soon as no refund is on its way.               *)
THEOREM BooksNeverExceedProvider == Spec => []BooksWithinProvider
<1>1. Init => RefundInv /\ SumInv
  <2> SUFFICES ASSUME Init PROVE RefundInv /\ SumInv
    OBVIOUS
  <2>1. RefundInv
    BY DEF Init, RefundInv, IsCharge, Answered
  <2>2. ASSUME NEW o \in Orders PROVE Cardinality(Units(o)) = 0
    <3>1. RefundsInFlight(o) = {}
      BY DEF Init, RefundsInFlight, IsCharge
    <3>2. Units(o) = {}
      BY <3>1 DEF Units
    <3> QED BY <3>2, FS_EmptySet
  <2> QED BY <2>1, <2>2, PaymentAssumption DEF Init, SumInv, NoRow
<1>2. TypeOK /\ RefundInv /\ SumInv /\ [Next]_payVars => RefundInv' /\ SumInv'
  <2> SUFFICES ASSUME TypeOK, RefundInv, SumInv, [Next]_payVars PROVE RefundInv' /\ SumInv'
    OBVIOUS
  <2>1. CASE UNCHANGED payVars
    <3>1. RefundInv'
      BY <2>1 DEF payVars, RefundInv, IsCharge
    <3>2. SumInv'
      BY <2>1, SumFrame DEF payVars, Calm
    <3> QED BY <3>1, <3>2
  <2> QED
    BY <2>1, QuietStep, AskRefundStep, RefundLostStep, RefundDroppedStep, CommitRefundStep
       DEF Next, Charge, Refund, Record, Disturb, Quiet
<1>3. TypeOK /\ SumInv => BooksWithinProvider
  <2> SUFFICES ASSUME TypeOK, SumInv, NEW o \in Orders
               PROVE  /\ refunded[o] <= ledger[o] /\ ledger[o] <= paidBack[o]
                      /\ status[o] = "REFUNDED" => paidBack[o] = Amount
                      /\ Calm /\ RefundsInFlight(o) = {} => ledger[o] = paidBack[o]
    BY DEF BooksWithinProvider, Calm
  <2>1. RefundsInFlight(o) = {} => Cardinality(Units(o)) = 0
    <3>1. RefundsInFlight(o) = {} => Units(o) = {}
      BY DEF Units
    <3> QED BY <3>1, FS_EmptySet
  <2> QED BY <2>1, SumType DEF SumInv
<1> QED BY <1>1, <1>2, <1>3, TypeInit, TypeStep, PTL DEF Spec
=============================================================================
