---------------------- MODULE NotificationServiceProofs ----------------------
(* Theorems about NotificationService, for every set of events, consumers  *)
(* and groups, every number of deliveries and every number of faults.      *)
EXTENDS NotificationService, FiniteSetTheorems, TLAPS

Handling(h) == pc[h] \in {"accepted", "created"}

(* A consumer that handles an event has it in hand. *)
InHand == \A h \in Consumers : Handling(h) => next[h] < Len(log)

(* The partition of a group is assigned to a member of the group. *)
OwnersInGroup == \A g \in Groups : GroupOf[owner[g]] = g

(* An answer that says SENT is about a mail the server has taken. *)
AnswerIsMailed ==
    \A t \in Tasks, d \in Ids : Subject(t, d) /\ tasks[t].result = "SENT" => d \in mailed

(* The events that have a delivery, and who relies on it: the records of   *)
(* processed events, a consumer that has created one, and, as long as no   *)
(* statement has failed, every position beyond the event.                  *)
Delivered == {deliveries[d].event : d \in 1 .. Len(deliveries)}
DeliveredBefore(position) ==
    \A n \in 1 .. Len(log) : n <= position /\ Wanted(log[n]) => log[n] \in Delivered

HandledIsDelivered ==
    /\ processed \subseteq Delivered
    /\ \A h \in Consumers : pc[h] = "created" => Current(h) \in Delivered
    /\ faults["database"] = 0 =>
        /\ \A g \in Groups : DeliveredBefore(committed[g])
        /\ \A h \in Consumers : DeliveredBefore(next[h])

(* Who has found m new, and the groups whose owner is still handling it. *)
Accepted(m) == {h \in Consumers : pc[h] = "accepted" /\ Current(h) = m}
Occupied(m) == {g \in Groups : Handling(owner[g]) /\ Current(owner[g]) = m}

(* The deliveries of m and those under way: one per group at most, and one *)
(* for each fault; before m is recorded each is in an owner's hands or has *)
(* a fault to blame.                                                       *)
Accounted(m) ==
    LET made == Cardinality(Copies(m)) + Cardinality(Accepted(m)) IN
    /\ m \in processed => made <= Cardinality(Groups) + FaultsSoFar
    /\ m \notin processed => made <= Cardinality(Occupied(m)) + FaultsSoFar
CopiesAccounted == OwnersInGroup /\ \A m \in Messages : Accounted(m)

-----------------------------------------------------------------------------
(* Types *)

LEMMA GroupMember == \A h \in Consumers : GroupOf[h] \in Groups
  BY DEF Groups

LEMMA Appended ==
    ASSUME NEW S, NEW s \in Seq(S), NEW e \in S
    PROVE  /\ Append(s, e) \in Seq(S)
           /\ Len(Append(s, e)) = Len(s) + 1
           /\ \A i \in 1 .. Len(s) : Append(s, e)[i] = s[i]
           /\ Append(s, e)[Len(s) + 1] = e
  OBVIOUS

LEMMA EventInHand ==
    ASSUME GroupTypeOK, NEW h \in Consumers, next[h] < Len(log)
    PROVE  Offset(h) \in 1 .. Len(log) /\ Current(h) = log[Offset(h)] /\ Current(h) \in Messages
  BY DEF GroupTypeOK, Offset, Current

LEMMA FaultType ==
    ASSUME TypeOK, NEW kind \in NotificationFaults, Fault(kind)
    PROVE  faults' \in [NotificationFaults -> Nat]
  BY DEF TypeOK, Fault

LEMMA PassOverType ==
    ASSUME GroupTypeOK, NEW h \in Consumers, next[h] < Len(log), PassOver(h)
    PROVE  GroupTypeOK' /\ UNCHANGED log /\ next' = [next EXCEPT ![h] = @ + 1]
  BY DEF GroupTypeOK, PassOver

LEMMA GotoType ==
    ASSUME TypeOK, NEW h \in Consumers, NEW step \in {"idle", "accepted", "created", "down"},
           Goto(h, step)
    PROVE  /\ pc' \in [Consumers -> {"idle", "accepted", "created", "down"}]
           /\ pc' = [pc EXCEPT ![h] = step]
  BY DEF TypeOK, Goto

LEMMA NoTaskType == NoTask \in Task /\ NoTask.queue = {} /\ NoTask.result = "none"
<1>1. (CHOOSE h \in Consumers : TRUE) \in Consumers
  BY NotificationAssumption
<1> QED BY <1>1 DEF NoTask, Task

(* The tasks and the deliveries, apart from the consumers. *)
DispatchTypeOK ==
    /\ deliveries \in Seq(Delivery)
    /\ Len(deliveries) <= MaxDeliveries
    /\ aged \in 0 .. Len(deliveries)
    /\ tasks \in [Tasks -> Task]
    /\ \A t \in Tasks : tasks[t].queue \subseteq 1 .. Len(deliveries)
    /\ mailed \subseteq 1 .. Len(deliveries)

ConsumersTypeOK ==
    /\ GroupTypeOK
    /\ processed \subseteq Messages
    /\ pc \in [Consumers -> {"idle", "accepted", "created", "down"}]
    /\ InHand

TypeInv == ConsumersTypeOK /\ DispatchTypeOK /\ faults \in [NotificationFaults -> Nat]

LEMMA TypeInvIsType == TypeInv <=> TypeOK /\ InHand
  BY DEF TypeInv, TypeOK, ConsumersTypeOK, DispatchTypeOK

LEMMA NewDeliveryEffect ==
    ASSUME TypeInv, NEW h \in Consumers, NEW event \in Messages \cup {NoEvent},
           NEW email \in BOOLEAN, NewDelivery(h, event, email)
    PROVE  /\ deliveries' \in Seq(Delivery)
           /\ Len(deliveries) \in Nat
           /\ Len(deliveries') = Len(deliveries) + 1
           /\ Len(deliveries') <= MaxDeliveries
           /\ \A d \in 1 .. Len(deliveries) : deliveries'[d] = deliveries[d]
           /\ deliveries'[Len(deliveries')] =
                    [event |-> event, email |-> email, status |-> "PENDING"]
<1>1. [event |-> event, email |-> email, status |-> "PENDING"] \in Delivery
  BY DEF Delivery, NotificationStatus
<1>2. deliveries \in Seq(Delivery) /\ Len(deliveries) \in Nat /\ MaxDeliveries \in Nat
  BY NotificationAssumption DEF TypeInv, DispatchTypeOK
<1>3. deliveries' = Append(deliveries, [event |-> event, email |-> email, status |-> "PENDING"])
  BY DEF NewDelivery
<1>4. Len(deliveries) + 1 <= MaxDeliveries
  BY <1>2 DEF NewDelivery, Ids
<1> QED BY <1>1, <1>2, <1>3, <1>4, Appended

LEMMA NewDeliveryType ==
    ASSUME TypeInv, NEW h \in Consumers, NEW event \in Messages \cup {NoEvent},
           NEW email \in BOOLEAN, NewDelivery(h, event, email), UNCHANGED <<aged, mailed>>
    PROVE  DispatchTypeOK'
<1> DEFINE id == Len(deliveries) + 1
           task == [host |-> h, queue |-> {id}, result |-> "none"]
<1>1. /\ deliveries' \in Seq(Delivery)
      /\ Len(deliveries) \in Nat
      /\ Len(deliveries') = id
      /\ Len(deliveries') <= MaxDeliveries
  BY NewDeliveryEffect
<1>2. id \in Ids /\ tasks' = [tasks EXCEPT ![<<"first", id>>] = task]
  BY DEF NewDelivery
<1>3. task \in Task /\ <<"first", id>> \in Tasks
  BY <1>2 DEF Task, Tasks
<1>4. tasks \in [Tasks -> Task] /\ \A t \in Tasks : tasks[t].queue \subseteq 1 .. Len(deliveries)
  BY DEF TypeInv, DispatchTypeOK
<1>5. tasks' \in [Tasks -> Task]
  BY <1>2, <1>3, <1>4
<1>6. \A t \in Tasks : tasks'[t].queue \subseteq 1 .. Len(deliveries')
  BY <1>1, <1>2, <1>3, <1>4
<1>7. aged' \in 0 .. Len(deliveries') /\ mailed' \subseteq 1 .. Len(deliveries')
  BY <1>1 DEF TypeInv, DispatchTypeOK
<1> QED BY <1>1, <1>5, <1>6, <1>7 DEF DispatchTypeOK

LEMMA AnsweredType ==
    ASSUME TypeInv, NEW t \in Tasks, NEW accepted \in BOOLEAN, Answered(t, accepted)
    PROVE  /\ tasks' \in [Tasks -> Task]
           /\ \A u \in Tasks : tasks'[u].queue = tasks[u].queue
           /\ \A u \in Tasks : u # t => tasks'[u] = tasks[u]
           /\ tasks'[t].result = Verdict(t, accepted)
<1>1. Verdict(t, accepted) \in {"none", "SENT", "FAILED"}
  BY DEF Verdict
<1>2. tasks \in [Tasks -> Task] /\ tasks' = [tasks EXCEPT ![t].result = Verdict(t, accepted)]
  BY DEF TypeInv, DispatchTypeOK, Answered
<1> QED BY <1>1, <1>2 DEF Task

-----------------------------------------------------------------------------
(* What the background does leaves the consumers alone, and of a delivery  *)
(* changes no more than the status.                                        *)

Background ==
    \/ \E t \in Tasks : DispatchOne(t) \/ DispatchFails(t)
    \/ \E c \in Retries, h \in Consumers : Retry(c, h)
    \/ Age

LEMMA NextCases ==
    ASSUME Next
    PROVE  \/ \E m \in Messages : Publish(m)
           \/ \E h \in Consumers :
                \/ SkipEvent(h) \/ Accept(h) \/ CreateDelivery(h) \/ MarkProcessed(h)
                \/ StatementFails(h) \/ LookupFails(h)
                \/ CommitOffset(h) \/ Rebalance(h) \/ Crash(h) \/ Restart(h)
                \/ \E email \in BOOLEAN : CreateNotification(h, email)
           \/ Background
  BY DEF Next, Process, ProcessFails, Group, Background

SameEvents ==
    /\ Len(deliveries') = Len(deliveries)
    /\ \A d \in 1 .. Len(deliveries) : deliveries'[d].event = deliveries[d].event

FaultsRise ==
    /\ faults' \in [NotificationFaults -> Nat]
    /\ \A f \in {"crash", "database", "stall"} : faults[f] <= faults'[f]

LEMMA SubjectIsDelivery ==
    ASSUME TypeInv, NEW t \in Tasks, NEW d \in tasks[t].queue
    PROVE  d \in 1 .. Len(deliveries) /\ d \in Ids /\ d \in Nat
  BY NotificationAssumption DEF TypeInv, DispatchTypeOK, Ids

LEMMA FaultsCanRise ==
    ASSUME TypeInv, NEW kind \in NotificationFaults, Fault(kind)
    PROVE  FaultsRise /\ faults'[kind] = faults[kind] + 1
           /\ \A f \in NotificationFaults : f # kind => faults'[f] = faults[f]
  BY DEF TypeInv, Fault, FaultsRise, NotificationFaults

LEMMA FaultsStay ==
    ASSUME TypeInv, UNCHANGED faults
    PROVE  FaultsRise
  BY DEF TypeInv, FaultsRise, NotificationFaults

LEMMA BackgroundStep ==
    TypeInv /\ Background =>
        /\ UNCHANGED <<groupVars, pc, processed>>
        /\ DispatchTypeOK' /\ SameEvents /\ FaultsRise
<1> SUFFICES ASSUME TypeInv, Background
             PROVE  /\ UNCHANGED <<groupVars, pc, processed>>
                    /\ DispatchTypeOK' /\ SameEvents /\ FaultsRise
  OBVIOUS
<1>0. DispatchTypeOK /\ Len(deliveries) \in Nat
  BY DEF TypeInv, DispatchTypeOK
<1>kinds. {"refusal", "lostAnswer", "database"} \subseteq NotificationFaults
  BY DEF NotificationFaults
<1>1. ASSUME NEW t \in Tasks, NEW d \in tasks[t].queue,
             Send(t, d) \/ RefuseKind(t, d) \/ SendRefused(t, d) \/ AnswerLost(t, d)
      PROVE  /\ UNCHANGED <<groupVars, pc, processed>>
             /\ DispatchTypeOK' /\ SameEvents /\ FaultsRise
  <2>1. PICK accepted \in BOOLEAN : Answered(t, accepted)
    BY <1>1 DEF Send, RefuseKind, SendRefused, AnswerLost
  <2>2. /\ UNCHANGED <<groupVars, deliveries, aged, pc, processed>>
        /\ mailed' \subseteq mailed \cup {d}
    BY <1>1 DEF Send, RefuseKind, SendRefused, AnswerLost
  <2>3. d \in 1 .. Len(deliveries)
    BY SubjectIsDelivery
  <2>4. /\ tasks' \in [Tasks -> Task]
        /\ \A u \in Tasks : tasks'[u].queue = tasks[u].queue
    BY <2>1, AnsweredType
  <2>5. DispatchTypeOK'
    BY <1>0, <2>2, <2>3, <2>4 DEF DispatchTypeOK
  <2>6. FaultsRise
    BY <1>1, <1>kinds, FaultsStay, FaultsCanRise DEF Send, RefuseKind, SendRefused, AnswerLost
  <2> QED BY <2>2, <2>5, <2>6 DEF SameEvents
<1>2. ASSUME NEW t \in Tasks, NEW d \in tasks[t].queue, SaveOutcome(t, d)
      PROVE  /\ UNCHANGED <<groupVars, pc, processed>>
             /\ DispatchTypeOK' /\ SameEvents /\ FaultsRise
  <2>1. d \in 1 .. Len(deliveries)
    BY SubjectIsDelivery
  <2>2. /\ deliveries' = [deliveries EXCEPT ![d].status = tasks[t].result]
        /\ tasks' = [tasks EXCEPT ![t].queue = @ \ {d}, ![t].result = "none"]
        /\ UNCHANGED <<groupVars, aged, pc, processed, mailed, faults>>
    BY <1>2 DEF SaveOutcome
  <2>3. tasks[t].result \in NotificationStatus
    BY <1>0, <1>2 DEF DispatchTypeOK, SaveOutcome, Has, Task, NotificationStatus
  <2>4. /\ deliveries' \in Seq(Delivery)
        /\ SameEvents
    <3>1. deliveries[d] \in Delivery
      BY <1>0, <2>1 DEF DispatchTypeOK
    <3>2. /\ [deliveries[d] EXCEPT !.status = tasks[t].result] \in Delivery
          /\ [deliveries[d] EXCEPT !.status = tasks[t].result].event = deliveries[d].event
      BY <2>3, <3>1 DEF Delivery
    <3>3. deliveries' = [deliveries EXCEPT ![d] = [deliveries[d] EXCEPT !.status = tasks[t].result]]
      BY <2>2
    <3>4. deliveries' \in Seq(Delivery) /\ Len(deliveries') = Len(deliveries)
      BY <1>0, <2>1, <3>2, <3>3 DEF DispatchTypeOK
    <3>5. \A e \in 1 .. Len(deliveries) : deliveries'[e].event = deliveries[e].event
      BY <1>0, <2>1, <3>2, <3>3 DEF DispatchTypeOK
    <3> QED BY <3>4, <3>5 DEF SameEvents
  <2>5. /\ tasks' \in [Tasks -> Task]
        /\ \A u \in Tasks : tasks'[u].queue \subseteq tasks[u].queue
    BY <1>0, <2>2 DEF DispatchTypeOK, Task
  <2>6. DispatchTypeOK'
    BY <1>0, <2>2, <2>4, <2>5 DEF DispatchTypeOK, SameEvents
  <2> QED BY <2>2, <2>4, <2>6, FaultsStay
<1>3. ASSUME NEW t \in Tasks, NEW d \in tasks[t].queue, SaveFails(t, d)
      PROVE  /\ UNCHANGED <<groupVars, pc, processed>>
             /\ DispatchTypeOK' /\ SameEvents /\ FaultsRise
  <2>1. /\ tasks' = [tasks EXCEPT ![t] = NoTask]
        /\ UNCHANGED <<groupVars, deliveries, aged, pc, processed, mailed>>
    BY <1>3 DEF SaveFails
  <2>2. DispatchTypeOK'
    BY <1>0, <2>1, NoTaskType DEF DispatchTypeOK
  <2>3. FaultsRise
    BY <1>3, <1>kinds, FaultsCanRise DEF SaveFails
  <2> QED BY <2>1, <2>2, <2>3 DEF SameEvents
<1>4. ASSUME NEW c \in Retries, NEW h \in Consumers, Retry(c, h)
      PROVE  /\ UNCHANGED <<groupVars, pc, processed>>
             /\ DispatchTypeOK' /\ SameEvents /\ FaultsRise
  <2> DEFINE t == <<"retry", c>>
             task == [host |-> h, queue |-> Stale, result |-> "none"]
  <2>1. /\ tasks' = [tasks EXCEPT ![t] = task]
        /\ UNCHANGED <<groupVars, deliveries, aged, pc, processed, mailed, faults>>
    BY <1>4 DEF Retry
  <2>2. Stale \subseteq 1 .. Len(deliveries)
    BY DEF Stale, OldestPending, Pending
  <2>3. Stale \subseteq Ids
    BY <1>0, <2>2, NotificationAssumption DEF Ids, DispatchTypeOK
  <2>4. t \in Tasks /\ task \in Task
    BY <2>3 DEF Tasks, Task
  <2>5. DispatchTypeOK'
    BY <1>0, <2>1, <2>2, <2>4 DEF DispatchTypeOK
  <2> QED BY <2>1, <2>5, FaultsStay DEF SameEvents
<1>5. ASSUME Age
      PROVE  /\ UNCHANGED <<groupVars, pc, processed>>
             /\ DispatchTypeOK' /\ SameEvents /\ FaultsRise
  <2>1. /\ aged < Len(deliveries) /\ aged' = aged + 1
        /\ UNCHANGED <<groupVars, deliveries, pc, processed, tasks, mailed, faults>>
    BY <1>5 DEF Age
  <2>2. DispatchTypeOK'
    BY <1>0, <2>1 DEF DispatchTypeOK
  <2> QED BY <2>1, <2>2, FaultsStay DEF SameEvents
<1> QED BY <1>1, <1>2, <1>3, <1>4, <1>5 DEF Background, DispatchOne, DispatchFails

-----------------------------------------------------------------------------
LEMMA TypeInit == Init => TypeInv
<1> SUFFICES ASSUME Init PROVE TypeInv
  OBVIOUS
<1>1. GroupTypeOK /\ processed = {} /\ pc = [h \in Consumers |-> "idle"]
  BY DEF Init, GroupInit, GroupTypeOK
<1>2. ConsumersTypeOK
  BY <1>1 DEF ConsumersTypeOK, InHand, Handling
<1>3. tasks \in [Tasks -> Task] /\ \A t \in Tasks : tasks[t].queue = {}
  BY NoTaskType DEF Init
<1>4. DispatchTypeOK
  BY <1>3, NotificationAssumption DEF Init, DispatchTypeOK
<1>5. faults \in [NotificationFaults -> Nat]
  BY DEF Init
<1> QED BY <1>2, <1>4, <1>5 DEF TypeInv

(* A consumer that returns from its handler has passed over its event.     *)
LEMMA ReturnType ==
    ASSUME TypeInv, NEW h \in Consumers, next[h] < Len(log), PassOver(h),
           pc' = [pc EXCEPT ![h] = "idle"], processed' \subseteq Messages
    PROVE  ConsumersTypeOK'
<1>1. GroupTypeOK' /\ UNCHANGED log /\ next' = [next EXCEPT ![h] = @ + 1]
  BY PassOverType DEF TypeInv, ConsumersTypeOK
<1>2. pc' \in [Consumers -> {"idle", "accepted", "created", "down"}]
  BY DEF TypeInv, ConsumersTypeOK
<1>3. InHand'
  BY <1>1 DEF TypeInv, ConsumersTypeOK, GroupTypeOK, InHand, Handling
<1> QED BY <1>1, <1>2, <1>3 DEF ConsumersTypeOK

LEMMA TypeStep == TypeInv /\ [Next]_notificationVars => TypeInv'
<1> SUFFICES ASSUME TypeInv, [Next]_notificationVars PROVE TypeInv'
  OBVIOUS
<1>0. GroupTypeOK /\ Len(log) \in Nat /\ InHand
      /\ processed \subseteq Messages /\ pc \in [Consumers -> {"idle", "accepted", "created", "down"}]
  BY DEF TypeInv, ConsumersTypeOK, GroupTypeOK
<1>kinds. {"crash", "database", "rebalance", "stall"} \subseteq NotificationFaults
  BY DEF NotificationFaults
<1>same. ASSUME UNCHANGED <<deliveries, aged, tasks, mailed>> PROVE DispatchTypeOK'
  BY <1>same DEF TypeInv, DispatchTypeOK
<1>1. ASSUME NEW m \in Messages, Publish(m) PROVE TypeInv'
  <2>1. /\ log' = Append(log, m)
        /\ UNCHANGED <<owner, committed, next, deliveries, aged, processed, pc, tasks, mailed, faults>>
    BY <1>1 DEF Publish, AppendMessage
  <2>2. log' \in Seq(Messages) /\ Len(log') = Len(log) + 1
    BY <2>1, <1>0, Appended DEF GroupTypeOK
  <2>3. GroupTypeOK'
    BY <1>0, <2>1, <2>2 DEF GroupTypeOK
  <2>4. InHand'
    BY <1>0, <2>1, <2>2 DEF InHand, Handling, GroupTypeOK
  <2> QED BY <1>0, <1>same, <2>1, <2>3, <2>4, FaultsStay DEF TypeInv, ConsumersTypeOK, FaultsRise
<1>2. ASSUME NEW h \in Consumers, SkipEvent(h) PROVE TypeInv'
  <2>1. /\ next[h] < Len(log) /\ pc[h] = "idle" /\ PassOver(h)
        /\ UNCHANGED <<deliveries, aged, processed, pc, tasks, mailed, faults>>
    BY <1>2 DEF SkipEvent, Deliverable, HasNext
  <2>2. pc' = [pc EXCEPT ![h] = "idle"]
    BY <1>0, <2>1
  <2>3. ConsumersTypeOK'
    BY <1>0, <2>1, <2>2, ReturnType
  <2> QED BY <1>same, <2>1, <2>3 DEF TypeInv
<1>3. ASSUME NEW h \in Consumers, Accept(h) PROVE TypeInv'
  <2>1. /\ next[h] < Len(log) /\ Goto(h, "accepted")
        /\ UNCHANGED <<log, owner, committed, next, deliveries, aged, processed, tasks, mailed, faults>>
    BY <1>3 DEF Accept, Deliverable, HasNext, groupVars
  <2>2. /\ pc' \in [Consumers -> {"idle", "accepted", "created", "down"}]
        /\ pc' = [pc EXCEPT ![h] = "accepted"]
    BY <2>1, GotoType, TypeInvIsType
  <2>3. InHand'
    BY <1>0, <2>1, <2>2 DEF InHand, Handling
  <2> QED BY <1>0, <1>same, <2>1, <2>2, <2>3 DEF TypeInv, ConsumersTypeOK, GroupTypeOK
<1>4. ASSUME NEW h \in Consumers, CreateDelivery(h) PROVE TypeInv'
  <2>1. /\ next[h] < Len(log) /\ Goto(h, "created") /\ NewDelivery(h, Current(h), TRUE)
        /\ UNCHANGED <<log, owner, committed, next, aged, processed, mailed, faults>>
    BY <1>0, <1>4 DEF CreateDelivery, InHand, Handling, groupVars
  <2>2. /\ pc' \in [Consumers -> {"idle", "accepted", "created", "down"}]
        /\ pc' = [pc EXCEPT ![h] = "created"]
    BY <2>1, GotoType, TypeInvIsType
  <2>3. InHand'
    BY <1>0, <2>1, <2>2 DEF InHand, Handling
  <2>4. Current(h) \in Messages \cup {NoEvent}
    BY <1>0, <2>1, EventInHand
  <2>5. DispatchTypeOK'
    BY <2>1, <2>4, NewDeliveryType
  <2> QED BY <1>0, <2>1, <2>2, <2>3, <2>5 DEF TypeInv, ConsumersTypeOK, GroupTypeOK
<1>5. ASSUME NEW h \in Consumers, MarkProcessed(h) PROVE TypeInv'
  <2>1. /\ next[h] < Len(log) /\ Goto(h, "idle") /\ PassOver(h)
        /\ processed' = processed \cup {Current(h)}
        /\ UNCHANGED <<deliveries, aged, tasks, mailed, faults>>
    BY <1>0, <1>5 DEF MarkProcessed, Saved, InHand, Handling
  <2>2. pc' = [pc EXCEPT ![h] = "idle"] /\ processed' \subseteq Messages
    BY <1>0, <2>1, GotoType, TypeInvIsType, EventInHand
  <2>3. ConsumersTypeOK'
    BY <2>1, <2>2, ReturnType
  <2> QED BY <1>same, <2>1, <2>3 DEF TypeInv
<1>6. ASSUME NEW h \in Consumers, StatementFails(h) PROVE TypeInv'
  <2>1. /\ next[h] < Len(log) /\ Goto(h, "idle") /\ PassOver(h) /\ Fault("database")
        /\ UNCHANGED <<deliveries, aged, processed, tasks, mailed>>
    BY <1>0, <1>6 DEF StatementFails, InHand, Handling
  <2>2. pc' = [pc EXCEPT ![h] = "idle"] /\ processed' \subseteq Messages
    BY <1>0, <2>1, GotoType, TypeInvIsType
  <2>3. ConsumersTypeOK'
    BY <2>1, <2>2, ReturnType
  <2> QED BY <1>same, <1>kinds, <2>1, <2>3, FaultType, TypeInvIsType DEF TypeInv
<1>7. ASSUME NEW h \in Consumers, LookupFails(h) PROVE TypeInv'
  <2>1. /\ next[h] < Len(log) /\ pc[h] = "idle" /\ Fault("database")
        /\ PassOver(h) \/ UNCHANGED <<log, owner, committed, next>>
        /\ UNCHANGED <<deliveries, aged, processed, pc, tasks, mailed>>
    BY <1>7 DEF LookupFails, Deliverable, HasNext, groupVars
  <2>2. pc' = [pc EXCEPT ![h] = "idle"]
    BY <1>0, <2>1
  <2>3. CASE PassOver(h)
    <3>1. ConsumersTypeOK'
      BY <1>0, <2>1, <2>2, <2>3, ReturnType
    <3> QED BY <1>same, <1>kinds, <2>1, <3>1, FaultType, TypeInvIsType DEF TypeInv
  <2>4. CASE UNCHANGED <<log, owner, committed, next>>
    <3>1. ConsumersTypeOK'
      BY <1>0, <2>1, <2>4 DEF TypeInv, ConsumersTypeOK, GroupTypeOK, InHand, Handling
    <3> QED BY <1>same, <1>kinds, <2>1, <3>1, FaultType, TypeInvIsType DEF TypeInv
  <2> QED BY <2>1, <2>3, <2>4
<1>8. ASSUME NEW h \in Consumers, CommitOffset(h) PROVE TypeInv'
  <2>1. /\ committed' = [committed EXCEPT ![GroupOf[h]] = next[h]]
        /\ UNCHANGED <<log, owner, next, deliveries, aged, processed, pc, tasks, mailed, faults>>
    BY <1>8 DEF CommitOffset, Commit
  <2>2. GroupTypeOK'
    BY <1>0, <2>1, GroupMember DEF GroupTypeOK
  <2>3. ConsumersTypeOK'
    BY <1>0, <2>1, <2>2 DEF ConsumersTypeOK, InHand, Handling
  <2> QED BY <1>same, <2>1, <2>3 DEF TypeInv
<1>9. ASSUME NEW h \in Consumers, Rebalance(h) PROVE TypeInv'
  <2>1. /\ pc[h] = "idle" /\ Assign(h)
        /\ UNCHANGED <<log, committed, deliveries, aged, processed, pc, tasks, mailed>>
    BY <1>9 DEF Rebalance, Assign
  <2>2. UNCHANGED faults \/ Fault("rebalance") \/ Fault("stall")
    BY <1>9 DEF Rebalance
  <2>3. /\ owner' = [owner EXCEPT ![GroupOf[h]] = h]
        /\ next' = [next EXCEPT ![h] = committed[GroupOf[h]]]
    BY <2>1 DEF Assign
  <2>4. GroupTypeOK'
    BY <1>0, <2>1, <2>3, GroupMember DEF GroupTypeOK
  <2>5. InHand'
    BY <1>0, <2>1, <2>3 DEF InHand, Handling, GroupTypeOK
  <2>6. faults' \in [NotificationFaults -> Nat]
    BY <1>kinds, <2>2, FaultType, TypeInvIsType DEF TypeInv
  <2> QED BY <1>0, <1>same, <2>1, <2>4, <2>5, <2>6 DEF TypeInv, ConsumersTypeOK
<1>10. ASSUME NEW h \in Consumers, Crash(h) PROVE TypeInv'
  <2>1. /\ Goto(h, "down") /\ Fault("crash")
        /\ tasks' = [t \in Tasks |-> IF tasks[t].host = h THEN NoTask ELSE tasks[t]]
        /\ UNCHANGED <<log, owner, committed, next, deliveries, aged, processed, mailed>>
    BY <1>10 DEF Crash, groupVars
  <2>2. /\ pc' \in [Consumers -> {"idle", "accepted", "created", "down"}]
        /\ pc' = [pc EXCEPT ![h] = "down"]
    BY <2>1, GotoType, TypeInvIsType
  <2>3. ConsumersTypeOK'
    BY <1>0, <2>1, <2>2 DEF ConsumersTypeOK, GroupTypeOK, InHand, Handling
  <2>4. tasks \in [Tasks -> Task] /\ \A t \in Tasks : tasks[t].queue \subseteq 1 .. Len(deliveries)
    BY DEF TypeInv, DispatchTypeOK
  <2>5. tasks' \in [Tasks -> Task] /\ \A t \in Tasks : tasks'[t].queue \subseteq 1 .. Len(deliveries')
    BY <2>1, <2>4, NoTaskType
  <2>6. DispatchTypeOK'
    BY <2>1, <2>5 DEF TypeInv, DispatchTypeOK
  <2> QED BY <1>kinds, <2>1, <2>3, <2>6, FaultType, TypeInvIsType DEF TypeInv
<1>11. ASSUME NEW h \in Consumers, Restart(h) PROVE TypeInv'
  <2>1. /\ Goto(h, "idle") /\ next' = [next EXCEPT ![h] = committed[GroupOf[h]]]
        /\ UNCHANGED <<log, owner, committed, deliveries, aged, processed, tasks, mailed, faults>>
    BY <1>11 DEF Restart, Rejoin
  <2>2. /\ pc' \in [Consumers -> {"idle", "accepted", "created", "down"}]
        /\ pc' = [pc EXCEPT ![h] = "idle"]
    BY <2>1, GotoType, TypeInvIsType
  <2>3. GroupTypeOK'
    BY <1>0, <2>1, GroupMember DEF GroupTypeOK
  <2>4. InHand'
    BY <1>0, <2>1, <2>2 DEF InHand, Handling, GroupTypeOK
  <2> QED BY <1>0, <1>same, <2>1, <2>2, <2>3, <2>4 DEF TypeInv, ConsumersTypeOK
<1>12. ASSUME NEW h \in Consumers, NEW email \in BOOLEAN, CreateNotification(h, email)
       PROVE  TypeInv'
  <2>1. /\ NewDelivery(h, NoEvent, email)
        /\ UNCHANGED <<log, owner, committed, next, aged, processed, pc, mailed, faults>>
    BY <1>12 DEF CreateNotification, groupVars
  <2>2. DispatchTypeOK'
    BY <2>1, NewDeliveryType
  <2> QED BY <1>0, <2>1, <2>2 DEF TypeInv, ConsumersTypeOK, GroupTypeOK, InHand, Handling
<1>13. ASSUME Background PROVE TypeInv'
  <2>1. /\ UNCHANGED <<log, owner, committed, next, pc, processed>>
        /\ DispatchTypeOK' /\ FaultsRise
    BY <1>13, BackgroundStep DEF groupVars
  <2> QED BY <1>0, <2>1 DEF TypeInv, ConsumersTypeOK, GroupTypeOK, InHand, Handling, FaultsRise
<1>14. CASE UNCHANGED notificationVars
  BY <1>0, <1>14, <1>same DEF notificationVars, TypeInv, ConsumersTypeOK, GroupTypeOK, InHand, Handling
<1> QED BY <1>1, <1>2, <1>3, <1>4, <1>5, <1>6, <1>7, <1>8, <1>9, <1>10, <1>11, <1>12, <1>13,
           <1>14, NextCases

LEMMA TypeInvariant == Spec => []TypeInv
<1>1. Init => TypeInv
  BY TypeInit
<1>2. TypeInv /\ [Next]_notificationVars => TypeInv'
  BY TypeStep
<1> QED BY <1>1, <1>2, PTL DEF Spec

(* Every record, position, task and delivery is of its kind, whatever the  *)
(* consumers and the dispatches do (TypeOK).                               *)
THEOREM NotificationTypes == Spec => []TypeOK
<1>1. TypeInv => TypeOK
  BY TypeInvIsType
<1> QED BY <1>1, TypeInvariant, PTL

-----------------------------------------------------------------------------
(* What is SENT has been mailed *)

SentInv == SentIsMailed /\ AnswerIsMailed

LEMMA SentInit == Init => SentInv
  BY NoTaskType DEF Init, SentInv, SentIsMailed, AnswerIsMailed, Subject

LEMMA NewDeliverySent ==
    ASSUME TypeInv, SentInv, NEW h \in Consumers, NEW event \in Messages \cup {NoEvent},
           NEW email \in BOOLEAN, NewDelivery(h, event, email), UNCHANGED mailed
    PROVE  SentInv'
<1>1. /\ Len(deliveries) \in Nat
      /\ Len(deliveries') = Len(deliveries) + 1
      /\ \A d \in 1 .. Len(deliveries) : deliveries'[d] = deliveries[d]
      /\ deliveries'[Len(deliveries')] =
            [event |-> event, email |-> email, status |-> "PENDING"]
  BY NewDeliveryEffect
<1>2. SentIsMailed'
  <2>1. deliveries'[Len(deliveries')].status = "PENDING"
    BY <1>1
  <2> QED BY <1>1, <2>1 DEF SentInv, SentIsMailed
<1>3. /\ tasks \in [Tasks -> Task]
      /\ tasks' = [tasks EXCEPT ![<<"first", Len(deliveries) + 1>>] =
                        [host |-> h, queue |-> {Len(deliveries) + 1}, result |-> "none"]]
  BY DEF TypeInv, DispatchTypeOK, NewDelivery
<1>4. \A t \in Tasks : tasks'[t] = tasks[t] \/ tasks'[t].result = "none"
  BY <1>3
<1>5. AnswerIsMailed'
  BY <1>4 DEF SentInv, AnswerIsMailed, Subject
<1> QED BY <1>2, <1>5 DEF SentInv

LEMMA SentStep == TypeInv /\ SentInv /\ [Next]_notificationVars => SentInv'
<1> SUFFICES ASSUME TypeInv, SentInv, [Next]_notificationVars PROVE SentInv'
  OBVIOUS
<1>0. DispatchTypeOK /\ tasks \in [Tasks -> Task]
  BY DEF TypeInv, DispatchTypeOK
<1>same. ASSUME UNCHANGED <<deliveries, tasks, mailed>> PROVE SentInv'
  BY <1>same DEF SentInv, SentIsMailed, AnswerIsMailed, Subject
<1>1. ASSUME NEW h \in Consumers, CreateDelivery(h) PROVE SentInv'
  <2>1. next[h] < Len(log) /\ NewDelivery(h, Current(h), TRUE) /\ UNCHANGED mailed
    BY <1>1 DEF CreateDelivery, TypeInv, ConsumersTypeOK, InHand, Handling
  <2>2. Current(h) \in Messages \cup {NoEvent}
    BY <2>1, EventInHand DEF TypeInv, ConsumersTypeOK
  <2> QED BY <2>1, <2>2, NewDeliverySent
<1>2. ASSUME NEW h \in Consumers, NEW email \in BOOLEAN, CreateNotification(h, email)
      PROVE  SentInv'
  BY <1>2, NewDeliverySent DEF CreateNotification
<1>3. ASSUME NEW h \in Consumers, Crash(h) PROVE SentInv'
  <2>1. \A t \in Tasks : tasks'[t] = tasks[t] \/ tasks'[t].result = "none"
    BY <1>3, NoTaskType DEF Crash
  <2>2. UNCHANGED <<deliveries, mailed>>
    BY <1>3 DEF Crash
  <2> QED BY <2>1, <2>2 DEF SentInv, SentIsMailed, AnswerIsMailed, Subject
<1>4. ASSUME NEW c \in Retries, NEW h \in Consumers, Retry(c, h) PROVE SentInv'
  <2>1. \A t \in Tasks : tasks'[t] = tasks[t] \/ tasks'[t].result = "none"
    BY <1>4, <1>0 DEF Retry
  <2>2. UNCHANGED <<deliveries, mailed>>
    BY <1>4 DEF Retry
  <2> QED BY <2>1, <2>2 DEF SentInv, SentIsMailed, AnswerIsMailed, Subject
(* The subject of a task is one delivery, and SENT is said of a mail taken. *)
<1>5. ASSUME NEW t \in Tasks, NEW d \in tasks[t].queue,
             Send(t, d) \/ RefuseKind(t, d) \/ SendRefused(t, d) \/ AnswerLost(t, d)
      PROVE  SentInv'
  <2>1. PICK accepted \in BOOLEAN :
            /\ Answered(t, accepted)
            /\ accepted => d \in mailed'
    BY <1>5 DEF Send, RefuseKind, SendRefused, AnswerLost
  <2>2. /\ UNCHANGED deliveries /\ mailed \subseteq mailed'
        /\ Subject(t, d)
    BY <1>5 DEF Send, RefuseKind, SendRefused, AnswerLost, Ask
  <2>3. /\ \A u \in Tasks : tasks'[u].queue = tasks[u].queue
        /\ \A u \in Tasks : u # t => tasks'[u] = tasks[u]
        /\ tasks'[t].result = Verdict(t, accepted)
    BY <2>1, AnsweredType
  <2>4. tasks'[t].result = "SENT" => d \in mailed'
    BY <2>1, <2>3 DEF Verdict
  <2>5. ASSUME NEW e \in Ids, Subject(t, e)' PROVE e = d
    BY <2>2, <2>3, <2>5, SubjectIsDelivery DEF Subject, Ids
  <2>6. AnswerIsMailed'
    BY <2>2, <2>3, <2>4, <2>5 DEF SentInv, AnswerIsMailed, Subject
  <2>7. SentIsMailed'
    BY <2>2 DEF SentInv, SentIsMailed
  <2> QED BY <2>6, <2>7 DEF SentInv
<1>6. ASSUME NEW t \in Tasks, NEW d \in tasks[t].queue, SaveOutcome(t, d)
      PROVE  SentInv'
  <2>1. /\ deliveries' = [deliveries EXCEPT ![d].status = tasks[t].result]
        /\ tasks' = [tasks EXCEPT ![t].queue = @ \ {d}, ![t].result = "none"]
        /\ UNCHANGED mailed
        /\ Subject(t, d)
    BY <1>6 DEF SaveOutcome, Has
  <2>2. d \in Ids /\ d \in 1 .. Len(deliveries) /\ deliveries \in Seq(Delivery)
    BY <1>0, SubjectIsDelivery DEF DispatchTypeOK
  <2>3. tasks[t].result = "SENT" => d \in mailed
    BY <2>1, <2>2 DEF SentInv, AnswerIsMailed
  <2>4. /\ Len(deliveries') = Len(deliveries)
        /\ \A e \in 1 .. Len(deliveries) : e # d => deliveries'[e] = deliveries[e]
    BY <2>1, <2>2
  <2>5. deliveries[d] \in Delivery /\ deliveries'[d] = [deliveries[d] EXCEPT !.status = tasks[t].result]
    BY <2>1, <2>2
  <2>6. deliveries'[d].status = tasks[t].result
    BY <2>5 DEF Delivery
  <2>7. SentIsMailed'
    BY <2>1, <2>3, <2>4, <2>6 DEF SentInv, SentIsMailed
  <2>8. tasks[t] \in Task /\ tasks'[t] = [tasks[t] EXCEPT !.queue = @ \ {d}, !.result = "none"]
    BY <1>0, <2>1
  <2>9. tasks'[t].result = "none" /\ \A u \in Tasks : u # t => tasks'[u] = tasks[u]
    BY <1>0, <2>1, <2>8 DEF Task
  <2>10. AnswerIsMailed'
    BY <2>1, <2>9 DEF SentInv, AnswerIsMailed, Subject
  <2> QED BY <2>7, <2>10 DEF SentInv
<1>7. ASSUME NEW t \in Tasks, NEW d \in tasks[t].queue, SaveFails(t, d)
      PROVE  SentInv'
  <2>1. \A u \in Tasks : tasks'[u] = tasks[u] \/ tasks'[u].result = "none"
    BY <1>7, <1>0, NoTaskType DEF SaveFails
  <2>2. UNCHANGED <<deliveries, mailed>>
    BY <1>7 DEF SaveFails
  <2> QED BY <2>1, <2>2 DEF SentInv, SentIsMailed, AnswerIsMailed, Subject
<1>8. CASE Background
  BY <1>8, <1>4, <1>5, <1>6, <1>7, <1>same DEF Background, DispatchOne, DispatchFails, Age
<1>9. ASSUME NEW m \in Messages, Publish(m) PROVE SentInv'
  BY <1>9, <1>same DEF Publish
<1>10. ASSUME NEW h \in Consumers,
              \/ SkipEvent(h) \/ Accept(h) \/ MarkProcessed(h) \/ StatementFails(h)
              \/ LookupFails(h) \/ CommitOffset(h) \/ Rebalance(h) \/ Restart(h)
       PROVE  SentInv'
  BY <1>10, <1>same DEF SkipEvent, Accept, MarkProcessed, StatementFails, LookupFails,
                        CommitOffset, Rebalance, Restart
<1>11. CASE UNCHANGED notificationVars
  BY <1>11, <1>same DEF notificationVars
<1> QED BY <1>1, <1>2, <1>3, <1>8, <1>9, <1>10, <1>11, NextCases

(* A delivery that reads SENT was taken by the SMTP server, also where     *)
(* dispatches of the same delivery overlap on several replicas (SaveOutcome *)
(* writes what its own dispatch was told).                                 *)
THEOREM SentWasMailed == Spec => []SentIsMailed
<1>1. Init => SentInv
  BY SentInit
<1>2. TypeInv /\ SentInv /\ [Next]_notificationVars => SentInv'
  BY SentStep
<1>3. SentInv => SentIsMailed
  BY DEF SentInv
<1> QED BY <1>1, <1>2, <1>3, TypeInvariant, PTL DEF Spec

-----------------------------------------------------------------------------
(* What is handled has been delivered *)

LEMMA DeliveredIs == \A m : HasDelivery(m) <=> m \in Delivered
  BY DEF HasDelivery, Delivered

LEMMA DeliveredStays == SameEvents => Delivered' = Delivered
  BY DEF SameEvents, Delivered

LEMMA DeliveredGrows ==
    ASSUME TypeInv, NEW h \in Consumers, NEW event \in Messages \cup {NoEvent},
           NEW email \in BOOLEAN, NewDelivery(h, event, email)
    PROVE  Delivered' = Delivered \cup {event}
<1>1. /\ Len(deliveries) \in Nat
      /\ Len(deliveries') = Len(deliveries) + 1
      /\ \A d \in 1 .. Len(deliveries) : deliveries'[d] = deliveries[d]
      /\ deliveries'[Len(deliveries')] =
            [event |-> event, email |-> email, status |-> "PENDING"]
  BY NewDeliveryEffect
<1>2. deliveries'[Len(deliveries')].event = event
  BY <1>1
<1> QED BY <1>1, <1>2 DEF Delivered

LEMMA HandledInit == Init => HandledIsDelivered
<1> SUFFICES ASSUME Init PROVE HandledIsDelivered
  OBVIOUS
<1>1. log = <<>> /\ processed = {} /\ pc = [h \in Consumers |-> "idle"]
  BY DEF Init, GroupInit
<1> QED BY <1>1 DEF HandledIsDelivered, DeliveredBefore

(* The consumers stand still: nothing relies on more than before.          *)
LEMMA ConsumersStand ==
    ASSUME HandledIsDelivered, FaultsRise, TypeInv, Delivered \subseteq Delivered',
           UNCHANGED <<log, committed, next, pc, processed>>
    PROVE  HandledIsDelivered'
<1>1. faults'["database"] = 0 => faults["database"] = 0
  BY DEF FaultsRise, TypeInv, NotificationFaults
<1>2. \A n \in 1 .. Len(log) : log'[n] = log[n]
  OBVIOUS
<1> QED BY <1>1, <1>2 DEF HandledIsDelivered, DeliveredBefore, Offset, Current

(* A consumer passes over an event that needs no delivery or has one.      *)
LEMMA PassedIsDelivered ==
    ASSUME TypeInv, HandledIsDelivered, NEW h \in Consumers, next[h] < Len(log), PassOver(h),
           pc' = [pc EXCEPT ![h] = "idle"], UNCHANGED <<deliveries, faults>>,
           processed' \subseteq Delivered,
           Wanted(Current(h)) => Current(h) \in Delivered
    PROVE  HandledIsDelivered'
<1>1. /\ next' = [next EXCEPT ![h] = @ + 1] /\ UNCHANGED <<log, owner, committed>>
      /\ Delivered' = Delivered
  BY DEF PassOver, Delivered
<1>2. /\ log \in Seq(Messages) /\ next \in [Consumers -> 0 .. Len(log)]
      /\ pc \in [Consumers -> {"idle", "accepted", "created", "down"}]
  BY DEF TypeInv, ConsumersTypeOK, GroupTypeOK
<1>3. \A c \in Consumers : pc'[c] = "created" => Current(c)' \in Delivered'
  BY <1>1, <1>2 DEF HandledIsDelivered, Current, Offset
<1>4. faults["database"] = 0 => \A c \in Consumers : DeliveredBefore(next[c])'
  <2> SUFFICES ASSUME faults["database"] = 0, NEW c \in Consumers
               PROVE  DeliveredBefore(next[c])'
    OBVIOUS
  <2>1. DeliveredBefore(next[c]) /\ DeliveredBefore(next[h])
    BY DEF HandledIsDelivered
  <2>2. CASE c # h
    BY <1>1, <1>2, <2>1, <2>2 DEF DeliveredBefore
  <2>3. CASE c = h
    <3>1. next'[c] = Offset(h) /\ Offset(h) = next[h] + 1 /\ next[h] \in Nat
      BY <1>1, <1>2, <2>3 DEF Offset
    <3>2. \A n \in 1 .. Len(log) : n <= next'[c] => n <= next[h] \/ n = Offset(h)
      BY <3>1
    <3> QED BY <1>1, <2>1, <3>2 DEF DeliveredBefore, Current
  <2> QED BY <2>2, <2>3
<1>5. faults["database"] = 0 => \A g \in Groups : DeliveredBefore(committed[g])'
  BY <1>1 DEF HandledIsDelivered, DeliveredBefore
<1> QED BY <1>1, <1>3, <1>4, <1>5 DEF HandledIsDelivered

LEMMA HandledStep ==
    TypeInv /\ HandledIsDelivered /\ [Next]_notificationVars => HandledIsDelivered'
<1> SUFFICES ASSUME TypeInv, HandledIsDelivered, [Next]_notificationVars
             PROVE  HandledIsDelivered'
  OBVIOUS
<1>0. /\ GroupTypeOK /\ InHand /\ processed \subseteq Messages
      /\ log \in Seq(Messages) /\ next \in [Consumers -> 0 .. Len(log)]
      /\ committed \in [Groups -> 0 .. Len(log)]
      /\ pc \in [Consumers -> {"idle", "accepted", "created", "down"}]
  BY DEF TypeInv, ConsumersTypeOK, GroupTypeOK
<1>db. "database" \in NotificationFaults /\ faults["database"] \in Nat
  BY DEF NotificationFaults, TypeInv
<1>failed. ASSUME Fault("database") PROVE faults'["database"] # 0
  BY <1>failed, <1>db, FaultsCanRise
<1>same. ASSUME UNCHANGED deliveries PROVE Delivered' = Delivered
  BY <1>same DEF Delivered
<1>1. ASSUME NEW m \in Messages, Publish(m) PROVE HandledIsDelivered'
  <2>1. /\ log' = Append(log, m)
        /\ UNCHANGED <<owner, committed, next, deliveries, processed, pc, faults>>
    BY <1>1 DEF Publish, AppendMessage
  <2>2. Len(log') = Len(log) + 1 /\ \A n \in 1 .. Len(log) : log'[n] = log[n]
    BY <1>0, <2>1, Appended
  <2>3. \A p \in 0 .. Len(log) : DeliveredBefore(p) =>
            \A n \in 1 .. Len(log') : n <= p /\ Wanted(log'[n]) => log'[n] \in Delivered'
    BY <1>0, <1>same, <2>1, <2>2 DEF DeliveredBefore
  <2>4. faults'["database"] = 0 =>
            /\ \A g \in Groups : DeliveredBefore(committed[g])'
            /\ \A h \in Consumers : DeliveredBefore(next[h])'
    BY <1>0, <2>1, <2>3 DEF HandledIsDelivered, DeliveredBefore
  <2>5. \A h \in Consumers : pc[h] = "created" => Current(h)' = Current(h)
    BY <1>0, <2>1, <2>2 DEF InHand, Handling, Current, Offset
  <2> QED BY <1>same, <2>1, <2>4, <2>5 DEF HandledIsDelivered
<1>2. ASSUME NEW h \in Consumers, SkipEvent(h) PROVE HandledIsDelivered'
  <2>1. /\ next[h] < Len(log) /\ pc[h] = "idle" /\ PassOver(h)
        /\ UNCHANGED <<deliveries, processed, pc, faults>>
        /\ Wanted(Current(h)) => Current(h) \in processed
    BY <1>2 DEF SkipEvent, Deliverable, HasNext, IsNew
  <2>2. pc' = [pc EXCEPT ![h] = "idle"]
    BY <1>0, <2>1
  <2>3. processed \subseteq Delivered
    BY DEF HandledIsDelivered
  <2> QED BY <2>1, <2>2, <2>3, PassedIsDelivered
<1>3. ASSUME NEW h \in Consumers, Accept(h) PROVE HandledIsDelivered'
  <2>1. /\ pc' = [pc EXCEPT ![h] = "accepted"]
        /\ UNCHANGED <<log, committed, next, deliveries, processed, faults>>
    BY <1>3 DEF Accept, Goto, groupVars
  <2> QED BY <1>0, <1>same, <2>1 DEF HandledIsDelivered, DeliveredBefore, Current, Offset
<1>4. ASSUME NEW h \in Consumers, CreateDelivery(h) PROVE HandledIsDelivered'
  <2>1. /\ next[h] < Len(log) /\ NewDelivery(h, Current(h), TRUE)
        /\ pc' = [pc EXCEPT ![h] = "created"]
        /\ UNCHANGED <<log, committed, next, processed, faults>>
    BY <1>0, <1>4 DEF CreateDelivery, Goto, InHand, Handling, groupVars
  <2>2. Current(h) \in Messages \cup {NoEvent}
    BY <1>0, <2>1, EventInHand
  <2>3. Delivered' = Delivered \cup {Current(h)}
    BY <2>1, <2>2, DeliveredGrows
  <2> QED BY <1>0, <2>1, <2>3 DEF HandledIsDelivered, DeliveredBefore, Current, Offset
<1>5. ASSUME NEW h \in Consumers, MarkProcessed(h) PROVE HandledIsDelivered'
  <2>1. /\ next[h] < Len(log) /\ pc[h] = "created" /\ PassOver(h)
        /\ pc' = [pc EXCEPT ![h] = "idle"]
        /\ processed' = processed \cup {Current(h)}
        /\ UNCHANGED <<deliveries, faults>>
    BY <1>0, <1>5 DEF MarkProcessed, Saved, Goto, InHand, Handling
  <2>2. Current(h) \in Delivered /\ processed \subseteq Delivered
    BY <2>1 DEF HandledIsDelivered
  <2> QED BY <2>1, <2>2, PassedIsDelivered
<1>6. ASSUME NEW h \in Consumers, StatementFails(h) \/ LookupFails(h)
      PROVE  HandledIsDelivered'
  <2>1. /\ pc' = pc \/ pc' = [pc EXCEPT ![h] = "idle"]
        /\ next' = next \/ (next' = [next EXCEPT ![h] = @ + 1] /\ pc'[h] # "created")
        /\ UNCHANGED <<log, deliveries, processed>> /\ Fault("database")
    BY <1>0, <1>6 DEF StatementFails, LookupFails, Deliverable, Goto, PassOver, groupVars
  <2>2. \A c \in Consumers : pc'[c] = "created" => pc[c] = "created" /\ next'[c] = next[c]
    BY <1>0, <2>1
  <2> QED BY <1>failed, <1>same, <2>1, <2>2 DEF HandledIsDelivered, Current, Offset
<1>7. ASSUME NEW h \in Consumers, CommitOffset(h) PROVE HandledIsDelivered'
  <2>1. /\ committed' = [committed EXCEPT ![GroupOf[h]] = next[h]]
        /\ UNCHANGED <<log, next, deliveries, processed, pc, faults>>
    BY <1>7 DEF CommitOffset, Commit
  <2>2. \A g \in Groups : committed'[g] = committed[g] \/ committed'[g] = next[h]
    BY <1>0, <2>1
  <2>3. faults["database"] = 0 => \A g \in Groups : DeliveredBefore(committed'[g])
    BY <2>2 DEF HandledIsDelivered
  <2>4. faults["database"] = 0 => \A g \in Groups : DeliveredBefore(committed[g])'
    BY <1>same, <2>1, <2>3 DEF DeliveredBefore
  <2> QED BY <1>same, <2>1, <2>4 DEF HandledIsDelivered, DeliveredBefore, Current, Offset
(* h reads on at the committed offset: after a rebalance, after a crash.   *)
<1>8. ASSUME NEW h \in Consumers, Rebalance(h) \/ Restart(h) PROVE HandledIsDelivered'
  <2>1. /\ next' = [next EXCEPT ![h] = committed[GroupOf[h]]]
        /\ pc' = [pc EXCEPT ![h] = "idle"]
        /\ UNCHANGED <<log, committed, deliveries, processed>>
    BY <1>0, <1>8 DEF Rebalance, Restart, Assign, Rejoin, Goto
  <2>2. UNCHANGED faults \/ Fault("rebalance") \/ Fault("stall")
    BY <1>8 DEF Rebalance, Restart
  <2>3. FaultsRise
    BY <2>2, FaultsStay, FaultsCanRise DEF NotificationFaults
  <2>4. faults'["database"] = 0 => faults["database"] = 0
    BY <1>db, <2>3 DEF FaultsRise, NotificationFaults
  <2>5. \A c \in Consumers : next'[c] = next[c] \/ next'[c] = committed[GroupOf[h]]
    BY <1>0, <2>1
  <2>6. faults'["database"] = 0 => \A c \in Consumers : DeliveredBefore(next'[c])
    BY <2>4, <2>5, GroupMember DEF HandledIsDelivered
  <2>7. faults'["database"] = 0 => \A c \in Consumers : DeliveredBefore(next[c])'
    BY <1>same, <2>1, <2>6 DEF DeliveredBefore
  <2>8. faults'["database"] = 0 => \A g \in Groups : DeliveredBefore(committed[g])'
    BY <1>same, <2>1, <2>4 DEF HandledIsDelivered, DeliveredBefore
  <2>9. \A c \in Consumers : pc'[c] = "created" => pc[c] = "created" /\ next'[c] = next[c]
    BY <1>0, <2>1
  <2>10. \A c \in Consumers : pc'[c] = "created" => Current(c)' \in Delivered'
    BY <1>same, <2>1, <2>9 DEF HandledIsDelivered, Current, Offset
  <2> QED BY <1>same, <2>1, <2>7, <2>8, <2>10 DEF HandledIsDelivered
<1>9. ASSUME NEW h \in Consumers, Crash(h) PROVE HandledIsDelivered'
  <2>1. /\ pc' = [pc EXCEPT ![h] = "down"]
        /\ UNCHANGED <<log, committed, next, deliveries, processed>> /\ Fault("crash")
    BY <1>9 DEF Crash, Goto, groupVars
  <2>2. faults'["database"] = 0 => faults["database"] = 0
    BY <1>db, <2>1, FaultsCanRise DEF FaultsRise, NotificationFaults
  <2> QED BY <1>0, <1>same, <2>1, <2>2 DEF HandledIsDelivered, DeliveredBefore, Current, Offset
<1>10. ASSUME NEW h \in Consumers, NEW email \in BOOLEAN, CreateNotification(h, email)
       PROVE  HandledIsDelivered'
  <2>1. /\ NewDelivery(h, NoEvent, email)
        /\ UNCHANGED <<log, committed, next, processed, pc, faults>>
    BY <1>10 DEF CreateNotification, groupVars
  <2>2. Delivered \subseteq Delivered'
    BY <2>1, DeliveredGrows
  <2> QED BY <2>1, <2>2, FaultsStay, ConsumersStand
<1>11. CASE Background
  <2>1. UNCHANGED <<log, committed, next, pc, processed>> /\ SameEvents /\ FaultsRise
    BY <1>11, BackgroundStep DEF groupVars
  <2> QED BY <2>1, DeliveredStays, ConsumersStand
<1>12. CASE UNCHANGED notificationVars
  BY <1>12, <1>same, FaultsStay, ConsumersStand DEF notificationVars
<1> QED BY <1>1, <1>2, <1>3, <1>4, <1>5, <1>6, <1>7, <1>8, <1>9, <1>10, <1>11, <1>12, NextCases

(* What counts as handled has its delivery: an event that is recorded as   *)
(* processed always, and an event below a committed offset as long as no   *)
(* statement has failed (process saves first, and records last).           *)
THEOREM HandledWasDelivered == Spec => []HandledHasDelivery
<1>1. Init => HandledIsDelivered
  BY HandledInit
<1>2. TypeInv /\ HandledIsDelivered /\ [Next]_notificationVars => HandledIsDelivered'
  BY HandledStep
<1>3. HandledIsDelivered => HandledHasDelivery
  BY DeliveredIs DEF HandledIsDelivered, HandledHasDelivery, DeliveredBefore
<1> QED BY <1>1, <1>2, <1>3, TypeInvariant, PTL DEF Spec

-----------------------------------------------------------------------------
(* The number of deliveries of an event *)

LEMMA GroupsFinite == IsFiniteSet(Groups) /\ Cardinality(Groups) \in Nat
<1>1. GroupOf \in [Consumers -> Groups] /\ IsFiniteSet(Consumers)
  BY NotificationAssumption
<1>2. \A g \in Groups : \E h \in Consumers : GroupOf[h] = g
  BY DEF Groups
<1>3. GroupOf \in Surjection(Consumers, Groups)
  BY <1>1, <1>2 DEF Surjection
<1>4. IsFiniteSet(Groups)
  BY <1>1, <1>3, FS_Surjection
<1> QED BY <1>4, FS_CardinalityType

LEMMA CountsFinite ==
    ASSUME TypeInv, NEW m
    PROVE  /\ IsFiniteSet(Copies(m)) /\ Cardinality(Copies(m)) \in Nat
           /\ IsFiniteSet(Accepted(m)) /\ Cardinality(Accepted(m)) \in Nat
           /\ IsFiniteSet(Occupied(m)) /\ Cardinality(Occupied(m)) \in Nat
           /\ Cardinality(Occupied(m)) <= Cardinality(Groups)
           /\ FaultsSoFar \in Nat
<1>1. Len(deliveries) \in Nat
  BY DEF TypeInv, DispatchTypeOK
<1>2. IsFiniteSet(1 .. Len(deliveries))
  BY <1>1, FS_Interval
<1>3. Copies(m) \in SUBSET (1 .. Len(deliveries))
  BY DEF Copies
<1>4. Accepted(m) \in SUBSET Consumers
  BY DEF Accepted
<1>5. Occupied(m) \in SUBSET Groups
  BY DEF Occupied
<1>6. IsFiniteSet(Copies(m))
  BY <1>2, <1>3, FS_Subset
<1>7. IsFiniteSet(Accepted(m))
  BY <1>4, FS_Subset, NotificationAssumption
<1>8. IsFiniteSet(Occupied(m)) /\ Cardinality(Occupied(m)) <= Cardinality(Groups)
  BY <1>5, FS_Subset, GroupsFinite
<1>9. FaultsSoFar \in Nat
  BY DEF FaultsSoFar, TypeInv, NotificationFaults
<1> QED BY <1>6, <1>7, <1>8, <1>9, FS_CardinalityType

LEMMA FaultsAdd ==
    ASSUME TypeInv, FaultsRise
    PROVE  /\ FaultsSoFar \in Nat /\ FaultsSoFar' \in Nat /\ FaultsSoFar <= FaultsSoFar'
  BY DEF FaultsSoFar, FaultsRise, TypeInv, NotificationFaults

LEMMA FaultAdds ==
    ASSUME TypeInv, NEW kind \in {"crash", "database", "stall"}, Fault(kind)
    PROVE  FaultsSoFar \in Nat /\ FaultsSoFar' = FaultsSoFar + 1
<1>1. kind \in NotificationFaults
  BY DEF NotificationFaults
<1>2. /\ faults'[kind] = faults[kind] + 1
      /\ \A f \in NotificationFaults : f # kind => faults'[f] = faults[f]
  BY <1>1, FaultsCanRise
<1>3. faults["crash"] \in Nat /\ faults["database"] \in Nat /\ faults["stall"] \in Nat
  BY DEF TypeInv, NotificationFaults
<1>4. CASE kind = "crash"
  BY <1>2, <1>3, <1>4 DEF FaultsSoFar, NotificationFaults
<1>5. CASE kind = "database"
  BY <1>2, <1>3, <1>5 DEF FaultsSoFar, NotificationFaults
<1>6. CASE kind = "stall"
  BY <1>2, <1>3, <1>6 DEF FaultsSoFar, NotificationFaults
<1> QED BY <1>4, <1>5, <1>6

LEMMA CopiesStay ==
    ASSUME SameEvents \/ UNCHANGED deliveries, NEW m
    PROVE  Copies(m)' = Copies(m)
  BY DEF SameEvents, Copies

LEMMA CopiesGrow ==
    ASSUME TypeInv, NEW h \in Consumers, NEW event \in Messages \cup {NoEvent},
           NEW email \in BOOLEAN, NewDelivery(h, event, email), NEW m
    PROVE  /\ event # m => Copies(m)' = Copies(m)
           /\ event = m => /\ Copies(m)' = Copies(m) \cup {Len(deliveries) + 1}
                           /\ Len(deliveries) + 1 \notin Copies(m)
<1>1. /\ Len(deliveries) \in Nat
      /\ Len(deliveries') = Len(deliveries) + 1
      /\ \A d \in 1 .. Len(deliveries) : deliveries'[d] = deliveries[d]
      /\ deliveries'[Len(deliveries')] =
            [event |-> event, email |-> email, status |-> "PENDING"]
  BY NewDeliveryEffect
<1>2. deliveries'[Len(deliveries) + 1].event = event
  BY <1>1
<1> QED BY <1>1, <1>2 DEF Copies

(* A step that makes no delivery, finds nothing new and frees no group.    *)
LEMMA Steady ==
    ASSUME TypeInv, FaultsRise, NEW m, Accounted(m), Copies(m)' = Copies(m),
           Accepted(m)' = Accepted(m), Occupied(m)' = Occupied(m), UNCHANGED processed
    PROVE  Accounted(m)'
<1>1. FaultsSoFar \in Nat /\ FaultsSoFar' \in Nat /\ FaultsSoFar <= FaultsSoFar'
  BY FaultsAdd
<1>2. /\ Cardinality(Copies(m)) \in Nat /\ Cardinality(Accepted(m)) \in Nat
      /\ Cardinality(Occupied(m)) \in Nat
  BY CountsFinite
<1>3. /\ Cardinality(Copies(m))' = Cardinality(Copies(m))
      /\ Cardinality(Accepted(m))' = Cardinality(Accepted(m))
      /\ Cardinality(Occupied(m))' = Cardinality(Occupied(m))
      /\ Cardinality(Groups) \in Nat
  BY GroupsFinite
<1> QED BY <1>1, <1>2, <1>3 DEF Accounted

(* A fault frees at most one group.                                        *)
LEMMA Blamed ==
    ASSUME TypeInv, NEW m, Accounted(m), Copies(m)' = Copies(m),
           Accepted(m)' \subseteq Accepted(m), NEW g, Occupied(m) \ {g} \subseteq Occupied(m)',
           UNCHANGED processed, FaultsSoFar' = FaultsSoFar + 1
    PROVE  Accounted(m)'
<1> DEFINE c == Cardinality(Copies(m))
           a == Cardinality(Accepted(m))
           o == Cardinality(Occupied(m))
           n == Cardinality(Accepted(m)')
           p == Cardinality(Occupied(m)')
<1>1. /\ c \in Nat /\ a \in Nat /\ o \in Nat /\ FaultsSoFar \in Nat
      /\ IsFiniteSet(Accepted(m)) /\ IsFiniteSet(Occupied(m))
  BY CountsFinite
<1>2. IsFiniteSet(Accepted(m)') /\ n <= a
  BY <1>1, FS_Subset
<1>3. n \in Nat
  BY <1>2, FS_CardinalityType
<1>4. Occupied(m)' \in SUBSET Groups
  BY DEF Occupied
<1>5. IsFiniteSet(Occupied(m)')
  BY <1>4, GroupsFinite, FS_Subset
<1>6. p \in Nat
  BY <1>5, FS_CardinalityType
<1>7. Cardinality(Occupied(m) \ {g}) <= p
  BY <1>5, FS_Subset
<1>8. Cardinality(Occupied(m) \ {g}) = IF g \in Occupied(m) THEN o - 1 ELSE o
  BY <1>1, FS_RemoveElement
<1>9. o <= p + 1
  BY <1>1, <1>6, <1>7, <1>8
<1>10. Cardinality(Copies(m))' = c /\ Cardinality(Accepted(m))' = n /\ Cardinality(Occupied(m))' = p
  OBVIOUS
<1>11. Cardinality(Groups) \in Nat
  BY GroupsFinite
<1>12. /\ m \in processed => c + a <= Cardinality(Groups) + FaultsSoFar
       /\ m \notin processed => c + a <= o + FaultsSoFar
  BY DEF Accounted
<1> HIDE DEF c, a, o, n, p
<1>13. m \in processed' => c + n <= Cardinality(Groups) + FaultsSoFar'
  BY <1>1, <1>2, <1>3, <1>11, <1>12
<1>14. m \notin processed' => c + n <= p + FaultsSoFar'
  BY <1>1, <1>2, <1>3, <1>6, <1>9, <1>12
<1> QED BY <1>10, <1>13, <1>14 DEF Accounted

LEMMA CopiesInit == Init => CopiesAccounted
<1> SUFFICES ASSUME Init PROVE CopiesAccounted
  OBVIOUS
<1>1. OwnersInGroup
  BY DEF Init, GroupInit, OwnersInGroup
<1>2. ASSUME NEW m \in Messages PROVE Accounted(m)
  <2>1. deliveries = <<>> /\ processed = {} /\ pc = [h \in Consumers |-> "idle"]
    BY DEF Init
  <2>2. Copies(m) = {} /\ Accepted(m) = {}
    BY <2>1 DEF Copies, Accepted
  <2>3. Cardinality(Copies(m)) = 0 /\ Cardinality(Accepted(m)) = 0
    BY <2>2, FS_EmptySet
  <2>4. Cardinality(Occupied(m)) \in Nat /\ FaultsSoFar \in Nat
    BY TypeInit, CountsFinite
  <2> QED BY <2>1, <2>3, <2>4 DEF Accounted
<1> QED BY <1>1, <1>2 DEF CopiesAccounted

(* h finds m new: one more under way, in the hands of its group's owner.   *)
LEMMA AcceptCounts ==
    ASSUME TypeInv, OwnersInGroup, NEW m \in Messages, Accounted(m),
           NEW h \in Consumers, Accept(h), Current(h) = m
    PROVE  Accounted(m)'
<1>1. /\ pc[h] = "idle" /\ owner[GroupOf[h]] = h /\ m \notin processed
      /\ pc' = [pc EXCEPT ![h] = "accepted"]
      /\ UNCHANGED <<log, owner, committed, next, deliveries, processed, faults>>
  BY DEF Accept, Deliverable, HasNext, IsNew, Goto, groupVars
<1>2. pc \in [Consumers -> {"idle", "accepted", "created", "down"}] /\ owner \in [Groups -> Consumers]
  BY DEF TypeInv, ConsumersTypeOK, GroupTypeOK
<1>3. Copies(m)' = Copies(m)
  BY <1>1, CopiesStay
<1>4. Accepted(m)' = Accepted(m) \cup {h} /\ h \notin Accepted(m)
  BY <1>1, <1>2 DEF Accepted, Current, Offset
<1>5. Occupied(m)' = Occupied(m) \cup {GroupOf[h]} /\ GroupOf[h] \notin Occupied(m)
  BY <1>1, <1>2, GroupMember DEF Occupied, Handling, Current, Offset, OwnersInGroup
<1>6. /\ IsFiniteSet(Accepted(m)) /\ IsFiniteSet(Occupied(m)) /\ FaultsSoFar \in Nat
      /\ Cardinality(Copies(m)) \in Nat /\ Cardinality(Accepted(m)) \in Nat
      /\ Cardinality(Occupied(m)) \in Nat
  BY CountsFinite
<1>7. Cardinality(Accepted(m)') = Cardinality(Accepted(m)) + 1
  BY <1>4, <1>6, FS_AddElement
<1>8. Cardinality(Occupied(m)') = Cardinality(Occupied(m)) + 1
  BY <1>5, <1>6, FS_AddElement
<1>9. FaultsSoFar' = FaultsSoFar
  BY <1>1 DEF FaultsSoFar
<1> QED BY <1>1, <1>3, <1>6, <1>7, <1>8, <1>9 DEF Accounted

(* What was under way has been made.                                       *)
LEMMA CreateCounts ==
    ASSUME TypeInv, NEW m \in Messages, Accounted(m),
           NEW h \in Consumers, CreateDelivery(h), Current(h) = m
    PROVE  Accounted(m)'
<1>1. /\ pc[h] = "accepted" /\ next[h] < Len(log) /\ NewDelivery(h, m, TRUE)
      /\ pc' = [pc EXCEPT ![h] = "created"]
      /\ UNCHANGED <<log, owner, committed, next, processed, faults>>
  BY DEF CreateDelivery, Goto, groupVars, TypeInv, ConsumersTypeOK, InHand, Handling
<1>2. pc \in [Consumers -> {"idle", "accepted", "created", "down"}]
  BY DEF TypeInv, ConsumersTypeOK
<1>3. Copies(m)' = Copies(m) \cup {Len(deliveries) + 1} /\ Len(deliveries) + 1 \notin Copies(m)
  BY <1>1, CopiesGrow
<1>4. Accepted(m)' = Accepted(m) \ {h} /\ h \in Accepted(m)
  BY <1>1, <1>2 DEF Accepted, Current, Offset
<1>5. Occupied(m)' = Occupied(m)
  BY <1>1, <1>2 DEF Occupied, Handling, Current, Offset
<1>6. /\ IsFiniteSet(Copies(m)) /\ IsFiniteSet(Accepted(m)) /\ FaultsSoFar \in Nat
      /\ Cardinality(Copies(m)) \in Nat /\ Cardinality(Accepted(m)) \in Nat
      /\ Cardinality(Occupied(m)) \in Nat
  BY CountsFinite
<1>7. Cardinality(Copies(m)') = Cardinality(Copies(m)) + 1
  BY <1>3, <1>6, FS_AddElement
<1>8. Cardinality(Accepted(m)') = Cardinality(Accepted(m)) - 1
  BY <1>4, <1>6, FS_RemoveElement
<1>9. FaultsSoFar' = FaultsSoFar
  BY <1>1 DEF FaultsSoFar
<1> QED BY <1>1, <1>5, <1>6, <1>7, <1>8, <1>9 DEF Accounted

(* Once m is recorded, the groups bound what is made, whoever is at it.    *)
LEMMA MarkCounts ==
    ASSUME TypeInv, NEW m \in Messages, Accounted(m),
           NEW h \in Consumers, MarkProcessed(h), Current(h) = m
    PROVE  Accounted(m)'
<1>1. /\ pc[h] = "created" /\ processed' = processed \cup {m}
      /\ pc' = [pc EXCEPT ![h] = "idle"] /\ next' = [next EXCEPT ![h] = @ + 1]
      /\ UNCHANGED <<log, owner, deliveries, faults>>
  BY DEF MarkProcessed, Saved, Goto, PassOver
<1>2. /\ pc \in [Consumers -> {"idle", "accepted", "created", "down"}]
      /\ next \in [Consumers -> 0 .. Len(log)]
  BY DEF TypeInv, ConsumersTypeOK, GroupTypeOK
<1>3. Copies(m)' = Copies(m)
  BY <1>1, CopiesStay
<1>4. Accepted(m)' = Accepted(m)
  BY <1>1, <1>2 DEF Accepted, Current, Offset
<1>5. /\ FaultsSoFar \in Nat /\ Cardinality(Copies(m)) \in Nat
      /\ Cardinality(Accepted(m)) \in Nat /\ Cardinality(Occupied(m)) \in Nat
      /\ Cardinality(Occupied(m)) <= Cardinality(Groups)
  BY CountsFinite
<1>6. FaultsSoFar' = FaultsSoFar
  BY <1>1 DEF FaultsSoFar
<1>7. Cardinality(Copies(m)) + Cardinality(Accepted(m)) <= Cardinality(Groups) + FaultsSoFar
  BY <1>5, GroupsFinite DEF Accounted
<1>8. m \in processed'
  BY <1>1
<1> QED BY <1>3, <1>4, <1>6, <1>7, <1>8 DEF Accounted

LEMMA CopiesStep == TypeInv /\ CopiesAccounted /\ [Next]_notificationVars => CopiesAccounted'
<1> SUFFICES ASSUME TypeInv, CopiesAccounted, [Next]_notificationVars PROVE CopiesAccounted'
  OBVIOUS
<1>0. /\ InHand /\ OwnersInGroup
      /\ log \in Seq(Messages) /\ next \in [Consumers -> 0 .. Len(log)]
      /\ owner \in [Groups -> Consumers]
      /\ pc \in [Consumers -> {"idle", "accepted", "created", "down"}]
  BY DEF TypeInv, ConsumersTypeOK, GroupTypeOK, CopiesAccounted
<1>owners. OwnersInGroup'
  <2>1. ASSUME NEW h \in Consumers, Rebalance(h) PROVE OwnersInGroup'
    BY <1>0, <2>1, GroupMember DEF Rebalance, Assign, OwnersInGroup
  <2>2. ASSUME NEW h \in Consumers,
               \/ SkipEvent(h) \/ Accept(h) \/ CreateDelivery(h) \/ MarkProcessed(h)
               \/ StatementFails(h) \/ LookupFails(h) \/ CommitOffset(h) \/ Crash(h)
               \/ Restart(h) \/ \E email \in BOOLEAN : CreateNotification(h, email)
        PROVE  UNCHANGED owner
    BY <2>2 DEF SkipEvent, Accept, CreateDelivery, MarkProcessed, StatementFails, LookupFails,
                CommitOffset, Crash, Restart, CreateNotification, PassOver, Commit, Rejoin, groupVars
  <2>3. ASSUME NEW m \in Messages, Publish(m) PROVE UNCHANGED owner
    BY <2>3 DEF Publish, AppendMessage
  <2>4. CASE Background
    BY <1>0, <2>4, BackgroundStep DEF groupVars, OwnersInGroup
  <2>5. CASE UNCHANGED notificationVars
    BY <1>0, <2>5 DEF notificationVars, OwnersInGroup
  <2>6. UNCHANGED owner => OwnersInGroup'
    BY <1>0 DEF OwnersInGroup
  <2> QED BY <2>1, <2>2, <2>3, <2>4, <2>5, <2>6, NextCases
<1> SUFFICES ASSUME NEW m \in Messages PROVE Accounted(m)'
  BY <1>owners DEF CopiesAccounted
<1>m. Accounted(m)
  BY DEF CopiesAccounted
<1>1. ASSUME NEW e \in Messages, Publish(e) PROVE Accounted(m)'
  <2>1. /\ log' = Append(log, e)
        /\ UNCHANGED <<owner, committed, next, deliveries, processed, pc, faults>>
    BY <1>1 DEF Publish, AppendMessage
  <2>2. \A h \in Consumers : Handling(h) => Current(h)' = Current(h)
    BY <1>0, <2>1, Appended DEF InHand, Current, Offset
  <2>3. Accepted(m)' = Accepted(m) /\ Occupied(m)' = Occupied(m)
    BY <1>0, <2>1, <2>2 DEF Accepted, Occupied, Handling
  <2> QED BY <1>m, <2>1, <2>3, FaultsStay, CopiesStay, Steady
(* Whoever is not at m, before or after, does not count.                   *)
<1>idle. ASSUME NEW h \in Consumers, ~ (Handling(h) /\ Current(h) = m),
                ~ (Handling(h) /\ Current(h) = m)', UNCHANGED <<log, owner>>,
                \A c \in Consumers : c # h => pc'[c] = pc[c] /\ next'[c] = next[c]
         PROVE  Accepted(m)' = Accepted(m) /\ Occupied(m)' = Occupied(m)
  BY <1>0, <1>idle DEF Accepted, Occupied, Handling, Current, Offset
<1>2. ASSUME NEW h \in Consumers, SkipEvent(h) \/ LookupFails(h) PROVE Accounted(m)'
  <2>1. /\ pc[h] = "idle" /\ UNCHANGED <<log, owner, deliveries, processed, pc>>
        /\ UNCHANGED faults \/ Fault("database")
        /\ \A c \in Consumers : c # h => next'[c] = next[c]
    BY <1>0, <1>2 DEF SkipEvent, LookupFails, Deliverable, PassOver, groupVars
  <2>2. Accepted(m)' = Accepted(m) /\ Occupied(m)' = Occupied(m)
    BY <1>idle, <2>1 DEF Handling
  <2>3. FaultsRise
    BY <2>1, FaultsStay, FaultsCanRise DEF NotificationFaults
  <2> QED BY <1>m, <2>1, <2>2, <2>3, CopiesStay, Steady
<1>3. ASSUME NEW h \in Consumers, Accept(h) PROVE Accounted(m)'
  <2>1. CASE Current(h) = m
    BY <1>0, <1>m, <1>3, <2>1, AcceptCounts
  <2>2. CASE Current(h) # m
    <3>1. /\ pc' = [pc EXCEPT ![h] = "accepted"]
          /\ UNCHANGED <<log, owner, committed, next, deliveries, processed, faults>>
      BY <1>3 DEF Accept, Goto, groupVars
    <3>2. Accepted(m)' = Accepted(m) /\ Occupied(m)' = Occupied(m)
      BY <1>0, <1>idle, <2>2, <3>1 DEF Current, Offset
    <3> QED BY <1>m, <3>1, <3>2, FaultsStay, CopiesStay, Steady
  <2> QED BY <2>1, <2>2
<1>4. ASSUME NEW h \in Consumers, CreateDelivery(h) PROVE Accounted(m)'
  <2>1. CASE Current(h) = m
    BY <1>m, <1>4, <2>1, CreateCounts
  <2>2. CASE Current(h) # m
    <3>1. /\ next[h] < Len(log) /\ NewDelivery(h, Current(h), TRUE)
          /\ pc' = [pc EXCEPT ![h] = "created"]
          /\ UNCHANGED <<log, owner, committed, next, processed, faults>>
      BY <1>0, <1>4 DEF CreateDelivery, Goto, groupVars, InHand, Handling
    <3>2. Accepted(m)' = Accepted(m) /\ Occupied(m)' = Occupied(m)
      BY <1>0, <1>idle, <2>2, <3>1 DEF Current, Offset
    <3>3. Current(h) \in Messages \cup {NoEvent}
      BY <3>1, EventInHand DEF TypeInv, ConsumersTypeOK
    <3>4. Copies(m)' = Copies(m)
      BY <2>2, <3>1, <3>3, CopiesGrow
    <3> QED BY <1>m, <3>1, <3>2, <3>4, FaultsStay, Steady
  <2> QED BY <2>1, <2>2
<1>5. ASSUME NEW h \in Consumers, MarkProcessed(h) PROVE Accounted(m)'
  <2>1. CASE Current(h) = m
    BY <1>m, <1>5, <2>1, MarkCounts
  <2>2. CASE Current(h) # m
    <3>1. /\ pc' = [pc EXCEPT ![h] = "idle"] /\ next' = [next EXCEPT ![h] = @ + 1]
          /\ processed' = processed \cup {Current(h)}
          /\ UNCHANGED <<log, owner, deliveries, faults>>
      BY <1>5 DEF MarkProcessed, Goto, PassOver
    <3>2. Accepted(m)' = Accepted(m) /\ Occupied(m)' = Occupied(m)
      BY <1>0, <1>idle, <2>2, <3>1 DEF Handling
    <3>3. m \in processed' <=> m \in processed
      BY <2>2, <3>1
    <3>4. Copies(m)' = Copies(m) /\ FaultsSoFar' = FaultsSoFar
      BY <3>1, CopiesStay DEF FaultsSoFar
    <3> QED BY <1>m, <3>2, <3>3, <3>4 DEF Accounted
  <2> QED BY <2>1, <2>2
<1>6. ASSUME NEW h \in Consumers, StatementFails(h) \/ Crash(h) PROVE Accounted(m)'
  <2>1. /\ UNCHANGED <<log, owner, deliveries, processed>>
        /\ Fault("database") \/ Fault("crash")
        /\ ~ Handling(h)'
        /\ \A c \in Consumers : c # h => pc'[c] = pc[c] /\ next'[c] = next[c]
    BY <1>0, <1>6 DEF StatementFails, Crash, PassOver, Goto, Handling, groupVars
  <2>2. Accepted(m)' \subseteq Accepted(m) /\ Occupied(m) \ {GroupOf[h]} \subseteq Occupied(m)'
    BY <1>0, <2>1 DEF Accepted, Occupied, Handling, Current, Offset, OwnersInGroup
  <2> QED BY <1>m, <2>1, <2>2, FaultAdds, CopiesStay, Blamed
<1>7. ASSUME NEW h \in Consumers, CommitOffset(h) PROVE Accounted(m)'
  <2>1. UNCHANGED <<log, owner, next, pc, deliveries, processed, faults>>
    BY <1>7 DEF CommitOffset, Commit
  <2>2. Accepted(m)' = Accepted(m) /\ Occupied(m)' = Occupied(m)
    BY <2>1 DEF Accepted, Occupied, Handling, Current, Offset
  <2> QED BY <1>m, <2>1, <2>2, FaultsStay, CopiesStay, Steady
<1>8. ASSUME NEW h \in Consumers, Rebalance(h) PROVE Accounted(m)'
  <2> DEFINE g == GroupOf[h]
  <2>1. /\ pc[h] = "idle" /\ owner' = [owner EXCEPT ![g] = h]
        /\ \A c \in Consumers : c # h => next'[c] = next[c]
        /\ UNCHANGED <<log, deliveries, processed, pc>>
    BY <1>0, <1>8 DEF Rebalance, Assign
  <2>2. Accepted(m)' = Accepted(m)
    BY <2>1 DEF Accepted, Current, Offset
  <2>3. Occupied(m)' = Occupied(m) \ {g}
    BY <1>0, <2>1, GroupMember DEF Occupied, Handling, Current, Offset
  <2>4. CASE Fault("stall")
    BY <1>m, <2>1, <2>2, <2>3, <2>4, FaultAdds, CopiesStay, Blamed
  <2>5. CASE ~ Fault("stall")
    <3>1. /\ pc[owner[g]] \in {"idle", "down"}
          /\ UNCHANGED faults \/ Fault("rebalance")
      BY <1>8, <2>5 DEF Rebalance
    <3>2. Occupied(m)' = Occupied(m)
      BY <2>3, <3>1 DEF Occupied, Handling
    <3>3. FaultsRise
      BY <3>1, FaultsStay, FaultsCanRise DEF NotificationFaults
    <3> QED BY <1>m, <2>1, <2>2, <3>2, <3>3, CopiesStay, Steady
  <2> QED BY <2>4, <2>5
<1>9. ASSUME NEW h \in Consumers, Restart(h) PROVE Accounted(m)'
  <2>1. /\ ~ Handling(h) /\ ~ Handling(h)'
        /\ \A c \in Consumers : c # h => pc'[c] = pc[c] /\ next'[c] = next[c]
        /\ UNCHANGED <<log, owner, deliveries, processed, faults>>
    BY <1>0, <1>9 DEF Restart, Rejoin, Goto, Handling
  <2>2. Accepted(m)' = Accepted(m) /\ Occupied(m)' = Occupied(m)
    BY <1>idle, <2>1
  <2> QED BY <1>m, <2>1, <2>2, FaultsStay, CopiesStay, Steady
<1>10. ASSUME NEW h \in Consumers, NEW email \in BOOLEAN, CreateNotification(h, email)
       PROVE  Accounted(m)'
  <2>1. /\ NewDelivery(h, NoEvent, email)
        /\ UNCHANGED <<log, owner, next, processed, pc, faults>>
    BY <1>10 DEF CreateNotification, groupVars
  <2>2. NoEvent # m
    <3>1. m.type \in EventType /\ NoEvent.type = "Request" /\ "Request" \notin EventType
      BY NotificationAssumption DEF NoEvent, EventType
    <3> QED BY <3>1
  <2>3. Copies(m)' = Copies(m)
    BY <2>1, <2>2, CopiesGrow
  <2>4. Accepted(m)' = Accepted(m) /\ Occupied(m)' = Occupied(m)
    BY <2>1 DEF Accepted, Occupied, Handling, Current, Offset
  <2> QED BY <1>m, <2>1, <2>3, <2>4, FaultsStay, Steady
<1>11. CASE Background
  <2>1. UNCHANGED <<log, owner, next, pc, processed>> /\ SameEvents /\ FaultsRise
    BY <1>11, BackgroundStep DEF groupVars
  <2>2. Accepted(m)' = Accepted(m) /\ Occupied(m)' = Occupied(m)
    BY <2>1 DEF Accepted, Occupied, Handling, Current, Offset
  <2> QED BY <1>m, <2>1, <2>2, CopiesStay, Steady
<1>12. CASE UNCHANGED notificationVars
  <2>1. UNCHANGED <<log, owner, next, pc, processed, deliveries, faults>>
    BY <1>12 DEF notificationVars
  <2>2. Accepted(m)' = Accepted(m) /\ Occupied(m)' = Occupied(m)
    BY <2>1 DEF Accepted, Occupied, Handling, Current, Offset
  <2> QED BY <1>m, <2>1, <2>2, FaultsStay, CopiesStay, Steady
<1> QED BY <1>1, <1>2, <1>3, <1>4, <1>5, <1>6, <1>7, <1>8, <1>9, <1>10, <1>11, <1>12, NextCases

(* An event gets a delivery for each group that reads it, and one more     *)
(* only for a crash, a failed statement or a stalled consumer, however     *)
(* often it is published or handed out (process looks it up before, and    *)
(* records it after the delivery).                                         *)
THEOREM DeliveriesAreBounded == Spec => []DeliveriesBounded
<1>1. Init => CopiesAccounted
  BY CopiesInit
<1>2. TypeInv /\ CopiesAccounted /\ [Next]_notificationVars => CopiesAccounted'
  BY CopiesStep
<1>3. TypeInv /\ CopiesAccounted => DeliveriesBounded
  <2> SUFFICES ASSUME TypeInv, CopiesAccounted, NEW m \in Messages
               PROVE  Cardinality(Copies(m)) <= Cardinality(Groups) + FaultsSoFar
    BY DEF DeliveriesBounded
  <2>1. /\ FaultsSoFar \in Nat /\ Cardinality(Copies(m)) \in Nat
        /\ Cardinality(Accepted(m)) \in Nat /\ Cardinality(Occupied(m)) \in Nat
        /\ Cardinality(Occupied(m)) <= Cardinality(Groups)
    BY CountsFinite
  <2>2. Accounted(m) /\ Cardinality(Groups) \in Nat
    BY GroupsFinite DEF CopiesAccounted
  <2> QED BY <2>1, <2>2 DEF Accounted
<1> QED BY <1>1, <1>2, <1>3, TypeInvariant, PTL DEF Spec
=============================================================================
