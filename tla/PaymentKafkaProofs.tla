------------------------ MODULE PaymentKafkaProofs ------------------------
(***************************************************************************)
(* payment-service at Kafka: theorems about PaymentEventConsumer, for every *)
(* set of events, consumers and groups, and about PaymentOutboxRelay, for  *)
(* every set of rows and replicas, with any number of faults.              *)
(***************************************************************************)
EXTENDS PaymentEventConsumer, PaymentOutboxRelay, TLAPS

(* The partition is within its bound, and a handler has a message in hand. *)
InHand ==
    /\ Len(log) <= MaxLog
    /\ \A h \in Consumers : pc[h] = "handling" => next[h] < Len(log)

LEMMA GroupMember == \A h \in Consumers : GroupOf[h] \in Groups
  BY DEF Groups

LEMMA AppendAt ==
    ASSUME NEW S, NEW s \in Seq(S), NEW e \in S
    PROVE  /\ Append(s, e) \in Seq(S)
           /\ Len(Append(s, e)) = Len(s) + 1
           /\ \A i \in 1 .. Len(s) : Append(s, e)[i] = s[i]
  OBVIOUS

LEMMA MessageInHand ==
    ASSUME GroupTypeOK, Len(log) <= MaxLog, NEW h \in Consumers, next[h] < Len(log)
    PROVE  Offset(h) \in 1 .. MaxLog /\ Offset(h) \in 1 .. Len(log) /\ Current(h) \in Messages
  BY ConsumerAssumption DEF GroupTypeOK, Offset, Current

LEMMA KeyType ==
    ASSUME GroupTypeOK, Len(log) <= MaxLog, NEW h \in Consumers, next[h] < Len(log)
    PROVE  KeyOf(h) \in Keys
<1>1. Offset(h) \in 1 .. MaxLog /\ Current(h) \in Messages
  BY MessageInHand
<1>2. <<"event", Current(h).id>> \in Keys
  BY <1>1 DEF Keys
<1>3. <<"offset", Offset(h)>> \in Keys
  BY <1>1 DEF Keys
<1>4. <<"partition", 0>> \in Keys
  BY DEF Keys
<1> QED BY <1>2, <1>3, <1>4 DEF KeyOf

LEMMA FaultType ==
    ASSUME TypeOK, NEW kind \in ConsumerFaults, Fault(kind)
    PROVE  faults' \in [ConsumerFaults -> Nat]
  BY DEF TypeOK, Fault

LEMMA PassOverType ==
    ASSUME GroupTypeOK, NEW h \in Consumers, next[h] < Len(log), PassOver(h)
    PROVE  GroupTypeOK' /\ UNCHANGED log /\ next' = [next EXCEPT ![h] = @ + 1]
  BY DEF GroupTypeOK, PassOver

LEMMA TypeInit == Init => TypeOK /\ InHand
  BY ConsumerAssumption DEF Init, GroupInit, TypeOK, GroupTypeOK, InHand

LEMMA TypeStep == TypeOK /\ InHand /\ [Next]_consumerVars => TypeOK' /\ InHand'
<1> SUFFICES ASSUME TypeOK, InHand, [Next]_consumerVars PROVE TypeOK' /\ InHand'
  OBVIOUS
<1>0. GroupTypeOK /\ Len(log) <= MaxLog /\ Len(log) \in Nat
  BY DEF TypeOK, InHand, GroupTypeOK
<1>kinds. ConsumerFaults = {"crash", "failure", "rebalance", "stall", "expiry"}
  BY DEF ConsumerFaults
<1>1. ASSUME NEW m \in Messages, Publish(m) PROVE TypeOK' /\ InHand'
  <2>1. log' \in Seq(Messages) /\ Len(log') = Len(log) + 1
    BY <1>1, <1>0, AppendAt DEF Publish, AppendMessage, GroupTypeOK
  <2>2. GroupTypeOK'
    BY <1>1, <1>0, <2>1 DEF Publish, AppendMessage, GroupTypeOK
  <2>3. Len(log') <= MaxLog
    BY <1>1, <1>0, <2>1, ConsumerAssumption DEF Publish, AppendMessage
  <2> QED BY <1>1, <1>0, <2>1, <2>2, <2>3 DEF Publish, AppendMessage, TypeOK, InHand, GroupTypeOK
<1>2. ASSUME NEW h \in Consumers, SkipDuplicate(h) PROVE TypeOK' /\ InHand'
  <2>1. next[h] < Len(log) /\ pc[h] = "idle"
    BY <1>2 DEF SkipDuplicate, Deliverable, HasNext
  <2>2. GroupTypeOK' /\ UNCHANGED log /\ next' = [next EXCEPT ![h] = @ + 1]
    BY <1>2, <1>0, <2>1, PassOverType DEF SkipDuplicate
  <2> QED BY <1>2, <1>0, <2>1, <2>2 DEF SkipDuplicate, TypeOK, InHand, GroupTypeOK
<1>3. ASSUME NEW h \in Consumers, Claim(h) PROVE TypeOK' /\ InHand'
  <2>1. next[h] < Len(log) /\ pc[h] = "idle"
    BY <1>3 DEF Claim, Deliverable, HasNext
  <2>2. KeyOf(h) \in Keys /\ Offset(h) \in 1 .. MaxLog
    BY <1>0, <2>1, KeyType, MessageInHand
  <2>3. keys' \subseteq Keys /\ UNCHANGED faults
    BY <1>3, <2>2 DEF Claim, TypeOK
  <2>4. CASE IsHandled(Current(h))
    <3>1. /\ starts' = [starts EXCEPT ![KeyOf(h)] = @ + 1]
          /\ pc' = [pc EXCEPT ![h] = "handling"]
          /\ UNCHANGED <<log, owner, committed, next, handled>>
      BY <1>3, <2>4 DEF Claim, Goto, groupVars
    <3>2. starts' \in [Keys -> Nat] /\ pc' \in [Consumers -> {"idle", "handling", "down"}]
      BY <2>2, <3>1 DEF TypeOK
    <3>3. GroupTypeOK'
      BY <1>0, <3>1 DEF GroupTypeOK
    <3>4. InHand'
      BY <2>1, <3>1 DEF InHand, TypeOK
    <3> QED BY <2>3, <3>1, <3>2, <3>3, <3>4 DEF TypeOK
  <2>5. CASE ~IsHandled(Current(h))
    <3>1. Finish(h) /\ UNCHANGED starts
      BY <1>3, <2>5 DEF Claim
    <3>2. GroupTypeOK' /\ UNCHANGED log /\ next' = [next EXCEPT ![h] = @ + 1]
      BY <3>1, <1>0, <2>1, PassOverType DEF Finish
    <3>3. handled' \subseteq [key : Keys, offset : 1 .. MaxLog]
      BY <3>1, <2>2 DEF Finish, TypeOK
    <3>4. pc' = [pc EXCEPT ![h] = "idle"] /\ pc' \in [Consumers -> {"idle", "handling", "down"}]
      BY <3>1 DEF Finish, Goto, TypeOK
    <3>5. InHand'
      BY <1>0, <3>2, <3>4 DEF InHand, TypeOK, GroupTypeOK
    <3> QED BY <2>3, <3>1, <3>2, <3>3, <3>4, <3>5 DEF TypeOK
  <2> QED BY <2>4, <2>5
<1>4. ASSUME NEW h \in Consumers, Handle(h) PROVE TypeOK' /\ InHand'
  <2>1. next[h] < Len(log) /\ Finish(h)
    BY <1>4 DEF Handle, InHand
  <2>2. KeyOf(h) \in Keys /\ Offset(h) \in 1 .. MaxLog
    BY <1>0, <2>1, KeyType, MessageInHand
  <2>3. GroupTypeOK' /\ UNCHANGED log /\ next' = [next EXCEPT ![h] = @ + 1]
    BY <1>0, <2>1, PassOverType DEF Finish
  <2>4. handled' \subseteq [key : Keys, offset : 1 .. MaxLog]
    BY <2>1, <2>2 DEF Finish, TypeOK
  <2>5. pc' = [pc EXCEPT ![h] = "idle"] /\ pc' \in [Consumers -> {"idle", "handling", "down"}]
    BY <2>1 DEF Finish, Goto, TypeOK
  <2>6. InHand'
    BY <1>0, <2>3, <2>5 DEF InHand, TypeOK, GroupTypeOK
  <2> QED BY <1>4, <2>3, <2>4, <2>5, <2>6 DEF Handle, TypeOK
<1>5. ASSUME NEW h \in Consumers, next[h] < Len(log), Throw(h),
             UNCHANGED <<starts, handled>>, keys' \subseteq Keys, Fault("failure")
      PROVE  TypeOK' /\ InHand'
  <2>1. pc' = [pc EXCEPT ![h] = "idle"] /\ pc' \in [Consumers -> {"idle", "handling", "down"}]
    BY <1>5 DEF Throw, Goto, TypeOK
  <2>2. faults' \in [ConsumerFaults -> Nat]
    BY <1>5, <1>kinds, FaultType
  <2>3. CASE h \in Lambdas
    <3>1. GroupTypeOK' /\ UNCHANGED log /\ next' = [next EXCEPT ![h] = @ + 1]
      BY <1>0, <1>5, <2>3, PassOverType DEF Throw
    <3>2. InHand'
      BY <1>0, <2>1, <3>1 DEF InHand, TypeOK, GroupTypeOK
    <3> QED BY <1>5, <2>1, <2>2, <3>1, <3>2 DEF TypeOK
  <2>4. CASE h \notin Lambdas
    <3>1. UNCHANGED <<log, owner, committed, next>>
      BY <1>5, <2>4 DEF Throw, groupVars
    <3>2. InHand'
      BY <2>1, <3>1 DEF InHand, TypeOK
    <3> QED BY <1>5, <2>1, <2>2, <3>1, <3>2 DEF TypeOK, GroupTypeOK
  <2> QED BY <2>3, <2>4
<1>6. ASSUME NEW h \in Consumers, HandlerThrows(h) PROVE TypeOK' /\ InHand'
  <2>1. next[h] < Len(log) /\ keys' \subseteq Keys
    BY <1>6 DEF HandlerThrows, InHand, TypeOK
  <2> QED BY <1>6, <1>5, <2>1 DEF HandlerThrows
<1>7. ASSUME NEW h \in Consumers, ReplyLost(h) PROVE TypeOK' /\ InHand'
  <2>1. next[h] < Len(log)
    BY <1>7 DEF ReplyLost, Deliverable, HasNext
  <2>2. keys' \subseteq Keys
    BY <1>0, <1>7, <2>1, KeyType DEF ReplyLost, TypeOK
  <2> QED BY <1>7, <1>5, <2>1, <2>2 DEF ReplyLost
<1>8. ASSUME NEW k \in keys, Expire(k) PROVE TypeOK' /\ InHand'
  BY <1>8, <1>kinds, FaultType DEF Expire, groupVars, TypeOK, InHand, GroupTypeOK
<1>9. ASSUME NEW h \in Consumers, CommitOffset(h) PROVE TypeOK' /\ InHand'
  BY <1>9, <1>0, GroupMember DEF CommitOffset, Commit, TypeOK, InHand, GroupTypeOK
<1>10. ASSUME NEW h \in Consumers, Rebalance(h) PROVE TypeOK' /\ InHand'
  <2>1. faults' \in [ConsumerFaults -> Nat]
    <3>1. GroupOf[h] \in Groups /\ owner[GroupOf[h]] \in Consumers
      BY <1>0, GroupMember DEF GroupTypeOK
    <3>2. pc[owner[GroupOf[h]]] \in {"down", "idle", "handling"}
      BY <3>1 DEF TypeOK
    <3>3. UNCHANGED faults \/ Fault("rebalance") \/ Fault("stall")
      BY <1>10, <3>2 DEF Rebalance
    <3> QED BY <3>3, <1>kinds, FaultType DEF TypeOK
  <2>2. GroupTypeOK'
    BY <1>10, <1>0, GroupMember DEF Rebalance, Assign, GroupTypeOK
  <2>3. InHand'
    BY <1>10, <1>0 DEF Rebalance, Assign, InHand, GroupTypeOK
  <2> QED BY <1>10, <2>1, <2>2, <2>3 DEF Rebalance, TypeOK
<1>11. ASSUME NEW h \in Consumers, Crash(h) PROVE TypeOK' /\ InHand'
  BY <1>11, <1>kinds, FaultType DEF Crash, Goto, groupVars, TypeOK, InHand, GroupTypeOK
<1>12. ASSUME NEW h \in Consumers, Restart(h) PROVE TypeOK' /\ InHand'
  <2>1. GroupTypeOK'
    BY <1>12, <1>0, GroupMember DEF Restart, Rejoin, GroupTypeOK
  <2>2. pc' \in [Consumers -> {"idle", "handling", "down"}]
    BY <1>12 DEF Restart, Goto, TypeOK
  <2>3. InHand'
    BY <1>12, <1>0 DEF Restart, Rejoin, Goto, InHand, TypeOK, GroupTypeOK
  <2> QED BY <1>12, <2>1, <2>2, <2>3 DEF Restart, TypeOK
<1>13. CASE UNCHANGED consumerVars
  BY <1>13 DEF consumerVars, TypeOK, InHand, GroupTypeOK
<1> QED
  BY <1>1, <1>2, <1>3, <1>4, <1>6, <1>7, <1>8, <1>9, <1>10, <1>11, <1>12, <1>13
     DEF Next, Process, Group

(* Every variable keeps its type. *)
THEOREM ConsumerTypes == Spec => []TypeOK
  BY TypeInit, TypeStep, PTL DEF Spec

-----------------------------------------------------------------------------
(* An event's handler starts once *)

(* A key that is not in Redis has an expiry to spare. *)
StartInv ==
    \A k \in Keys :
        starts[k] <= (IF k \in keys THEN 1 ELSE 0) + faults["expiry"]

LEMMA StartStep == TypeOK /\ InHand /\ StartInv /\ [Next]_consumerVars => StartInv'
<1> SUFFICES ASSUME TypeOK, InHand, StartInv, [Next]_consumerVars PROVE StartInv'
  OBVIOUS
<1>0. /\ faults \in [ConsumerFaults -> Nat] /\ starts \in [Keys -> Nat]
      /\ "expiry" \in ConsumerFaults
  BY DEF TypeOK, ConsumerFaults
\* a step that starts nothing, forgets no key and takes no expiry back
<1>1. ASSUME starts' = starts, keys \subseteq keys', faults'["expiry"] = faults["expiry"]
      PROVE  StartInv'
  BY <1>0, <1>1 DEF StartInv
<1>2. ASSUME NEW h \in Consumers, Claim(h) PROVE StartInv'
  <2>1. keys' = keys \cup {KeyOf(h)} /\ KeyOf(h) \notin keys /\ faults' = faults
    BY <1>2 DEF Claim, Unclaimed
  <2>2. starts' = starts \/ starts' = [starts EXCEPT ![KeyOf(h)] = @ + 1]
    BY <1>2 DEF Claim
  <2> QED BY <1>0, <2>1, <2>2 DEF StartInv
<1>3. ASSUME NEW k \in keys, Expire(k) PROVE StartInv'
  <2>1. /\ keys' = keys \ {k} /\ starts' = starts
        /\ faults'["expiry"] = faults["expiry"] + 1
    BY <1>3, <1>0 DEF Expire, Fault
  <2> QED BY <1>0, <2>1 DEF StartInv
<1>4. ASSUME NEW kind \in ConsumerFaults \ {"expiry"}, Fault(kind)
      PROVE  faults'["expiry"] = faults["expiry"]
  BY <1>4, <1>0 DEF Fault
<1>5. ASSUME NEW h \in Consumers, HandlerThrows(h) \/ ReplyLost(h) \/ Crash(h) \/ Rebalance(h)
      PROVE  StartInv'
  <2>1. starts' = starts /\ keys \subseteq keys'
    BY <1>5 DEF HandlerThrows, ReplyLost, Crash, Rebalance
  <2>2. UNCHANGED faults \/ Fault("failure") \/ Fault("crash") \/ Fault("rebalance") \/ Fault("stall")
    <3>1. GroupOf[h] \in Groups /\ owner[GroupOf[h]] \in Consumers
      BY GroupMember DEF TypeOK, GroupTypeOK
    <3>2. pc[owner[GroupOf[h]]] \in {"down", "idle", "handling"}
      BY <3>1 DEF TypeOK
    <3> QED BY <1>5, <3>2 DEF HandlerThrows, ReplyLost, Crash, Rebalance
  <2> QED BY <1>1, <1>4, <2>1, <2>2 DEF ConsumerFaults
<1>6. ASSUME NEW h \in Consumers, SkipDuplicate(h) \/ Handle(h) \/ CommitOffset(h) \/ Restart(h)
      PROVE  StartInv'
  BY <1>6, <1>1 DEF SkipDuplicate, Handle, CommitOffset, Restart
<1>7. ASSUME NEW m \in Messages, Publish(m) PROVE StartInv'
  BY <1>7, <1>1 DEF Publish
<1>8. CASE UNCHANGED consumerVars
  BY <1>8, <1>1 DEF consumerVars
<1> QED BY <1>2, <1>3, <1>5, <1>6, <1>7, <1>8 DEF Next, Process, Group

(* Whatever is repeated, overtaken or restarted, and however many groups    *)
(* read the events, a second start of an event's handler needs an expired   *)
(* key.                                                                     *)
THEOREM HandlersStartOnce == Spec => []StartedOnce
<1>1. Init => StartInv
  BY DEF Init, StartInv, ConsumerFaults
<1>2. TypeOK /\ StartInv => StartedOnce
  BY DEF TypeOK, StartInv, StartedOnce, ConsumerFaults
<1> QED BY <1>1, <1>2, TypeInit, TypeStep, StartStep, PTL DEF Spec

-----------------------------------------------------------------------------
(* A recorded event is handled *)

(* A message in hand stays what it is while the log grows. *)
LEMMA SameInHand ==
    ASSUME GroupTypeOK, NEW h \in Consumers, next[h] < Len(log), next'[h] = next[h],
           log' = log \/ \E m \in Messages : log' = Append(log, m)
    PROVE  KeyOf(h)' = KeyOf(h)
<1>1. Offset(h) \in 1 .. Len(log) /\ Offset(h)' = Offset(h)
  BY DEF GroupTypeOK, Offset
<1>2. Current(h)' = Current(h)
  <2>1. ASSUME NEW m \in Messages, log' = Append(log, m) PROVE log'[Offset(h)] = log[Offset(h)]
    BY <1>1, <2>1, AppendAt DEF GroupTypeOK
  <2> QED BY <1>1, <2>1 DEF Current
<1> QED BY <1>1, <1>2 DEF KeyOf

(* A step that sets no key, forgets no handler and interrupts none. *)
LEMMA RecordedFrame ==
    ASSUME TypeOK, InHand, RecordedIsHandled,
           keys' \subseteq keys, handled \subseteq handled', Disturbed => Disturbed',
           log' = log \/ \E m \in Messages : log' = Append(log, m),
           \A h \in Consumers : pc[h] = "handling" => pc'[h] = "handling" /\ next'[h] = next[h]
    PROVE  RecordedIsHandled'
<1>1. \A h \in Consumers : pc[h] = "handling" => pc'[h] = "handling" /\ KeyOf(h)' = KeyOf(h)
  BY SameInHand DEF TypeOK, InHand
<1> QED BY <1>1 DEF RecordedIsHandled

LEMMA RecordedStep == TypeOK /\ InHand /\ RecordedIsHandled /\ [Next]_consumerVars => RecordedIsHandled'
<1> SUFFICES ASSUME TypeOK, InHand, RecordedIsHandled, [Next]_consumerVars PROVE RecordedIsHandled'
  OBVIOUS
<1>0. /\ faults \in [ConsumerFaults -> Nat] /\ pc \in [Consumers -> {"idle", "handling", "down"}]
      /\ next \in [Consumers -> 0 .. Len(log)] /\ Len(log) \in Nat
      /\ ConsumerFaults = {"crash", "failure", "rebalance", "stall", "expiry"}
  BY DEF TypeOK, GroupTypeOK, ConsumerFaults
<1>same. faults' = faults => (Disturbed => Disturbed')
  BY DEF Disturbed
<1>mild. ASSUME NEW kind \in {"rebalance", "stall", "expiry"}, Fault(kind)
         PROVE  Disturbed => Disturbed'
  BY <1>0, <1>mild DEF Fault, Disturbed
<1>1. ASSUME NEW kind \in {"crash", "failure"}, Fault(kind) PROVE RecordedIsHandled'
  BY <1>0, <1>1 DEF Fault, Disturbed, RecordedIsHandled
\* the handler of h ends: its key is among the handled ones, the others are left alone
<1>2. ASSUME NEW h \in Consumers, Finish(h), keys' \subseteq keys \cup {KeyOf(h)}, faults' = faults
      PROVE  RecordedIsHandled'
  <2>1. /\ handled' = handled \cup {[key |-> KeyOf(h), offset |-> Offset(h)]}
        /\ pc' = [pc EXCEPT ![h] = "idle"] /\ next' = [next EXCEPT ![h] = @ + 1] /\ log' = log
    BY <1>2 DEF Finish, Goto, PassOver
  <2>2. \E done \in handled' : done.key = KeyOf(h)
    <3> DEFINE mine == [key |-> KeyOf(h), offset |-> Offset(h)]
    <3>1. mine \in handled' /\ mine.key = KeyOf(h)
      BY <2>1
    <3> QED BY <3>1
  <2>3. ASSUME NEW g \in Consumers, g # h, pc[g] = "handling"
        PROVE  pc'[g] = "handling" /\ KeyOf(g)' = KeyOf(g)
    <3>1. pc'[g] = "handling" /\ next'[g] = next[g] /\ next[g] < Len(log)
      BY <1>0, <2>1, <2>3 DEF InHand
    <3> QED BY <2>1, <3>1, SameInHand DEF TypeOK
  <2>4. ASSUME NEW k \in keys', ~Disturbed
        PROVE  \/ \E done \in handled' : done.key = k
               \/ \E g \in Consumers : pc'[g] = "handling" /\ KeyOf(g)' = k
    <3>1. CASE k = KeyOf(h)
      BY <2>2, <3>1
    <3>2. CASE k # KeyOf(h)
      <4>1. k \in keys
        BY <1>2, <3>2
      <4>2. CASE \E done \in handled : done.key = k
        BY <2>1, <4>2
      <4>3. CASE \E g \in Consumers : pc[g] = "handling" /\ KeyOf(g) = k
        BY <2>3, <3>2, <4>3
      <4> QED BY <2>4, <4>1, <4>2, <4>3 DEF RecordedIsHandled
    <3> QED BY <3>1, <3>2
  <2> QED BY <1>2, <1>same, <2>4 DEF RecordedIsHandled
<1>3. ASSUME NEW h \in Consumers, SkipDuplicate(h) PROVE RecordedIsHandled'
  <2>1. pc[h] = "idle" /\ next' = [next EXCEPT ![h] = @ + 1] /\ UNCHANGED <<log, keys, pc, handled, faults>>
    BY <1>3 DEF SkipDuplicate, Deliverable, PassOver
  <2> QED BY <1>0, <1>same, <2>1, RecordedFrame
<1>4. ASSUME NEW h \in Consumers, Claim(h) PROVE RecordedIsHandled'
  <2>1. keys' = keys \cup {KeyOf(h)} /\ UNCHANGED faults /\ pc[h] = "idle" /\ next[h] < Len(log)
    BY <1>4 DEF Claim, Deliverable, HasNext
  <2>2. CASE IsHandled(Current(h))
    <3>1. pc' = [pc EXCEPT ![h] = "handling"] /\ UNCHANGED <<log, owner, committed, next, handled>>
      BY <1>4, <2>2 DEF Claim, Goto, groupVars
    <3>2. \A g \in Consumers : KeyOf(g)' = KeyOf(g)
      BY <3>1 DEF KeyOf, Current, Offset
    <3>3. \A g \in Consumers : pc[g] = "handling" \/ g = h => pc'[g] = "handling"
      BY <1>0, <3>1
    <3> QED BY <2>1, <3>1, <3>2, <3>3, <1>same DEF RecordedIsHandled
  <2>3. CASE ~IsHandled(Current(h))
    BY <1>2, <1>4, <2>1, <2>3 DEF Claim
  <2> QED BY <2>2, <2>3
<1>5. ASSUME NEW h \in Consumers, Handle(h) PROVE RecordedIsHandled'
  BY <1>2, <1>5 DEF Handle
<1>6. ASSUME NEW h \in Consumers, HandlerThrows(h) \/ ReplyLost(h) \/ Crash(h) PROVE RecordedIsHandled'
  BY <1>1, <1>6 DEF HandlerThrows, ReplyLost, Crash
<1>7. ASSUME NEW k \in keys, Expire(k) PROVE RecordedIsHandled'
  BY <1>7, <1>mild, RecordedFrame DEF Expire, groupVars
<1>8. ASSUME NEW m \in Messages, Publish(m) PROVE RecordedIsHandled'
  BY <1>8, <1>same, RecordedFrame DEF Publish, AppendMessage
<1>9. ASSUME NEW h \in Consumers, CommitOffset(h) PROVE RecordedIsHandled'
  BY <1>9, <1>same, RecordedFrame DEF CommitOffset, Commit
<1>10. ASSUME NEW h \in Consumers, Rebalance(h) PROVE RecordedIsHandled'
  <2>1. /\ pc[h] = "idle" /\ UNCHANGED <<log, keys, pc, handled>>
        /\ next' = [next EXCEPT ![h] = committed[GroupOf[h]]]
    BY <1>10 DEF Rebalance, Assign
  <2>2. UNCHANGED faults \/ Fault("rebalance") \/ Fault("stall")
    <3>1. owner[GroupOf[h]] \in Consumers
      BY GroupMember DEF TypeOK, GroupTypeOK
    <3> QED BY <1>0, <1>10, <3>1 DEF Rebalance
  <2> QED BY <1>0, <1>same, <1>mild, <2>1, <2>2, RecordedFrame
<1>11. ASSUME NEW h \in Consumers, Restart(h) PROVE RecordedIsHandled'
  <2>1. /\ pc[h] = "down" /\ pc' = [pc EXCEPT ![h] = "idle"] /\ UNCHANGED <<log, keys, handled, faults>>
        /\ next' = [next EXCEPT ![h] = committed[GroupOf[h]]]
    BY <1>11 DEF Restart, Rejoin, Goto
  <2> QED BY <1>0, <1>same, <2>1, RecordedFrame
<1>12. CASE UNCHANGED consumerVars
  BY <1>12, <1>same, RecordedFrame DEF consumerVars
<1> QED
  BY <1>3, <1>4, <1>5, <1>6, <1>7, <1>8, <1>9, <1>10, <1>11, <1>12 DEF Next, Process, Group

(* As long as no consumer dies and no handler or reply fails, an event is   *)
(* not taken for handled unless its handler has run or is running.          *)
THEOREM RecordedEventsAreHandled == Spec => []RecordedIsHandled
<1>1. Init => RecordedIsHandled
  BY DEF Init, RecordedIsHandled
<1> QED BY <1>1, TypeInit, TypeStep, RecordedStep, PTL DEF Spec

-----------------------------------------------------------------------------
(* The outbox relay *)

-----------------------------------------------------------------------------
(* Types *)

LEMMA RelayTypeInit == RelayInit => RelayTypeOK
  BY DEF RelayInit, RelayTypeOK

LEMMA RelayFaultType ==
    ASSUME RelayTypeOK, NEW kind \in RelayFaults, RelayFault(kind)
    PROVE  faultCount' \in [RelayFaults -> Nat]
  BY DEF RelayTypeOK, RelayFault

(* Counting the rows of S adds to them and leaves the others alone. *)
LEMMA CountedType ==
    ASSUME NEW count \in [Rows -> Nat], NEW S \in SUBSET Rows
    PROVE  /\ Counted(count, S) \in [Rows -> Nat]
           /\ \A r \in Rows : count[r] > 0 \/ r \in S => Counted(count, S)[r] > 0
  BY DEF Counted

LEMMA AnsweredType ==
    ASSUME RelayTypeOK, NEW w \in Workers, NEW r \in Rows, Answered(w, r)
    PROVE  inflight' \in [Workers -> [Rows -> Nat]]
<1>1. inflight[w][r] - 1 \in Nat /\ inflight[w] \in [Rows -> Nat]
  BY DEF RelayTypeOK, Answered
<1>2. [inflight[w] EXCEPT ![r] = inflight[w][r] - 1] \in [Rows -> Nat]
  BY <1>1
<1>3. inflight' = [inflight EXCEPT ![w] = [inflight[w] EXCEPT ![r] = inflight[w][r] - 1]]
  BY DEF Answered
<1> QED BY <1>2, <1>3 DEF RelayTypeOK

LEMMA RelayTypeStep == RelayTypeOK /\ [RelayNext]_relayVars => RelayTypeOK'
<1> SUFFICES ASSUME RelayTypeOK, [RelayNext]_relayVars PROVE RelayTypeOK'
  OBVIOUS
<1> USE DEF RelayTypeOK
<1>0. {"crash", "publish", "database"} = RelayFaults
  BY DEF RelayFaults
<1>1. ASSUME NEW r \in Rows, AppendRow(r) PROVE RelayTypeOK'
  BY <1>1 DEF AppendRow
<1>2. ASSUME NEW w \in Workers, Poll(w) PROVE RelayTypeOK'
  BY <1>2 DEF Poll, OldestPending, Pending
<1>3. ASSUME NEW w \in Workers, EmitBatch(w) PROVE RelayTypeOK'
  BY <1>3, CountedType DEF EmitBatch
<1>4. ASSUME NEW w \in Workers, MarkBatch(w) PROVE RelayTypeOK'
  BY <1>4 DEF MarkBatch
<1>5. ASSUME NEW w \in Workers, MarkFails(w) PROVE RelayTypeOK'
  BY <1>5, <1>0, RelayFaultType DEF MarkFails
<1>6. ASSUME NEW w \in Workers, NEW r \in Rows, Deliver(w, r) PROVE RelayTypeOK'
  BY <1>6, AnsweredType DEF Deliver
<1>7. ASSUME NEW w \in Workers, NEW r \in Rows, DeliveryFails(w, r) PROVE RelayTypeOK'
  BY <1>7, <1>0, RelayFaultType, AnsweredType DEF DeliveryFails
<1>8. ASSUME NEW w \in Workers, RelayCrash(w) PROVE RelayTypeOK'
  BY <1>8, <1>0, RelayFaultType DEF RelayCrash
<1>9. ASSUME NEW w \in Workers, Start(w) PROVE RelayTypeOK'
  BY <1>9 DEF Start
<1>10. CASE UNCHANGED relayVars
  BY <1>10 DEF relayVars
<1> QED
  BY <1>1, <1>2, <1>3, <1>4, <1>5, <1>6, <1>7, <1>8, <1>9, <1>10 DEF RelayNext, Relay

(* Every variable keeps its type. *)
THEOREM RelayTypes == RelaySpec => []RelayTypeOK
  BY RelayTypeInit, RelayTypeStep, PTL DEF RelaySpec

-----------------------------------------------------------------------------
(* A row that is SENT reaches Kafka *)

(* No emission was given up and no replica has crashed. *)
Undisturbed == faultCount["publish"] = 0 /\ faultCount["crash"] = 0

Arrives(r) == r \in topic \/ InFlight(r)

(* What is marked, and what a replica past its loop will mark next, is in  *)
(* the topic or waits for its answer.                                      *)
EmissionsArrive ==
    /\ \A r \in Rows : row[r] = "SENT" => Arrives(r)
    /\ \A w \in Workers : relayPc[w] = "emitted" => \A r \in batch[w] : Arrives(r)

ArriveInv == RelayTypeOK /\ (Undisturbed => EmissionsArrive)

LEMMA ArriveInit == RelayInit => ArriveInv
  BY RelayTypeInit DEF RelayInit, ArriveInv, EmissionsArrive

(* A fault once counted stays counted, so these steps have not been taken. *)
LEMMA FaultsStay ==
    ASSUME RelayTypeOK, [RelayNext]_relayVars, Undisturbed'
    PROVE  /\ Undisturbed
           /\ \A w \in Workers : ~ RelayCrash(w)
           /\ \A w \in Workers, r \in Rows : ~ DeliveryFails(w, r)
<1>0. "publish" \in RelayFaults /\ "crash" \in RelayFaults /\ "database" \in RelayFaults
  BY DEF RelayFaults
<1>1. (\E kind \in RelayFaults : RelayFault(kind)) \/ UNCHANGED faultCount
  BY <1>0 DEF RelayNext, Relay, AppendRow, Poll, EmitBatch, MarkBatch, MarkFails, RelayCrash, Start,
              Deliver, DeliveryFails, relayVars
<1>2. ASSUME NEW kind \in RelayFaults, RelayFault(kind)
      PROVE  /\ Undisturbed
             /\ faultCount'[kind] > 0
  BY <1>2, <1>0 DEF RelayFault, RelayTypeOK, Undisturbed
<1>3. Undisturbed
  BY <1>1, <1>2 DEF Undisturbed
<1>4. ~ RelayFault("crash") /\ ~ RelayFault("publish")
  BY <1>0, <1>2 DEF Undisturbed
<1> QED BY <1>3, <1>4 DEF RelayCrash, DeliveryFails

(* Neither an emission nor an answer loses what has arrived or is about to. *)
LEMMA ArrivesStays ==
    ASSUME RelayTypeOK, NEW w \in Workers, NEW q \in Rows, EmitBatch(w) \/ Deliver(w, q),
           NEW r \in Rows, Arrives(r)
    PROVE  Arrives(r)'
<1>1. CASE r \in topic
  BY <1>1 DEF EmitBatch, Deliver, Arrives
<1>2. CASE EmitBatch(w) /\ InFlight(r)
  <2>1. PICK v \in Workers : inflight[v][r] > 0
    BY <1>2 DEF InFlight
  <2>2. inflight'[v][r] > 0
    BY <1>2, <2>1, CountedType DEF EmitBatch, RelayTypeOK
  <2> QED BY <2>2 DEF Arrives, InFlight
<1>3. CASE Deliver(w, q) /\ InFlight(r)
  <2>1. PICK v \in Workers : inflight[v][r] > 0
    BY <1>3 DEF InFlight
  <2>2. CASE r = q
    BY <1>3, <2>2 DEF Deliver, Arrives
  <2>3. CASE r # q
    <3>1. inflight'[v][r] = inflight[v][r]
      BY <1>3, <2>3 DEF Deliver, Answered, RelayTypeOK
    <3> QED BY <2>1, <3>1 DEF Arrives, InFlight
  <2> QED BY <2>2, <2>3
<1> QED BY <1>1, <1>2, <1>3 DEF Arrives

LEMMA ArriveStep ==
    ASSUME RelayTypeOK, EmissionsArrive, [RelayNext]_relayVars, Undisturbed'
    PROVE  EmissionsArrive'
<1> USE DEF EmissionsArrive, RelayTypeOK
<1>1. ASSUME NEW w \in Workers, EmitBatch(w) PROVE EmissionsArrive'
  <2>1. ASSUME NEW r \in batch[w] PROVE Arrives(r)'
    <3>1. inflight'[w][r] > 0
      BY <1>1, CountedType DEF EmitBatch
    <3> QED BY <3>1 DEF Arrives, InFlight
  <2> QED BY <1>1, <2>1, ArrivesStays DEF EmitBatch
<1>2. ASSUME NEW w \in Workers, NEW q \in Rows, Deliver(w, q) PROVE EmissionsArrive'
  BY <1>2, ArrivesStays DEF Deliver
<1>3. ASSUME NEW w \in Workers, MarkBatch(w) PROVE EmissionsArrive'
  BY <1>3 DEF MarkBatch, Arrives, InFlight
<1>4. ASSUME NEW r \in Rows, AppendRow(r) PROVE EmissionsArrive'
  BY <1>4 DEF AppendRow, Arrives, InFlight
<1>5. ASSUME NEW w \in Workers, Poll(w) \/ MarkFails(w) \/ Start(w) PROVE EmissionsArrive'
  BY <1>5 DEF Poll, MarkFails, Start, Arrives, InFlight
<1>6. CASE UNCHANGED relayVars
  BY <1>6 DEF relayVars, Arrives, InFlight
<1> QED
  BY <1>1, <1>2, <1>3, <1>4, <1>5, <1>6, FaultsStay DEF RelayNext, Relay

(* As long as the Kafka client has given nothing up and no replica has      *)
(* crashed, every row that is SENT is on payment-events or about to be,     *)
(* with any number of replicas on the same rows and failed updates.         *)
THEOREM SentRowsReachKafka == RelaySpec => []SentReachesKafka
<1>1. ArriveInv /\ [RelayNext]_relayVars => ArriveInv'
  BY ArriveStep, FaultsStay, RelayTypeStep DEF ArriveInv
<1>2. ArriveInv => SentReachesKafka
  <2> SUFFICES ASSUME ArriveInv, faultCount["publish"] + faultCount["crash"] = 0,
                      NEW r \in Rows, row[r] = "SENT"
               PROVE  r \in topic \/ InFlight(r)
    BY DEF SentReachesKafka
  <2>1. Undisturbed
    BY DEF ArriveInv, RelayTypeOK, RelayFaults, Undisturbed
  <2> QED BY <2>1 DEF ArriveInv, EmissionsArrive, Arrives
<1> QED BY ArriveInit, <1>1, <1>2, PTL DEF RelaySpec
=============================================================================
