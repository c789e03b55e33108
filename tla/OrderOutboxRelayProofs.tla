----------------------- MODULE OrderOutboxRelayProofs -----------------------
(* Theorems about OrderOutboxRelay, for every set of rows and replicas,     *)
(* every batch size and every number of faults.                             *)
EXTENDS OrderOutboxRelay, FiniteSetTheorems, TLAPS

-----------------------------------------------------------------------------
(* Types *)

LEMMA TypeInit == Init => TypeOK
  BY RelayAssumption DEF Init, TypeOK

LEMMA FaultType ==
    ASSUME TypeOK, NEW kind \in RelayFaults, Fault(kind)
    PROVE  faults' \in [RelayFaults -> Nat]
  BY DEF TypeOK, Fault

LEMMA TypeStep == TypeOK /\ [Next]_relayVars => TypeOK'
<1> SUFFICES ASSUME TypeOK, [Next]_relayVars PROVE TypeOK'
  OBVIOUS
<1> USE DEF TypeOK
<1>0. {"crash", "stop", "connect", "publish", "database"} = RelayFaults
  BY DEF RelayFaults
<1>1. ASSUME NEW r \in Rows, InsertRow(r) PROVE TypeOK'
  BY <1>1 DEF InsertRow, replica
<1>2. ASSUME NEW w \in Workers, Poll(w) PROVE TypeOK'
  <2>1. OldestPending \subseteq Rows
    BY DEF OldestPending, Pending
  <2> QED BY <1>2, <2>1 DEF Poll
<1>3. ASSUME NEW w \in Workers, NEW r \in Rows, Publish(w, r) PROVE TypeOK'
  BY <1>3 DEF Publish
<1>4. ASSUME NEW w \in Workers, NEW r \in Rows, PublishRefused(w, r) PROVE TypeOK'
  BY <1>4 DEF PublishRefused
<1>5. ASSUME NEW w \in Workers, NEW r \in Rows, PublishFails(w, r) PROVE TypeOK'
  BY <1>5, <1>0, FaultType DEF PublishFails
<1>6. ASSUME NEW w \in Workers, NEW r \in Rows, MarkSent(w, r) PROVE TypeOK'
  BY <1>6 DEF MarkSent, NextEntry
<1>7. ASSUME NEW w \in Workers, MarkSentFails(w) PROVE TypeOK'
  BY <1>7, <1>0, FaultType DEF MarkSentFails
<1>8. ASSUME NEW w \in Workers, NEW r \in Rows, MarkFailed(w, r) PROVE TypeOK'
  BY <1>8 DEF MarkFailed, NextEntry
<1>9. ASSUME NEW w \in Workers, MarkFailedFails(w) PROVE TypeOK'
  BY <1>9, <1>0, FaultType DEF MarkFailedFails
<1>10. ASSUME NEW w \in Workers, Crash(w) \/ Exit(w) PROVE TypeOK'
  BY <1>10, <1>0, FaultType DEF Crash, Exit, Leave
<1>11. ASSUME NEW w \in Workers, ShutDown(w) PROVE TypeOK'
  BY <1>11, <1>0, FaultType DEF ShutDown
<1>12. ASSUME NEW w \in Workers, Start(w) PROVE TypeOK'
  BY <1>12, <1>0, FaultType DEF Start
<1>13. CASE UNCHANGED relayVars
  BY <1>13 DEF relayVars
<1> QED
  BY <1>1, <1>2, <1>3, <1>4, <1>5, <1>6, <1>7, <1>8, <1>9, <1>10, <1>11,
     <1>12, <1>13 DEF Next, ProcessEntry, EntryFails

(* Every variable keeps its type. *)
THEOREM TypeCorrect == Spec => []TypeOK
  BY TypeInit, TypeStep, PTL DEF Spec

-----------------------------------------------------------------------------
(* No row is retired unsent *)

LEMMA CurrentIsUnique ==
    ASSUME NEW w \in Workers, NEW r \in Rows, NEW s \in Rows, Current(w, r), Current(w, s)
    PROVE  r = s
  BY RelayAssumption DEF Current

(* A copy more of one row takes no copy of another away. *)
LEMMA CopiesGrow ==
    ASSUME TypeOK, NEW r \in Rows, copies' = [copies EXCEPT ![r] = @ + 1]
    PROVE  copies'[r] > 0 /\ \A s \in Rows : copies[s] > 0 => copies'[s] > 0
  BY DEF TypeOK

(* A replica that has published its current row has put it in the topic. *)
PublishedInv ==
    \A w \in Workers : relayPc[w] = "published" =>
        \A r \in Rows : Current(w, r) => copies[r] > 0

(* A replica only holds rows that are in the table, and none when it is down. *)
FetchedInv ==
    \A w \in Workers :
        /\ \A r \in batch[w] : row[r] # "absent"
        /\ relayPc[w] = "down" => batch[w] = {}

SentInv == TypeOK /\ SentIsPublished /\ PublishedInv /\ FetchedInv

LEMMA SentInit == Init => SentInv
  BY TypeInit DEF Init, SentInv, SentIsPublished, PublishedInv, FetchedInv

LEMMA SentStep == SentInv /\ [Next]_relayVars => SentInv'
<1> SUFFICES ASSUME SentInv, [Next]_relayVars PROVE SentInv'
  OBVIOUS
<1> TypeOK /\ TypeOK'
  BY TypeStep DEF SentInv
<1> USE DEF TypeOK, SentInv, SentIsPublished, PublishedInv, FetchedInv, Current
<1>1. ASSUME NEW r \in Rows, InsertRow(r) PROVE SentInv'
  BY <1>1 DEF InsertRow, replica
<1>2. ASSUME NEW w \in Workers, Poll(w) PROVE SentInv'
  BY <1>2 DEF Poll, OldestPending, Pending
<1>3. ASSUME NEW w \in Workers, NEW r \in Rows, Publish(w, r) PROVE SentInv'
  <2>1. SentIsPublished' /\ FetchedInv'
    BY <1>3, CopiesGrow DEF Publish
  <2>2. PublishedInv'
    BY <1>3, CopiesGrow, CurrentIsUnique DEF Publish
  <2> QED BY <2>1, <2>2
<1>4. ASSUME NEW w \in Workers, NEW r \in Rows, PublishRefused(w, r) PROVE SentInv'
  BY <1>4 DEF PublishRefused
<1>5. ASSUME NEW w \in Workers, NEW r \in Rows, PublishFails(w, r) PROVE SentInv'
  BY <1>5, CopiesGrow DEF PublishFails
<1>6. ASSUME NEW w \in Workers, NEW r \in Rows, MarkSent(w, r) PROVE SentInv'
  BY <1>6 DEF MarkSent, NextEntry
<1>7. ASSUME NEW w \in Workers, MarkSentFails(w) PROVE SentInv'
  BY <1>7 DEF MarkSentFails
<1>8. ASSUME NEW w \in Workers, NEW r \in Rows, MarkFailed(w, r) PROVE SentInv'
  BY <1>8 DEF MarkFailed, NextEntry
<1>9. ASSUME NEW w \in Workers, MarkFailedFails(w) PROVE SentInv'
  BY <1>9 DEF MarkFailedFails
<1>10. ASSUME NEW w \in Workers, Crash(w) \/ Exit(w) PROVE SentInv'
  BY <1>10 DEF Crash, Exit, Leave
<1>11. ASSUME NEW w \in Workers, ShutDown(w) PROVE SentInv'
  BY <1>11 DEF ShutDown
<1>12. ASSUME NEW w \in Workers, Start(w) PROVE SentInv'
  BY <1>12 DEF Start
<1>13. CASE UNCHANGED relayVars
  BY <1>13 DEF relayVars
<1> QED
  BY <1>1, <1>2, <1>3, <1>4, <1>5, <1>6, <1>7, <1>8, <1>9, <1>10, <1>11,
     <1>12, <1>13 DEF Next, ProcessEntry, EntryFails

LEMMA SentInvariant == Spec => []SentInv
  BY SentInit, SentStep, PTL DEF Spec

(* markSent only ever retires a row that Kafka has, whatever crashes,       *)
(* shutdowns and errors fall between the publish and the update, and        *)
(* whichever replicas hold the same row.                                    *)
THEOREM NoRowRetiredUnsent == Spec => []SentIsPublished
<1>1. SentInv => SentIsPublished
  BY DEF SentInv
<1> QED BY <1>1, SentInvariant, PTL

-----------------------------------------------------------------------------
(* The relay implements EventPublication *)

LEMMA OutboxInit == Init => Outbox!PubInit
  BY DEF Init, Outbox!PubInit

LEMMA PublishImplements ==
    ASSUME SentInv, NEW w \in Workers, NEW r \in Rows, Current(w, r),
           copies' = [copies EXCEPT ![r] = @ + 1], row' = row
    PROVE  Outbox!Publish(r)
<1>1. row[r] # "absent"
  BY DEF SentInv, FetchedInv, Current
<1>2. {q \in Rows : copies'[q] > 0} = {q \in Rows : copies[q] > 0} \cup {r}
  BY DEF SentInv, TypeOK
<1> QED BY <1>1, <1>2 DEF Outbox!Publish

LEMMA OutboxStep ==
    SentInv /\ [Next]_relayVars => [Outbox!PubNext]_(Outbox!pubVars)
<1> SUFFICES ASSUME SentInv, [Next]_relayVars
             PROVE Outbox!PubNext \/ UNCHANGED Outbox!pubVars
  OBVIOUS
<1>1. ASSUME NEW r \in Rows, InsertRow(r) PROVE Outbox!Record(r)
  BY <1>1 DEF InsertRow, Outbox!Record, SentInv, TypeOK
<1>2. ASSUME NEW w \in Workers, NEW r \in Rows, Publish(w, r) PROVE Outbox!Publish(r)
  BY <1>2, PublishImplements DEF Publish
<1>3. ASSUME NEW w \in Workers, NEW r \in Rows, PublishFails(w, r)
      PROVE Outbox!Publish(r) \/ UNCHANGED <<row, copies>>
  BY <1>3, PublishImplements DEF PublishFails
<1>4. ASSUME NEW w \in Workers, NEW r \in Rows, MarkSent(w, r)
      PROVE Outbox!PubNext
  <2>1. copies[r] > 0
    BY <1>4 DEF MarkSent, SentInv, PublishedInv
  <2>2. {q \in Rows : row'[q] = "SENT"} = {q \in Rows : row[q] = "SENT"} \cup {r}
    BY <1>4 DEF MarkSent, SentInv, TypeOK
  <2>3. {q \in Rows : row'[q] # "absent"} = {q \in Rows : row[q] # "absent"}
    BY <1>4 DEF MarkSent, SentInv, TypeOK, FetchedInv, Current
  <2>4. Outbox!Retire({r})
    BY <1>4, <2>1, <2>2, <2>3 DEF MarkSent, Outbox!Retire
  <2> QED BY <2>1, <2>4 DEF Outbox!PubNext
<1>5. ASSUME NEW w \in Workers,
             Poll(w) \/ MarkSentFails(w) \/ MarkFailedFails(w)
             \/ Crash(w) \/ Exit(w) \/ ShutDown(w) \/ Start(w)
      PROVE UNCHANGED <<row, copies>>
  BY <1>5 DEF Poll, MarkSentFails, MarkFailedFails, Crash, Exit, Leave,
              ShutDown, Start
<1>6. ASSUME NEW w \in Workers, NEW r \in Rows, MarkFailed(w, r) \/ PublishRefused(w, r)
      PROVE UNCHANGED <<row, copies>>
  BY <1>6 DEF MarkFailed, PublishRefused
<1>7. UNCHANGED relayVars => UNCHANGED <<row, copies>>
  BY DEF relayVars
<1>8. UNCHANGED <<row, copies>> => UNCHANGED Outbox!pubVars
  BY DEF Outbox!pubVars
<1>9. (\E r \in Rows : Outbox!Record(r) \/ Outbox!Publish(r)) => Outbox!PubNext
  BY DEF Outbox!PubNext
<1> QED
  BY <1>1, <1>2, <1>3, <1>4, <1>5, <1>6, <1>7, <1>8, <1>9
     DEF Next, ProcessEntry, EntryFails

(* Every behaviour of the relay is, seen from the outside, a behaviour of   *)
(* a transactional outbox: recorded, then published, only then retired.     *)
THEOREM RelayImplementsOutbox == Spec => RelayIsAnOutbox
  BY OutboxInit, OutboxStep, SentInvariant, PTL
     DEF Spec, RelayIsAnOutbox, Outbox!SafePublication

-----------------------------------------------------------------------------
(* OrderCreated is the first of its order in the topic *)

(* The table: no row of an order without the order's first row. *)
CreatedInserted ==
    \A q, r \in Rows : Creates(q, r) /\ row[r] # "absent" => row[q] # "absent"

(* Nothing more is to be done for r: Kafka has it, or will never take it. *)
Through(r) == copies[r] > 0 \/ r \in Poisoned

(* A connected replica holds a row only together with the first row of its  *)
(* order, or that one is through already.                                   *)
CoveredInv ==
    \A w \in Workers : producer[w] = "connected" =>
        \A q, r \in Rows : r \in batch[w] /\ Creates(q, r) => q \in batch[w] \/ Through(q)

(* Without a publish that fails, a connected replica only skips rows that   *)
(* it has published, or that the broker rejects.                            *)
SkippedInv ==
    \A w \in Workers : producer[w] = "connected" /\ relayPc[w] = "failed" =>
        \A r \in Rows : Current(w, r) => Through(r)

CreatedIsFirst ==
    \A q, r \in Rows : Creates(q, r) /\ copies[r] > 0 => Through(q)

OrderedInv == CreatedInserted /\ CoveredInv /\ SkippedInv /\ CreatedIsFirst
FirstInv == SentInv /\ (faults["publish"] = 0 => OrderedInv)

LEMMA FirstInit == Init => FirstInv
  BY SentInit DEF Init, FirstInv, OrderedInv, CreatedInserted, CoveredInv, SkippedInv,
                  CreatedIsFirst

(* A fault once counted stays counted. *)
LEMMA FaultsStay ==
    ASSUME TypeOK, [Next]_relayVars, faults'["publish"] = 0
    PROVE  faults["publish"] = 0
<1>1. (\E kind \in RelayFaults : Fault(kind)) \/ UNCHANGED faults
  <2>1. \A f \in {"crash", "stop", "connect", "publish", "database"} : f \in RelayFaults
    BY DEF RelayFaults
  <2> QED
    BY <2>1 DEF Next, ProcessEntry, EntryFails, InsertRow, Poll, Publish, PublishRefused,
                PublishFails, MarkSent, MarkSentFails, MarkFailed, MarkFailedFails, Crash,
                ShutDown, Exit, Start, relayVars
<1>2. ASSUME NEW kind \in RelayFaults, Fault(kind) PROVE faults["publish"] = 0
  <2>1. "publish" \in RelayFaults
    BY DEF RelayFaults
  <2> QED BY <1>2, <2>1 DEF Fault, TypeOK
<1> QED BY <1>1, <1>2

(* A row older than one of the Limit oldest PENDING rows is one of them.    *)
LEMMA OlderIsFetched ==
    ASSUME NEW q \in Pending, NEW r \in OldestPending, q <= r
    PROVE  q \in OldestPending
<1> DEFINE Before(x) == {p \in Pending : p < x}
<1>1. Pending \subseteq Nat /\ IsFiniteSet(Pending)
  BY RelayAssumption, FS_Subset DEF Pending
<1>2. r \in Pending /\ Cardinality(Before(r)) < Limit
  BY DEF OldestPending
<1>3. Before(q) \subseteq Before(r)
  <2>1. ASSUME NEW p \in Before(q) PROVE p \in Before(r)
    <3>1. p \in Pending /\ p < q
      BY <2>1
    <3>2. p \in Nat /\ q \in Nat /\ r \in Nat
      BY <1>1, <1>2, <3>1
    <3>3. p < r
      BY <3>1, <3>2
    <3> QED BY <3>1, <3>3
  <2> QED BY <2>1
<1>4. IsFiniteSet(Before(r)) /\ IsFiniteSet(Before(q))
  <2>1. Before(r) \subseteq Pending /\ Before(q) \subseteq Pending
    OBVIOUS
  <2> HIDE DEF Before
  <2> QED BY <1>1, <2>1, FS_Subset
<1>5. Cardinality(Before(q)) <= Cardinality(Before(r))
  BY <1>3, <1>4, FS_Subset
<1>6. Cardinality(Before(q)) \in Nat /\ Cardinality(Before(r)) \in Nat
  BY <1>4, FS_CardinalityType
<1>7. Cardinality(Before(q)) < Limit
  BY <1>2, <1>5, <1>6, RelayAssumption
<1> QED BY <1>7 DEF OldestPending

LEMMA FirstStep ==
    ASSUME SentInv, OrderedInv, [Next]_relayVars, faults'["publish"] = 0
    PROVE  OrderedInv'
<1> TypeOK /\ TypeOK' /\ SentInv' /\ CreatedInserted /\ CoveredInv /\ SkippedInv
  BY SentStep, TypeStep DEF OrderedInv, SentInv
<1>0. CreatedIsFirst /\ SentIsPublished
  BY DEF OrderedInv, SentInv
<1> USE DEF TypeOK, Through
<1>t. CreatedInserted' /\ CoveredInv' /\ SkippedInv' /\ CreatedIsFirst' => OrderedInv'
  BY DEF OrderedInv
<1>1. ASSUME NEW r \in Rows, InsertRow(r) PROVE OrderedInv'
  <2>1. CreatedInserted'
    BY <1>1 DEF InsertRow, CreatedInserted
  <2> QED
    BY <1>1, <1>0, <1>t, <2>1
       DEF InsertRow, replica, CoveredInv, SkippedInv, CreatedIsFirst, Current
<1>2. ASSUME NEW w \in Workers, Poll(w) PROVE OrderedInv'
  <2>1. ASSUME NEW q \in Rows, NEW r \in Rows, r \in OldestPending, Creates(q, r)
        PROVE  q \in OldestPending \/ Through(q)
    <3>1. row[q] # "absent"
      BY <2>1 DEF CreatedInserted, OldestPending, Pending
    <3>2. q <= r
      BY <2>1 DEF Creates, Precedes
    <3>3. CASE row[q] = "SENT"
      BY <1>0, <3>3 DEF SentIsPublished
    <3>4. CASE row[q] = "PENDING"
      BY <3>2, <3>4, <2>1, OlderIsFetched DEF Pending
    <3> QED BY <3>1, <3>3, <3>4
  <2>2. CoveredInv'
    BY <1>2, <2>1 DEF Poll, CoveredInv
  <2> QED
    BY <1>2, <1>0, <1>t, <2>2
       DEF Poll, CreatedInserted, SkippedInv, CreatedIsFirst, Current
<1>3. ASSUME NEW w \in Workers, NEW r \in Rows, Publish(w, r) PROVE OrderedInv'
  <2>1. copies'[r] > 0 /\ \A s \in Rows : copies[s] > 0 => copies'[s] > 0
    BY <1>3, CopiesGrow DEF Publish
  <2>2. \A s \in Rows : s # r => copies'[s] = copies[s]
    BY <1>3 DEF Publish
  <2>3. ASSUME NEW q \in Rows, Creates(q, r) PROVE Through(q)'
    <3>1. q \in batch[w] \/ Through(q)
      BY <1>3, <2>3 DEF Publish, CoveredInv, Current
    <3>2. q \in batch[w] => q = r
      BY <1>3, <2>3, RelayAssumption DEF Publish, Current, Creates, Precedes
    <3> QED BY <3>1, <3>2, <2>1
  <2>4. CreatedIsFirst'
    BY <1>0, <2>1, <2>2, <2>3 DEF CreatedIsFirst
  <2>5. CoveredInv' /\ CreatedInserted'
    BY <1>3, <2>1 DEF Publish, CoveredInv, CreatedInserted
  <2>6. SkippedInv'
    BY <1>3, <2>1 DEF Publish, SkippedInv, Current
  <2> QED BY <1>t, <2>4, <2>5, <2>6
<1>4. ASSUME NEW w \in Workers, NEW r \in Rows, PublishRefused(w, r) PROVE OrderedInv'
  <2>1. producer[w] = "connected" => \A q \in Rows : Current(w, q) => Through(q)
    BY <1>4, CurrentIsUnique DEF PublishRefused
  <2>2. SkippedInv'
    BY <1>4, <2>1 DEF PublishRefused, SkippedInv, Current
  <2> QED
    BY <1>4, <1>0, <1>t, <2>2
       DEF PublishRefused, CreatedInserted, CoveredInv, CreatedIsFirst
<1>5. ASSUME NEW w \in Workers, NEW r \in Rows, PublishFails(w, r) PROVE OrderedInv'
  <2>1. faults["publish"] = 0 /\ "publish" \in RelayFaults
    BY FaultsStay DEF RelayFaults
  <2>2. faults'["publish"] = 1
    BY <1>5, <2>1 DEF PublishFails, Fault
  <2> QED BY <2>2
<1>6. ASSUME NEW w \in Workers, NEW r \in Rows, MarkSent(w, r) PROVE OrderedInv'
  <2>1. copies[r] > 0 /\ row[r] # "absent"
    BY <1>6 DEF MarkSent, SentInv, PublishedInv, FetchedInv, Current
  <2>2. CreatedInserted' /\ CreatedIsFirst'
    BY <1>6, <1>0, <2>1 DEF MarkSent, CreatedInserted, CreatedIsFirst
  <2>3. CoveredInv'
    BY <1>6, <2>1 DEF MarkSent, NextEntry, CoveredInv
  <2>4. SkippedInv'
    BY <1>6 DEF MarkSent, NextEntry, SkippedInv, Current
  <2> QED BY <1>t, <2>2, <2>3, <2>4
<1>7. ASSUME NEW w \in Workers, MarkSentFails(w) PROVE OrderedInv'
  <2>1. SkippedInv'
    BY <1>7 DEF MarkSentFails, SkippedInv, SentInv, PublishedInv, Current
  <2> QED
    BY <1>7, <1>0, <1>t, <2>1
       DEF MarkSentFails, CreatedInserted, CoveredInv, CreatedIsFirst
<1>8. ASSUME NEW w \in Workers, NEW r \in Rows, MarkFailed(w, r) PROVE OrderedInv'
  <2>1. producer[w] = "connected" => Through(r)
    BY <1>8 DEF MarkFailed, SkippedInv
  <2>2. CoveredInv'
    BY <1>8, <2>1 DEF MarkFailed, NextEntry, CoveredInv
  <2>3. SkippedInv'
    BY <1>8 DEF MarkFailed, NextEntry, SkippedInv, Current
  <2> QED
    BY <1>8, <1>0, <1>t, <2>2, <2>3 DEF MarkFailed, CreatedInserted, CreatedIsFirst
<1>9. ASSUME NEW w \in Workers, MarkFailedFails(w) PROVE OrderedInv'
  BY <1>9, <1>0, <1>t DEF MarkFailedFails, CreatedInserted, CoveredInv, SkippedInv,
                      CreatedIsFirst, Current
<1>10. ASSUME NEW w \in Workers, Crash(w) \/ Exit(w) PROVE OrderedInv'
  BY <1>10, <1>0, <1>t DEF Crash, Exit, Leave, CreatedInserted, CoveredInv, SkippedInv,
                      CreatedIsFirst, Current
<1>11. ASSUME NEW w \in Workers, ShutDown(w) PROVE OrderedInv'
  BY <1>11, <1>0, <1>t DEF ShutDown, CreatedInserted, CoveredInv, SkippedInv,
                      CreatedIsFirst, Current
<1>12. ASSUME NEW w \in Workers, Start(w) PROVE OrderedInv'
  BY <1>12, <1>0, <1>t DEF Start, SentInv, FetchedInv, CreatedInserted, CoveredInv, SkippedInv,
                      CreatedIsFirst, Current
<1>13. CASE UNCHANGED relayVars
  BY <1>13, <1>0, <1>t DEF relayVars, CreatedInserted, CoveredInv, SkippedInv,
                      CreatedIsFirst, Current
<1> QED
  BY <1>1, <1>2, <1>3, <1>4, <1>5, <1>6, <1>7, <1>8, <1>9, <1>10, <1>11,
     <1>12, <1>13 DEF Next, ProcessEntry, EntryFails

(* As long as no publish has failed, replicas that work on the same rows at *)
(* the same time, crash and lose their marks still show Kafka each order's  *)
(* OrderCreated before anything else about the order, unless the broker     *)
(* rejects that message for good.                                           *)
THEOREM CreatedIsPublishedFirst == Spec => []CreatedReachesKafkaFirst
<1>1. FirstInv /\ [Next]_relayVars => FirstInv'
  BY FirstStep, FaultsStay, SentStep DEF FirstInv, SentInv
<1>2. FirstInv => CreatedReachesKafkaFirst
  BY DEF FirstInv, OrderedInv, CreatedIsFirst, Through, CreatedReachesKafkaFirst
<1> QED BY FirstInit, <1>1, <1>2, PTL DEF Spec

-----------------------------------------------------------------------------
(* Duplicates have a cause *)

(* Replicas that have published r and go on to mark it. *)
Publishers(r) ==
    {w \in Workers : relayPc[w] = "published" /\ ~stopping[w] /\ Current(w, r)}

(* Replicas that hold r and have not just published it. *)
Waiting(r) ==
    {w \in Workers : r \in batch[w] /\ ~(relayPc[w] = "published" /\ Current(w, r))}

(* While a row is PENDING, a copy of it has a replica that is about to mark *)
(* it, or a fault.  Once it is SENT no replica fetches it again, and those  *)
(* that hold it may publish it once more each.                              *)
Accounted(r) ==
    /\ row[r] = "absent" => copies[r] = 0
    /\ row[r] = "PENDING" => copies[r] <= Cardinality(Publishers(r)) + FaultsSoFar
    /\ row[r] = "SENT" => copies[r] + Cardinality(Waiting(r)) <= Cardinality(Workers) + FaultsSoFar

(* A replica in its shutdown publishes nothing more. *)
StoppedInv ==
    \A w \in Workers :
        /\ stopping[w] => producer[w] = "unconnected"
        /\ relayPc[w] = "down" => ~stopping[w]

CopyInv == SentInv /\ StoppedInv /\ \A r \in Rows : Accounted(r)

LEMMA ReplicaSets ==
    ASSUME NEW S \in SUBSET Workers
    PROVE  IsFiniteSet(S) /\ Cardinality(S) \in Nat /\ Cardinality(S) <= Cardinality(Workers)
  BY RelayAssumption, FS_Subset, FS_CardinalityType

LEMMA SmallerSet ==
    ASSUME NEW S \in SUBSET Workers, NEW T \in SUBSET S
    PROVE  Cardinality(T) <= Cardinality(S)
  BY ReplicaSets, FS_Subset

LEMMA OneMore ==
    ASSUME NEW S \in SUBSET Workers, NEW T \in SUBSET Workers, NEW w \in Workers, S \subseteq T \cup {w}
    PROVE  Cardinality(S) <= Cardinality(T) + 1
<1>1. IsFiniteSet(T) /\ Cardinality(T) \in Nat
  BY ReplicaSets
<1>2. Cardinality(T \cup {w}) <= Cardinality(T) + 1
  <2>1. Cardinality(T \cup {w}) = IF w \in T THEN Cardinality(T) ELSE Cardinality(T) + 1
    BY <1>1, FS_AddElement, Zenon
  <2> QED BY <1>1, <2>1
<1>3. Cardinality(S) <= Cardinality(T \cup {w})
  BY SmallerSet
<1>4. Cardinality(S) \in Nat /\ Cardinality(T \cup {w}) \in Nat
  BY ReplicaSets
<1> QED BY <1>1, <1>2, <1>3, <1>4

LEMMA OneLess ==
    ASSUME NEW S \in SUBSET Workers, NEW w \in S
    PROVE  Cardinality(S \ {w}) = Cardinality(S) - 1
  BY ReplicaSets, FS_RemoveElement

LEMMA RowSets ==
    ASSUME NEW r \in Rows
    PROVE  /\ Publishers(r) \subseteq Workers /\ Waiting(r) \subseteq Workers
           /\ Cardinality(Publishers(r)) \in Nat /\ Cardinality(Waiting(r)) \in Nat
           /\ Cardinality(Workers) \in Nat
<1>1. Publishers(r) \subseteq Workers /\ Waiting(r) \subseteq Workers
  BY DEF Publishers, Waiting
<1> QED BY <1>1, ReplicaSets

LEMMA RowSetsNext ==
    ASSUME NEW r \in Rows
    PROVE  /\ Publishers(r)' \subseteq Workers /\ Waiting(r)' \subseteq Workers
           /\ Cardinality(Publishers(r)') \in Nat /\ Cardinality(Waiting(r)') \in Nat
<1>1. Publishers(r)' \subseteq Workers /\ Waiting(r)' \subseteq Workers
  BY DEF Publishers, Waiting
<1> QED BY <1>1, ReplicaSets

LEMMA PublishersOrWaiting ==
    ASSUME NEW r \in Rows
    PROVE  Cardinality(Publishers(r)) + Cardinality(Waiting(r)) <= Cardinality(Workers)
<1>1. Publishers(r) \cap Waiting(r) = {}
  BY DEF Publishers, Waiting
<1>2. Cardinality(Publishers(r) \cup Waiting(r)) = Cardinality(Publishers(r)) + Cardinality(Waiting(r))
  <2>1. IsFiniteSet(Publishers(r)) /\ IsFiniteSet(Waiting(r))
    BY RowSets, ReplicaSets
  <2>2. Cardinality(Publishers(r) \cup Waiting(r)) =
              Cardinality(Publishers(r)) + Cardinality(Waiting(r)) - Cardinality(Publishers(r) \cap Waiting(r))
    BY <2>1, FS_Union, Zenon
  <2> QED BY <1>1, <2>2, RowSets, FS_EmptySet
<1>3. Publishers(r) \cup Waiting(r) \in SUBSET Workers
  BY RowSets
<1> QED BY <1>2, <1>3, ReplicaSets

LEMMA FaultsType == TypeOK => FaultsSoFar \in Nat
  BY DEF TypeOK, FaultsSoFar, RelayFaults

LEMMA FaultCounts ==
    ASSUME TypeOK, NEW kind \in RelayFaults, Fault(kind)
    PROVE  FaultsSoFar' = IF kind = "connect" THEN FaultsSoFar ELSE FaultsSoFar + 1
  BY DEF TypeOK, Fault, FaultsSoFar, RelayFaults

(* Only w moves: the other replicas stay where they are. *)
OnlyMoves(w) ==
    \A g \in Workers \ {w} :
        batch'[g] = batch[g] /\ relayPc'[g] = relayPc[g] /\ stopping'[g] = stopping[g]

LEMMA OthersStay ==
    ASSUME NEW w \in Workers, OnlyMoves(w), NEW r \in Rows
    PROVE  /\ Publishers(r) \subseteq Publishers(r)' \cup {w}
           /\ Waiting(r)' \subseteq Waiting(r) \cup {w}
           /\ Waiting(r) \subseteq Waiting(r)' \cup {w}
<1>1. \A g \in Workers \ {w} : Current(g, r)' <=> Current(g, r)
  BY DEF OnlyMoves, Current
<1> QED BY <1>1 DEF OnlyMoves, Publishers, Waiting

(* A fault pays for whatever becomes of w. *)
LEMMA FaultPays ==
    ASSUME TypeOK, TypeOK', NEW r \in Rows, Accounted(r), NEW w \in Workers, OnlyMoves(w),
           row' = row, copies' = copies, FaultsSoFar' = FaultsSoFar + 1
    PROVE  Accounted(r)'
<1>1. Cardinality(Publishers(r)) <= Cardinality(Publishers(r)') + 1
  BY OthersStay, RowSets, RowSetsNext, OneMore
<1>2. Cardinality(Waiting(r)') <= Cardinality(Waiting(r)) + 1
  BY OthersStay, RowSets, RowSetsNext, OneMore
<1>3. FaultsSoFar \in Nat /\ copies[r] \in Nat
  BY FaultsType DEF TypeOK
<1> QED BY <1>1, <1>2, <1>3, RowSets, RowSetsNext DEF Accounted

(* Nothing is to be paid for: w does not lose a copy it has to mark, and    *)
(* holds no row more that is SENT.                                          *)
LEMMA NothingToPay ==
    ASSUME TypeOK, TypeOK', NEW r \in Rows, Accounted(r), NEW w \in Workers, OnlyMoves(w),
           row'[r] = row[r], copies'[r] = copies[r], FaultsSoFar' = FaultsSoFar,
           row[r] = "PENDING" /\ w \in Publishers(r) => w \in Publishers(r)',
           row[r] = "SENT" /\ w \in Waiting(r)' => w \in Waiting(r)
    PROVE  Accounted(r)'
<1>1. ASSUME row[r] = "PENDING" PROVE Cardinality(Publishers(r)) <= Cardinality(Publishers(r)')
  <2>1. Publishers(r) \subseteq Publishers(r)'
    BY <1>1, OthersStay
  <2> QED BY <2>1, RowSetsNext, SmallerSet
<1>2. ASSUME row[r] = "SENT" PROVE Cardinality(Waiting(r)') <= Cardinality(Waiting(r))
  <2>1. Waiting(r)' \subseteq Waiting(r)
    BY <1>2, OthersStay
  <2> QED BY <2>1, RowSets, SmallerSet
<1>3. FaultsSoFar \in Nat /\ copies[r] \in Nat
  BY FaultsType DEF TypeOK
<1> QED BY <1>1, <1>2, <1>3, RowSets, RowSetsNext DEF Accounted

LEMMA AccountedStep ==
    ASSUME SentInv, TypeOK, TypeOK', StoppedInv, [Next]_relayVars, NEW q \in Rows, Accounted(q)
    PROVE  Accounted(q)'
<1>0. RelayFaults = {"crash", "stop", "connect", "publish", "database"}
  BY DEF RelayFaults
<1>n. FaultsSoFar \in Nat /\ copies \in [Rows -> Nat]
  BY FaultsType DEF TypeOK
<1>same. faults' = faults => FaultsSoFar' = FaultsSoFar
  BY DEF FaultsSoFar
<1>1. ASSUME NEW r \in Rows, InsertRow(r) PROVE Accounted(q)'
  <2>1. UNCHANGED <<copies, batch, relayPc, stopping>> /\ FaultsSoFar' = FaultsSoFar
    BY <1>1, <1>same DEF InsertRow, replica
  <2>2. Publishers(q)' = Publishers(q) /\ Waiting(q)' = Waiting(q)
    BY <2>1 DEF Publishers, Waiting, Current
  <2>3. row[r] = "absent" /\ row' = [row EXCEPT ![r] = "PENDING"]
    BY <1>1 DEF InsertRow
  <2>4. CASE q = r
    <3>1. row'[q] = "PENDING" /\ copies'[q] = 0
      BY <2>1, <2>3, <2>4 DEF Accounted, TypeOK
    <3> QED BY <1>n, <2>1, <2>2, <3>1, RowSets DEF Accounted
  <2>5. CASE q # r
    BY <2>1, <2>2, <2>3, <2>5 DEF Accounted, TypeOK
  <2> QED BY <2>4, <2>5
<1>2. ASSUME NEW w \in Workers, Poll(w) PROVE Accounted(q)'
  <2>1. /\ relayPc[w] = "idle" /\ batch' = [batch EXCEPT ![w] = OldestPending]
        /\ relayPc' = [relayPc EXCEPT ![w] = "fetched"] /\ UNCHANGED <<row, copies, stopping, faults>>
    BY <1>2 DEF Poll
  <2>2. OnlyMoves(w)
    BY <2>1 DEF OnlyMoves, TypeOK
  <2>3. w \notin Publishers(q)
    BY <2>1 DEF Publishers
  <2>4. row[q] = "SENT" => w \notin Waiting(q)'
    BY <2>1 DEF Waiting, OldestPending, Pending, TypeOK
  <2> QED BY <1>same, <2>1, <2>2, <2>3, <2>4, NothingToPay
<1>3. ASSUME NEW w \in Workers, NEW r \in Rows, Publish(w, r) PROVE Accounted(q)'
  <2>1. /\ relayPc[w] = "fetched" /\ Current(w, r) /\ producer[w] = "connected"
        /\ copies' = [copies EXCEPT ![r] = @ + 1] /\ relayPc' = [relayPc EXCEPT ![w] = "published"]
        /\ UNCHANGED <<row, batch, stopping, faults>>
    BY <1>3 DEF Publish
  <2>2. OnlyMoves(w)
    BY <2>1 DEF OnlyMoves, TypeOK
  <2>3. w \notin Publishers(q)
    BY <2>1 DEF Publishers
  <2>4. CASE q # r
    <3>1. w \in Waiting(q)' => w \in Waiting(q)
      BY <2>1 DEF Waiting
    <3>2. copies'[q] = copies[q]
      BY <1>n, <2>1, <2>4
    <3> QED BY <1>same, <2>1, <2>2, <2>3, <3>1, <3>2, NothingToPay
  <2>5. CASE q = r
    <3>1. copies'[q] = copies[q] + 1 /\ row'[q] = row[q] /\ FaultsSoFar' = FaultsSoFar /\ row[q] # "absent"
      BY <1>n, <1>same, <2>1, <2>5 DEF SentInv, FetchedInv, Current
    <3>2. w \in Publishers(q)' /\ w \in Waiting(q) /\ w \notin Waiting(q)'
      BY <2>1, <2>5 DEF Publishers, Waiting, Current, StoppedInv, TypeOK
    <3>3. Cardinality(Publishers(q)) + 1 <= Cardinality(Publishers(q)')
      <4>1. Publishers(q) \subseteq Publishers(q)' \ {w}
        BY <2>2, <2>3, OthersStay
      <4>2. Cardinality(Publishers(q)) <= Cardinality(Publishers(q)' \ {w})
        BY <4>1, RowSetsNext, SmallerSet
      <4>3. Cardinality(Publishers(q)' \ {w}) = Cardinality(Publishers(q)') - 1
        BY <3>2, RowSetsNext, OneLess
      <4> QED BY <4>2, <4>3, RowSets, RowSetsNext
    <3>4. Cardinality(Waiting(q)') + 1 <= Cardinality(Waiting(q))
      <4>1. Waiting(q)' \subseteq Waiting(q) \ {w}
        BY <2>2, <3>2, OthersStay
      <4>2. Cardinality(Waiting(q)') <= Cardinality(Waiting(q) \ {w})
        BY <4>1, RowSets, SmallerSet
      <4>3. Cardinality(Waiting(q) \ {w}) = Cardinality(Waiting(q)) - 1
        BY <3>2, RowSets, OneLess
      <4> QED BY <4>2, <4>3, RowSets, RowSetsNext
    <3> QED BY <1>n, <3>1, <3>3, <3>4, RowSets, RowSetsNext DEF Accounted
  <2> QED BY <2>4, <2>5
<1>4. ASSUME NEW w \in Workers, NEW r \in Rows, PublishRefused(w, r) PROVE Accounted(q)'
  <2>1. /\ relayPc[w] = "fetched" /\ relayPc' = [relayPc EXCEPT ![w] = "failed"]
        /\ UNCHANGED <<row, copies, batch, stopping, faults>>
    BY <1>4 DEF PublishRefused
  <2>2. OnlyMoves(w) /\ w \notin Publishers(q) /\ (w \in Waiting(q)' => w \in Waiting(q))
    BY <2>1 DEF OnlyMoves, Publishers, Waiting, TypeOK
  <2> QED BY <1>same, <2>1, <2>2, NothingToPay
<1>5. ASSUME NEW w \in Workers, NEW r \in Rows, PublishFails(w, r) PROVE Accounted(q)'
  <2>1. /\ relayPc[w] = "fetched" /\ Current(w, r) /\ relayPc' = [relayPc EXCEPT ![w] = "failed"]
        /\ UNCHANGED <<row, batch, stopping>> /\ FaultsSoFar' = FaultsSoFar + 1
    BY <1>0, <1>5, FaultCounts DEF PublishFails
  <2>2. Publishers(q)' = Publishers(q) /\ Waiting(q)' = Waiting(q)
    <3>1. OnlyMoves(w) /\ w \notin Publishers(q) /\ w \notin Publishers(q)'
          /\ (w \in Waiting(q)' <=> w \in Waiting(q))
      BY <2>1 DEF OnlyMoves, Publishers, Waiting, TypeOK
    <3>2. \A g \in Workers \ {w} : Current(g, q)' <=> Current(g, q)
      BY <2>1 DEF Current
    <3> QED BY <3>1, <3>2 DEF OnlyMoves, Publishers, Waiting
  <2>3. copies'[q] <= copies[q] + 1 /\ copies'[q] \in Nat /\ (q # r => copies'[q] = copies[q])
    BY <1>5, <1>n DEF PublishFails
  <2>4. row[r] # "absent"
    BY <2>1 DEF SentInv, FetchedInv, Current
  <2> QED BY <1>n, <2>1, <2>2, <2>3, <2>4, RowSets DEF Accounted
<1>6. ASSUME NEW w \in Workers, NEW r \in Rows, MarkSent(w, r) PROVE Accounted(q)'
  <2>1. /\ relayPc[w] = "published" /\ Current(w, r) /\ row' = [row EXCEPT ![r] = "SENT"]
        /\ batch' = [batch EXCEPT ![w] = @ \ {r}] /\ UNCHANGED <<copies, stopping, faults>>
    BY <1>6 DEF MarkSent, NextEntry
  <2>2. relayPc'[w] # "published" /\ OnlyMoves(w)
    BY <1>6 DEF MarkSent, NextEntry, OnlyMoves, TypeOK
  <2>3. CASE q # r
    <3>1. w \notin Publishers(q)
      BY <2>1, <2>3, CurrentIsUnique DEF Publishers
    <3>2. w \in Waiting(q)' => w \in Waiting(q)
      BY <2>1, <2>3, CurrentIsUnique DEF Waiting, TypeOK
    <3>3. row'[q] = row[q]
      BY <2>1, <2>3 DEF TypeOK
    <3> QED BY <1>same, <2>1, <2>2, <3>1, <3>2, <3>3, NothingToPay
  <2>4. CASE q = r
    <3>1. row'[q] = "SENT" /\ copies'[q] = copies[q] /\ FaultsSoFar' = FaultsSoFar /\ row[q] # "absent"
      BY <1>same, <2>1, <2>4 DEF TypeOK, SentInv, FetchedInv, Current
    <3>2. w \notin Waiting(q)'
      BY <2>1, <2>4 DEF Waiting, TypeOK
    <3>3. Waiting(q)' \subseteq Waiting(q)
      BY <2>2, <3>2, OthersStay
    <3>4. Cardinality(Waiting(q)') <= Cardinality(Waiting(q))
      BY <3>3, RowSets, SmallerSet
    <3>5. copies[q] + Cardinality(Waiting(q)) <= Cardinality(Workers) + FaultsSoFar
      <4>1. CASE row[q] = "PENDING"
        BY <1>n, <4>1, RowSets, PublishersOrWaiting DEF Accounted
      <4>2. CASE row[q] = "SENT"
        BY <4>2 DEF Accounted
      <4> QED BY <3>1, <4>1, <4>2 DEF TypeOK
    <3> QED BY <1>n, <3>1, <3>4, <3>5, RowSets, RowSetsNext DEF Accounted
  <2> QED BY <2>3, <2>4
<1>7. ASSUME NEW w \in Workers, MarkSentFails(w) PROVE Accounted(q)'
  <2>1. FaultsSoFar' = FaultsSoFar + 1 /\ OnlyMoves(w) /\ UNCHANGED <<row, copies>>
    BY <1>0, <1>7, FaultCounts DEF MarkSentFails, OnlyMoves, TypeOK
  <2> QED BY <2>1, FaultPays
<1>8. ASSUME NEW w \in Workers, NEW r \in Rows, MarkFailed(w, r) PROVE Accounted(q)'
  <2>1. /\ relayPc[w] = "failed" /\ batch' = [batch EXCEPT ![w] = @ \ {r}]
        /\ UNCHANGED <<row, copies, stopping, faults>>
    BY <1>8 DEF MarkFailed, NextEntry
  <2>2. OnlyMoves(w) /\ w \notin Publishers(q) /\ (w \in Waiting(q)' => w \in Waiting(q))
    BY <1>8, <2>1 DEF MarkFailed, NextEntry, OnlyMoves, Publishers, Waiting, TypeOK
  <2> QED BY <1>same, <2>1, <2>2, NothingToPay
<1>9. ASSUME NEW w \in Workers, MarkFailedFails(w) PROVE Accounted(q)'
  <2>1. FaultsSoFar' = FaultsSoFar + 1 /\ OnlyMoves(w) /\ UNCHANGED <<row, copies>>
    BY <1>0, <1>9, FaultCounts DEF MarkFailedFails, OnlyMoves, TypeOK
  <2> QED BY <2>1, FaultPays
<1>10. ASSUME NEW w \in Workers, Crash(w) PROVE Accounted(q)'
  <2>1. FaultsSoFar' = FaultsSoFar + 1 /\ OnlyMoves(w) /\ UNCHANGED <<row, copies>>
    BY <1>0, <1>10, FaultCounts DEF Crash, Leave, OnlyMoves, TypeOK
  <2> QED BY <2>1, FaultPays
<1>11. ASSUME NEW w \in Workers, ShutDown(w) PROVE Accounted(q)'
  <2>1. FaultsSoFar' = FaultsSoFar + 1 /\ OnlyMoves(w) /\ UNCHANGED <<row, copies>>
    BY <1>0, <1>11, FaultCounts DEF ShutDown, OnlyMoves, TypeOK
  <2> QED BY <2>1, FaultPays
<1>12. ASSUME NEW w \in Workers, Exit(w) PROVE Accounted(q)'
  <2>1. /\ stopping[w] /\ batch' = [batch EXCEPT ![w] = {}] /\ UNCHANGED <<row, copies, faults>>
    BY <1>12 DEF Exit, Leave
  <2>2. OnlyMoves(w)
    BY <1>12 DEF Exit, Leave, OnlyMoves, TypeOK
  <2>3. w \notin Publishers(q) /\ w \notin Waiting(q)'
    BY <2>1 DEF Publishers, Waiting, TypeOK
  <2> QED BY <1>same, <2>1, <2>2, <2>3, NothingToPay
<1>13. ASSUME NEW w \in Workers, Start(w) PROVE Accounted(q)'
  <2>1. /\ relayPc[w] = "down" /\ relayPc' = [relayPc EXCEPT ![w] = "idle"]
        /\ UNCHANGED <<row, copies, batch, stopping>>
    BY <1>13 DEF Start
  <2>2. FaultsSoFar' = FaultsSoFar
    BY <1>0, <1>13, <1>same, FaultCounts DEF Start
  <2>3. OnlyMoves(w) /\ w \notin Publishers(q) /\ (w \in Waiting(q)' => w \in Waiting(q))
    BY <2>1 DEF OnlyMoves, Publishers, Waiting, TypeOK
  <2> QED BY <2>1, <2>2, <2>3, NothingToPay
<1>14. CASE UNCHANGED relayVars
  BY <1>14 DEF relayVars, Accounted, Publishers, Waiting, Current, FaultsSoFar
<1> QED
  BY <1>1, <1>2, <1>3, <1>4, <1>5, <1>6, <1>7, <1>8, <1>9, <1>10, <1>11,
     <1>12, <1>13, <1>14 DEF Next, ProcessEntry, EntryFails

LEMMA StoppedStep == TypeOK /\ StoppedInv /\ [Next]_relayVars => StoppedInv'
<1> SUFFICES ASSUME TypeOK, StoppedInv, [Next]_relayVars PROVE StoppedInv'
  OBVIOUS
<1> USE DEF TypeOK, StoppedInv
<1>1. ASSUME NEW r \in Rows, InsertRow(r) PROVE StoppedInv'
  BY <1>1 DEF InsertRow, replica
<1>2. ASSUME NEW w \in Workers, Poll(w) \/ MarkSentFails(w) \/ MarkFailedFails(w)
      PROVE  StoppedInv'
  BY <1>2 DEF Poll, MarkSentFails, MarkFailedFails
<1>3. ASSUME NEW w \in Workers, NEW r \in Rows,
             Publish(w, r) \/ PublishRefused(w, r) \/ PublishFails(w, r)
      PROVE  StoppedInv'
  BY <1>3 DEF Publish, PublishRefused, PublishFails
<1>4. ASSUME NEW w \in Workers, NEW r \in Rows, MarkSent(w, r) \/ MarkFailed(w, r)
      PROVE  StoppedInv'
  BY <1>4 DEF MarkSent, MarkFailed, NextEntry
<1>5. ASSUME NEW w \in Workers, Crash(w) \/ Exit(w) PROVE StoppedInv'
  BY <1>5 DEF Crash, Exit, Leave
<1>6. ASSUME NEW w \in Workers, ShutDown(w) PROVE StoppedInv'
  BY <1>6 DEF ShutDown
<1>7. ASSUME NEW w \in Workers, Start(w) PROVE StoppedInv'
  BY <1>7 DEF Start
<1>8. CASE UNCHANGED relayVars
  BY <1>8 DEF relayVars
<1> QED
  BY <1>1, <1>2, <1>3, <1>4, <1>5, <1>6, <1>7, <1>8 DEF Next, ProcessEntry, EntryFails

LEMMA CopyInit == Init => CopyInv
<1> SUFFICES ASSUME Init PROVE CopyInv
  OBVIOUS
<1>1. StoppedInv /\ \A r \in Rows : row[r] = "absent" /\ copies[r] = 0
  BY DEF Init, StoppedInv
<1> QED BY <1>1, SentInit DEF CopyInv, Accounted

(* Kafka carries a row at most once per replica, and once more for each     *)
(* crash, shutdown, failed publish or failed statement: no copy appears     *)
(* without a cause, for any number of replicas and rows.                    *)
THEOREM DuplicatesHaveACause == Spec => []DuplicatesBounded
<1>1. CopyInv /\ [Next]_relayVars => CopyInv'
  BY SentStep, TypeStep, StoppedStep, AccountedStep DEF CopyInv, SentInv
<1>2. CopyInv => DuplicatesBounded
  <2> SUFFICES ASSUME CopyInv, NEW r \in Rows
               PROVE  copies[r] <= Cardinality(Workers) + FaultsSoFar
    BY DEF DuplicatesBounded
  <2>1. /\ FaultsSoFar \in Nat /\ copies[r] \in Nat /\ Accounted(r)
        /\ row[r] \in {"absent", "PENDING", "SENT"}
    BY FaultsType DEF CopyInv, SentInv, TypeOK
  <2> QED BY <2>1, RowSets, PublishersOrWaiting DEF Accounted
<1> QED BY CopyInit, <1>1, <1>2, PTL DEF Spec
=============================================================================
