------------------------- MODULE PaymentOutboxRelay -------------------------
(***************************************************************************)
(* payment-service's outbox relay (OutboxRelayService.poll).  A replica    *)
(* fetches PENDING rows in a transaction of its own, so the row locks are  *)
(* gone before the rows are used; emits them; and marks all of them SENT.  *)
(* ClientKafka.emit hands a message to the Kafka client and returns: the   *)
(* loop never waits for it, never sees it fail, and runs without a pause,  *)
(* so it is one step here, and delivery is a step of its own.  The event   *)
(* id is left out: every emission draws a fresh one, so the copies of a    *)
(* row have nothing in common that a consumer could recognise.             *)
(***************************************************************************)
EXTENDS Naturals, FiniteSets

CONSTANTS
    Rows,       \* outbox rows, numbered by created_at
    Workers,    \* replicas
    Limit,      \* rows of a batch (100)
    MaxRelayFaults  \* bound: how often each kind of fault happens

RelayFaults == {"crash", "publish", "database"}

ASSUME RelayAssumption ==
    /\ Rows \subseteq Nat /\ IsFiniteSet(Rows)
    /\ Limit \in Nat \ {0}
    /\ MaxRelayFaults \in [RelayFaults -> Nat]

VARIABLES
    row,        \* outbox.status of each row, "absent" before it is inserted
    topic,      \* rows that payment-events carries
    inflight,   \* per replica and row: emissions not yet answered
    batch,      \* per replica: rows fetched, then sentIds
    relayPc,    \* per replica: step of poll
    faultCount  \* faults so far, per kind

relayVars == <<row, topic, inflight, batch, relayPc, faultCount>>

RelayTypeOK ==
    /\ row \in [Rows -> {"absent", "PENDING", "SENT"}]
    /\ topic \subseteq Rows
    /\ inflight \in [Workers -> [Rows -> Nat]]
    /\ batch \in [Workers -> SUBSET Rows]
    /\ relayPc \in [Workers -> {"down", "idle", "fetched", "emitted"}]
    /\ faultCount \in [RelayFaults -> Nat]

RelayInit ==
    /\ row = [r \in Rows |-> "absent"]
    /\ topic = {}
    /\ inflight = [w \in Workers |-> [r \in Rows |-> 0]]
    /\ batch = [w \in Workers |-> {}]
    /\ relayPc = [w \in Workers |-> "down"]
    /\ faultCount = [f \in RelayFaults |-> 0]

RelayFault(kind) ==
    /\ faultCount[kind] < MaxRelayFaults[kind]
    /\ faultCount' = [faultCount EXCEPT ![kind] = @ + 1]

(* OutboxService.append *)
AppendRow(r) ==
    /\ row[r] = "absent"
    /\ row' = [row EXCEPT ![r] = "PENDING"]
    /\ UNCHANGED <<topic, inflight, batch, relayPc, faultCount>>

Pending == {r \in Rows : row[r] = "PENDING"}

OldestPending ==
    {r \in Pending : Cardinality({q \in Pending : q < r}) < Limit}

(* Mutant: a row counts as sent when it is fetched. *)
PollAndMark(w) ==
    /\ relayPc[w] = "idle"
    /\ Pending # {}
    /\ batch' = [batch EXCEPT ![w] = OldestPending]
    /\ row' = [r \in Rows |-> IF r \in OldestPending THEN "SENT" ELSE row[r]]
    /\ relayPc' = [relayPc EXCEPT ![w] = "fetched"]
    /\ UNCHANGED <<topic, inflight, faultCount>>

(* fetchPending: its locks end with its transaction, so two replicas get   *)
(* the same rows; isRunning only keeps one replica from overlapping itself.*)
Poll(w) ==
    /\ relayPc[w] = "idle"
    /\ Pending # {}
    /\ batch' = [batch EXCEPT ![w] = OldestPending]
    /\ relayPc' = [relayPc EXCEPT ![w] = "fetched"]
    /\ UNCHANGED <<row, topic, inflight, faultCount>>

(* One more for each row of S. *)
Counted(count, S) == [r \in Rows |-> IF r \in S THEN count[r] + 1 ELSE count[r]]

(* The loop: every row is emitted and counted as sent. *)
EmitBatch(w) ==
    /\ relayPc[w] = "fetched"
    /\ inflight' = [inflight EXCEPT ![w] = Counted(@, batch[w])]
    /\ relayPc' = [relayPc EXCEPT ![w] = "emitted"]
    /\ UNCHANGED <<row, topic, batch, faultCount>>

(* markSent: one update for the batch. *)
MarkBatch(w) ==
    /\ relayPc[w] = "emitted"
    /\ row' = [r \in Rows |-> IF r \in batch[w] THEN "SENT" ELSE row[r]]
    /\ batch' = [batch EXCEPT ![w] = {}]
    /\ relayPc' = [relayPc EXCEPT ![w] = "idle"]
    /\ UNCHANGED <<topic, inflight, faultCount>>

(* Mutant: the rows get a status of their own, which nobody fetches. *)
MarkFailsFailed(w) ==
    /\ relayPc[w] = "emitted"
    /\ RelayFault("database")
    /\ row' = [r \in Rows |-> IF r \in batch[w] THEN "FAILED" ELSE row[r]]
    /\ batch' = [batch EXCEPT ![w] = {}]
    /\ relayPc' = [relayPc EXCEPT ![w] = "idle"]
    /\ UNCHANGED <<topic, inflight>>

(* The update fails: the whole batch is emitted again by the next poll. *)
MarkFails(w) ==
    /\ relayPc[w] = "emitted"
    /\ RelayFault("database")
    /\ batch' = [batch EXCEPT ![w] = {}]
    /\ relayPc' = [relayPc EXCEPT ![w] = "idle"]
    /\ UNCHANGED <<row, topic, inflight>>

Answered(w, r) ==
    /\ inflight[w][r] > 0
    /\ inflight' = [inflight EXCEPT ![w][r] = @ - 1]

(* The broker takes an emission. *)
Deliver(w, r) ==
    /\ Answered(w, r)
    /\ topic' = topic \cup {r}
    /\ UNCHANGED <<row, batch, relayPc, faultCount>>

(* The Kafka client gives an emission up.  Nobody subscribed to its result.*)
DeliveryFails(w, r) ==
    /\ Answered(w, r)
    /\ RelayFault("publish")
    /\ UNCHANGED <<row, topic, batch, relayPc>>

RelayCrash(w) ==
    /\ relayPc[w] # "down"
    /\ RelayFault("crash")
    /\ inflight' = [inflight EXCEPT ![w] = [r \in Rows |-> 0]]
    /\ batch' = [batch EXCEPT ![w] = {}]
    /\ relayPc' = [relayPc EXCEPT ![w] = "down"]
    /\ UNCHANGED <<row, topic>>

(* onModuleInit waits for the producer: a replica without one never runs. *)
Start(w) ==
    /\ relayPc[w] = "down"
    /\ relayPc' = [relayPc EXCEPT ![w] = "idle"]
    /\ UNCHANGED <<row, topic, inflight, batch, faultCount>>

Relay(w) == Poll(w) \/ EmitBatch(w) \/ MarkBatch(w)

RelayNext ==
    \/ \E r \in Rows : AppendRow(r)
    \/ \E w \in Workers :
        \/ Relay(w) \/ MarkFails(w) \/ RelayCrash(w) \/ Start(w)
        \/ \E r \in Rows : Deliver(w, r) \/ DeliveryFails(w, r)

RelaySpec == RelayInit /\ [][RelayNext]_relayVars

(* The cron job fires every ten seconds, the client answers every emission,*)
(* and Kubernetes starts a replica that is down.                           *)
RelayFairness ==
    \A w \in Workers :
        /\ WF_relayVars(Relay(w))
        /\ WF_relayVars(Start(w))
        /\ WF_relayVars(\E r \in Rows : Deliver(w, r))

FairRelaySpec == RelaySpec /\ RelayFairness

-----------------------------------------------------------------------------
(* Properties *)

InFlight(r) == \E w \in Workers : inflight[w][r] > 0

(* A row that is SENT is on payment-events or on its way there.  Nothing   *)
(* waits for the answer to an emission, so this holds only as long as the  *)
(* Kafka client has not given a message up and no replica has crashed.     *)
SentReachesKafka ==
    faultCount["publish"] + faultCount["crash"] = 0 =>
        \A r \in Rows : row[r] = "SENT" => r \in topic \/ InFlight(r)

(* Every row reaches payment-events and is retired, through failed         *)
(* updates, unless an emission is lost or a replica crashes.               *)
EveryRowReachesKafka ==
    \A r \in Rows :
        row[r] = "PENDING" ~> \/ r \in topic /\ row[r] = "SENT"
                             \/ faultCount["publish"] + faultCount["crash"] > 0
=============================================================================
