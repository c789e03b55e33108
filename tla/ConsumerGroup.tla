---------------------------- MODULE ConsumerGroup ----------------------------
(***************************************************************************)
(* What the event consumers use of Kafka: one partition, and the consumer  *)
(* groups that read it, each on its own.  Producers may append a message   *)
(* more than once; a consumer reads on from its own position and commits   *)
(* it now and then; a consumer that gets the partition starts at the       *)
(* committed offset, and one that lost it unawares goes on with the        *)
(* message it has in hand.                                                 *)
(***************************************************************************)
EXTENDS Naturals, Sequences

CONSTANTS
    Messages,   \* what producers may append
    Consumers,  \* members of the groups
    GroupOf,    \* the group of each member
    MaxLog      \* bound: length of the partition

Groups == {GroupOf[h] : h \in Consumers}

VARIABLES
    log,        \* the partition
    owner,      \* per group: the member the partition is assigned to
    committed,  \* per group: messages before this offset are not read again
    next        \* per member: messages it has passed over

groupVars == <<log, owner, committed, next>>

GroupTypeOK ==
    /\ log \in Seq(Messages)
    /\ owner \in [Groups -> Consumers]
    /\ committed \in [Groups -> 0 .. Len(log)]
    /\ next \in [Consumers -> 0 .. Len(log)]

GroupInit ==
    /\ log = <<>>
    /\ owner \in [Groups -> Consumers]
    /\ \A g \in Groups : GroupOf[owner[g]] = g
    /\ committed = [g \in Groups |-> 0]
    /\ next = [h \in Consumers |-> 0]

Offset(h) == next[h] + 1
HasNext(h) == owner[GroupOf[h]] = h /\ next[h] < Len(log)
Current(h) == log[Offset(h)]

AppendMessage(m) ==
    /\ Len(log) < MaxLog
    /\ log' = Append(log, m)
    /\ UNCHANGED <<owner, committed, next>>

(* The handler of h has returned: its message counts as consumed. *)
PassOver(h) ==
    /\ next' = [next EXCEPT ![h] = @ + 1]
    /\ UNCHANGED <<log, owner, committed>>

Commit(h) ==
    /\ owner[GroupOf[h]] = h
    /\ committed[GroupOf[h]] < next[h]
    /\ committed' = [committed EXCEPT ![GroupOf[h]] = next[h]]
    /\ UNCHANGED <<log, owner, next>>

(* The partition moves to h within its group. *)
Assign(h) ==
    /\ owner[GroupOf[h]] # h
    /\ owner' = [owner EXCEPT ![GroupOf[h]] = h]
    /\ next' = [next EXCEPT ![h] = committed[GroupOf[h]]]
    /\ UNCHANGED <<log, committed>>

(* h comes back after a crash. *)
Rejoin(h) ==
    /\ next' = [next EXCEPT ![h] = committed[GroupOf[h]]]
    /\ UNCHANGED <<log, owner, committed>>
=============================================================================
