--------------------------- MODULE ProductCatalog ---------------------------
(***************************************************************************)
(* product-service: the products table and the Redis cache in front of it  *)
(* (ProductService, RedisCacheService), seen through one product, its      *)
(* price key and one page of the list.  An action is one Redis command or  *)
(* one SQL statement.  An update reads its product through the cache.      *)
(***************************************************************************)
EXTENDS Naturals, FiniteSets

CONSTANTS
    Requests,   \* bound: HTTP requests in progress at once, on all replicas
    MaxChanges, \* bound: updates and creations
    MaxFailures,\* bound: requests that fail or die half-way
    MaxOverlaps \* bound: requests that start while another one is served

ASSUME CatalogAssumption == {MaxChanges, MaxFailures, MaxOverlaps} \subseteq Nat

Fields == {"name", "price"}
Row == [Fields -> Nat]
Snapshot == [row : Row, total : Nat]
Keys == {"product", "price", "list"}

VARIABLES
    row,        \* the product
    total,      \* how many other products there are
    cached,     \* per key: the entry, if there is one
    pc,         \* per request: the step it is at
    op,         \* per request: what it was asked to do
    copy,       \* per request: what it has read
    diff,       \* per request: the columns it is about to write
    changes,    \* updates and creations so far; an update writes its number
    failures,   \* requests that failed so far
    overlaps    \* requests so far that started while another one was served

catalogVars == <<row, total, cached, pc, op, copy, diff, changes, failures, overlaps>>

(* A GET reads one key; an update sets the fields of its DTO to a value.   *)
Operation ==
    [kind : {"read"}, key : Keys, sets : {{}}, value : {0}]
        \cup [kind : {"update"}, key : {"product"}, sets : SUBSET Fields, value : Nat]
        \cup [kind : {"create"}, key : {"list"}, sets : {{}}, value : {0}]

Read(k) == [kind |-> "read", key |-> k, sets |-> {}, value |-> 0]
Update(fs) == [kind |-> "update", key |-> "product", sets |-> fs, value |-> changes + 1]
Create == [kind |-> "create", key |-> "list", sets |-> {}, value |-> 0]

Steps == {"idle", "get", "count", "query", "fill", "load", "write", "insert", "forget", "scan",
          "sweep"}

TypeOK ==
    /\ row \in Row
    /\ total \in Nat
    /\ cached \in [Keys -> SUBSET Snapshot]
    /\ \A k \in Keys : \A s, t \in cached[k] : s = t
    /\ pc \in [Requests -> Steps]
    /\ op \in [Requests -> Operation]
    /\ copy \in [Requests -> Snapshot]
    /\ diff \in [Requests -> SUBSET Fields]
    /\ changes \in 0 .. MaxChanges
    /\ failures \in 0 .. MaxFailures
    /\ overlaps \in 0 .. MaxOverlaps

(* What the entry of key k shows of a snapshot. *)
Project(k, s) ==
    CASE k = "product" -> [s EXCEPT !.total = 0]
      [] k = "price"   -> [row |-> [s.row EXCEPT !["name"] = 0], total |-> 0]
      [] k = "list"    -> s

Current(k) == Project(k, [row |-> row, total |-> total])
Nothing == [row |-> [f \in Fields |-> 0], total |-> 0]

Init ==
    /\ row = [f \in Fields |-> 0]
    /\ total = 0
    /\ cached = [k \in Keys |-> {}]
    /\ pc = [p \in Requests |-> "idle"]
    /\ op = [p \in Requests |-> Read("product")]
    /\ copy = [p \in Requests |-> Nothing]
    /\ diff = [p \in Requests |-> {}]
    /\ changes = 0
    /\ failures = 0
    /\ overlaps = 0

Goto(p, step) == pc' = [pc EXCEPT ![p] = step]

(* The request is answered, and what it held is gone. *)
End(p) ==
    /\ Goto(p, "idle")
    /\ op' = [op EXCEPT ![p] = Read("product")]
    /\ copy' = [copy EXCEPT ![p] = Nothing]
    /\ diff' = [diff EXCEPT ![p] = {}]

-----------------------------------------------------------------------------
(* A request arrives *)

Arrives(p) ==
    /\ pc[p] = "idle"
    /\ IF \A q \in Requests : pc[q] = "idle"
       THEN UNCHANGED overlaps
       ELSE overlaps < MaxOverlaps /\ overlaps' = overlaps + 1

StartRead(p, k) ==
    /\ Arrives(p)
    /\ op' = [op EXCEPT ![p] = Read(k)]
    /\ Goto(p, "get")
    /\ UNCHANGED <<row, total, cached, copy, diff, changes, failures>>

StartUpdate(p, fs) ==
    /\ Arrives(p)
    /\ changes < MaxChanges
    /\ changes' = changes + 1
    /\ op' = [op EXCEPT ![p] = Update(fs)]
    /\ Goto(p, "get")
    /\ UNCHANGED <<row, total, cached, copy, diff, failures>>

StartCreate(p) ==
    /\ Arrives(p)
    /\ changes < MaxChanges
    /\ changes' = changes + 1
    /\ op' = [op EXCEPT ![p] = Create]
    /\ Goto(p, "insert")
    /\ UNCHANGED <<row, total, cached, copy, diff, failures>>

-----------------------------------------------------------------------------
(* findById, findPriceById, list: read through the cache *)

(* A read is answered now; an update goes on with what it has read, s. *)
HasRead(p, s) ==
    IF op[p].kind = "update"
    THEN Goto(p, "load") /\ copy' = [copy EXCEPT ![p] = s] /\ UNCHANGED <<op, diff>>
    ELSE End(p)

Hit(p) ==
    /\ pc[p] = "get"
    /\ \E s \in cached[op[p].key] : HasRead(p, s)
    /\ UNCHANGED <<row, total, cached, changes, failures, overlaps>>

Miss(p) ==
    /\ pc[p] = "get"
    /\ cached[op[p].key] = {}
    /\ Goto(p, IF op[p].key = "list" THEN "count" ELSE "query")
    /\ UNCHANGED <<row, total, cached, op, copy, diff, changes, failures, overlaps>>

(* findMany: getCount, and then getMany. *)
Count(p) ==
    /\ pc[p] = "count"
    /\ copy' = [copy EXCEPT ![p].total = total]
    /\ Goto(p, "query")
    /\ UNCHANGED <<row, total, cached, op, diff, changes, failures, overlaps>>

Query(p) ==
    /\ pc[p] = "query"
    /\ copy' = [copy EXCEPT ![p] =
                    IF op[p].key = "list" THEN [@ EXCEPT !.row = row] ELSE Current(op[p].key)]
    /\ Goto(p, "fill")
    /\ UNCHANGED <<row, total, cached, op, diff, changes, failures, overlaps>>

Fill(p) ==
    /\ pc[p] = "fill"
    /\ cached' = [cached EXCEPT ![op[p].key] = {copy[p]}]
    /\ HasRead(p, copy[p])
    /\ UNCHANGED <<row, total, changes, failures, overlaps>>

-----------------------------------------------------------------------------
(* update, create *)

(* Mutant: fields the DTO leaves out fall back to their defaults. *)
DefaultedEntity(p) == [f \in Fields |-> IF f \in op[p].sets THEN op[p].value ELSE 0]

(* The entity to be saved: what was read, with the fields of the DTO. *)
Entity(p) == [f \in Fields |-> IF f \in op[p].sets THEN op[p].value ELSE copy[p].row[f]]

(* save loads the row and keeps the columns in which the entity differs. *)
Differing(p) == {f \in Fields : Entity(p)[f] # row[f]}

Load(p) ==
    /\ pc[p] = "load"
    /\ copy' = [copy EXCEPT ![p].row = Entity(p)]
    /\ diff' = [diff EXCEPT ![p] = Differing(p)]
    /\ Goto(p, "write")
    /\ UNCHANGED <<row, total, cached, op, changes, failures, overlaps>>

Write(p) ==
    /\ pc[p] = "write"
    /\ row' = [f \in Fields |-> IF f \in diff[p] THEN copy[p].row[f] ELSE row[f]]
    /\ Goto(p, "forget")
    /\ UNCHANGED <<total, cached, op, copy, diff, changes, failures, overlaps>>

Insert(p) ==
    /\ pc[p] = "insert"
    /\ total' = total + 1
    /\ Goto(p, "scan")
    /\ UNCHANGED <<row, cached, op, copy, diff, changes, failures, overlaps>>

(* Mutant: only the product's own key is deleted. *)
OwnKey == {"product"}

(* The keys update names in cache.del. *)
ProductKeys == {"product", "price"}

Forget(p) ==
    /\ pc[p] = "forget"
    /\ cached' = [k \in Keys |-> IF k \in ProductKeys THEN {} ELSE cached[k]]
    /\ Goto(p, "scan")
    /\ UNCHANGED <<row, total, op, copy, diff, changes, failures, overlaps>>

(* KEYS product:list:* finds the page, or nothing to delete. *)
Scan(p) ==
    /\ pc[p] = "scan"
    /\ IF cached["list"] = {} THEN End(p) ELSE Goto(p, "sweep") /\ UNCHANGED <<op, copy, diff>>
    /\ UNCHANGED <<row, total, cached, changes, failures, overlaps>>

Sweep(p) ==
    /\ pc[p] = "sweep"
    /\ cached' = [cached EXCEPT !["list"] = {}]
    /\ End(p)
    /\ UNCHANGED <<row, total, changes, failures, overlaps>>

(* Redis or the database throws, or the replica dies. *)
Fail(p) ==
    /\ pc[p] # "idle"
    /\ failures < MaxFailures
    /\ failures' = failures + 1
    /\ End(p)
    /\ UNCHANGED <<row, total, cached, changes, overlaps>>

-----------------------------------------------------------------------------
(* Mutant: SET without EX for the list. *)
NoListExpiry(k) == cached[k] # {} /\ k # "list"

HasExpiry(k) == cached[k] # {}

(* REDIS_TTL seconds have passed since k was set. *)
Expire(k) ==
    /\ HasExpiry(k)
    /\ cached' = [cached EXCEPT ![k] = {}]
    /\ UNCHANGED <<row, total, pc, op, copy, diff, changes, failures, overlaps>>

Start(p) ==
    \/ \E k \in Keys : StartRead(p, k)
    \/ \E fs \in SUBSET Fields : StartUpdate(p, fs)
    \/ StartCreate(p)
ReadThrough(p) == Hit(p) \/ Miss(p) \/ Count(p) \/ Query(p) \/ Fill(p)
Change(p) == Load(p) \/ Write(p) \/ Insert(p) \/ Forget(p) \/ Scan(p) \/ Sweep(p)

Next ==
    \/ \E p \in Requests : Start(p) \/ ReadThrough(p) \/ Change(p) \/ Fail(p)
    \/ \E k \in Keys : Expire(k)

Spec == Init /\ [][Next]_catalogVars

(* Redis drops what has expired, and a request that has begun goes on. *)
FairSpec ==
    /\ Spec
    /\ \A k \in Keys : WF_catalogVars(Expire(k))
    /\ \A p \in Requests : WF_catalogVars(ReadThrough(p) \/ Change(p))

-----------------------------------------------------------------------------
(* Properties *)

IsStale(k) == \E s \in cached[k] : s # Current(k)

Orderly == failures + overlaps = 0

(* When no request is in progress, what the cache answers is what the      *)
(* database holds, as long as no request has failed half-way (between an   *)
(* update's write and its deletion of the keys) and none has overlapped    *)
(* another (a reader can put back what an update has just deleted).        *)
CatalogIsCurrent ==
    Orderly /\ (\A p \in Requests : pc[p] = "idle") => \A k \in Keys : ~ IsStale(k)

(* A column changes only because a request to change this column is being  *)
(* served, and to the value it asked for, under the same condition: a      *)
(* stale entry that an update reads is written back over newer columns.    *)
OnlyWhatWasAsked ==
    [][Orderly =>
        \A f \in Fields :
            row'[f] # row[f] =>
                \E p \in Requests :
                    pc[p] = "write" /\ f \in op[p].sets /\ row'[f] = op[p].value]_catalogVars

(* A stale entry does not outlive its time to live for ever: every key     *)
(* comes to show the database, whatever overlaps or fails on the way       *)
(* (SET always with EX).                                                   *)
StaleEntriesDie == \A k \in Keys : IsStale(k) ~> ~ IsStale(k)
=============================================================================
