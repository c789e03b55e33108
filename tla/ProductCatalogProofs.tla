------------------------ MODULE ProductCatalogProofs ------------------------
(* Theorems about ProductCatalog, for every number of requests, changes,   *)
(* failures and overlaps.                                                  *)
EXTENDS ProductCatalog, TLAPS

-----------------------------------------------------------------------------
(* Types *)

LEMMA OperationFields ==
    ASSUME NEW o \in Operation
    PROVE  /\ o.key \in Keys /\ o.sets \subseteq Fields /\ o.value \in Nat
           /\ o.kind = "update" => o.key = "product"
  BY DEF Operation, Keys, Fields

LEMMA NewOperations ==
    ASSUME changes \in Nat
    PROVE  /\ \A k \in Keys : Read(k) \in Operation
           /\ \A fs \in SUBSET Fields : Update(fs) \in Operation
           /\ Create \in Operation
  BY DEF Operation, Read, Update, Create, Keys

LEMMA ProjectType ==
    ASSUME NEW k \in Keys, NEW s \in Snapshot
    PROVE  Project(k, s) \in Snapshot
<1>1. s.row \in Row /\ s.total \in Nat
  BY DEF Snapshot
<1>2. [s EXCEPT !.total = 0] \in Snapshot
  BY DEF Snapshot
<1>3. [s.row EXCEPT !["name"] = 0] \in Row
  BY <1>1 DEF Row
<1>4. [row |-> [s.row EXCEPT !["name"] = 0], total |-> 0] \in Snapshot
  BY <1>3 DEF Snapshot
<1>5. CASE k = "product"
  BY <1>2, <1>5 DEF Project
<1>6. CASE k = "price"
  BY <1>4, <1>6 DEF Project
<1>7. CASE k = "list"
  BY <1>7 DEF Project
<1> QED BY <1>5, <1>6, <1>7 DEF Keys

LEMMA CurrentType ==
    ASSUME row \in Row, total \in Nat, NEW k \in Keys
    PROVE  Current(k) \in Snapshot
  BY ProjectType DEF Current, Snapshot

LEMMA NothingType == Nothing \in Snapshot /\ [f \in Fields |-> 0] \in Row
  BY DEF Nothing, Snapshot, Row

(* The requests, apart from the tables and the cache. *)
RequestsTypeOK ==
    /\ pc \in [Requests -> Steps]
    /\ op \in [Requests -> Operation]
    /\ copy \in [Requests -> Snapshot]
    /\ diff \in [Requests -> SUBSET Fields]

TablesTypeOK == row \in Row /\ total \in Nat

CacheTypeOK ==
    /\ cached \in [Keys -> SUBSET Snapshot]
    /\ \A k \in Keys : \A s, t \in cached[k] : s = t

CountersTypeOK ==
    /\ changes \in 0 .. MaxChanges
    /\ failures \in 0 .. MaxFailures
    /\ overlaps \in 0 .. MaxOverlaps

LEMMA TypeParts == TypeOK <=> RequestsTypeOK /\ TablesTypeOK /\ CacheTypeOK /\ CountersTypeOK
  BY DEF TypeOK, RequestsTypeOK, TablesTypeOK, CacheTypeOK, CountersTypeOK

LEMMA TypeInit == Init => TypeOK
<1> SUFFICES ASSUME Init PROVE TypeOK
  OBVIOUS
<1>1. Read("product") \in Operation
  BY DEF Read, Operation, Keys
<1>2. RequestsTypeOK
  BY <1>1, NothingType DEF Init, RequestsTypeOK, Steps
<1>3. TablesTypeOK
  BY NothingType DEF Init, TablesTypeOK
<1>4. CacheTypeOK
  BY DEF Init, CacheTypeOK
<1>5. CountersTypeOK
  BY CatalogAssumption DEF Init, CountersTypeOK
<1> QED BY <1>2, <1>3, <1>4, <1>5, TypeParts

LEMMA GotoType ==
    ASSUME pc \in [Requests -> Steps], NEW p \in Requests, NEW step \in Steps, Goto(p, step)
    PROVE  /\ pc' \in [Requests -> Steps] /\ pc'[p] = step
           /\ \A q \in Requests : q # p => pc'[q] = pc[q]
  BY DEF Goto

LEMMA EndType ==
    ASSUME RequestsTypeOK, NEW p \in Requests, End(p)
    PROVE  /\ RequestsTypeOK' /\ pc'[p] = "idle"
           /\ \A q \in Requests : q # p =>
                /\ pc'[q] = pc[q] /\ op'[q] = op[q] /\ copy'[q] = copy[q] /\ diff'[q] = diff[q]
<1>1. Read("product") \in Operation
  BY DEF Read, Operation, Keys
<1>2. "idle" \in Steps
  BY DEF Steps
<1>3. /\ pc' = [pc EXCEPT ![p] = "idle"] /\ op' = [op EXCEPT ![p] = Read("product")]
      /\ copy' = [copy EXCEPT ![p] = Nothing] /\ diff' = [diff EXCEPT ![p] = {}]
  BY DEF End, Goto
<1>4. pc' \in [Requests -> Steps] /\ pc'[p] = "idle"
  BY <1>2, <1>3 DEF RequestsTypeOK
<1>5. op' \in [Requests -> Operation] /\ diff' \in [Requests -> SUBSET Fields]
  BY <1>1, <1>3 DEF RequestsTypeOK
<1>6. copy' \in [Requests -> Snapshot]
  BY <1>3, NothingType DEF RequestsTypeOK
<1>7. \A q \in Requests : q # p =>
        /\ pc'[q] = pc[q] /\ op'[q] = op[q] /\ copy'[q] = copy[q] /\ diff'[q] = diff[q]
  BY <1>3 DEF RequestsTypeOK
<1> QED BY <1>4, <1>5, <1>6, <1>7 DEF RequestsTypeOK

LEMMA HasReadType ==
    ASSUME RequestsTypeOK, NEW p \in Requests, NEW s \in Snapshot, HasRead(p, s)
    PROVE  /\ RequestsTypeOK'
           /\ \/ pc'[p] = "idle"
              \/ /\ pc'[p] = "load" /\ copy'[p] = s
                 /\ op'[p] = op[p] /\ op[p].key = "product"
           /\ \A q \in Requests : q # p =>
                /\ pc'[q] = pc[q] /\ op'[q] = op[q] /\ copy'[q] = copy[q] /\ diff'[q] = diff[q]
<1>1. CASE op[p].kind = "update"
  <2>1. /\ pc' = [pc EXCEPT ![p] = "load"] /\ copy' = [copy EXCEPT ![p] = s]
        /\ UNCHANGED <<op, diff>>
    BY <1>1 DEF HasRead, Goto
  <2>2. op[p].key = "product"
    BY <1>1, OperationFields DEF RequestsTypeOK
  <2>3. pc' \in [Requests -> Steps] /\ pc'[p] = "load"
        /\ \A q \in Requests : q # p => pc'[q] = pc[q]
    BY <2>1 DEF RequestsTypeOK, Steps
  <2>4. copy' \in [Requests -> Snapshot] /\ copy'[p] = s
        /\ \A q \in Requests : q # p => copy'[q] = copy[q]
    BY <2>1 DEF RequestsTypeOK
  <2>5. op' = op /\ diff' = diff
    BY <2>1
  <2>6. RequestsTypeOK'
    BY <2>3, <2>4, <2>5 DEF RequestsTypeOK
  <2> QED BY <2>2, <2>3, <2>4, <2>5, <2>6
<1>2. CASE op[p].kind # "update"
  <2>1. End(p)
    BY <1>2 DEF HasRead
  <2>2. /\ RequestsTypeOK' /\ pc'[p] = "idle"
        /\ \A q \in Requests : q # p =>
             /\ pc'[q] = pc[q] /\ op'[q] = op[q] /\ copy'[q] = copy[q] /\ diff'[q] = diff[q]
    BY <2>1, EndType
  <2> QED BY <2>2
<1> QED BY <1>1, <1>2

LEMMA EntityType ==
    ASSUME RequestsTypeOK, NEW p \in Requests
    PROVE  /\ Entity(p) \in Row
           /\ \A f \in Fields : f \in op[p].sets => Entity(p)[f] = op[p].value
           /\ \A f \in Fields : f \notin op[p].sets => Entity(p)[f] = copy[p].row[f]
<1>1. op[p].value \in Nat
  BY OperationFields DEF RequestsTypeOK
<1>2. copy[p].row \in [Fields -> Nat]
  BY DEF RequestsTypeOK, Snapshot, Row
<1> QED BY <1>1, <1>2 DEF Entity, Row

LEMMA ArrivesType ==
    ASSUME CountersTypeOK, NEW p \in Requests, Arrives(p)
    PROVE  overlaps' \in 0 .. MaxOverlaps /\ overlaps \in Nat /\ MaxOverlaps \in Nat
  BY CatalogAssumption DEF CountersTypeOK, Arrives

LEMMA StepOfRequest ==
    ASSUME Next
    PROVE  \/ \E p \in Requests :
                \/ (\E k \in Keys : StartRead(p, k)) \/ (\E fs \in SUBSET Fields : StartUpdate(p, fs))
                \/ StartCreate(p)
                \/ Hit(p) \/ Miss(p) \/ Count(p) \/ Query(p) \/ Fill(p)
                \/ Load(p) \/ Write(p) \/ Insert(p) \/ Forget(p) \/ Scan(p) \/ Sweep(p)
                \/ Fail(p)
           \/ \E k \in Keys : Expire(k)
  BY DEF Next, Start, ReadThrough, Change

LEMMA TypeStep == TypeOK /\ [Next]_catalogVars => TypeOK'
<1> SUFFICES ASSUME TypeOK, [Next]_catalogVars PROVE TypeOK'
  OBVIOUS
<1>0. /\ RequestsTypeOK /\ TablesTypeOK /\ CacheTypeOK /\ CountersTypeOK
      /\ changes \in Nat /\ pc \in [Requests -> Steps] /\ op \in [Requests -> Operation]
      /\ copy \in [Requests -> Snapshot] /\ diff \in [Requests -> SUBSET Fields]
  BY TypeParts DEF CountersTypeOK, RequestsTypeOK
<1>parts. RequestsTypeOK' /\ TablesTypeOK' /\ CacheTypeOK' /\ CountersTypeOK' => TypeOK'
  BY DEF TypeOK, RequestsTypeOK, TablesTypeOK, CacheTypeOK, CountersTypeOK
<1>tables. UNCHANGED <<row, total>> => TablesTypeOK'
  BY <1>0 DEF TablesTypeOK
<1>cache. UNCHANGED cached => CacheTypeOK'
  BY <1>0 DEF CacheTypeOK
<1>counters. UNCHANGED <<changes, failures, overlaps>> => CountersTypeOK'
  BY <1>0 DEF CountersTypeOK
(* A key loses its entry. *)
<1>fewer. (\A k \in Keys : cached'[k] \in {cached[k], {}}) /\ cached' \in [Keys -> SUBSET Snapshot]
            => CacheTypeOK'
  BY <1>0 DEF CacheTypeOK
<1>1. ASSUME NEW p \in Requests, Arrives(p), NEW o \in Operation, NEW s \in {"get", "insert"},
             op' = [op EXCEPT ![p] = o], Goto(p, s),
             changes' \in 0 .. MaxChanges, UNCHANGED <<row, total, cached, copy, diff, failures>>
      PROVE  TypeOK'
  <2>1. RequestsTypeOK'
    BY <1>0, <1>1, GotoType DEF RequestsTypeOK, Steps
  <2>2. CountersTypeOK'
    BY <1>0, <1>1, ArrivesType DEF CountersTypeOK
  <2> QED BY <1>1, <1>parts, <1>tables, <1>cache, <2>1, <2>2
<1>2. ASSUME NEW p \in Requests, NEW k \in Keys, StartRead(p, k) PROVE TypeOK'
  <2>1. Read(k) \in Operation
    BY <1>0, NewOperations
  <2>2. changes' \in 0 .. MaxChanges
    BY <1>0, <1>2 DEF StartRead, CountersTypeOK
  <2> QED BY <1>1, <1>2, <2>1, <2>2 DEF StartRead
<1>3. ASSUME NEW p \in Requests, NEW fs \in SUBSET Fields, StartUpdate(p, fs) PROVE TypeOK'
  <2>1. Update(fs) \in Operation
    BY <1>0, NewOperations
  <2>2. changes' \in 0 .. MaxChanges
    BY <1>0, <1>3, CatalogAssumption DEF StartUpdate, CountersTypeOK
  <2> QED BY <1>1, <1>3, <2>1, <2>2 DEF StartUpdate
<1>4. ASSUME NEW p \in Requests, StartCreate(p) PROVE TypeOK'
  <2>1. Create \in Operation
    BY <1>0, NewOperations
  <2>2. changes' \in 0 .. MaxChanges
    BY <1>0, <1>4, CatalogAssumption DEF StartCreate, CountersTypeOK
  <2> QED BY <1>1, <1>4, <2>1, <2>2 DEF StartCreate
<1>5. ASSUME NEW p \in Requests, Hit(p) PROVE TypeOK'
  <2>1. PICK s \in cached[op[p].key] : HasRead(p, s)
    BY <1>5 DEF Hit
  <2>2. s \in Snapshot
    BY <1>0, <2>1, OperationFields DEF CacheTypeOK
  <2>3. RequestsTypeOK'
    BY <1>0, <2>1, <2>2, HasReadType
  <2> QED BY <1>5, <1>parts, <1>tables, <1>cache, <1>counters, <2>3 DEF Hit
<1>6. ASSUME NEW p \in Requests, Miss(p) PROVE TypeOK'
  <2>1. RequestsTypeOK'
    BY <1>0, <1>6, GotoType DEF Miss, RequestsTypeOK, Steps
  <2> QED BY <1>6, <1>parts, <1>tables, <1>cache, <1>counters, <2>1 DEF Miss
<1>18. ASSUME NEW p \in Requests, Count(p) PROVE TypeOK'
  <2>1. [copy[p] EXCEPT !.total = total] \in Snapshot
    BY <1>0 DEF TablesTypeOK, Snapshot
  <2>2. copy' = [copy EXCEPT ![p] = [copy[p] EXCEPT !.total = total]]
    BY <1>18 DEF Count
  <2>3. copy' \in [Requests -> Snapshot]
    BY <1>0, <2>1, <2>2
  <2>4. pc' \in [Requests -> Steps]
    BY <1>0, <1>18, GotoType DEF Count, Steps
  <2>5. RequestsTypeOK'
    BY <1>0, <1>18, <2>3, <2>4 DEF Count, RequestsTypeOK
  <2> QED BY <1>18, <1>parts, <1>tables, <1>cache, <1>counters, <2>5 DEF Count
<1>7. ASSUME NEW p \in Requests, Query(p) PROVE TypeOK'
  <2> DEFINE new == IF op[p].key = "list" THEN [copy[p] EXCEPT !.row = row]
                    ELSE Current(op[p].key)
  <2>1. new \in Snapshot
    <3>1. Current(op[p].key) \in Snapshot
      BY <1>0, OperationFields, CurrentType DEF TablesTypeOK
    <3>2. [copy[p] EXCEPT !.row = row] \in Snapshot
      BY <1>0 DEF TablesTypeOK, Snapshot
    <3> QED BY <3>1, <3>2
  <2>4. copy' = [copy EXCEPT ![p] = new]
    BY <1>7 DEF Query
  <2>2. pc' \in [Requests -> Steps]
    BY <1>0, <1>7, GotoType DEF Query, Steps
  <2>5. copy' \in [Requests -> Snapshot]
    BY <1>0, <2>1, <2>4
  <2>3. RequestsTypeOK'
    BY <1>0, <1>7, <2>2, <2>5 DEF Query, RequestsTypeOK
  <2> QED BY <1>7, <1>parts, <1>tables, <1>cache, <1>counters, <2>3 DEF Query
<1>8. ASSUME NEW p \in Requests, Fill(p) PROVE TypeOK'
  <2>1. RequestsTypeOK'
    BY <1>0, <1>8, HasReadType DEF Fill
  <2>2. op[p].key \in Keys /\ cached' = [cached EXCEPT ![op[p].key] = {copy[p]}]
    BY <1>0, <1>8, OperationFields DEF Fill
  <2>3. CacheTypeOK'
    BY <1>0, <2>2 DEF CacheTypeOK
  <2> QED BY <1>8, <1>parts, <1>tables, <1>counters, <2>1, <2>3 DEF Fill
<1>9. ASSUME NEW p \in Requests, Load(p) PROVE TypeOK'
  <2>1. pc' \in [Requests -> Steps]
    BY <1>0, <1>9, GotoType DEF Load, Steps
  <2>2. copy[p] \in Snapshot /\ Entity(p) \in Row
    BY <1>0, EntityType
  <2>3. [copy[p] EXCEPT !.row = Entity(p)] \in Snapshot
    BY <2>2 DEF Snapshot
  <2>4. copy' = [copy EXCEPT ![p] = [copy[p] EXCEPT !.row = Entity(p)]]
    BY <1>9 DEF Load
  <2>5. copy' \in [Requests -> Snapshot]
    BY <1>0, <2>3, <2>4
  <2>6. diff' \in [Requests -> SUBSET Fields] /\ UNCHANGED op
    BY <1>0, <1>9 DEF Load, Differing
  <2>7. RequestsTypeOK'
    BY <1>0, <2>1, <2>5, <2>6 DEF RequestsTypeOK
  <2> QED BY <1>9, <1>parts, <1>tables, <1>cache, <1>counters, <2>7 DEF Load
<1>10. ASSUME NEW p \in Requests, Write(p) PROVE TypeOK'
  <2>1. RequestsTypeOK'
    BY <1>0, <1>10, GotoType DEF Write, RequestsTypeOK, Steps
  <2>2. copy[p].row \in [Fields -> Nat] /\ row \in [Fields -> Nat]
    BY <1>0 DEF Snapshot, Row, TablesTypeOK
  <2>3. TablesTypeOK'
    BY <1>0, <1>10, <2>2 DEF Write, TablesTypeOK, Row
  <2> QED BY <1>10, <1>parts, <1>cache, <1>counters, <2>1, <2>3 DEF Write
<1>11. ASSUME NEW p \in Requests, Insert(p) PROVE TypeOK'
  <2>1. RequestsTypeOK'
    BY <1>0, <1>11, GotoType DEF Insert, RequestsTypeOK, Steps
  <2>2. TablesTypeOK'
    BY <1>0, <1>11 DEF Insert, TablesTypeOK
  <2> QED BY <1>11, <1>parts, <1>cache, <1>counters, <2>1, <2>2 DEF Insert
<1>12. ASSUME NEW p \in Requests, Forget(p) PROVE TypeOK'
  <2>1. RequestsTypeOK'
    BY <1>0, <1>12, GotoType DEF Forget, RequestsTypeOK, Steps
  <2>2. CacheTypeOK'
    BY <1>0, <1>12, <1>fewer DEF Forget, CacheTypeOK
  <2> QED BY <1>12, <1>parts, <1>tables, <1>counters, <2>1, <2>2 DEF Forget
<1>13. ASSUME NEW p \in Requests, Scan(p) PROVE TypeOK'
  <2>1. CASE End(p)
    BY <1>0, <1>13, <1>parts, <1>tables, <1>cache, <1>counters, <2>1, EndType DEF Scan
  <2>2. CASE ~ End(p)
    <3>1. Goto(p, "sweep") /\ UNCHANGED <<op, copy, diff>>
      BY <1>13, <2>2 DEF Scan
    <3>2. RequestsTypeOK'
      BY <1>0, <3>1, GotoType DEF RequestsTypeOK, Steps
    <3> QED BY <1>13, <1>parts, <1>tables, <1>cache, <1>counters, <3>2 DEF Scan
  <2> QED BY <2>1, <2>2
<1>14. ASSUME NEW p \in Requests, Sweep(p) PROVE TypeOK'
  <2>1. RequestsTypeOK'
    BY <1>0, <1>14, EndType DEF Sweep
  <2>2. CacheTypeOK'
    BY <1>0, <1>14, <1>fewer DEF Sweep, CacheTypeOK
  <2> QED BY <1>14, <1>parts, <1>tables, <1>counters, <2>1, <2>2 DEF Sweep
<1>15. ASSUME NEW p \in Requests, Fail(p) PROVE TypeOK'
  <2>1. RequestsTypeOK'
    BY <1>0, <1>15, EndType DEF Fail
  <2>2. CountersTypeOK'
    BY <1>0, <1>15, CatalogAssumption DEF Fail, CountersTypeOK
  <2> QED BY <1>15, <1>parts, <1>tables, <1>cache, <2>1, <2>2 DEF Fail
<1>16. ASSUME NEW k \in Keys, Expire(k) PROVE TypeOK'
  <2>1. RequestsTypeOK'
    BY <1>0, <1>16 DEF Expire, RequestsTypeOK
  <2>2. CacheTypeOK'
    BY <1>0, <1>16, <1>fewer DEF Expire, CacheTypeOK
  <2> QED BY <1>16, <1>parts, <1>tables, <1>counters, <2>1, <2>2 DEF Expire
<1>17. CASE UNCHANGED catalogVars
  <2>1. RequestsTypeOK'
    BY <1>0, <1>17 DEF catalogVars, RequestsTypeOK
  <2> QED BY <1>17, <1>parts, <1>tables, <1>cache, <1>counters, <2>1 DEF catalogVars
<1> QED BY <1>2, <1>3, <1>4, <1>5, <1>6, <1>7, <1>8, <1>9, <1>10, <1>11, <1>12, <1>13, <1>14,
           <1>15, <1>16, <1>17, <1>18, StepOfRequest

(* Every row, entry and request keeps its form: what the cache returns can  *)
(* take the place of what the database returns (findById, findPriceById).  *)
THEOREM CatalogTypes == Spec => []TypeOK
  BY TypeInit, TypeStep, PTL DEF Spec

-----------------------------------------------------------------------------
(* The catalogue of one request at a time *)

(* The keys whose entries a request has made stale and has yet to delete.  *)
Doubtful(p) ==
    CASE pc[p] = "forget" -> Keys
      [] pc[p] \in {"scan", "sweep"} -> {"list"}
      [] OTHER -> {}

CacheFollows ==
    \A k \in Keys :
        (\A p \in Requests : k \notin Doubtful(p)) => cached[k] \subseteq {Current(k)}

(* What a request holds is what the database holds, and what it is about   *)
(* to write is what it was asked to write.                                 *)
CopyFollows(p) ==
    /\ pc[p] = "query" /\ op[p].key = "list" => copy[p].total = total
    /\ pc[p] = "fill" => copy[p] = Current(op[p].key)
    /\ pc[p] = "load" => copy[p] = Current("product")
    /\ pc[p] = "write" => \A f \in diff[p] : f \in op[p].sets /\ copy[p].row[f] = op[p].value

OneAtATime == \A p, q \in Requests : pc[p] # "idle" /\ pc[q] # "idle" => p = q

OrderlyInv ==
    Orderly => OneAtATime /\ CacheFollows /\ \A p \in Requests : CopyFollows(p)

LEMMA OrderlyInit == Init => OrderlyInv
  BY DEF Init, OrderlyInv, OneAtATime, CacheFollows, CopyFollows

LEMMA CurrentIs ==
    /\ Current("product") = [row |-> row, total |-> 0]
    /\ Current("price") = [row |-> [row EXCEPT !["name"] = 0], total |-> 0]
    /\ Current("list") = [row |-> row, total |-> total]
  BY DEF Current, Project

(* The one request in progress answers for everybody.                      *)
LEMMA AloneAnswers ==
    ASSUME NEW p \in Requests, \A q \in Requests : q # p => pc'[q] = "idle",
           \A k \in Keys : k \notin Doubtful(p)' => cached'[k] \subseteq {Current(k)'},
           CopyFollows(p)'
    PROVE  OrderlyInv'
<1>1. OneAtATime'
  BY DEF OneAtATime
<1>2. CacheFollows'
  BY DEF CacheFollows
<1>3. \A q \in Requests : CopyFollows(q)'
  <2> SUFFICES ASSUME NEW q \in Requests, q # p PROVE CopyFollows(q)'
    OBVIOUS
  <2>1. pc'[q] = "idle"
    OBVIOUS
  <2> QED BY <2>1 DEF CopyFollows
<1> QED BY <1>1, <1>2, <1>3 DEF OrderlyInv

LEMMA OrderlyStays ==
    ASSUME TypeOK, [Next]_catalogVars, Orderly'
    PROVE  Orderly /\ \A p \in Requests : ~ Fail(p)
<1>1. failures \in Nat /\ overlaps \in Nat
  BY CatalogAssumption DEF TypeOK
<1>2. UNCHANGED failures \/ failures' = failures + 1
  BY DEF Next, Start, StartRead, StartUpdate, StartCreate, ReadThrough, Hit, Miss, Count, Query, Fill,
         Change, Load, Write, Insert, Forget, Scan, Sweep, Fail, Expire, catalogVars
<1>3. UNCHANGED overlaps \/ overlaps' = overlaps + 1
  BY DEF Next, Start, StartRead, StartUpdate, StartCreate, Arrives, ReadThrough, Hit, Miss, Count, Query,
         Fill, Change, Load, Write, Insert, Forget, Scan, Sweep, Fail, Expire, catalogVars
<1>4. failures' \in Nat /\ overlaps' \in Nat /\ failures' = 0 /\ overlaps' = 0
  BY <1>1, <1>2, <1>3 DEF Orderly
<1>5. failures = 0 /\ overlaps = 0
  BY <1>1, <1>2, <1>3, <1>4
<1>6. \A p \in Requests : ~ Fail(p)
  BY <1>1, <1>4, <1>5 DEF Fail
<1> QED BY <1>5, <1>6 DEF Orderly

LEMMA OrderlyStep == TypeOK /\ OrderlyInv /\ [Next]_catalogVars => OrderlyInv'
<1> SUFFICES ASSUME TypeOK, OrderlyInv, [Next]_catalogVars, Orderly' PROVE OrderlyInv'
  BY DEF OrderlyInv
<1>0. /\ Orderly /\ OneAtATime /\ CacheFollows /\ \A p \in Requests : CopyFollows(p)
      /\ \A p \in Requests : ~ Fail(p)
  BY OrderlyStays DEF OrderlyInv
<1>types. /\ RequestsTypeOK /\ pc \in [Requests -> Steps] /\ op \in [Requests -> Operation]
          /\ copy \in [Requests -> Snapshot] /\ diff \in [Requests -> SUBSET Fields]
          /\ CacheTypeOK /\ TablesTypeOK
  BY TypeParts DEF RequestsTypeOK
<1>alone. ASSUME NEW p \in Requests, pc[p] # "idle"
          PROVE  /\ \A q \in Requests : q # p => pc[q] = "idle"
                 /\ \A k \in Keys : k \notin Doubtful(p) => cached[k] \subseteq {Current(k)}
  <2>1. \A q \in Requests : q # p => pc[q] = "idle"
    BY <1>0, <1>alone DEF OneAtATime
  <2>2. \A q \in Requests : q # p => Doubtful(q) = {}
    BY <2>1 DEF Doubtful
  <2>3. ASSUME NEW k \in Keys, k \notin Doubtful(p) PROVE cached[k] \subseteq {Current(k)}
    BY <1>0, <2>2, <2>3 DEF CacheFollows
  <2> QED BY <2>1, <2>3
<1>same. ASSUME UNCHANGED <<row, total>>, NEW k PROVE Current(k)' = Current(k)
  BY <1>same DEF Current
(* A request arrives while none is in progress. *)
<1>1. ASSUME NEW p \in Requests, Arrives(p), NEW s \in {"get", "insert"}, Goto(p, s),
             UNCHANGED <<row, total, cached, failures>>
      PROVE  OrderlyInv'
  <2>1. \A q \in Requests : pc[q] = "idle"
    <3>1. failures \in Nat /\ overlaps \in Nat
      BY CatalogAssumption DEF TypeOK
    <3>2. overlaps = 0 /\ overlaps' # 1
      BY <1>0, <1>1, <3>1 DEF Orderly
    <3> QED BY <1>1, <3>2 DEF Arrives
  <2>2. /\ pc'[p] = s /\ \A q \in Requests : q # p => pc'[q] = pc[q]
    BY <1>1, <1>types, GotoType DEF Steps
  <2>3. \A k \in Keys : cached[k] \subseteq {Current(k)}
    BY <1>0, <2>1 DEF CacheFollows, Doubtful
  <2>4. \A k \in Keys : cached'[k] \subseteq {Current(k)'}
    BY <1>1, <1>same, <2>3
  <2>5. CopyFollows(p)'
    BY <2>2 DEF CopyFollows
  <2> QED BY <2>1, <2>2, <2>4, <2>5, AloneAnswers
<1>2. ASSUME NEW p \in Requests,
             \/ \E k \in Keys : StartRead(p, k)
             \/ \E fs \in SUBSET Fields : StartUpdate(p, fs)
             \/ StartCreate(p)
      PROVE  OrderlyInv'
  BY <1>1, <1>2 DEF StartRead, StartUpdate, StartCreate
<1>3. ASSUME NEW p \in Requests, Hit(p) PROVE OrderlyInv'
  <2>1. pc[p] = "get" /\ UNCHANGED <<row, total, cached>>
    BY <1>3 DEF Hit
  <2>2. PICK s \in cached[op[p].key] : HasRead(p, s)
    BY <1>3 DEF Hit
  <2>3. /\ op[p].key \in Keys /\ s \in Snapshot
    BY <1>types, <2>2, OperationFields DEF CacheTypeOK
  <2>4. /\ \A q \in Requests : q # p => pc[q] = "idle"
        /\ \A k \in Keys : cached[k] \subseteq {Current(k)}
    BY <1>alone, <2>1 DEF Doubtful
  <2>5. s = Current(op[p].key)
    BY <2>2, <2>3, <2>4
  <2>6. /\ pc'[p] = "idle" \/ (pc'[p] = "load" /\ copy'[p] = s /\ op[p].key = "product")
        /\ \A q \in Requests : q # p => pc'[q] = pc[q]
    BY <1>types, <2>2, <2>3, HasReadType
  <2>7. \A k \in Keys : cached'[k] \subseteq {Current(k)'}
    BY <1>same, <2>1, <2>4
  <2>8. CopyFollows(p)'
    BY <1>same, <2>1, <2>5, <2>6 DEF CopyFollows
  <2> QED BY <2>4, <2>6, <2>7, <2>8, AloneAnswers
<1>4. ASSUME NEW p \in Requests, Miss(p) PROVE OrderlyInv'
  <2> DEFINE next == IF op[p].key = "list" THEN "count" ELSE "query"
  <2>1. pc[p] = "get" /\ Goto(p, next) /\ UNCHANGED <<row, total, cached, op>>
    BY <1>4 DEF Miss
  <2>2. /\ \A q \in Requests : q # p => pc[q] = "idle"
        /\ \A k \in Keys : cached[k] \subseteq {Current(k)}
    BY <1>alone, <2>1 DEF Doubtful
  <2>3. pc'[p] = next /\ \A q \in Requests : q # p => pc'[q] = pc[q]
    BY <1>types, <2>1, GotoType DEF Steps
  <2>4. \A k \in Keys : cached'[k] \subseteq {Current(k)'}
    BY <1>same, <2>1, <2>2
  <2>5. CopyFollows(p)'
    BY <2>1, <2>3 DEF CopyFollows
  <2> QED BY <2>2, <2>3, <2>4, <2>5, AloneAnswers
<1>15. ASSUME NEW p \in Requests, Count(p) PROVE OrderlyInv'
  <2>1. /\ pc[p] = "count" /\ Goto(p, "query") /\ UNCHANGED <<row, total, cached, op>>
        /\ copy' = [copy EXCEPT ![p] = [copy[p] EXCEPT !.total = total]]
    BY <1>15 DEF Count
  <2>2. /\ \A q \in Requests : q # p => pc[q] = "idle"
        /\ \A k \in Keys : cached[k] \subseteq {Current(k)}
    BY <1>alone, <2>1 DEF Doubtful
  <2>3. pc'[p] = "query" /\ \A q \in Requests : q # p => pc'[q] = pc[q]
    BY <1>types, <2>1, GotoType DEF Steps
  <2>4. \A k \in Keys : cached'[k] \subseteq {Current(k)'}
    BY <1>same, <2>1, <2>2
  <2>5. copy'[p].total = total
    <3>1. copy'[p] = [copy[p] EXCEPT !.total = total]
      BY <1>types, <2>1
    <3>2. copy[p] \in [row : Row, total : Nat]
      BY <1>types DEF Snapshot
    <3> QED BY <3>1, <3>2
  <2>6. CopyFollows(p)'
    BY <2>1, <2>3, <2>5 DEF CopyFollows
  <2> QED BY <2>2, <2>3, <2>4, <2>6, AloneAnswers
<1>5. ASSUME NEW p \in Requests, Query(p) PROVE OrderlyInv'
  <2>1. /\ pc[p] = "query" /\ Goto(p, "fill") /\ UNCHANGED <<row, total, cached, op>>
        /\ copy' = [copy EXCEPT ![p] =
                IF op[p].key = "list" THEN [copy[p] EXCEPT !.row = row] ELSE Current(op[p].key)]
    BY <1>5 DEF Query
  <2>2. /\ \A q \in Requests : q # p => pc[q] = "idle"
        /\ \A k \in Keys : cached[k] \subseteq {Current(k)}
    BY <1>alone, <2>1 DEF Doubtful
  <2>3. pc'[p] = "fill" /\ \A q \in Requests : q # p => pc'[q] = pc[q]
    BY <1>types, <2>1, GotoType DEF Steps
  <2>4. \A k \in Keys : cached'[k] \subseteq {Current(k)'}
    BY <1>same, <2>1, <2>2
  <2>5. copy'[p] = Current(op[p].key) /\ Current(op[p].key)' = Current(op[p].key)
    <3>1. op' = op /\ copy'[p] = IF op[p].key = "list" THEN [copy[p] EXCEPT !.row = row]
                                 ELSE Current(op[p].key)
      BY <1>types, <2>1
    <3>2. op[p].key = "list" => copy[p].total = total
      BY <1>0, <2>1 DEF CopyFollows
    <3>3. copy[p] \in [row : Row, total : Nat]
      BY <1>types DEF Snapshot
    <3>4. op[p].key = "list" => [copy[p] EXCEPT !.row = row] = [row |-> row, total |-> total]
      BY <3>2, <3>3
    <3>5. copy'[p] = Current(op[p].key)
      BY <3>1, <3>4, CurrentIs
    <3> QED BY <2>1, <3>1, <3>5 DEF Current
  <2>6. CopyFollows(p)'
    BY <2>3, <2>5 DEF CopyFollows
  <2> QED BY <2>2, <2>3, <2>4, <2>6, AloneAnswers
<1>6. ASSUME NEW p \in Requests, Fill(p) PROVE OrderlyInv'
  <2>1. /\ pc[p] = "fill" /\ HasRead(p, copy[p]) /\ UNCHANGED <<row, total>>
        /\ cached' = [cached EXCEPT ![op[p].key] = {copy[p]}]
    BY <1>6 DEF Fill
  <2>2. /\ \A q \in Requests : q # p => pc[q] = "idle"
        /\ \A k \in Keys : cached[k] \subseteq {Current(k)}
    BY <1>alone, <2>1 DEF Doubtful
  <2>3. copy[p] = Current(op[p].key) /\ op[p].key \in Keys /\ copy[p] \in Snapshot
    BY <1>0, <1>types, <2>1, OperationFields DEF CopyFollows
  <2>4. /\ pc'[p] = "idle" \/ (pc'[p] = "load" /\ copy'[p] = copy[p] /\ op[p].key = "product")
        /\ \A q \in Requests : q # p => pc'[q] = pc[q]
    BY <1>types, <2>1, <2>3, HasReadType
  <2>5. \A k \in Keys : cached'[k] \subseteq {Current(k)}
    BY <1>types, <2>1, <2>2, <2>3 DEF CacheTypeOK
  <2>6. \A k \in Keys : cached'[k] \subseteq {Current(k)'}
    BY <1>same, <2>1, <2>5
  <2>7. CopyFollows(p)'
    BY <1>same, <2>1, <2>3, <2>4 DEF CopyFollows
  <2> QED BY <2>2, <2>4, <2>6, <2>7, AloneAnswers
(* The entity differs from the row only in what the update sets. *)
<1>7. ASSUME NEW p \in Requests, Load(p) PROVE OrderlyInv'
  <2>1. /\ pc[p] = "load" /\ Goto(p, "write") /\ UNCHANGED <<row, total, cached, op>>
        /\ copy' = [copy EXCEPT ![p].row = Entity(p)]
        /\ diff' = [diff EXCEPT ![p] = Differing(p)]
    BY <1>7 DEF Load
  <2>2. /\ \A q \in Requests : q # p => pc[q] = "idle"
        /\ \A k \in Keys : cached[k] \subseteq {Current(k)}
    BY <1>alone, <2>1 DEF Doubtful
  <2>3. pc'[p] = "write" /\ \A q \in Requests : q # p => pc'[q] = pc[q]
    BY <1>types, <2>1, GotoType DEF Steps
  <2>4. \A k \in Keys : cached'[k] \subseteq {Current(k)'}
    BY <1>same, <2>1, <2>2
  <2>5. copy[p] = [row |-> row, total |-> 0]
    BY <1>0, <2>1, CurrentIs DEF CopyFollows
  <2>6. copy[p].row = row
    BY <2>5
  <2>7. copy'[p].row = Entity(p) /\ diff'[p] = Differing(p)
    <3>1. copy[p] \in [row : Row, total : Nat]
      BY <1>types DEF Snapshot
    <3>2. copy'[p] = [copy[p] EXCEPT !.row = Entity(p)]
      BY <1>types, <2>1
    <3> QED BY <1>types, <2>1, <3>1, <3>2
  <2>8. \A f \in Differing(p) : f \in op[p].sets /\ Entity(p)[f] = op[p].value
    BY <1>types, <2>6, EntityType DEF Differing
  <2>9. CopyFollows(p)'
    BY <2>1, <2>3, <2>7, <2>8 DEF CopyFollows
  <2> QED BY <2>2, <2>3, <2>4, <2>9, AloneAnswers
<1>8. ASSUME NEW p \in Requests, Write(p) PROVE OrderlyInv'
  <2>1. pc[p] = "write" /\ Goto(p, "forget")
    BY <1>8 DEF Write
  <2>2. \A q \in Requests : q # p => pc[q] = "idle"
    BY <1>alone, <2>1
  <2>3. pc'[p] = "forget" /\ \A q \in Requests : q # p => pc'[q] = pc[q]
    BY <1>types, <2>1, GotoType DEF Steps
  <2>4. Doubtful(p)' = Keys /\ CopyFollows(p)'
    BY <2>3 DEF Doubtful, CopyFollows
  <2> QED BY <2>2, <2>3, <2>4, AloneAnswers
(* The number of products shows in the list only. *)
<1>9. ASSUME NEW p \in Requests, Insert(p) PROVE OrderlyInv'
  <2>1. pc[p] = "insert" /\ Goto(p, "scan") /\ UNCHANGED <<row, cached>>
    BY <1>9 DEF Insert
  <2>2. /\ \A q \in Requests : q # p => pc[q] = "idle"
        /\ \A k \in Keys : cached[k] \subseteq {Current(k)}
    BY <1>alone, <2>1 DEF Doubtful
  <2>3. pc'[p] = "scan" /\ \A q \in Requests : q # p => pc'[q] = pc[q]
    BY <1>types, <2>1, GotoType DEF Steps
  <2>4. Doubtful(p)' = {"list"} /\ CopyFollows(p)'
    BY <2>3 DEF Doubtful, CopyFollows
  <2>5. Current("product")' = Current("product") /\ Current("price")' = Current("price")
    BY <2>1 DEF Current, Project
  <2>6. \A k \in Keys : k # "list" => Current(k)' = Current(k)
    BY <2>5 DEF Keys
  <2>7. \A k \in Keys : k \notin Doubtful(p)' => cached'[k] \subseteq {Current(k)'}
    BY <2>1, <2>2, <2>4, <2>6
  <2> QED BY <2>2, <2>3, <2>4, <2>7, AloneAnswers
<1>10. ASSUME NEW p \in Requests, Forget(p) PROVE OrderlyInv'
  <2>1. /\ pc[p] = "forget" /\ Goto(p, "scan")
        /\ cached' = [k \in Keys |-> IF k \in ProductKeys THEN {} ELSE cached[k]]
    BY <1>10 DEF Forget
  <2>2. \A q \in Requests : q # p => pc[q] = "idle"
    BY <1>alone, <2>1
  <2>3. pc'[p] = "scan" /\ \A q \in Requests : q # p => pc'[q] = pc[q]
    BY <1>types, <2>1, GotoType DEF Steps
  <2>4. Doubtful(p)' = {"list"} /\ CopyFollows(p)'
    BY <2>3 DEF Doubtful, CopyFollows
  <2>5. \A k \in Keys : k # "list" => cached'[k] = {}
    BY <2>1 DEF Keys, ProductKeys
  <2> QED BY <2>2, <2>3, <2>4, <2>5, AloneAnswers
<1>11. ASSUME NEW p \in Requests, Scan(p) PROVE OrderlyInv'
  <2>1. pc[p] = "scan" /\ UNCHANGED <<row, total, cached>>
    BY <1>11 DEF Scan
  <2>2. /\ \A q \in Requests : q # p => pc[q] = "idle"
        /\ \A k \in Keys : k # "list" => cached[k] \subseteq {Current(k)}
    BY <1>alone, <2>1 DEF Doubtful
  <2>3. \A k \in Keys : k # "list" => cached'[k] \subseteq {Current(k)'}
    BY <1>same, <2>1, <2>2
  <2>4. CASE cached["list"] = {}
    <3>1. End(p)
      BY <1>11, <2>4 DEF Scan
    <3>2. pc'[p] = "idle" /\ \A q \in Requests : q # p => pc'[q] = pc[q]
      BY <1>types, <3>1, EndType
    <3>3. \A k \in Keys : cached'[k] \subseteq {Current(k)'}
      BY <2>1, <2>3, <2>4
    <3>4. CopyFollows(p)'
      BY <3>2 DEF CopyFollows
    <3> QED BY <2>2, <3>2, <3>3, <3>4, AloneAnswers
  <2>5. CASE cached["list"] # {}
    <3>1. Goto(p, "sweep")
      BY <1>11, <2>5 DEF Scan
    <3>2. pc'[p] = "sweep" /\ \A q \in Requests : q # p => pc'[q] = pc[q]
      BY <1>types, <3>1, GotoType DEF Steps
    <3>3. Doubtful(p)' = {"list"} /\ CopyFollows(p)'
      BY <3>2 DEF Doubtful, CopyFollows
    <3> QED BY <2>2, <2>3, <3>2, <3>3, AloneAnswers
  <2> QED BY <2>4, <2>5
<1>12. ASSUME NEW p \in Requests, Sweep(p) PROVE OrderlyInv'
  <2>1. /\ pc[p] = "sweep" /\ End(p) /\ UNCHANGED <<row, total>>
        /\ cached' = [cached EXCEPT !["list"] = {}]
    BY <1>12 DEF Sweep
  <2>2. /\ \A q \in Requests : q # p => pc[q] = "idle"
        /\ \A k \in Keys : k # "list" => cached[k] \subseteq {Current(k)}
    BY <1>alone, <2>1 DEF Doubtful
  <2>3. pc'[p] = "idle" /\ \A q \in Requests : q # p => pc'[q] = pc[q]
    BY <1>types, <2>1, EndType
  <2>4. \A k \in Keys : cached'[k] \subseteq {Current(k)}
    BY <1>types, <2>1, <2>2 DEF CacheTypeOK, Keys
  <2>5. \A k \in Keys : cached'[k] \subseteq {Current(k)'}
    BY <1>same, <2>1, <2>4
  <2>6. CopyFollows(p)'
    BY <2>3 DEF CopyFollows
  <2> QED BY <2>2, <2>3, <2>5, <2>6, AloneAnswers
<1>13. ASSUME NEW k \in Keys, Expire(k) PROVE OrderlyInv'
  <2>1. /\ cached' = [cached EXCEPT ![k] = {}]
        /\ UNCHANGED <<row, total, pc, op, copy, diff, failures, overlaps>>
    BY <1>13 DEF Expire
  <2>2. \A j \in Keys : cached'[j] \subseteq cached[j]
    BY <1>types, <2>1 DEF CacheTypeOK
  <2>3. CacheFollows'
    BY <1>0, <2>1, <2>2 DEF CacheFollows, Doubtful, Current
  <2>4. OneAtATime'
    BY <1>0, <2>1 DEF OneAtATime
  <2>5. \A p \in Requests : CopyFollows(p)'
    BY <1>0, <2>1 DEF CopyFollows, Current
  <2> QED BY <2>3, <2>4, <2>5 DEF OrderlyInv
<1>14. CASE UNCHANGED catalogVars
  BY <1>0, <1>14
     DEF catalogVars, OrderlyInv, OneAtATime, CacheFollows, CopyFollows, Doubtful, Current
<1> QED BY <1>0, <1>2, <1>3, <1>4, <1>5, <1>6, <1>7, <1>8, <1>9, <1>10, <1>11, <1>12, <1>13,
           <1>14, <1>15, StepOfRequest

LEMMA OrderlyInvariant == Spec => [](TypeOK /\ OrderlyInv)
<1>1. Init => TypeOK /\ OrderlyInv
  BY TypeInit, OrderlyInit
<1>2. (TypeOK /\ OrderlyInv) /\ [Next]_catalogVars => (TypeOK /\ OrderlyInv)'
  BY TypeStep, OrderlyStep
<1> QED BY <1>1, <1>2, PTL DEF Spec

(* A cache that nothing has gone wrong with shows the database between two *)
(* requests: an update and a creation delete every entry that they make    *)
(* stale, and a read puts back none (update, create, invalidateListCache). *)
THEOREM CatalogStaysCurrent == Spec => []CatalogIsCurrent
<1>1. OrderlyInv => CatalogIsCurrent
  BY DEF OrderlyInv, CatalogIsCurrent, CacheFollows, Doubtful, IsStale
<1> QED BY <1>1, OrderlyInvariant, PTL

(* Under the same condition an update changes the columns it was asked to, *)
(* to the values it was asked for, and nothing else does: save writes what *)
(* differs from the row, and what update has read is the row.              *)
THEOREM UpdatesDoWhatWasAsked == Spec => OnlyWhatWasAsked
<1> DEFINE Asked ==
        Orderly =>
            \A f \in Fields :
                row'[f] # row[f] =>
                    \E p \in Requests :
                        pc[p] = "write" /\ f \in op[p].sets /\ row'[f] = op[p].value
<1>1. OrderlyInv /\ TypeOK /\ Next => Asked
  <2> SUFFICES ASSUME OrderlyInv, TypeOK, Next, Orderly, NEW f \in Fields, row'[f] # row[f]
               PROVE  \E p \in Requests :
                        pc[p] = "write" /\ f \in op[p].sets /\ row'[f] = op[p].value
    OBVIOUS
  <2>1. PICK p \in Requests : Write(p)
    BY DEF Next, Start, StartRead, StartUpdate, StartCreate, ReadThrough, Hit, Miss, Count, Query, Fill,
           Change, Load, Insert, Forget, Scan, Sweep, Fail, Expire
  <2>2. pc[p] = "write" /\ row'[f] = IF f \in diff[p] THEN copy[p].row[f] ELSE row[f]
    BY <2>1 DEF Write
  <2>3. f \in diff[p] /\ row'[f] = copy[p].row[f]
    BY <2>2
  <2>4. CopyFollows(p)
    BY DEF OrderlyInv
  <2> QED BY <2>2, <2>3, <2>4 DEF CopyFollows
<1>2. UNCHANGED catalogVars => Asked
  BY DEF catalogVars
<1> HIDE DEF Asked
<1>3. OrderlyInv /\ TypeOK /\ [Next]_catalogVars => [Asked]_catalogVars
  BY <1>1, <1>2
<1>4. Spec => [][Asked]_catalogVars
  BY <1>3, OrderlyInvariant, PTL DEF Spec
<1> QED BY <1>4 DEF OnlyWhatWasAsked, Asked
=============================================================================
