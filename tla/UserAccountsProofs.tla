------------------------- MODULE UserAccountsProofs -------------------------
(* Theorems about UserAccounts, for any finite set of emails and any set of *)
(* requests in progress at once.                                            *)
EXTENDS UserAccounts, FiniteSetTheorems, SequenceTheorems, TLAPS

(* No two accounts have the same email. *)
EmailInv == \A a, b \in DOMAIN users : users[a].email = users[b].email => a = b

(* What an update is about to write is what its request asked for. *)
WriteInv ==
    \A p \in Requests : pc[p] = "write" =>
        \A f \in DOMAIN diff[p] : f \in DOMAIN op[p].dto /\ diff[p][f] = op[p].dto[f]

-----------------------------------------------------------------------------
(* The table *)

LEMMA DomainOfUsers ==
    ASSUME TypeOK
    PROVE  /\ users \in Seq(User) /\ Len(users) \in Nat
           /\ DOMAIN users = 1 .. Len(users)
           /\ \A a \in DOMAIN users : users[a] \in User
  BY DEF TypeOK

LEMMA DtoValues ==
    /\ \A d \in Dtos : DOMAIN d \subseteq Fields /\ \A f \in DOMAIN d : d[f] \in BOOLEAN
    /\ \A fs \in SUBSET Fields : [fs -> BOOLEAN] \subseteq Dtos
    /\ NoDto \in Dtos
<1>1. \A fs \in SUBSET Fields : [fs -> BOOLEAN] \subseteq Dtos
  BY DEF Dtos
<1>2. {} \in SUBSET Fields /\ NoDto \in [{} -> BOOLEAN]
  BY DEF NoDto
<1>3. ASSUME NEW d \in Dtos
      PROVE  DOMAIN d \subseteq Fields /\ \A f \in DOMAIN d : d[f] \in BOOLEAN
  <2>1. PICK fs \in SUBSET Fields : d \in [fs -> BOOLEAN]
    BY DEF Dtos
  <2> QED BY <2>1
<1> QED BY <1>1, <1>2, <1>3

(* An update keeps the rows and the emails. *)
LEMMA WriteKeepsRows ==
    ASSUME TypeOK, NEW p \in Requests, Write(p)
    PROVE  /\ users' \in Seq(User) /\ DOMAIN users' = DOMAIN users
           /\ \A a \in DOMAIN users : users'[a].email = users[a].email
<1> DEFINE a == op[p].account
           new == [f \in Fields |-> IF f \in DOMAIN diff[p] THEN diff[p][f] ELSE users[a].data[f]]
<1>1. a \in DOMAIN users /\ diff[p] \in Dtos
  BY DEF TypeOK, Write
<1>2. new \in [Fields -> BOOLEAN]
  BY <1>1, DomainOfUsers, DtoValues DEF User
<1>3. users' = [users EXCEPT ![a].data = new]
  BY DEF Write
<1> HIDE DEF new, a
<1>4. [users[a] EXCEPT !.data = new] \in User
  BY <1>1, <1>2, DomainOfUsers DEF User
<1>5. \A b \in DOMAIN users : users'[b].email = users[b].email
  BY <1>1, <1>3, DomainOfUsers DEF User
<1>6. users' = [users EXCEPT ![a] = [users[a] EXCEPT !.data = new]]
  BY <1>3
<1>7. users' \in Seq(User) /\ DOMAIN users' = DOMAIN users
  <2> DEFINE row == [users[a] EXCEPT !.data = new]
  <2>1. row \in User /\ a \in 1 .. Len(users) /\ users \in Seq(User)
    BY <1>1, <1>4, DomainOfUsers
  <2> HIDE DEF row
  <2>2. [users EXCEPT ![a] = row] \in Seq(User)
    BY <2>1, ExceptSeq
  <2>3. DOMAIN [users EXCEPT ![a] = row] = DOMAIN users
    OBVIOUS
  <2> QED BY <1>6, <2>2, <2>3 DEF row
<1> QED BY <1>5, <1>7

LEMMA InsertAddsRow ==
    ASSUME TypeOK, NEW p \in Requests, Insert(p)
    PROVE  /\ users' \in Seq(User) /\ Len(users') = Len(users) + 1
           /\ DOMAIN users' = 1 .. Len(users) + 1
           /\ \A a \in DOMAIN users : users'[a] = users[a]
           /\ users'[Len(users) + 1].email = op[p].email
           /\ Of(op[p].email) = {}
<1> DEFINE new == [email |-> op[p].email, password |-> op[p].password, data |-> Blank]
<1>1. op[p].email \in Emails /\ op[p].password \in BOOLEAN
  <2>1. pc[p] = "insert" /\ op[p] \in Operation
    BY DEF TypeOK, Insert
  <2> QED BY <2>1 DEF TypeOK, Operation
<1>2. new \in User
  BY <1>1 DEF User, Blank
<1>3. users' = Append(users, new) /\ Of(op[p].email) = {} /\ new.email = op[p].email
  BY DEF Insert, Taken
<1> HIDE DEF new
<1> QED BY <1>2, <1>3, DomainOfUsers, AppendProperties

LEMMA OthersKeepUsers ==
    ASSUME [Next]_userVars,
           \A p \in Requests : ~ Insert(p) /\ ~ Write(p)
    PROVE  users' = users
  BY DEF Next, userVars, Start, GoOn, Fail, Expire, StartRegister, StartLogin, StartCreate,
     StartRenew, StartUpdate, Arrive, Lookup, InsertRefused, FindForLogin, LoginRefused,
     ResolveRefreshToken, IssueTokenPair, ReadUser, Load

(* Rows are never removed. *)
LEMMA UsersGrow ==
    ASSUME TypeOK, [Next]_userVars
    PROVE  /\ users' \in Seq(User) /\ DOMAIN users \subseteq DOMAIN users'
           /\ \A a \in DOMAIN users : users'[a].email = users[a].email
<1>1. ASSUME NEW p \in Requests, Insert(p) PROVE DOMAIN users \subseteq DOMAIN users'
  BY <1>1, InsertAddsRow, DomainOfUsers
<1> QED BY <1>1, InsertAddsRow, WriteKeepsRows, OthersKeepUsers, DomainOfUsers

-----------------------------------------------------------------------------
(* Emails *)

LEMMA EmailStep == TypeOK /\ EmailInv /\ [Next]_userVars => EmailInv'
<1> SUFFICES ASSUME TypeOK, EmailInv, [Next]_userVars PROVE EmailInv'
  OBVIOUS
<1>1. ASSUME NEW p \in Requests, Insert(p) PROVE EmailInv'
  <2>1. \A a \in DOMAIN users : users'[a].email # op[p].email
    BY <1>1, InsertAddsRow DEF Of
  <2>2. \A a \in DOMAIN users' : a \in DOMAIN users \/ a = Len(users) + 1
    BY <1>1, InsertAddsRow, DomainOfUsers
  <2>3. /\ \A a \in DOMAIN users : users'[a].email = users[a].email
        /\ users'[Len(users) + 1].email = op[p].email
    BY <1>1, InsertAddsRow
  <2> QED BY <2>1, <2>2, <2>3 DEF EmailInv
<1>2. ASSUME NEW p \in Requests, Write(p) PROVE EmailInv'
  BY <1>2, WriteKeepsRows DEF EmailInv
<1>3. CASE users' = users
  BY <1>3 DEF EmailInv
<1> QED BY <1>1, <1>2, <1>3, OthersKeepUsers

(* There are no more accounts than emails. *)
LEMMA AccountsAreBounded ==
    ASSUME users \in Seq(User), EmailInv
    PROVE  DOMAIN users \subseteq Accounts
<1> DEFINE emailOf == [a \in 1 .. Len(users) |-> users[a].email]
<1>1. Len(users) \in Nat /\ DOMAIN users = 1 .. Len(users)
  OBVIOUS
<1>2. emailOf \in [1 .. Len(users) -> Emails]
  <2>1. \A a \in 1 .. Len(users) : users[a] \in User
    BY <1>1
  <2>2. \A u \in User : u.email \in Emails
    BY DEF User
  <2> QED BY <2>1, <2>2
<1>3. IsFiniteSet(Emails) /\ Cardinality(Emails) \in Nat
  BY AccountsAssumption, FS_CardinalityType
<1>4. IsFiniteSet(1 .. Len(users)) /\ Cardinality(1 .. Len(users)) = Len(users)
  <2>1. /\ IsFiniteSet(1 .. Len(users))
        /\ Cardinality(1 .. Len(users)) = IF 1 > Len(users) THEN 0 ELSE Len(users) - 1 + 1
    BY <1>1, FS_Interval
  <2> QED BY <1>1, <2>1
<1>5. ~ (Cardinality(Emails) < Len(users))
  <2>1. SUFFICES ASSUME Cardinality(Emails) < Len(users) PROVE FALSE
    OBVIOUS
  <2> HIDE DEF emailOf
  <2>2. \E a, b \in 1 .. Len(users) : a # b /\ emailOf[a] = emailOf[b]
    BY <1>2, <1>3, <1>4, <2>1, FS_PigeonHole
  <2> QED BY <1>1, <2>2 DEF emailOf, EmailInv
<1> QED BY <1>1, <1>3, <1>5 DEF Accounts

-----------------------------------------------------------------------------
(* Types *)

LEMMA GotoType ==
    ASSUME TypeOK, NEW p \in Requests, NEW s \in Steps, Goto(p, s)
    PROVE  pc' \in [Requests -> Steps] /\ pc'[p] = s
           /\ \A q \in Requests : q # p => pc'[q] = pc[q]
  BY DEF TypeOK, Goto

LEMMA NoOpType == NoOp \in Operation
  BY DtoValues DEF NoOp, ById, Operation, Kinds

(* The table and the tokens are fine, and p's step is done. *)
LEMMA EndType ==
    ASSUME TypeOK, NEW p \in Requests, End(p), users' \in Seq(User),
           DOMAIN users \subseteq DOMAIN users', DOMAIN users' \subseteq Accounts,
           tokens' \subseteq DOMAIN users'
    PROVE  TypeOK'
<1>1. pc' \in [Requests -> Steps] /\ pc'[p] = "idle"
      /\ \A q \in Requests : q # p => pc'[q] = pc[q]
  BY GotoType DEF End, Steps
<1>2. op' \in [Requests -> Operation] /\ \A q \in Requests : q # p => op'[q] = op[q]
  BY NoOpType DEF End, TypeOK
<1>3. copy' \in [Requests -> [Fields -> BOOLEAN]] /\ diff' \in [Requests -> Dtos]
  BY DtoValues DEF End, TypeOK, Blank
<1> QED BY <1>1, <1>2, <1>3 DEF TypeOK

(* p is about another operation, or at another step, and nothing else moves.*)
LEMMA MoveType ==
    ASSUME TypeOK, NEW p \in Requests, NEW s \in Steps, NEW o \in Operation,
           Goto(p, s), op' = [op EXCEPT ![p] = o], UNCHANGED <<tokens, copy, diff>>,
           users' \in Seq(User), DOMAIN users \subseteq DOMAIN users',
           DOMAIN users' \subseteq Accounts,
           s \in {"lookup", "insert", "find"} => o.email \in Emails,
           s \in {"resolve", "issue", "read", "load", "write"} => o.account \in DOMAIN users'
    PROVE  TypeOK'
<1>1. pc' \in [Requests -> Steps] /\ pc'[p] = s
      /\ \A q \in Requests : q # p => pc'[q] = pc[q]
  BY GotoType
<1>2. op' \in [Requests -> Operation] /\ op'[p] = o
      /\ \A q \in Requests : q # p => op'[q] = op[q]
  BY DEF TypeOK
<1> QED BY <1>1, <1>2 DEF TypeOK

LEMMA ArriveType ==
    ASSUME TypeOK, NEW p \in Requests, NEW s \in Steps, NEW o \in Operation, Arrive(p, o, s),
           s \in {"lookup", "insert", "find"} => o.email \in Emails,
           s \in {"resolve", "issue", "read", "load", "write"} => o.account \in DOMAIN users
    PROVE  TypeOK'
<1>1. users' = users /\ UNCHANGED <<tokens, copy, diff>> /\ Goto(p, s)
      /\ op' = [op EXCEPT ![p] = o]
  BY DEF Arrive
<1>2. users \in Seq(User) /\ DOMAIN users \subseteq Accounts
  BY DEF TypeOK
<1> QED BY <1>1, <1>2, MoveType

LEMMA StartType ==
    ASSUME TypeOK, NEW p \in Requests, Start(p)
    PROVE  TypeOK'
<1> USE DEF Steps
<1>1. \A k \in Kinds, e \in Emails, w \in BOOLEAN :
        ByEmail(k, e, w) \in Operation /\ ByEmail(k, e, w).email = e
  BY DtoValues DEF ByEmail, Operation
<1>2. \A k \in Kinds, a \in DOMAIN users, d \in Dtos :
        ById(k, a, d) \in Operation /\ ById(k, a, d).account = a
  <2>1. \A a \in DOMAIN users : a \in Nat
    BY DomainOfUsers
  <2> QED BY <2>1 DEF ById, Operation
<1>3. Kinds = {"none", "register", "create", "login", "renew", "update"} /\ NoDto \in Dtos
  BY DtoValues DEF Kinds
<1>4. ASSUME NEW e \in Emails, NEW w \in BOOLEAN,
             StartCreate(p, e, w) \/ StartRegister(p, e) \/ StartLogin(p, e)
      PROVE  TypeOK'
  BY <1>4, <1>1, <1>3, ArriveType DEF StartCreate, StartRegister, StartLogin
<1>5. ASSUME NEW a \in Accounts, StartRenew(p, a) PROVE TypeOK'
  <2>1. a \in DOMAIN users
    BY <1>5 DEF StartRenew, TypeOK
  <2> QED BY <1>5, <2>1, <1>2, <1>3, ArriveType DEF StartRenew
<1>6. ASSUME NEW a \in Accounts, NEW d \in Dtos, StartUpdate(p, a, d) PROVE TypeOK'
  BY <1>6, <1>2, <1>3, ArriveType DEF StartUpdate
<1> QED BY <1>4, <1>5, <1>6 DEF Start

(* What Load is about to write: the columns the request names. *)
LEMMA DiffOfLoad ==
    ASSUME TypeOK, NEW p \in Requests, op[p].account \in DOMAIN users
    PROVE  LET d == [f \in Differing(p) |-> CHOOSE v \in Assigned(p, f) : TRUE] IN
           /\ d \in Dtos /\ DOMAIN d = Differing(p)
           /\ \A f \in Differing(p) : f \in DOMAIN op[p].dto /\ d[f] = op[p].dto[f]
<1> DEFINE d == [f \in Differing(p) |-> CHOOSE v \in Assigned(p, f) : TRUE]
<1>1. op[p].dto \in Dtos
  BY DEF TypeOK, Operation
<1>2. ASSUME NEW f \in Differing(p) PROVE f \in DOMAIN op[p].dto /\ d[f] = op[p].dto[f]
  <2>1. f \in Fields /\ Assigned(p, f) # {}
    BY <1>2 DEF Differing
  <2>2. f \in DOMAIN op[p].dto
    BY <2>1 DEF Assigned, OwnProperties
  <2>3. Assigned(p, f) = {op[p].dto[f]}
    BY <2>2 DEF Assigned
  <2> QED BY <2>2, <2>3
<1>3. Differing(p) \in SUBSET Fields
  BY DEF Differing
<1>4. d \in [Differing(p) -> BOOLEAN]
  BY <1>1, <1>2, <1>3, DtoValues
<1>5. d \in Dtos
  BY <1>3, <1>4, DtoValues
<1> QED BY <1>2, <1>5
LEMMA TypeInit == Init => TypeOK /\ EmailInv /\ WriteInv
<1> SUFFICES ASSUME Init PROVE TypeOK /\ EmailInv /\ WriteInv
  OBVIOUS
<1>1. users \in Seq(User) /\ DOMAIN users = {}
  BY DEF Init
<1>2. op \in [Requests -> Operation] /\ diff \in [Requests -> Dtos]
  BY NoOpType, DtoValues DEF Init
<1>3. pc \in [Requests -> Steps] /\ copy \in [Requests -> [Fields -> BOOLEAN]]
  BY DEF Init, Steps, Blank
<1>4. \A p \in Requests : pc[p] = "idle"
  BY DEF Init
<1> QED BY <1>1, <1>2, <1>3, <1>4 DEF Init, TypeOK, EmailInv, WriteInv

LEMMA TypeStep == TypeOK /\ EmailInv /\ [Next]_userVars => TypeOK'
<1> SUFFICES ASSUME TypeOK, EmailInv, [Next]_userVars PROVE TypeOK'
  OBVIOUS
<1>1. users' \in Seq(User) /\ DOMAIN users \subseteq DOMAIN users'
  BY UsersGrow
<1>2. DOMAIN users' \subseteq Accounts
  <2>1. EmailInv'
    BY EmailStep
  <2>2. ASSUME users' \in Seq(User), EmailInv' PROVE DOMAIN users' \subseteq Accounts
    <3>1. (users \in Seq(User) /\ EmailInv => DOMAIN users \subseteq Accounts)'
      BY AccountsAreBounded, PTL
    <3> QED BY <2>2, <3>1
  <2> QED BY <1>1, <2>1, <2>2
<1>3. ASSUME NEW p \in Requests, End(p), tokens' = tokens PROVE TypeOK'
  <2>1. tokens' \subseteq DOMAIN users'
    BY <1>1, <1>3 DEF TypeOK
  <2> QED BY <1>1, <1>2, <1>3, <2>1, EndType
<1>4. ASSUME NEW p \in Requests, NEW s \in Steps, op' = op, Goto(p, s), pc[p] # "idle",
             UNCHANGED <<users, tokens, copy, diff>>,
             s \in {"lookup", "insert", "find"} => op[p].email \in Emails,
             s \in {"resolve", "issue", "read", "load", "write"} =>
                op[p].account \in DOMAIN users
      PROVE  TypeOK'
  <2>1. op[p] \in Operation /\ op' = [op EXCEPT ![p] = op[p]]
    BY <1>4 DEF TypeOK
  <2>2. UNCHANGED <<tokens, copy, diff>> /\ users' = users
    BY <1>4
  <2> QED BY <1>1, <1>2, <1>4, <2>1, <2>2, MoveType
<1>5. ASSUME NEW p \in Requests, Start(p) PROVE TypeOK'
  BY <1>5, StartType
<1>6. ASSUME NEW p \in Requests, GoOn(p) PROVE TypeOK'
  <2>1. CASE Lookup(p)
    <3>1. op[p].email \in Emails
      BY <2>1 DEF Lookup, TypeOK
    <3> QED BY <2>1, <3>1, <1>3, <1>4 DEF Lookup, Steps
  <2>2. CASE Insert(p)
    <3>1. CASE op[p].kind = "register"
      <4> DEFINE o == [op[p] EXCEPT !.account = Len(users) + 1]
      <4>1. op[p] \in Operation /\ Len(users) + 1 \in DOMAIN users'
        BY <2>2, InsertAddsRow, DomainOfUsers DEF TypeOK
      <4>2. o \in Operation /\ o.account = Len(users) + 1
        BY <4>1, DomainOfUsers DEF Operation
      <4>3. op' = [op EXCEPT ![p] = o] /\ Goto(p, "issue") /\ UNCHANGED <<tokens, copy, diff>>
        BY <2>2, <3>1 DEF Insert
      <4> HIDE DEF o
      <4> QED BY <4>1, <4>2, <4>3, <1>1, <1>2, MoveType DEF Steps
    <3>2. CASE op[p].kind # "register"
      BY <2>2, <3>2, <1>3 DEF Insert
    <3> QED BY <3>1, <3>2
  <2>3. CASE InsertRefused(p)
    BY <2>3, <1>3 DEF InsertRefused
  <2>4. CASE FindForLogin(p)
    <3>1. PICK a \in Of(op[p].email) : op' = [op EXCEPT ![p].account = a]
      BY <2>4 DEF FindForLogin
    <3> DEFINE o == [op[p] EXCEPT !.account = a]
    <3>2. a \in DOMAIN users /\ op[p] \in Operation
      BY DEF Of, TypeOK
    <3>3. o \in Operation /\ o.account = a
      BY <3>2, DomainOfUsers DEF Operation
    <3>4. op' = [op EXCEPT ![p] = o] /\ Goto(p, "issue") /\ UNCHANGED <<users, tokens, copy, diff>>
      BY <2>4, <3>1 DEF FindForLogin
    <3>5. UNCHANGED <<tokens, copy, diff>> /\ a \in DOMAIN users'
      BY <3>2, <3>4
    <3> HIDE DEF o
    <3> QED BY <3>3, <3>4, <3>5, <1>1, <1>2, MoveType DEF Steps
  <2>5. CASE LoginRefused(p)
    BY <2>5, <1>3 DEF LoginRefused
  <2>6. CASE ResolveRefreshToken(p)
    <3>1. op[p].account \in DOMAIN users
      BY <2>6 DEF ResolveRefreshToken, TypeOK
    <3> QED BY <2>6, <3>1, <1>3, <1>4 DEF ResolveRefreshToken, Steps
  <2>7. CASE IssueTokenPair(p)
    <3>1. tokens' \subseteq DOMAIN users'
      BY <2>7 DEF IssueTokenPair, TypeOK
    <3>2. End(p)
      BY <2>7 DEF IssueTokenPair
    <3> QED BY <3>1, <3>2, <1>1, <1>2, EndType
  <2>8. CASE ReadUser(p)
    <3>1. op[p].account \in DOMAIN users /\ Goto(p, "load") /\ UNCHANGED <<users, tokens, op, diff>>
      BY <2>8 DEF ReadUser, TypeOK
    <3>2. copy' \in [Requests -> [Fields -> BOOLEAN]]
      BY <2>8, <3>1, DomainOfUsers DEF ReadUser, TypeOK, User
    <3>3. pc' \in [Requests -> Steps] /\ pc'[p] = "load"
          /\ \A q \in Requests : q # p => pc'[q] = pc[q]
      BY <3>1, GotoType DEF Steps
    <3> QED BY <3>1, <3>2, <3>3 DEF TypeOK
  <2>9. CASE Load(p)
    <3>1. op[p].account \in DOMAIN users
      BY <2>9 DEF Load, TypeOK
    <3>2. CASE Differing(p) = {}
      BY <2>9, <3>2, <1>3 DEF Load
    <3>3. CASE Differing(p) # {}
      <4>1. Goto(p, "write") /\ UNCHANGED <<users, tokens, op, copy>>
        BY <2>9, <3>3 DEF Load
      <4>2. diff' \in [Requests -> Dtos]
        BY <2>9, <3>1, <3>3, DiffOfLoad DEF Load, TypeOK
      <4>3. pc' \in [Requests -> Steps] /\ pc'[p] = "write"
            /\ \A q \in Requests : q # p => pc'[q] = pc[q]
        BY <4>1, GotoType DEF Steps
      <4> QED BY <3>1, <4>1, <4>2, <4>3 DEF TypeOK
    <3> QED BY <3>2, <3>3
  <2>10. CASE Write(p)
    BY <2>10, <1>3 DEF Write
  <2> QED BY <1>6, <2>1, <2>2, <2>3, <2>4, <2>5, <2>6, <2>7, <2>8, <2>9, <2>10 DEF GoOn
<1>7. ASSUME NEW p \in Requests, Fail(p) PROVE TypeOK'
  BY <1>7, <1>3 DEF Fail
<1>8. ASSUME NEW a \in Accounts, Expire(a) PROVE TypeOK'
  BY <1>8 DEF Expire, TypeOK
<1>9. CASE UNCHANGED userVars
  BY <1>9 DEF userVars, TypeOK
<1> QED BY <1>5, <1>6, <1>7, <1>8, <1>9 DEF Next

-----------------------------------------------------------------------------
(* Updates *)

LEMMA WriteStep == TypeOK /\ WriteInv /\ [Next]_userVars => WriteInv'
<1> SUFFICES ASSUME TypeOK, WriteInv, [Next]_userVars,
                    NEW q \in Requests, pc'[q] = "write", NEW f \in DOMAIN diff'[q]
             PROVE  f \in DOMAIN op'[q].dto /\ diff'[q][f] = op'[q].dto[f]
  BY DEF WriteInv
<1>1. CASE Load(q)
  <2>1. op[q].account \in DOMAIN users
    BY <1>1 DEF Load, TypeOK
  <2>2. Differing(q) # {}
    BY <1>1 DEF Load, TypeOK, End, Goto
  <2>3. /\ diff'[q] = [g \in Differing(q) |-> CHOOSE v \in Assigned(q, g) : TRUE]
        /\ op' = op
    BY <1>1, <2>2 DEF Load, TypeOK
  <2> QED BY <1>1, <2>1, <2>3, DiffOfLoad
<1>2. CASE ~ Load(q)
  <2>1. SUFFICES pc[q] = "write" /\ op'[q] = op[q] /\ diff'[q] = diff[q]
    BY DEF WriteInv
  <2>2. ASSUME NEW p \in Requests, Start(p) \/ GoOn(p) \/ Fail(p)
        PROVE  p # q /\ pc'[q] = pc[q] /\ op'[q] = op[q] /\ diff'[q] = diff[q]
    <3>1. CASE Start(p)
      BY <3>1 DEF Start, StartRegister, StartLogin, StartCreate, StartRenew, StartUpdate, Arrive,
         Goto, TypeOK
    <3>2. CASE GoOn(p)
      <4>1. CASE Lookup(p) \/ Insert(p) \/ InsertRefused(p)
        BY <4>1 DEF Lookup, Insert, InsertRefused, End, Goto, TypeOK
      <4>2. CASE FindForLogin(p) \/ LoginRefused(p) \/ ResolveRefreshToken(p) \/ IssueTokenPair(p)
        BY <4>2 DEF FindForLogin, LoginRefused, ResolveRefreshToken, IssueTokenPair, End, Goto,
           TypeOK
      <4>3. CASE ReadUser(p) \/ Write(p)
        BY <4>3 DEF ReadUser, Write, End, Goto, TypeOK
      <4>4. CASE Load(p)
        BY <4>4, <1>2 DEF Load, End, Goto, TypeOK
      <4> QED BY <3>2, <4>1, <4>2, <4>3, <4>4 DEF GoOn
    <3>3. CASE Fail(p)
      BY <3>3 DEF Fail, End, Goto, TypeOK
    <3> QED BY <2>2, <3>1, <3>2, <3>3
  <2>3. CASE UNCHANGED <<pc, op, diff>>
    BY <2>3
  <2> QED BY <2>2, <2>3 DEF Next, userVars, Expire
<1> QED BY <1>1, <1>2

(* What a step may change in the columns of an account. *)
UpdateStep ==
    \A a \in DOMAIN users, f \in Fields :
        users'[a].data[f] # users[a].data[f] =>
            \E p \in Requests :
                /\ pc[p] = "write" /\ op[p].account = a
                /\ f \in DOMAIN op[p].dto /\ op[p].dto[f] = users'[a].data[f]

LEMMA OnlyWriteUpdates == TypeOK /\ WriteInv /\ [Next]_userVars => UpdateStep
<1> SUFFICES ASSUME TypeOK, WriteInv, [Next]_userVars,
                    NEW a \in DOMAIN users, NEW f \in Fields,
                    users'[a].data[f] # users[a].data[f]
             PROVE  \E p \in Requests :
                        /\ pc[p] = "write" /\ op[p].account = a
                        /\ f \in DOMAIN op[p].dto /\ op[p].dto[f] = users'[a].data[f]
  BY DEF UpdateStep
<1>1. PICK p \in Requests : Write(p)
  BY InsertAddsRow, OthersKeepUsers
<1> DEFINE new == [g \in Fields |-> IF g \in DOMAIN diff[p] THEN diff[p][g]
                                    ELSE users[op[p].account].data[g]]
<1>2. users' = [users EXCEPT ![op[p].account].data = new] /\ pc[p] = "write"
  BY <1>1 DEF Write
<1>3. users[a] \in User /\ new[f] = IF f \in DOMAIN diff[p] THEN diff[p][f]
                                    ELSE users[op[p].account].data[f]
  BY DomainOfUsers
<1> HIDE DEF new
<1>4. op[p].account = a /\ users'[a].data = new
  BY <1>2, <1>3 DEF User
<1>5. f \in DOMAIN diff[p] /\ users'[a].data[f] = diff[p][f]
  BY <1>3, <1>4
<1> QED BY <1>2, <1>4, <1>5 DEF WriteInv

-----------------------------------------------------------------------------
(* Sessions *)

(* A request comes to sign tokens for an account that was there before     *)
(* only by a step that finds the account active.                           *)
LEMMA SignersStep ==
    ASSUME TypeOK, [Next]_userVars, NEW a \in DOMAIN users, ~ IsActive(a)
    PROVE  Signers(a)' \subseteq Signers(a)
<1> SUFFICES ASSUME NEW q \in Requests, pc'[q] = "issue", op'[q].account = a
             PROVE  pc[q] = "issue" /\ op[q].account = a
  BY DEF Signers
<1>1. /\ pc \in [Requests -> Steps] /\ op \in [Requests -> Operation]
      /\ copy \in [Requests -> [Fields -> BOOLEAN]] /\ diff \in [Requests -> Dtos]
  BY DEF TypeOK
<1>2. ASSUME NEW p \in Requests, p # q, Start(p) \/ GoOn(p) \/ Fail(p)
      PROVE  pc'[q] = pc[q] /\ op'[q] = op[q]
  BY <1>1, <1>2 DEF Start, StartRegister, StartLogin, StartCreate, StartRenew, StartUpdate, Arrive,
     GoOn, Lookup, Insert, InsertRefused, FindForLogin, LoginRefused, ResolveRefreshToken,
     IssueTokenPair, ReadUser, Load, Write, Fail, End, Goto
<1>3. ~ Start(q) /\ ~ Fail(q)
  BY <1>1 DEF Start, StartRegister, StartLogin, StartCreate, StartRenew, StartUpdate, Arrive, Fail,
     End, Goto
<1>4. ~ (Lookup(q) \/ InsertRefused(q) \/ LoginRefused(q) \/ IssueTokenPair(q) \/ ReadUser(q)
         \/ Load(q) \/ Write(q))
  BY <1>1 DEF Lookup, InsertRefused, LoginRefused, IssueTokenPair, ReadUser, Load, Write, End, Goto
(* A registration signs for the row it has just inserted. *)
<1>5. ~ Insert(q)
  <2> SUFFICES ASSUME Insert(q) PROVE FALSE
    OBVIOUS
  <2>1. op' = [op EXCEPT ![q].account = Len(users) + 1]
    BY <1>1 DEF Insert, End, Goto
  <2>2. op[q] \in Operation /\ op'[q] = [op[q] EXCEPT !.account = Len(users) + 1]
    BY <1>1, <2>1
  <2>3. op'[q].account = Len(users) + 1
    BY <2>2 DEF Operation
  <2> QED BY <2>3, DomainOfUsers DEF TypeOK
<1>6. ~ FindForLogin(q)
  <2> SUFFICES ASSUME FindForLogin(q) PROVE FALSE
    OBVIOUS
  <2>1. PICK b \in Of(op[q].email) : Admits(q, b) /\ op' = [op EXCEPT ![q].account = b]
    BY DEF FindForLogin
  <2>2. op[q] \in Operation /\ op'[q] = [op[q] EXCEPT !.account = b]
    BY <1>1, <2>1
  <2>3. b = a
    BY <2>2 DEF Operation
  <2> QED BY <2>1, <2>3 DEF Admits
<1>7. ~ ResolveRefreshToken(q)
  <2> SUFFICES ASSUME ResolveRefreshToken(q) PROVE FALSE
    OBVIOUS
  <2>1. Admits(q, op[q].account) /\ op' = op
    BY <1>1 DEF ResolveRefreshToken, End, Goto
  <2> QED BY <2>1 DEF Admits
<1>8. CASE UNCHANGED <<pc, op>>
  BY <1>8
<1> QED BY <1>2, <1>3, <1>4, <1>5, <1>6, <1>7, <1>8 DEF Next, GoOn, Expire, userVars

(* Only a signer gives an account its tokens. *)
LEMMA TokensStep ==
    ASSUME TypeOK, [Next]_userVars, NEW a, a \notin tokens, Signers(a) = {}
    PROVE  a \notin tokens'
<1>1. ASSUME NEW p \in Requests, IssueTokenPair(p) PROVE a \notin tokens'
  BY <1>1 DEF IssueTokenPair, Signers
<1>2. CASE \A p \in Requests : ~ IssueTokenPair(p)
  BY <1>2 DEF Next, Start, StartRegister, StartLogin, StartCreate, StartRenew, StartUpdate, Arrive,
     GoOn, Lookup, Insert, InsertRefused, FindForLogin, LoginRefused, ResolveRefreshToken, ReadUser,
     Load, Write, Fail, Expire, userVars
<1> QED BY <1>1, <1>2

-----------------------------------------------------------------------------
(* The theorems *)

LEMMA Invariant == Spec => [](TypeOK /\ EmailInv /\ WriteInv)
<1>1. TypeOK /\ EmailInv /\ WriteInv /\ [Next]_userVars => (TypeOK /\ EmailInv /\ WriteInv)'
  BY TypeStep, EmailStep, WriteStep
<1> QED BY TypeInit, <1>1, PTL DEF Spec

(* The table never has more rows than there are emails, every token belongs *)
(* to an account, and every request between two awaits of                   *)
(* AuthApplicationService and UserApplicationService is about one.          *)
THEOREM TypeCorrect == Spec => []TypeOK
  BY Invariant, PTL

(* However many registrations and creations pass the lookup at once, no two *)
(* accounts have the same email (create, and the unique column).            *)
THEOREM EmailsAreUnique == Spec => []EmailInv
  BY Invariant, PTL

(* An update changes the columns its request names, to the values it names, *)
(* whatever other updates did between its read and its write (update).      *)
THEOREM UpdatesKeepFields == Spec => UpdatesKeepOtherFields
<1>1. TypeOK /\ WriteInv /\ [Next]_userVars => [UpdateStep]_userVars
  BY OnlyWriteUpdates
<1>2. Spec => [][UpdateStep]_userVars
  BY Invariant, <1>1, PTL DEF Spec
<1> QED BY <1>2 DEF UpdatesKeepOtherFields, UpdateStep

(* Only a reactivation ends the lockout of an account: what a login or a   *)
(* renewal has read before cannot, since no one who has read it active is  *)
(* left (AuthApplicationService).                                          *)
THEOREM LockoutIsFinal == Spec => LockoutLasts
<1> DEFINE Lasts == \A a \in DOMAIN users : LockedOut(a) => LockedOut(a)' \/ IsActive(a)'
<1>1. TypeOK /\ [Next]_userVars => Lasts
  <2> SUFFICES ASSUME TypeOK, [Next]_userVars, NEW a \in DOMAIN users, LockedOut(a), ~ IsActive(a)'
               PROVE  LockedOut(a)'
    OBVIOUS
  <2>1. Signers(a)' = {}
    BY SignersStep DEF LockedOut
  <2>2. a \notin tokens'
    BY TokensStep DEF LockedOut
  <2>3. a \in DOMAIN users'
    BY UsersGrow
  <2> QED BY <2>1, <2>2, <2>3 DEF LockedOut
<1> HIDE DEF Lasts
<1>2. TypeOK /\ [Next]_userVars => [Lasts]_userVars
  BY <1>1
<1>3. Spec => [][Lasts]_userVars
  BY Invariant, <1>2, PTL DEF Spec
<1> QED BY <1>3 DEF LockoutLasts, Lasts
=============================================================================
