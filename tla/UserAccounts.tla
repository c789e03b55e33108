---------------------------- MODULE UserAccounts ----------------------------
(***************************************************************************)
(* user-service: accounts are created, updated and deactivated             *)
(* (UserApplicationService), and log in and renew their tokens             *)
(* (AuthApplicationService), by requests that overlap.  An action is one   *)
(* statement with what the code does up to the next await.  Tokens are     *)
(* signed and stored nowhere: what counts is which accounts hold a refresh *)
(* token that has not expired.  An account is its index in users.          *)
(***************************************************************************)
EXTENDS Naturals, Sequences, FiniteSets

CONSTANTS
    Emails,
    Requests    \* bound: HTTP requests in progress at once, on all replicas

ASSUME AccountsAssumption == IsFiniteSet(Emails)

(* The columns UpdateUserDto names, and the values a request may ask for.  *)
Fields == {"firstName", "isActive"}
Dtos == UNION {[fs -> BOOLEAN] : fs \in SUBSET Fields}
NoDto == [f \in {} |-> TRUE]

Accounts == 1 .. Cardinality(Emails)

VARIABLES
    users,      \* the table, in the order of creation
    tokens,     \* accounts with a refresh token that is still valid
    pc,         \* per request: the step it is at
    op,         \* per request: what it was asked to do, and for whom
    copy,       \* per update: the row as findById returned it
    diff        \* per update: the columns it is about to write

userVars == <<users, tokens, pc, op, copy, diff>>

User == [email : Emails, password : BOOLEAN, data : [Fields -> BOOLEAN]]
Kinds == {"none", "register", "create", "login", "renew", "update"}
Steps == {"idle", "lookup", "insert", "find", "resolve", "issue", "read", "load", "write"}
Operation == [kind : Kinds, email : Emails \cup {"none"}, password : BOOLEAN,
              account : Nat, dto : Dtos]

ByEmail(k, e, password) ==
    [kind |-> k, email |-> e, password |-> password, account |-> 0, dto |-> NoDto]
ById(k, a, dto) ==
    [kind |-> k, email |-> "none", password |-> FALSE, account |-> a, dto |-> dto]
NoOp == ById("none", 0, NoDto)
Blank == [f \in Fields |-> TRUE]

TypeOK ==
    /\ users \in Seq(User)
    /\ DOMAIN users \subseteq Accounts
    /\ tokens \subseteq DOMAIN users
    /\ pc \in [Requests -> Steps]
    /\ op \in [Requests -> Operation]
    /\ \A p \in Requests :
        /\ pc[p] \in {"lookup", "insert", "find"} => op[p].email \in Emails
        /\ pc[p] \in {"resolve", "issue", "read", "load", "write"} =>
                op[p].account \in DOMAIN users
    /\ copy \in [Requests -> [Fields -> BOOLEAN]]
    /\ diff \in [Requests -> Dtos]

Init ==
    /\ users = <<>>
    /\ tokens = {}
    /\ pc = [p \in Requests |-> "idle"]
    /\ op = [p \in Requests |-> NoOp]
    /\ copy = [p \in Requests |-> Blank]
    /\ diff = [p \in Requests |-> NoDto]

Goto(p, step) == pc' = [pc EXCEPT ![p] = step]

(* The request is answered, with success or an exception. *)
End(p) ==
    /\ Goto(p, "idle")
    /\ op' = [op EXCEPT ![p] = NoOp]
    /\ copy' = [copy EXCEPT ![p] = Blank]
    /\ diff' = [diff EXCEPT ![p] = NoDto]

Arrive(p, o, step) ==
    /\ pc[p] = "idle"
    /\ op' = [op EXCEPT ![p] = o]
    /\ Goto(p, step)
    /\ UNCHANGED <<users, tokens, copy, diff>>

Of(e) == {a \in DOMAIN users : users[a].email = e}
IsActive(a) == a \in DOMAIN users /\ users[a].data["isActive"]

-----------------------------------------------------------------------------
(* create, register *)

(* POST /users, where the password is optional. *)
StartCreate(p, e, password) ==
    Arrive(p, ByEmail("create", e, password), "lookup")

StartRegister(p, e) ==
    Arrive(p, ByEmail("register", e, TRUE), "lookup")

(* findByEmail; the password is hashed before the insert. *)
Lookup(p) ==
    /\ pc[p] = "lookup"
    /\ IF Of(op[p].email) = {} THEN Goto(p, "insert") /\ UNCHANGED <<op, copy, diff>> ELSE End(p)
    /\ UNCHANGED <<users, tokens>>

(* Mutant: nothing but the lookup keeps emails apart. *)
NotUnique(e) == FALSE

(* The column is unique: a second insert of the email is refused (23505),  *)
(* whatever the lookup found.                                              *)
Taken(e) == Of(e) # {}

InsertRefused(p) ==
    /\ pc[p] = "insert"
    /\ Taken(op[p].email)
    /\ End(p)
    /\ UNCHANGED <<users, tokens>>

(* register goes on to issue tokens. *)
Insert(p) ==
    /\ pc[p] = "insert"
    /\ ~ Taken(op[p].email)
    /\ users' = Append(users, [email |-> op[p].email, password |-> op[p].password, data |-> Blank])
    /\ IF op[p].kind = "register"
       THEN /\ op' = [op EXCEPT ![p].account = Len(users) + 1]
            /\ Goto(p, "issue")
            /\ UNCHANGED <<copy, diff>>
       ELSE End(p)
    /\ UNCHANGED tokens

-----------------------------------------------------------------------------
(* login, renewToken *)

(* Mutant: only a login looks at isActive. *)
AdmitsRenewal(p, a) == op[p].kind = "renew" \/ IsActive(a)

(* The account may have tokens. *)
Admits(p, a) == IsActive(a)

StartLogin(p, e) ==
    Arrive(p, ByEmail("login", e, FALSE), "find")

FindForLogin(p) ==
    /\ pc[p] = "find"
    /\ \E a \in Of(op[p].email) :
        /\ users[a].password /\ Admits(p, a)
        /\ op' = [op EXCEPT ![p].account = a]
    /\ Goto(p, "issue")
    /\ UNCHANGED <<users, tokens, copy, diff>>

(* No such account, no password, or deactivated. *)
LoginRefused(p) ==
    /\ pc[p] = "find"
    /\ \A a \in Of(op[p].email) : ~ (users[a].password /\ Admits(p, a))
    /\ End(p)
    /\ UNCHANGED <<users, tokens>>

(* The refresh token is verified on its own. *)
StartRenew(p, a) ==
    /\ a \in tokens
    /\ Arrive(p, ById("renew", a, NoDto), "resolve")

ResolveRefreshToken(p) ==
    /\ pc[p] = "resolve"
    /\ IF Admits(p, op[p].account)
       THEN Goto(p, "issue") /\ UNCHANGED <<op, copy, diff>>
       ELSE End(p)
    /\ UNCHANGED <<users, tokens>>

(* The pair is signed from what was read before. *)
IssueTokenPair(p) ==
    /\ pc[p] = "issue"
    /\ tokens' = tokens \cup {op[p].account}
    /\ End(p)
    /\ UNCHANGED users

(* The last refresh token of the account runs out. *)
Expire(a) ==
    /\ a \in tokens
    /\ tokens' = tokens \ {a}
    /\ UNCHANGED <<users, pc, op, copy, diff>>

-----------------------------------------------------------------------------
(* update *)

StartUpdate(p, a, dto) ==
    /\ a \in DOMAIN users
    /\ Arrive(p, ById("update", a, dto), "read")

ReadUser(p) ==
    /\ pc[p] = "read"
    /\ copy' = [copy EXCEPT ![p] = users[op[p].account].data]
    /\ Goto(p, "load")
    /\ UNCHANGED <<users, tokens, op, diff>>

(* Mutant: only the fields of the request are properties of the DTO. *)
SentFields(p) == DOMAIN op[p].dto

(* The DTO is a class instance, and its fields are its own properties,     *)
(* undefined where the request left them out (ES2023 class fields).        *)
OwnProperties(p) == Fields

(* Object.assign: the set of the field's value, or nothing if undefined.   *)
Assigned(p, f) ==
    CASE f \in DOMAIN op[p].dto -> {op[p].dto[f]}
      [] f \in OwnProperties(p) \ DOMAIN op[p].dto -> {}
      [] OTHER -> {copy[p][f]}

(* save loads the row again and keeps the columns that are defined and     *)
(* differ; without any it writes nothing.                                  *)
Differing(p) ==
    {f \in Fields : \E v \in Assigned(p, f) : v # users[op[p].account].data[f]}

Load(p) ==
    /\ pc[p] = "load"
    /\ IF Differing(p) = {}
       THEN End(p)
       ELSE /\ diff' = [diff EXCEPT ![p] =
                            [f \in Differing(p) |-> CHOOSE v \in Assigned(p, f) : TRUE]]
            /\ Goto(p, "write")
            /\ UNCHANGED <<op, copy>>
    /\ UNCHANGED <<users, tokens>>

Write(p) ==
    /\ pc[p] = "write"
    /\ users' = [users EXCEPT ![op[p].account].data =
                    [f \in Fields |-> IF f \in DOMAIN diff[p] THEN diff[p][f] ELSE @[f]]]
    /\ End(p)
    /\ UNCHANGED tokens

-----------------------------------------------------------------------------
(* The password is wrong, the database throws, or the replica dies. *)
Fail(p) ==
    /\ pc[p] # "idle"
    /\ End(p)
    /\ UNCHANGED <<users, tokens>>

Start(p) ==
    \/ \E e \in Emails :
        \/ StartRegister(p, e) \/ StartLogin(p, e)
        \/ \E password \in BOOLEAN : StartCreate(p, e, password)
    \/ \E a \in Accounts :
        StartRenew(p, a) \/ \E dto \in Dtos : StartUpdate(p, a, dto)

GoOn(p) ==
    \/ Lookup(p) \/ Insert(p) \/ InsertRefused(p)
    \/ FindForLogin(p) \/ LoginRefused(p) \/ ResolveRefreshToken(p) \/ IssueTokenPair(p)
    \/ ReadUser(p) \/ Load(p) \/ Write(p)

Next ==
    \/ \E p \in Requests : Start(p) \/ GoOn(p) \/ Fail(p)
    \/ \E a \in Accounts : Expire(a)

Spec == Init /\ [][Next]_userVars

(* A request that has begun goes on, and tokens run out. *)
FairSpec ==
    /\ Spec
    /\ \A p \in Requests : WF_userVars(GoOn(p))
    /\ \A a \in Accounts : WF_userVars(Expire(a))

-----------------------------------------------------------------------------
(* Properties *)

(* A column of an account changes only to what a request that is being     *)
(* served asked for this column: an update of the name that read the row   *)
(* before a deactivation does not undo it, nor the other way round.        *)
UpdatesKeepOtherFields ==
    [][\A a \in DOMAIN users, f \in Fields :
        users'[a].data[f] # users[a].data[f] =>
            \E p \in Requests :
                /\ pc[p] = "write" /\ op[p].account = a
                /\ f \in DOMAIN op[p].dto /\ op[p].dto[f] = users'[a].data[f]]_userVars

Signers(a) == {p \in Requests : pc[p] = "issue" /\ op[p].account = a}
LockedOut(a) == a \in DOMAIN users /\ ~ IsActive(a) /\ a \notin tokens /\ Signers(a) = {}

(* Once the tokens of a deactivated account have run out, and the requests *)
(* that read it while it was active have ended, only its reactivation lets *)
(* it in again: a renewal that began with a token still valid does not     *)
(* (resolveRefreshToken and login read the account anew).                  *)
LockoutLasts ==
    [][\A a \in DOMAIN users : LockedOut(a) => LockedOut(a)' \/ IsActive(a)']_userVars

(* An account that is deactivated for good loses its tokens for good: no   *)
(* login and no chain of renewals, which only knows the token, keeps its   *)
(* sessions alive (resolveRefreshToken).                                   *)
DeactivatedIsLockedOut ==
    \A a \in Accounts : <>[](a \in DOMAIN users /\ ~ IsActive(a)) => <>[](a \notin tokens)
=============================================================================
