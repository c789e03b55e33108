------------------------- MODULE RateLimiterHistory -------------------------
(***************************************************************************)
(* RateLimiter with a history variable: the requests of the last Ttl       *)
(* ticks, for a property of what the guard lets pass in any period, which  *)
(* no state of the limiter shows.  The history adds to the limiter's steps *)
(* and bars none of them.                                                  *)
(***************************************************************************)
EXTENDS RateLimiter

VARIABLE
    recent      \* the requests let pass in the last Ttl ticks, or not yet decided

historyVars == <<limiterVars, recent>>

(* A request: what INCR returned to it, how many counters have expired     *)
(* (2: or more) and how many ticks have passed (Ttl: or more) since then;  *)
(* whether the guard has let it pass, and for how many ticks.              *)
Request == [client : Clients, number : 1 .. Limit + 1, expired : 0 .. 2, born : 0 .. Ttl,
            admitted : BOOLEAN, age : 0 .. Ttl - 1]

HistoryTypeOK == LimiterTypeOK /\ recent \subseteq Request

Counted(c, n) ==
    [client |-> c, number |-> n, expired |-> 0, born |-> 0, admitted |-> FALSE, age |-> 0]

(* Without the request of c that was not decided. *)
Without(c) == {r \in recent : r.client = c => r.admitted}

Passed(c, r) == [r EXCEPT !.admitted = @ \/ r.client = c]

(* After a tick. *)
Older(r) ==
    [r EXCEPT !.expired = IF life = 1 /\ @ < 2 THEN @ + 1 ELSE @,
              !.born = IF @ < Ttl THEN @ + 1 ELSE @,
              !.age = IF r.admitted THEN @ + 1 ELSE @]

Lasting == {r \in recent : r.admitted => r.age + 1 < Ttl}

HistoryInit == LimiterInit /\ recent = {}

NoteCount(c) == Count(c) /\ recent' = recent \cup {Counted(c, current'[c])}
NoteDecision(c) ==
    /\ Decide(c)
    /\ recent' = IF step'[c] = "admitted" THEN {Passed(c, r) : r \in recent} ELSE Without(c)
NoteBreak(c) == Break(c) /\ recent' = Without(c)
NoteTick == Tick /\ recent' = {Older(r) : r \in Lasting}

HistoryNext ==
    \/ \E c \in Clients :
        \/ NoteCount(c) \/ NoteDecision(c) \/ NoteBreak(c)
        \/ (SetExpiry(c) \/ End(c)) /\ UNCHANGED recent
    \/ NoteTick

HistorySpec == HistoryInit /\ [][HistoryNext]_historyVars

-----------------------------------------------------------------------------
(* Properties *)

(* In any period as long as the window the guard lets pass fewer than      *)
(* twice the limit of requests that were counted in that period: windows   *)
(* are fixed, two of them can touch one period, a third cannot, and the    *)
(* request that opened the earlier one is a window old when it ends.       *)
(* Beside them it lets pass at most one of each client that was counted    *)
(* before the period and was slow to get from INCR to the guard.           *)
AdmittedIsBounded ==
    LET Admitted == {r \in recent : r.admitted}
        Slow == {r \in Admitted : r.born = Ttl}
    IN  /\ Cardinality(Admitted \ Slow) < 2 * Limit
        /\ Cardinality(Slow) <= Cardinality(Clients)
=============================================================================
