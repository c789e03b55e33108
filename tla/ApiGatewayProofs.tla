-------------------------- MODULE ApiGatewayProofs --------------------------
(* Theorems about ApiGateway and the RateLimiter in it, for every set of    *)
(* clients, every limit and window, and any number of requests.             *)
EXTENDS ApiGateway, RateLimiterHistory, FiniteSetTheorems, TLAPS

-----------------------------------------------------------------------------
(* The rate limiter by itself *)

LEMMA LimiterTypeStep == LimiterTypeOK /\ [LimiterNext]_limiterVars => LimiterTypeOK'
<1> SUFFICES ASSUME LimiterTypeOK, [LimiterNext]_limiterVars PROVE LimiterTypeOK'
  OBVIOUS
<1> USE LimiterAssumption DEF LimiterTypeOK, LimiterSteps
<1>1. ASSUME NEW c \in Clients, Count(c) PROVE LimiterTypeOK'
  <2> DEFINE n == IF hits > Limit THEN hits ELSE hits + 1
  <2>1. n \in 0 .. Limit + 1
    OBVIOUS
  <2>3. step' \in [Clients -> LimiterSteps] /\ current' \in [Clients -> 0 .. Limit + 1]
    <3>1. current' = [current EXCEPT ![c] = n] /\ step' = [step EXCEPT ![c] = AfterIncr(n)]
      BY <1>1 DEF Count
    <3>2. AfterIncr(n) \in LimiterSteps
      BY DEF AfterIncr
    <3> HIDE DEF n
    <3> QED BY <2>1, <3>1, <3>2
  <2>4. hits' = n /\ life' = life /\ breaks' = breaks
    BY <1>1 DEF Count
  <2> HIDE DEF n
  <2> QED BY <2>1, <2>3, <2>4
<1>2. ASSUME NEW c \in Clients, SetExpiry(c) PROVE LimiterTypeOK'
  BY <1>2 DEF SetExpiry, Expiring
<1>3. ASSUME NEW c \in Clients, Decide(c) PROVE LimiterTypeOK'
  BY <1>3 DEF Decide
<1>4. ASSUME NEW c \in Clients, End(c) PROVE LimiterTypeOK'
  BY <1>4 DEF End, Return
<1>5. ASSUME NEW c \in Clients, Break(c) PROVE LimiterTypeOK'
  BY <1>5 DEF Break, Return
<1>6. CASE Tick
  <2>2. hits' \in 0 .. Limit + 1 /\ life' \in 0 .. Ttl
    BY <1>6 DEF Tick
  <2> QED BY <1>6, <2>2 DEF Tick
<1>7. CASE UNCHANGED limiterVars
  BY <1>7 DEF limiterVars
<1> QED
  BY <1>1, <1>2, <1>3, <1>4, <1>5, <1>6, <1>7 DEF LimiterNext, Throttle

(* The request that sets the expiry is the only one of its kind, while the  *)
(* counter is there and has none yet.                                       *)
FirstInv ==
    /\ hits = 0 => life = 0
    /\ \A c \in Clients : step[c] = "first" =>
        /\ hits > 0 /\ life = 0
        /\ \A d \in Clients : step[d] = "first" => d = c

CounterInv == LimiterTypeOK /\ FirstInv /\ CounterExpires

LEMMA CounterInit == LimiterInit => CounterInv
  BY LimiterAssumption
     DEF LimiterInit, CounterInv, LimiterTypeOK, LimiterSteps, FirstInv, CounterExpires

LEMMA CounterStep == CounterInv /\ [LimiterNext]_limiterVars => CounterInv'
<1> SUFFICES ASSUME CounterInv, [LimiterNext]_limiterVars PROVE CounterInv'
  OBVIOUS
<1> LimiterTypeOK /\ LimiterTypeOK' /\ FirstInv /\ CounterExpires
  BY LimiterTypeStep DEF CounterInv
<1>0. FirstInv' /\ CounterExpires' => CounterInv'
  BY DEF CounterInv
<1> USE LimiterAssumption DEF LimiterTypeOK, FirstInv, CounterExpires
<1>1. ASSUME NEW c \in Clients, Count(c) PROVE CounterInv'
  <2>1. CASE hits = 0
    <3>1. hits' = 1 /\ life' = 0 /\ step'[c] = "first"
      BY <1>1, <2>1 DEF Count, AfterIncr
    <3>2. \A d \in Clients : step'[d] = "first" => d = c
      BY <1>1, <2>1 DEF Count
    <3> QED BY <1>0, <3>1, <3>2
  <2>2. CASE hits # 0
    <3>1. hits' > 1 /\ life' = life /\ breaks' = breaks
      BY <1>1, <2>2 DEF Count
    <3>2. step[c] = "idle" /\ step' = [step EXCEPT ![c] = "counted"]
      <4> DEFINE n == IF hits > Limit THEN hits ELSE hits + 1
      <4>1. n # 1
        BY <2>2
      <4>2. step[c] = "idle" /\ step' = [step EXCEPT ![c] = AfterIncr(n)]
        BY <1>1 DEF Count
      <4> HIDE DEF n
      <4> QED BY <4>1, <4>2 DEF AfterIncr
    <3>3. \A d \in Clients : step'[d] = "first" <=> step[d] = "first"
      BY <3>2
    <3>4. FirstInv'
      BY <2>2, <3>1, <3>3
    <3>5. CounterExpires'
      BY <2>2, <3>1, <3>3
    <3> QED BY <1>0, <3>4, <3>5
  <2> QED BY <2>1, <2>2
<1>2. ASSUME NEW c \in Clients, SetExpiry(c) PROVE CounterInv'
  BY <1>0, <1>2 DEF SetExpiry, Expiring
<1>3. ASSUME NEW c \in Clients, Decide(c) PROVE CounterInv'
  BY <1>0, <1>3 DEF Decide
<1>4. ASSUME NEW c \in Clients, End(c) PROVE CounterInv'
  BY <1>0, <1>4 DEF End, Return
<1>5. ASSUME NEW c \in Clients, Break(c) PROVE CounterInv'
  <2>1. breaks' # 0
    BY <1>5 DEF Break
  <2> QED BY <1>0, <1>5, <2>1 DEF Break, Return
<1>6. CASE Tick
  BY <1>0, <1>6 DEF Tick
<1>7. CASE UNCHANGED limiterVars
  BY <1>0, <1>7 DEF limiterVars
<1> QED
  BY <1>1, <1>2, <1>3, <1>4, <1>5, <1>6, <1>7 DEF LimiterNext, Throttle

-----------------------------------------------------------------------------
(* The requests of a period of Ttl ticks *)

LEMMA RequestFields ==
    ASSUME recent \subseteq Request, NEW r \in recent
    PROVE  /\ r.client \in Clients /\ r.admitted \in BOOLEAN
           /\ r.number \in Nat /\ r.number >= 1 /\ r.number <= Limit + 1
           /\ r.expired \in {0, 1, 2}
           /\ r.born \in Nat /\ r.born <= Ttl
           /\ r.age \in Nat /\ r.age < Ttl
           /\ Limit \in Nat /\ Ttl \in Nat
  BY LimiterAssumption DEF Request

LEMMA CountedFields ==
    ASSUME NEW c \in Clients, NEW n \in 1 .. Limit + 1
    PROVE  /\ Counted(c, n) \in Request
           /\ Counted(c, n).client = c /\ Counted(c, n).number = n
           /\ Counted(c, n).expired = 0 /\ Counted(c, n).born = 0
           /\ Counted(c, n).admitted = FALSE
  BY LimiterAssumption DEF Counted, Request

LEMMA PassedFields ==
    ASSUME recent \subseteq Request, NEW c \in Clients, NEW r \in recent
    PROVE  /\ Passed(c, r) \in Request
           /\ Passed(c, r).client = r.client /\ Passed(c, r).number = r.number
           /\ Passed(c, r).expired = r.expired /\ Passed(c, r).born = r.born
           /\ Passed(c, r).age = r.age
           /\ Passed(c, r).admitted <=> r.admitted \/ r.client = c
<1>1. r \in Request
  OBVIOUS
<1> QED BY <1>1 DEF Passed, Request

LEMMA OlderFields ==
    ASSUME recent \subseteq Request, NEW r \in Lasting
    PROVE  /\ Older(r) \in Request
           /\ Older(r).client = r.client /\ Older(r).number = r.number
           /\ Older(r).expired = IF life = 1 /\ r.expired < 2 THEN r.expired + 1 ELSE r.expired
           /\ Older(r).born = IF r.born < Ttl THEN r.born + 1 ELSE r.born
           /\ Older(r).admitted = r.admitted
           /\ Older(r).age = IF r.admitted THEN r.age + 1 ELSE r.age
<1>1. r \in Request /\ (r.admitted => r.age + 1 < Ttl)
  BY DEF Lasting
<1>2. /\ r.expired \in {0, 1, 2} /\ r.born \in Nat /\ r.born <= Ttl /\ r.age \in Nat /\ r.age < Ttl
      /\ Ttl \in Nat
  BY RequestFields DEF Lasting
<1> DEFINE e == IF life = 1 /\ r.expired < 2 THEN r.expired + 1 ELSE r.expired
           b == IF r.born < Ttl THEN r.born + 1 ELSE r.born
           g == IF r.admitted THEN r.age + 1 ELSE r.age
<1>3. e \in 0 .. 2 /\ b \in 0 .. Ttl /\ g \in 0 .. Ttl - 1
  BY <1>1, <1>2
<1>4. Older(r) = [r EXCEPT !.expired = e, !.born = b, !.age = g]
  BY DEF Older
<1> HIDE DEF e, b, g
<1>5. /\ Older(r) \in Request
      /\ Older(r).client = r.client /\ Older(r).number = r.number
      /\ Older(r).expired = e /\ Older(r).born = b
      /\ Older(r).admitted = r.admitted /\ Older(r).age = g
  BY <1>1, <1>3, <1>4 DEF Request
<1> QED BY <1>5 DEF e, b, g

LEMMA HistoryIsLimiter == [HistoryNext]_historyVars => [LimiterNext]_limiterVars
<1> SUFFICES ASSUME [HistoryNext]_historyVars PROVE LimiterNext \/ UNCHANGED limiterVars
  OBVIOUS
<1>1. UNCHANGED historyVars => UNCHANGED limiterVars
  BY DEF historyVars
<1>2. HistoryNext => LimiterNext
  BY DEF HistoryNext, NoteCount, NoteDecision, NoteBreak, NoteTick, LimiterNext, Throttle
<1> QED BY <1>1, <1>2

(* What INCR returns. *)
LEMMA CountReturns ==
    ASSUME LimiterTypeOK, NEW c \in Clients, Count(c)
    PROVE  /\ current'[c] \in 1 .. Limit + 1 /\ hits' = current'[c] /\ hits \in Nat
           /\ current'[c] = IF hits > Limit THEN hits ELSE hits + 1
           /\ current' = [current EXCEPT ![c] = current'[c]]
           /\ step[c] = "idle" /\ step' = [step EXCEPT ![c] = step'[c]]
           /\ step'[c] \in {"first", "counted"}
           /\ life' = life
<1> DEFINE n == IF hits > Limit THEN hits ELSE hits + 1
<1>1. /\ hits' = n /\ current' = [current EXCEPT ![c] = n]
      /\ step' = [step EXCEPT ![c] = AfterIncr(n)] /\ step[c] = "idle" /\ life' = life
  BY DEF Count
<1>2. n \in 1 .. Limit + 1 /\ hits \in Nat
  BY LimiterAssumption DEF LimiterTypeOK
<1>3. AfterIncr(n) \in {"first", "counted"}
  BY DEF AfterIncr
<1>4. current'[c] = n /\ step'[c] = AfterIncr(n)
  BY <1>1 DEF LimiterTypeOK
<1> QED BY <1>1, <1>2, <1>3, <1>4

LEMMA HistoryTypeStep == HistoryTypeOK /\ [HistoryNext]_historyVars => recent' \subseteq Request
<1> SUFFICES ASSUME LimiterTypeOK, recent \subseteq Request, [HistoryNext]_historyVars
             PROVE  recent' \subseteq Request
  BY DEF HistoryTypeOK
<1>1. ASSUME NEW c \in Clients, NoteCount(c) PROVE recent' \subseteq Request
  <2>1. Counted(c, current'[c]) \in Request
    BY <1>1, CountReturns, CountedFields DEF NoteCount
  <2> QED BY <1>1, <2>1 DEF NoteCount
<1>2. ASSUME NEW c \in Clients, NoteDecision(c) \/ NoteBreak(c) PROVE recent' \subseteq Request
  BY <1>2, PassedFields DEF NoteDecision, NoteBreak, Without
<1>3. NoteTick => recent' \subseteq Request
  BY OlderFields DEF NoteTick
<1>4. UNCHANGED recent => recent' \subseteq Request
  OBVIOUS
<1> QED BY <1>1, <1>2, <1>3, <1>4 DEF HistoryNext, historyVars

Young == {r \in recent : r.born < Ttl}

(* No more than two counters' requests are young: when a second counter     *)
(* expires, its Ttl ticks have made everything the first one counted old,  *)
(* and the request that opened a window is Ttl ticks old when it ends.     *)
WindowInv ==
    /\ \A r \in Young : r.expired \in {0, 1}
    /\ \A r \in Young : r.expired = 1 => r.number # 1
    /\ \A r \in Young : r.expired = 0 => r.number <= hits
    /\ \A r, q \in Young :
        r.number <= Limit /\ r.number = q.number /\ r.expired = q.expired => r = q
    /\ life > 0 => \A r \in Young : r.expired = 1 \/ r.number = 1 => r.born + life >= Ttl

(* A client's request is counted after its last one was let pass; one that  *)
(* is not decided is the one in progress, and none above the limit passes. *)
ClientInv ==
    /\ \A r \in recent : ~r.admitted =>
        step[r.client] \in {"first", "counted"} /\ r.number = current[r.client]
    /\ \A r \in recent : r.admitted => r.number <= Limit
    /\ \A r, q \in recent : r.client = q.client /\ r # q =>
        \/ r.admitted /\ q.born <= r.age
        \/ q.admitted /\ r.born <= q.age

HistoryInv == CounterInv /\ HistoryTypeOK /\ WindowInv /\ ClientInv

LEMMA HistoryStart == HistoryInit => HistoryInv
  BY CounterInit DEF HistoryInit, HistoryInv, HistoryTypeOK, CounterInv, WindowInv, ClientInv, Young

(* The steps that change no number, age or window of a request. *)
LEMMA WindowFrame ==
    ASSUME recent \subseteq Request, WindowInv,
           hits' = hits, life' = life \/ life' = Ttl,
           \/ recent' \subseteq recent
           \/ \E c \in Clients : recent' = {Passed(c, r) : r \in recent}
    PROVE  WindowInv'
<1>1. CASE recent' \subseteq recent
  <2>1. \A r \in Young' : r \in Young /\ r.born \in Nat /\ Ttl \in Nat
    BY <1>1, RequestFields DEF Young
  <2> QED BY <2>1 DEF WindowInv
<1>2. ASSUME NEW c \in Clients, recent' = {Passed(c, r) : r \in recent} PROVE WindowInv'
  <2>1. \A x \in Young' : \E r \in Young : x = Passed(c, r)
    BY <1>2, PassedFields DEF Young
  <2>2. \A r \in Young : /\ Passed(c, r).number = r.number /\ Passed(c, r).expired = r.expired
                         /\ Passed(c, r).born = r.born /\ r.born \in Nat /\ Ttl \in Nat
    BY PassedFields, RequestFields DEF Young
  <2>3. \A x \in Young' : x.expired \in {0, 1} /\ (x.expired = 1 => x.number # 1)
    BY <2>1, <2>2 DEF WindowInv
  <2>4. \A x \in Young' : x.expired = 0 => x.number <= hits'
    BY <2>1, <2>2 DEF WindowInv
  <2>5. \A x, y \in Young' :
            x.number <= Limit /\ x.number = y.number /\ x.expired = y.expired => x = y
    BY <2>1, <2>2 DEF WindowInv
  <2>6. life' > 0 => \A x \in Young' : x.expired = 1 \/ x.number = 1 => x.born + life' >= Ttl
    BY <2>1, <2>2 DEF WindowInv
  <2> QED BY <2>3, <2>4, <2>5, <2>6 DEF WindowInv
<1> QED BY <1>1, <1>2

LEMMA WindowCount ==
    ASSUME HistoryInv, NEW c \in Clients, NoteCount(c)
    PROVE  WindowInv'
<1> DEFINE n == current'[c]
           new == Counted(c, n)
<1>1. /\ n \in 1 .. Limit + 1 /\ hits' = n /\ hits \in Nat /\ life' = life
      /\ n = IF hits > Limit THEN hits ELSE hits + 1
  BY CountReturns DEF NoteCount, HistoryInv, HistoryTypeOK
<1>2. recent' = recent \cup {new} /\ recent \subseteq Request /\ WindowInv
  BY DEF NoteCount, HistoryInv, HistoryTypeOK
<1>3. new.number = n /\ new.expired = 0 /\ new.born = 0
  BY <1>1, CountedFields
<1>4. n = 1 => life = 0
  BY <1>1, LimiterAssumption DEF HistoryInv, CounterInv, FirstInv
<1> HIDE DEF n, new
<1>5. \A r \in Young' : r \in Young \/ r = new
  BY <1>2 DEF Young
<1>6. \A r \in Young : r.number \in Nat /\ Limit \in Nat
  BY <1>2, RequestFields DEF Young
<1>7. \A r \in Young : r.expired = 0 /\ n <= Limit => r.number # n
  BY <1>1, <1>2, <1>6 DEF WindowInv
<1>8. \A r \in Young' : r.expired \in {0, 1} /\ (r.expired = 1 => r.number # 1)
  BY <1>2, <1>3, <1>5 DEF WindowInv
<1>9. \A r \in Young' : r.expired = 0 => r.number <= hits'
  BY <1>1, <1>2, <1>3, <1>5, <1>6 DEF WindowInv
<1>10. \A r, q \in Young' :
            r.number <= Limit /\ r.number = q.number /\ r.expired = q.expired => r = q
  BY <1>2, <1>3, <1>5, <1>7 DEF WindowInv
<1>11. life' > 0 => \A r \in Young' : r.expired = 1 \/ r.number = 1 => r.born + life' >= Ttl
  BY <1>1, <1>2, <1>3, <1>4, <1>5 DEF WindowInv
<1> QED BY <1>8, <1>9, <1>10, <1>11 DEF WindowInv

LEMMA WindowTick ==
    ASSUME HistoryInv, NoteTick
    PROVE  WindowInv'
<1>1. /\ life' = IF life > 0 THEN life - 1 ELSE 0
      /\ hits' = IF life = 1 THEN 0 ELSE hits
      /\ recent' = {Older(r) : r \in Lasting}
  BY DEF NoteTick, Tick
<1>2. life \in Nat /\ Ttl \in Nat /\ recent \subseteq Request /\ WindowInv
  BY LimiterAssumption DEF HistoryInv, HistoryTypeOK, LimiterTypeOK
<1>3. ASSUME NEW x \in Young'
      PROVE  \E r \in Lasting \cap Young : x = Older(r) /\ r.born + 1 < Ttl
  <2>1. PICK r \in Lasting : x = Older(r)
    BY <1>1 DEF Young
  <2>2. x.born < Ttl /\ x.born = (IF r.born < Ttl THEN r.born + 1 ELSE r.born) /\ r \in recent
    BY <1>2, <2>1, OlderFields DEF Young, Lasting
  <2>3. r.born \in Nat
    BY <1>2, <2>2, RequestFields
  <2>4. r.born < Ttl /\ r.born + 1 < Ttl
    BY <1>2, <2>2, <2>3
  <2> QED BY <2>1, <2>2, <2>4 DEF Young
(* What the counter before this one has counted, and the request that      *)
(* opened its window, are old by the time this one expires.                *)
<1>4. ASSUME life = 1, NEW r \in Young, r.born + 1 < Ttl
      PROVE  r.expired = 0 /\ r.number # 1
  <2>1. r.born \in Nat /\ r.expired \in {0, 1}
    BY <1>2, RequestFields DEF Young, WindowInv
  <2> QED BY <1>2, <1>4, <2>1 DEF WindowInv
<1>5. \A r \in Lasting \cap Young :
        /\ Older(r).number = r.number /\ Older(r).born = r.born + 1
        /\ Older(r).expired = IF life = 1 THEN r.expired + 1 ELSE r.expired
        /\ r.number \in Nat /\ r.born \in Nat /\ r.expired \in {0, 1}
  <2> SUFFICES ASSUME NEW r \in Lasting \cap Young
               PROVE  /\ Older(r).number = r.number /\ Older(r).born = r.born + 1
                      /\ Older(r).expired = IF life = 1 THEN r.expired + 1 ELSE r.expired
                      /\ r.number \in Nat /\ r.born \in Nat /\ r.expired \in {0, 1}
    OBVIOUS
  <2>1. r.number \in Nat /\ r.born \in Nat /\ r.expired \in {0, 1} /\ r.born < Ttl
    BY <1>2, RequestFields DEF Young, WindowInv
  <2>2. /\ Older(r).number = r.number
        /\ Older(r).born = IF r.born < Ttl THEN r.born + 1 ELSE r.born
        /\ Older(r).expired = IF life = 1 /\ r.expired < 2 THEN r.expired + 1 ELSE r.expired
    BY <1>2, OlderFields
  <2> QED BY <2>1, <2>2
<1>6. ASSUME NEW x \in Young'
      PROVE  /\ x.expired \in {0, 1} /\ (x.expired = 1 => x.number # 1)
             /\ x.expired = 0 => x.number <= hits'
             /\ life' > 0 /\ (x.expired = 1 \/ x.number = 1) => x.born + life' >= Ttl
  <2>1. PICK r \in Lasting \cap Young : x = Older(r) /\ r.born + 1 < Ttl
    BY <1>3
  <2>2. life = 1 => r.expired = 0 /\ r.number # 1
    BY <1>4, <2>1
  <2>3. /\ r.expired = 1 => r.number # 1
        /\ r.expired = 0 => r.number <= hits
        /\ life > 0 => (r.expired = 1 \/ r.number = 1 => r.born + life >= Ttl)
    BY <1>2 DEF WindowInv
  <2>4. /\ x.number = r.number /\ x.born = r.born + 1
        /\ x.expired = IF life = 1 THEN r.expired + 1 ELSE r.expired
        /\ r.number \in Nat /\ r.born \in Nat /\ r.expired \in {0, 1}
    BY <1>5, <2>1
  <2>5. x.expired \in {0, 1} /\ (x.expired = 1 => x.number # 1)
    BY <2>2, <2>3, <2>4
  <2>6. x.expired = 0 => x.number <= hits'
    BY <1>1, <2>2, <2>3, <2>4
  <2>7. life' > 0 /\ (x.expired = 1 \/ x.number = 1) => x.born + life' >= Ttl
    BY <1>1, <1>2, <2>3, <2>4
  <2> QED BY <2>5, <2>6, <2>7
<1>7. \A x, y \in Young' :
        x.number <= Limit /\ x.number = y.number /\ x.expired = y.expired => x = y
  <2> SUFFICES ASSUME NEW x \in Young', NEW y \in Young',
                      x.number <= Limit, x.number = y.number, x.expired = y.expired
               PROVE  x = y
    OBVIOUS
  <2>1. PICK r \in Lasting \cap Young : x = Older(r)
    BY <1>3
  <2>2. PICK q \in Lasting \cap Young : y = Older(q)
    BY <1>3
  <2>3. r.number <= Limit /\ r.number = q.number /\ r.expired = q.expired
    BY <1>5, <2>1, <2>2
  <2> QED BY <1>2, <2>1, <2>2, <2>3 DEF WindowInv
<1> QED BY <1>6, <1>7 DEF WindowInv

LEMMA WindowStep == HistoryInv /\ [HistoryNext]_historyVars => WindowInv'
<1> SUFFICES ASSUME HistoryInv, [HistoryNext]_historyVars PROVE WindowInv'
  OBVIOUS
<1>0. recent \subseteq Request /\ WindowInv
  BY DEF HistoryInv, HistoryTypeOK
<1>1. ASSUME NEW c \in Clients, NoteDecision(c) PROVE WindowInv'
  <2>1. hits' = hits /\ life' = life
    BY <1>1 DEF NoteDecision, Decide
  <2>2. recent' \subseteq recent \/ recent' = {Passed(c, r) : r \in recent}
    BY <1>1 DEF NoteDecision, Without
  <2> QED BY <1>0, <2>1, <2>2, WindowFrame
<1>2. ASSUME NEW c \in Clients, NoteBreak(c) PROVE WindowInv'
  BY <1>0, <1>2, WindowFrame DEF NoteBreak, Break, Without
<1>3. ASSUME NEW c \in Clients, SetExpiry(c) \/ End(c), UNCHANGED recent PROVE WindowInv'
  BY <1>0, <1>3, WindowFrame DEF SetExpiry, Expiring, End
<1>4. CASE UNCHANGED historyVars
  BY <1>0, <1>4, WindowFrame DEF historyVars, limiterVars
<1> QED BY <1>1, <1>2, <1>3, <1>4, WindowCount, WindowTick DEF HistoryNext

LEMMA ClientCount ==
    ASSUME HistoryInv, NEW c \in Clients, NoteCount(c)
    PROVE  ClientInv'
<1> DEFINE n == current'[c]
           new == Counted(c, n)
<1>1. /\ n \in 1 .. Limit + 1 /\ current' = [current EXCEPT ![c] = n]
      /\ step[c] = "idle" /\ step' = [step EXCEPT ![c] = step'[c]]
      /\ step'[c] \in {"first", "counted"}
  BY CountReturns DEF NoteCount, HistoryInv, HistoryTypeOK
<1>2. recent' = recent \cup {new} /\ recent \subseteq Request /\ ClientInv /\ LimiterTypeOK
  BY DEF NoteCount, HistoryInv, HistoryTypeOK
<1>3. new.client = c /\ new.number = n /\ new.born = 0 /\ new.admitted = FALSE
  BY <1>1, CountedFields
<1>4. current \in [Clients -> 0 .. Limit + 1] /\ step \in [Clients -> LimiterSteps]
  BY <1>2 DEF LimiterTypeOK
<1> HIDE DEF n, new
<1>5. \A r \in recent : r.client = c => r.admitted
  BY <1>1, <1>2 DEF ClientInv
<1>6. \A r \in recent : r.client \in Clients /\ r.age \in Nat
  BY <1>2, RequestFields
<1>7. \A d \in Clients : d # c => current'[d] = current[d] /\ step'[d] = step[d]
  BY <1>1, <1>4
<1>8. current'[c] = n
  BY <1>1, <1>4
<1>9. \A r \in recent' : ~r.admitted =>
        step'[r.client] \in {"first", "counted"} /\ r.number = current'[r.client]
  BY <1>1, <1>2, <1>3, <1>5, <1>6, <1>7, <1>8 DEF ClientInv
<1>10. \A r \in recent' : r.admitted => r.number <= Limit
  BY <1>2, <1>3 DEF ClientInv
<1>11. \A r, q \in recent' : r.client = q.client /\ r # q =>
        \/ r.admitted /\ q.born <= r.age
        \/ q.admitted /\ r.born <= q.age
  BY <1>2, <1>3, <1>5, <1>6 DEF ClientInv
<1> QED BY <1>9, <1>10, <1>11 DEF ClientInv

(* The guard lets pass what does not exceed the limit. *)
LEMMA ClientPass ==
    ASSUME HistoryInv, NEW c \in Clients, Decide(c), step'[c] = "admitted",
           recent' = {Passed(c, r) : r \in recent}
    PROVE  ClientInv'
<1>1. recent \subseteq Request /\ ClientInv /\ LimiterTypeOK
  BY DEF HistoryInv, HistoryTypeOK
<1>2. current' = current /\ current[c] <= Limit /\ \A d \in Clients : d # c => step'[d] = step[d]
  BY <1>1, LimiterAssumption DEF Decide, Exceeds, LimiterTypeOK
<1>3. \A r \in recent :
        /\ Passed(c, r).client = r.client /\ Passed(c, r).number = r.number
        /\ Passed(c, r).born = r.born /\ Passed(c, r).age = r.age
        /\ Passed(c, r).admitted <=> r.admitted \/ r.client = c
        /\ r.client \in Clients
  BY <1>1, PassedFields, RequestFields
<1>4. \A r \in recent : ~r.admitted /\ r.client # c =>
        step'[r.client] \in {"first", "counted"} /\ r.number = current'[r.client]
  BY <1>1, <1>2, <1>3 DEF ClientInv
<1>5. \A r \in recent : r.admitted \/ r.client = c => r.number <= Limit
  BY <1>1, <1>2 DEF ClientInv
<1>6. \A r, q \in recent : r.client = q.client /\ r # q =>
        \/ r.admitted /\ q.born <= r.age
        \/ q.admitted /\ r.born <= q.age
  BY <1>1 DEF ClientInv
<1>7. \A x \in recent' : \E r \in recent : x = Passed(c, r)
  OBVIOUS
<1>8. \A x \in recent' : ~x.admitted =>
        step'[x.client] \in {"first", "counted"} /\ x.number = current'[x.client]
  BY <1>3, <1>4, <1>7
<1>9. \A x \in recent' : x.admitted => x.number <= Limit
  BY <1>3, <1>5, <1>7
<1>10. \A x, y \in recent' : x.client = y.client /\ x # y =>
        \/ x.admitted /\ y.born <= x.age
        \/ y.admitted /\ x.born <= y.age
  BY <1>3, <1>6, <1>7
<1> QED BY <1>8, <1>9, <1>10 DEF ClientInv

(* A request that is turned away, or ends half way, is no longer pending.  *)
LEMMA ClientDrop ==
    ASSUME HistoryInv, NEW c \in Clients, recent' = Without(c),
           \A d \in Clients : d # c => step'[d] = step[d] /\ current'[d] = current[d]
    PROVE  ClientInv'
<1>1. recent \subseteq Request /\ ClientInv
  BY DEF HistoryInv, HistoryTypeOK
<1>2. \A r \in recent' : r \in recent /\ r.client \in Clients /\ (r.client = c => r.admitted)
  BY <1>1, RequestFields DEF Without
<1>3. \A r \in recent' : ~r.admitted =>
        step'[r.client] \in {"first", "counted"} /\ r.number = current'[r.client]
  BY <1>1, <1>2 DEF ClientInv
<1>4. \A r \in recent' : r.admitted => r.number <= Limit
  BY <1>1, <1>2 DEF ClientInv
<1>5. \A r, q \in recent' : r.client = q.client /\ r # q =>
        \/ r.admitted /\ q.born <= r.age
        \/ q.admitted /\ r.born <= q.age
  BY <1>1, <1>2 DEF ClientInv
<1> QED BY <1>3, <1>4, <1>5 DEF ClientInv

LEMMA ClientTick ==
    ASSUME HistoryInv, NoteTick
    PROVE  ClientInv'
<1>1. recent' = {Older(r) : r \in Lasting} /\ UNCHANGED <<step, current>>
  BY DEF NoteTick, Tick
<1>2. recent \subseteq Request /\ ClientInv
  BY DEF HistoryInv, HistoryTypeOK
<1>3. \A r \in Lasting :
        /\ Older(r).client = r.client /\ Older(r).number = r.number
        /\ Older(r).born <= r.born + 1
        /\ Older(r).admitted = r.admitted
        /\ r.admitted => Older(r).age = r.age + 1
        /\ r \in recent /\ r.born \in Nat /\ r.age \in Nat /\ Older(r).born \in Nat
  <2> SUFFICES ASSUME NEW r \in Lasting
               PROVE  /\ Older(r).client = r.client /\ Older(r).number = r.number
                      /\ Older(r).born <= r.born + 1
                      /\ Older(r).admitted = r.admitted
                      /\ r.admitted => Older(r).age = r.age + 1
                      /\ r \in recent /\ r.born \in Nat /\ r.age \in Nat /\ Older(r).born \in Nat
    OBVIOUS
  <2>1. r \in recent
    BY DEF Lasting
  <2>2. r.born \in Nat /\ r.age \in Nat
    BY <1>2, <2>1, RequestFields
  <2>3. /\ Older(r).client = r.client /\ Older(r).number = r.number
        /\ Older(r).born = IF r.born < Ttl THEN r.born + 1 ELSE r.born
        /\ Older(r).admitted = r.admitted
        /\ Older(r).age = IF r.admitted THEN r.age + 1 ELSE r.age
    BY <1>2, OlderFields
  <2> QED BY <2>1, <2>2, <2>3
<1>4. \A x \in recent' : \E r \in Lasting : x = Older(r)
  BY <1>1
<1>5. \A x \in recent' : ~x.admitted =>
        step'[x.client] \in {"first", "counted"} /\ x.number = current'[x.client]
  BY <1>1, <1>2, <1>3, <1>4 DEF ClientInv
<1>6. \A x \in recent' : x.admitted => x.number <= Limit
  BY <1>2, <1>3, <1>4 DEF ClientInv
<1>7. ASSUME NEW x \in recent', NEW y \in recent', x.client = y.client, x # y
      PROVE  \/ x.admitted /\ y.born <= x.age
             \/ y.admitted /\ x.born <= y.age
  <2>1. PICK r \in Lasting : x = Older(r)
    BY <1>4
  <2>2. PICK q \in Lasting : y = Older(q)
    BY <1>4
  <2>3. r.client = q.client /\ r # q /\ r \in recent /\ q \in recent
    BY <1>3, <1>7, <2>1, <2>2
  <2>4. (r.admitted /\ q.born <= r.age) \/ (q.admitted /\ r.born <= q.age)
    BY <1>2, <2>3 DEF ClientInv
  <2> QED BY <1>3, <2>1, <2>2, <2>4
<1> QED BY <1>5, <1>6, <1>7 DEF ClientInv

LEMMA ClientStep == HistoryInv /\ [HistoryNext]_historyVars => ClientInv'
<1> SUFFICES ASSUME HistoryInv, [HistoryNext]_historyVars PROVE ClientInv'
  OBVIOUS
<1>0. /\ recent \subseteq Request /\ ClientInv
      /\ step \in [Clients -> LimiterSteps] /\ current \in [Clients -> 0 .. Limit + 1]
  BY DEF HistoryInv, HistoryTypeOK, LimiterTypeOK
<1>1. ASSUME NEW c \in Clients, NoteDecision(c) PROVE ClientInv'
  <2>1. CASE step'[c] = "admitted"
    BY <1>1, <2>1, ClientPass DEF NoteDecision
  <2>2. CASE step'[c] # "admitted"
    <3>1. recent' = Without(c)
      BY <1>1, <2>2 DEF NoteDecision
    <3>2. \A d \in Clients : d # c => step'[d] = step[d] /\ current'[d] = current[d]
      BY <1>0, <1>1 DEF NoteDecision, Decide
    <3> QED BY <3>1, <3>2, ClientDrop
  <2> QED BY <2>1, <2>2
<1>2. ASSUME NEW c \in Clients, NoteBreak(c) PROVE ClientInv'
  <2>1. \A d \in Clients : d # c => step'[d] = step[d] /\ current'[d] = current[d]
    BY <1>0, <1>2 DEF NoteBreak, Break, Return
  <2> QED BY <1>2, <2>1, ClientDrop DEF NoteBreak
<1>3. ASSUME NEW c \in Clients, SetExpiry(c), UNCHANGED recent PROVE ClientInv'
  <2>1. /\ current' = current
        /\ \A d \in Clients : step[d] \in {"first", "counted"} => step'[d] \in {"first", "counted"}
    BY <1>0, <1>3 DEF SetExpiry
  <2>2. \A r \in recent : r.client \in Clients
    BY <1>0, RequestFields
  <2> QED BY <1>0, <1>3, <2>1, <2>2 DEF ClientInv
<1>4. ASSUME NEW c \in Clients, End(c), UNCHANGED recent PROVE ClientInv'
  <2>1. step[c] \in {"admitted", "limited"}
    BY <1>4 DEF End
  <2>2. \A d \in Clients : d # c => step'[d] = step[d] /\ current'[d] = current[d]
    BY <1>0, <1>4 DEF End, Return
  <2>3. \A r \in recent : r.client = c => r.admitted
    BY <1>0, <2>1 DEF ClientInv
  <2>4. recent' = Without(c)
    BY <1>4, <2>3 DEF Without
  <2> QED BY <2>2, <2>4, ClientDrop
<1>5. CASE UNCHANGED historyVars
  BY <1>0, <1>5 DEF historyVars, limiterVars, ClientInv
<1> QED BY <1>1, <1>2, <1>3, <1>4, <1>5, ClientCount, ClientTick DEF HistoryNext

LEMMA HistoryStep == HistoryInv /\ [HistoryNext]_historyVars => HistoryInv'
<1> SUFFICES ASSUME HistoryInv, [HistoryNext]_historyVars PROVE HistoryInv'
  OBVIOUS
<1>1. CounterInv /\ HistoryTypeOK
  BY DEF HistoryInv
<1>2. CounterInv'
  BY <1>1, HistoryIsLimiter, CounterStep
<1>3. HistoryTypeOK'
  BY <1>1, <1>2, HistoryTypeStep DEF HistoryTypeOK, CounterInv
<1> QED BY <1>2, <1>3, WindowStep, ClientStep DEF HistoryInv

(* A number and one of two counters tell the requests of a period apart,   *)
(* and the number 1 of the earlier one is no longer among them.            *)
LEMMA TwoWindows ==
    ASSUME HistoryInv
    PROVE  /\ IsFiniteSet({r \in Young : r.number <= Limit})
           /\ Cardinality({r \in Young : r.number <= Limit}) < 2 * Limit
<1> DEFINE S == {r \in Young : r.number <= Limit}
           grid == (1 .. Limit) \X {0, 1}
           places == grid \ {<<1, 1>>}
           place == [r \in S |-> <<r.number, r.expired>>]
<1>1. Limit \in Nat /\ Limit >= 1 /\ IsFiniteSet(1 .. Limit) /\ Cardinality(1 .. Limit) = Limit
  BY LimiterAssumption, FS_Interval
<1>2. IsFiniteSet({0, 1}) /\ Cardinality({0, 1}) = 2
  <2>1. IsFiniteSet({0}) /\ Cardinality({0}) = 1 /\ {0, 1} = {0} \cup {1}
    BY FS_Singleton
  <2> QED BY <2>1, FS_AddElement
<1>3. IsFiniteSet(grid) /\ Cardinality(grid) = Limit * 2
  <2>1. /\ IsFiniteSet((1 .. Limit) \X {0, 1})
        /\ Cardinality((1 .. Limit) \X {0, 1}) = Cardinality(1 .. Limit) * Cardinality({0, 1})
    BY <1>1, <1>2, FS_Product, Zenon
  <2> QED BY <1>1, <1>2, <2>1
<1>4. IsFiniteSet(places) /\ Cardinality(places) = Limit * 2 - 1
  <2>1. <<1, 1>> \in grid
    BY <1>1
  <2> HIDE DEF grid
  <2>2. /\ IsFiniteSet(grid \ {<<1, 1>>})
        /\ Cardinality(grid \ {<<1, 1>>}) =
             IF <<1, 1>> \in grid THEN Cardinality(grid) - 1 ELSE Cardinality(grid)
    BY <1>3, FS_RemoveElement, Zenon
  <2> QED BY <1>3, <2>1, <2>2
<1>5. place \in Injection(S, places)
  <2>1. \A r \in S : /\ r.number \in 1 .. Limit /\ r.expired \in {0, 1}
                     /\ ~(r.number = 1 /\ r.expired = 1)
    <3> SUFFICES ASSUME NEW r \in S
                 PROVE  /\ r.number \in 1 .. Limit /\ r.expired \in {0, 1}
                        /\ ~(r.number = 1 /\ r.expired = 1)
      OBVIOUS
    <3>1. r \in recent /\ r \in Young /\ r.number <= Limit
      BY DEF Young
    <3>2. r.number \in Nat /\ r.number >= 1
      BY <3>1, RequestFields DEF HistoryInv, HistoryTypeOK
    <3> QED BY <1>1, <3>1, <3>2 DEF HistoryInv, WindowInv
  <2>2. place \in [S -> places]
    BY <2>1
  <2>3. \A r, q \in S : place[r] = place[q] => r = q
    BY DEF HistoryInv, WindowInv
  <2> QED BY <2>2, <2>3 DEF Injection, IsInjective
<1>6. IsFiniteSet(S) /\ Cardinality(S) <= Cardinality(places)
  BY <1>4, <1>5, FS_Injection
<1>7. Cardinality(S) \in Nat
  BY <1>6, FS_CardinalityType
<1> HIDE DEF S, places
<1>8. Cardinality(S) < 2 * Limit
  BY <1>1, <1>4, <1>6, <1>7
<1> QED BY <1>6, <1>8 DEF S

(* Of the requests let pass late, no two are of one client.                *)
LEMMA OnePerClient ==
    ASSUME HistoryInv, NEW S \in SUBSET {r \in recent : r.admitted /\ r.born = Ttl}
    PROVE  Cardinality(S) <= Cardinality(Clients)
<1> DEFINE who == [r \in S |-> r.client]
<1>1. \A r \in S : r \in recent /\ r.client \in Clients /\ r.age < r.born /\ r.age \in Nat /\ r.born = Ttl
  <2> SUFFICES ASSUME NEW r \in S
               PROVE  r \in recent /\ r.client \in Clients /\ r.age < r.born /\ r.age \in Nat
                      /\ r.born = Ttl
    OBVIOUS
  <2>1. r \in recent /\ r.born = Ttl
    OBVIOUS
  <2> QED BY <2>1, RequestFields DEF HistoryInv, HistoryTypeOK
<1>2. \A r, q \in S : r.client = q.client => r = q
  <2> SUFFICES ASSUME NEW r \in S, NEW q \in S, r.client = q.client, r # q PROVE FALSE
    OBVIOUS
  <2>1. q.born <= r.age \/ r.born <= q.age
    BY <1>1 DEF HistoryInv, ClientInv
  <2> QED BY <1>1, <2>1, LimiterAssumption
<1>3. who \in Injection(S, Clients)
  BY <1>1, <1>2 DEF Injection, IsInjective
<1> QED BY <1>3, FS_Injection, LimiterAssumption

(* In no period as long as the window, wherever it starts, are twice the    *)
(* limit of its requests let pass by one counter, and of the requests      *)
(* counted before it no more than one per client: INCR hands out each      *)
(* number once, the window is fixed, and a client waits for its answer.    *)
THEOREM AdmittedAreBounded == HistorySpec => []AdmittedIsBounded
<1>1. HistorySpec => []HistoryInv
  BY HistoryStart, HistoryStep, PTL DEF HistorySpec
<1>2. ASSUME HistoryInv PROVE AdmittedIsBounded
  <2> DEFINE Admitted == {r \in recent : r.admitted}
             Slow == {r \in Admitted : r.born = Ttl}
             S == {r \in Young : r.number <= Limit}
  <2>1. Admitted \ Slow \subseteq S
    <3> SUFFICES ASSUME NEW r \in recent, r.admitted, r.born # Ttl PROVE r \in S
      OBVIOUS
    <3>1. r.born \in Nat /\ r.born <= Ttl /\ Ttl \in Nat
      BY <1>2, RequestFields DEF HistoryInv, HistoryTypeOK
    <3> QED BY <1>2, <3>1 DEF HistoryInv, ClientInv, Young
  <2>2. IsFiniteSet(S) /\ Cardinality(S) < 2 * Limit
    BY <1>2, TwoWindows
  <2>3. Slow \in SUBSET {r \in recent : r.admitted /\ r.born = Ttl}
    OBVIOUS
  <2>4. Cardinality(Slow) <= Cardinality(Clients)
    BY <1>2, <2>3, OnePerClient
  <2> HIDE DEF S
  <2>5. /\ Cardinality(Admitted \ Slow) <= Cardinality(S)
        /\ Cardinality(S) \in Nat /\ Cardinality(Admitted \ Slow) \in Nat
    BY <2>1, <2>2, FS_Subset, FS_CardinalityType
  <2>6. Cardinality(Admitted \ Slow) < 2 * Limit
    BY <2>2, <2>5, LimiterAssumption
  <2> QED BY <2>4, <2>6 DEF AdmittedIsBounded
<1> QED BY <1>1, <1>2, PTL

-----------------------------------------------------------------------------
(* The limiter within the gateway *)

LEMMA GatewayInit == Init => LimiterInit
  BY DEF Init

LEMMA GatewayStep == [Next]_gatewayVars => [LimiterNext]_limiterVars
<1> SUFFICES ASSUME [Next]_gatewayVars PROVE LimiterNext \/ UNCHANGED limiterVars
  OBVIOUS
<1>1. ASSUME NEW c \in Clients,
             Arrive(c) \/ Guard(c) \/ TurnAway(c) \/ Answer(c) \/ GiveUp(c)
             \/ Unreachable(c) \/ Fail(c)
      PROVE LimiterNext
  BY <1>1 DEF Arrive, Guard, TurnAway, Answer, GiveUp, Unreachable, Fail, LimiterNext
<1>2. ASSUME NEW c, CreateOrder(c) \/ Read(c) \/ ServeOrder(c) \/ ServeRead(c) \/ ServeLate(c)
      PROVE UNCHANGED limiterVars
  BY <1>2 DEF CreateOrder, Read, ServeOrder, ServeRead, ServeLate
<1>3. Tick => LimiterNext
  BY DEF LimiterNext
<1>4. UNCHANGED gatewayVars => UNCHANGED limiterVars
  BY DEF gatewayVars
<1> QED BY <1>1, <1>2, <1>3, <1>4 DEF Next, Forward

(* Whatever clients, services and replicas do, the gateway uses its limiter *)
(* as RateLimiter says: what holds of the limiter alone holds in it.        *)
THEOREM GatewayUsesLimiter == Spec => LimiterSpec
  BY GatewayInit, GatewayStep, PTL DEF Spec, LimiterSpec

LEMMA CounterInvariant == LimiterSpec => []CounterInv
  BY CounterInit, CounterStep, PTL DEF LimiterSpec

(* increment never leaves a counter without an expiry behind, however the   *)
(* commands of concurrent requests interleave and windows end, as long as   *)
(* every request gets to its second command.                                *)
THEOREM CountersExpire == Spec => []CounterExpires
<1>1. CounterInv => CounterExpires
  BY DEF CounterInv
<1> QED BY <1>1, GatewayUsesLimiter, CounterInvariant, PTL

-----------------------------------------------------------------------------
(* Types, and what a forwarded request says of its client *)

(* A request is forwarded for a client that was admitted; what a buyer      *)
(* asks for is never answered as a read.                                    *)
CallInv ==
    /\ \A c \in Clients : Forwarding(c) => step[c] = "admitted"
    /\ \A b \in Buyers : call[b] # "read"

(* A buyer that was told that its order exists asks for nothing any more.   *)
ContentInv == \A b \in Buyers : told[b] = "created" => step[b] = "idle"

ProxyInv == TypeOK /\ CallInv /\ ContentInv

LEMMA ProxyInit == Init => ProxyInv /\ AnswersAreTrue
<1> SUFFICES ASSUME Init PROVE ProxyInv /\ AnswersAreTrue
  OBVIOUS
<1>1. LimiterTypeOK
  BY CounterInit DEF Init, CounterInv
<1>2. TypeOK
  BY <1>1 DEF Init, TypeOK, CallStates, Verdicts, Told
<1>3. CallInv /\ ContentInv
  BY GatewayAssumption DEF Init, CallInv, ContentInv, Forwarding
<1>4. AnswersAreTrue
  BY GatewayAssumption DEF Init, AnswersAreTrue, Confirmed
<1> QED BY <1>2, <1>3, <1>4 DEF ProxyInv

AnswersInv == ProxyInv /\ AnswersAreTrue

LEMMA OneMore ==
    ASSUME NEW n \in [Buyers -> Nat], NEW b \in Buyers
    PROVE  /\ [n EXCEPT ![b] = @ + 1] \in [Buyers -> Nat]
           /\ [n EXCEPT ![b] = @ + 1][b] = n[b] + 1
           /\ \A d \in Buyers \ {b} : [n EXCEPT ![b] = @ + 1][d] = n[d]
  OBVIOUS

(* Only the buyer whose request moves on may be told, or count, anything new. *)
LEMMA OneBuyer ==
    ASSUME AnswersAreTrue, NEW c,
           \A b \in Buyers \ {c} :
              /\ told'[b] = told[b] /\ call'[b] = call[b] /\ orders'[b] = orders[b]
              /\ late'[b] = late[b] /\ unanswered'[b] = unanswered[b],
           c \in Buyers =>
              /\ Confirmed(c)' <= orders'[c]
              /\ orders'[c] + late'[c] <= Confirmed(c)' + unanswered'[c]
    PROVE  AnswersAreTrue'
<1>1. \A b \in Buyers \ {c} : Confirmed(b)' = Confirmed(b)
  BY DEF Confirmed
<1> QED BY <1>1 DEF AnswersAreTrue

LEMMA ServeLateStep ==
    ASSUME AnswersInv, LimiterTypeOK', NEW b \in Buyers, ServeLate(b)
    PROVE  AnswersInv'
<1>1. /\ orders \in [Buyers -> Nat] /\ late \in [Buyers -> Nat] /\ unanswered \in [Buyers -> Nat]
      /\ TypeOK
  BY DEF AnswersInv, ProxyInv, TypeOK
<1>2. late' = [late EXCEPT ![b] = @ - 1] /\ late[b] - 1 \in Nat
  BY <1>1 DEF ServeLate
<1>3. orders' = orders \/ orders' = [orders EXCEPT ![b] = @ + 1]
  BY DEF ServeLate, Insert
<1>4. UNCHANGED <<limiterVars, call, told, attempts, unanswered>>
  BY DEF ServeLate
<1>5. orders' \in [Buyers -> Nat] /\ (orders'[b] = orders[b] \/ orders'[b] = orders[b] + 1)
  BY <1>1, <1>3, OneMore
<1>6. late' \in [Buyers -> Nat] /\ late'[b] = late[b] - 1
  BY <1>1, <1>2
<1>7. TypeOK'
  BY <1>1, <1>4, <1>5, <1>6 DEF TypeOK
<1>8. CallInv' /\ ContentInv'
  BY <1>4 DEF AnswersInv, ProxyInv, CallInv, ContentInv, Forwarding, limiterVars
<1>9. Confirmed(b)' = Confirmed(b) /\ Confirmed(b) \in Nat
  BY <1>4 DEF Confirmed
<1>10. Confirmed(b) <= orders[b] /\ orders[b] + late[b] <= Confirmed(b) + unanswered[b]
  BY DEF AnswersInv, AnswersAreTrue
<1>11. Confirmed(b)' <= orders'[b] /\ orders'[b] + late'[b] <= Confirmed(b)' + unanswered'[b]
  <2>1. orders[b] \in Nat /\ late[b] \in Nat /\ unanswered[b] \in Nat /\ unanswered' = unanswered
    BY <1>1, <1>4
  <2> QED BY <1>5, <1>6, <1>9, <1>10, <2>1
<1>12. \A d \in Buyers \ {b} : orders'[d] = orders[d] /\ late'[d] = late[d]
  BY <1>1, <1>2, <1>3, OneMore
<1>13. AnswersAreTrue'
  BY <1>4, <1>11, <1>12, OneBuyer DEF AnswersInv
<1> QED BY <1>7, <1>8, <1>13 DEF AnswersInv, ProxyInv

LEMMA ServeOrderStep ==
    ASSUME AnswersInv, LimiterTypeOK', NEW c \in Clients, ServeOrder(c)
    PROVE  AnswersInv'
<1>1. /\ orders \in [Buyers -> Nat] /\ late \in [Buyers -> Nat] /\ unanswered \in [Buyers -> Nat]
      /\ call \in [Clients -> CallStates] /\ TypeOK
  BY DEF AnswersInv, ProxyInv, TypeOK
<1>2. c \in Buyers /\ call[c] = "sent" /\ UNCHANGED <<limiterVars, told, attempts, unanswered, late>>
  BY DEF ServeOrder
<1>3. \/ call' = [call EXCEPT ![c] = "created"] /\ orders' = [orders EXCEPT ![c] = @ + 1]
      \/ call' = [call EXCEPT ![c] = "refused"] /\ orders' = orders
  BY DEF ServeOrder, Insert
<1>4. /\ orders' \in [Buyers -> Nat]
      /\ \A d \in Buyers \ {c} : orders'[d] = orders[d]
      /\ \/ call'[c] = "created" /\ orders'[c] = orders[c] + 1
         \/ call'[c] = "refused" /\ orders'[c] = orders[c]
  BY <1>1, <1>2, <1>3, OneMore
<1>5. call' \in [Clients -> CallStates] /\ \A d \in Clients \ {c} : call'[d] = call[d]
  BY <1>1, <1>3 DEF CallStates, Verdicts
<1>6. TypeOK'
  BY <1>1, <1>2, <1>4, <1>5 DEF TypeOK
<1>7. step[c] = "admitted" /\ told[c] # "created"
  BY <1>2 DEF AnswersInv, ProxyInv, CallInv, ContentInv, Forwarding
<1>8. CallInv' /\ ContentInv'
  BY <1>2, <1>4, <1>5, <1>7, GatewayAssumption
     DEF AnswersInv, ProxyInv, CallInv, ContentInv, Forwarding, limiterVars
<1>9. orders[c] + late[c] <= unanswered[c]
  <2>1. Confirmed(c) = 0
    BY <1>2, <1>7 DEF Confirmed
  <2> QED BY <1>1, <1>2, <2>1 DEF AnswersInv, AnswersAreTrue
<1>10. Confirmed(c)' = IF call'[c] = "created" THEN 1 ELSE 0
  BY <1>2, <1>7 DEF Confirmed
<1>11. Confirmed(c)' <= orders'[c] /\ orders'[c] + late'[c] <= Confirmed(c)' + unanswered'[c]
  <2>1. orders[c] \in Nat /\ late[c] \in Nat /\ unanswered[c] \in Nat
        /\ unanswered' = unanswered /\ late' = late
    BY <1>1, <1>2
  <2> QED BY <1>4, <1>9, <1>10, <2>1
<1>12. AnswersAreTrue'
  BY <1>2, <1>4, <1>5, <1>11, OneBuyer, GatewayAssumption DEF AnswersInv
<1> QED BY <1>6, <1>8, <1>12 DEF AnswersInv, ProxyInv

LEMMA FailStep ==
    ASSUME AnswersInv, LimiterTypeOK', NEW c \in Clients, Fail(c)
    PROVE  AnswersInv'
<1>1. /\ orders \in [Buyers -> Nat] /\ late \in [Buyers -> Nat] /\ unanswered \in [Buyers -> Nat]
      /\ attempts \in [Buyers -> Nat] /\ told \in [Buyers -> Told]
      /\ call \in [Clients -> CallStates] /\ step \in [Clients -> LimiterSteps]
      /\ CallInv /\ ContentInv /\ AnswersAreTrue
  BY DEF AnswersInv, ProxyInv, TypeOK, LimiterTypeOK
<1>2. Tell(c, "broken") /\ step[c] # "idle" /\ step' = [step EXCEPT ![c] = "idle"]
  BY DEF Fail, Break, Return
<1>3. UNCHANGED <<attempts, orders>>
  BY DEF Fail, Abandon
<1>4. told' \in [Buyers -> Told] /\ \A b \in Buyers : told'[b] = IF b = c THEN "broken" ELSE told[b]
  BY <1>1, <1>2 DEF Tell, Told
<1>5. /\ call' \in [Clients -> CallStates] /\ call'[c] = "none"
      /\ \A d \in Clients \ {c} : call'[d] = call[d]
  BY <1>1 DEF Fail, Abandon, Forwarding, CallStates
<1>6. /\ unanswered' \in [Buyers -> Nat] /\ late' \in [Buyers -> Nat]
      /\ \A b \in Buyers \ {c} : unanswered'[b] = unanswered[b] /\ late'[b] = late[b]
  BY <1>1, OneMore DEF Fail, Abandon
<1>7. TypeOK'
  BY <1>1, <1>3, <1>4, <1>5, <1>6 DEF TypeOK
<1>8. CallInv' /\ ContentInv'
  BY <1>1, <1>2, <1>4, <1>5, GatewayAssumption
     DEF CallInv, ContentInv, Forwarding, Told, LimiterSteps
<1>9. ASSUME c \in Buyers
      PROVE  Confirmed(c)' <= orders'[c] /\ orders'[c] + late'[c] <= Confirmed(c)' + unanswered'[c]
  <2>1. Confirmed(c)' = 0
    BY <1>4, <1>5, <1>9 DEF Confirmed
  <2>2. told[c] # "created"
    BY <1>1, <1>2, <1>9 DEF ContentInv
  <2>3. /\ orders[c] \in Nat /\ late[c] \in Nat /\ unanswered[c] \in Nat
        /\ orders'[c] = orders[c]
        /\ orders[c] + late[c] <= Confirmed(c) + unanswered[c]
    BY <1>1, <1>3, <1>9 DEF AnswersAreTrue
  <2>4. CASE call[c] = "none"
    <3>1. Confirmed(c) = 0
      BY <2>2, <2>4 DEF Confirmed
    <3>2. late' = late /\ unanswered' = unanswered
      BY <2>4 DEF Fail, Forwarding
    <3> QED BY <2>1, <2>3, <3>1, <3>2
  <2>5. CASE call[c] # "none"
    <3>1. unanswered'[c] = unanswered[c] + 1
      BY <1>1, <1>9, <2>5, OneMore DEF Fail, Forwarding, Abandon
    <3>2. late'[c] = IF call[c] = "sent" THEN late[c] + 1 ELSE late[c]
      BY <1>1, <1>9, <2>5, OneMore DEF Fail, Forwarding, Abandon
    <3>3. Confirmed(c) = IF call[c] = "created" THEN 1 ELSE 0
      BY <2>2 DEF Confirmed
    <3> QED BY <2>1, <2>3, <3>1, <3>2, <3>3
  <2> QED BY <2>4, <2>5
<1>10. AnswersAreTrue'
  BY <1>1, <1>3, <1>4, <1>5, <1>6, <1>9, OneBuyer, GatewayAssumption
<1> QED BY <1>7, <1>8, <1>10 DEF AnswersInv, ProxyInv

LEMMA AnswersStep == AnswersInv /\ [Next]_gatewayVars => AnswersInv'
<1> SUFFICES ASSUME AnswersInv, [Next]_gatewayVars PROVE AnswersInv'
  OBVIOUS
<1> LimiterTypeOK' /\ TypeOK /\ CallInv /\ ContentInv /\ AnswersAreTrue
  BY GatewayStep, LimiterTypeStep DEF AnswersInv, ProxyInv, TypeOK
<1>0. TypeOK' /\ CallInv' /\ ContentInv' /\ AnswersAreTrue' => AnswersInv'
  BY DEF AnswersInv, ProxyInv
<1> USE GatewayAssumption
        DEF TypeOK, LimiterTypeOK, CallInv, ContentInv, AnswersAreTrue, Confirmed, Forwarding,
            CallStates, Verdicts, Told
<1>1. ASSUME NEW c \in Clients, Arrive(c) PROVE AnswersInv'
  <2>1. step[c] = "idle" /\ (c \in Buyers => told[c] # "created")
    BY <1>1 DEF Arrive, Wants, Count
  <2>2. UNCHANGED proxyVars /\ \E s : step' = [step EXCEPT ![c] = s]
    BY <1>1 DEF Arrive, Count
  <2> QED BY <1>0, <2>1, <2>2 DEF proxyVars
<1>2. ASSUME NEW c \in Clients, Guard(c) PROVE AnswersInv'
  <2>1. step[c] \in {"first", "counted"} /\ \E s : step' = [step EXCEPT ![c] = s]
    BY <1>2 DEF Guard, Throttle, SetExpiry, Decide
  <2> QED BY <1>0, <1>2, <2>1 DEF Guard, proxyVars
<1>3. ASSUME NEW c \in Clients, TurnAway(c) PROVE AnswersInv'
  BY <1>0, <1>3 DEF TurnAway, End, Return, Tell
<1>4. ASSUME NEW c \in Clients, CreateOrder(c) PROVE AnswersInv'
  BY <1>0, <1>4 DEF CreateOrder, Send, limiterVars
<1>5. ASSUME NEW c \in Clients, Read(c) PROVE AnswersInv'
  BY <1>0, <1>5 DEF Read, Send, limiterVars
<1>6. ASSUME NEW c \in Clients, Answer(c) PROVE AnswersInv'
  <2>1. TypeOK'
    BY <1>6 DEF Answer, End, Return, Tell, PassedOn
  <2>2. CallInv' /\ ContentInv'
    BY <1>6 DEF Answer, End, Return, Tell, PassedOn
  <2>3. AnswersAreTrue'
    BY <1>6 DEF Answer, End, Return, Tell, PassedOn
  <2> QED BY <1>0, <2>1, <2>2, <2>3
<1>7. ASSUME NEW c \in Clients, GiveUp(c) PROVE AnswersInv'
  <2>1. TypeOK'
    BY <1>7 DEF GiveUp, Expired, End, Return, Tell, Abandon
  <2>2. CallInv' /\ ContentInv'
    BY <1>7 DEF GiveUp, Expired, End, Return, Tell, Abandon
  <2>3. AnswersAreTrue'
    BY <1>7 DEF GiveUp, Expired, End, Return, Tell, Abandon
  <2> QED BY <1>0, <2>1, <2>2, <2>3
<1>8. ASSUME NEW c \in Clients, Unreachable(c) PROVE AnswersInv'
  BY <1>0, <1>8 DEF Unreachable, End, Return, Tell
<1>9. ASSUME NEW c \in Clients, Fail(c) PROVE AnswersInv'
  BY <1>9, FailStep
<1>10. ASSUME NEW c \in Clients, ServeOrder(c) PROVE AnswersInv'
  BY <1>10, ServeOrderStep
<1>11. ASSUME NEW c \in Clients, ServeRead(c) PROVE AnswersInv'
  BY <1>0, <1>11 DEF ServeRead, limiterVars
<1>12. ASSUME NEW b \in Buyers, ServeLate(b) PROVE AnswersInv'
  BY <1>12, ServeLateStep
<1>13. CASE Tick /\ UNCHANGED proxyVars
  BY <1>0, <1>13 DEF Tick, proxyVars
<1>14. CASE UNCHANGED gatewayVars
  BY <1>0, <1>14 DEF gatewayVars, limiterVars, proxyVars
<1> QED
  BY <1>1, <1>2, <1>3, <1>4, <1>5, <1>6, <1>7, <1>8, <1>9, <1>10, <1>11, <1>12, <1>13, <1>14
     DEF Next, Forward

LEMMA AnswersInvariant == Spec => []AnswersInv
  BY ProxyInit, AnswersStep, PTL DEF Spec, AnswersInv

(* Every variable keeps its type. *)
THEOREM TypeCorrect == Spec => []TypeOK
<1>1. AnswersInv => TypeOK
  BY DEF AnswersInv, ProxyInv
<1> QED BY <1>1, AnswersInvariant, PTL

(* The 502 of a request that timed out (proxy.controller.ts) is the only    *)
(* answer after which an order may exist that the buyer was not told of,    *)
(* and each such answer accounts for at most one.                           *)
THEOREM BuyersAreToldTheTruth == Spec => []AnswersAreTrue
<1>1. AnswersInv => AnswersAreTrue
  BY DEF AnswersInv
<1> QED BY <1>1, AnswersInvariant, PTL
=============================================================================
