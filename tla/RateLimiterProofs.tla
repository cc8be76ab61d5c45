--------------------------- MODULE RateLimiterProofs ---------------------------
(***************************************************************************)
(* RateLimiter, for all clients and handlers, every limit and every length *)
(* of a window.                                                            *)
(***************************************************************************)
EXTENDS RateLimiter, TLAPS

LEMMA IncrementedIs ==
  ASSUME NEW n \in 0 .. MaxCount
  PROVE  /\ Incremented(n) \in 1 .. MaxCount /\ n \leq Incremented(n)
         /\ IsAllowed(Incremented(n)) => Incremented(n) = n + 1
         /\ OpensWindow(Incremented(n)) <=> n = 0
BY LimiterAssumption DEF Incremented, IsAllowed, OpensWindow

LEMMA IdleIs == Idle.at = "idle" /\ Idle.client = NoTTL
BY DEF Idle

\* The types without the last part of TypeOK, which is an invariant of keys.
HandlerStates == [at : {"idle", "expire", "ttl"}, client : Clients \cup {NoTTL}]

\* A step of one handler, from the state it leaves it in.
LEMMA HandlerMoves ==
  ASSUME TypeOK, NEW h \in Handlers, NEW state \in HandlerStates,
         handler' = [handler EXCEPT ![h] = state],
         state.at # "idle" => state.client \in Clients
  PROVE  /\ handler' \in [Handlers -> HandlerStates]
         /\ \A g \in Handlers : handler'[g].at # "idle" => handler'[g].client \in Clients
BY DEF TypeOK, HandlerStates

LEMMA TypeStep == TypeOK /\ [Next]_vars => TypeOK'
<1> SUFFICES ASSUME TypeOK, [Next]_vars  PROVE TypeOK'
  OBVIOUS
<1>1. ASSUME NEW h \in Handlers, NEW c \in Clients, Incr(h, c)  PROVE TypeOK'
  <2> DEFINE n == Incremented(count[c])
             state == [at |-> IF OpensWindow(n) THEN "expire" ELSE "ttl", client |-> c]
  <2>1. count[c] \in 0 .. MaxCount /\ n \in 1 .. MaxCount
    BY IncrementedIs DEF TypeOK
  <2>2. /\ handler' \in [Handlers -> HandlerStates]
        /\ \A g \in Handlers : handler'[g].at # "idle" => handler'[g].client \in Clients
    <3>1. state \in HandlerStates /\ state.client = c /\ handler' = [handler EXCEPT ![h] = state]
      BY <1>1 DEF HandlerStates, Incr
    <3> HIDE DEF state
    <3> QED
      BY <3>1, HandlerMoves
  <2>3. admitted' \in [Clients -> Nat] /\ count' = [count EXCEPT ![c] = n]
    BY <1>1 DEF Incr, TypeOK
  <2>4. \A d \in Clients : count'[d] = 0 => ttl[d] = NoTTL /\ admitted'[d] = 0
    BY <1>1, <2>1, <2>3 DEF Incr, TypeOK
  <2> HIDE DEF n, state
  <2> QED
    BY <1>1, <2>1, <2>2, <2>3, <2>4 DEF Incr, TypeOK, HandlerStates
<1>2. ASSUME NEW h \in Handlers, NEW c \in Clients, IncrLost(h, c)  PROVE TypeOK'
  <2> DEFINE n == Incremented(count[c])
  <2>1. count[c] \in 0 .. MaxCount /\ n \in 1 .. MaxCount
    BY IncrementedIs DEF TypeOK
  <2>2. OpensWindow(n) \in BOOLEAN
    BY DEF OpensWindow
  <2>3. count' = [count EXCEPT ![c] = n] /\ lost' \in [Clients -> BOOLEAN]
    BY <1>2, <2>2 DEF IncrLost, TypeOK
  <2> HIDE DEF n
  <2> QED
    BY <1>2, <2>1, <2>3 DEF IncrLost, TypeOK
<1>3. ASSUME NEW h \in Handlers, Expire(h) \/ ExpireFails(h) \/ Answer(h) \/ Crash(h)
      PROVE  TypeOK'
  <2> DEFINE c == handler[h].client
  <2>1. c \in Clients /\ handler[h] \in HandlerStates
    BY <1>3 DEF TypeOK, HandlerStates, Expire, ExpireFails, Answer, Crash
  <2>2. /\ handler' \in [Handlers -> HandlerStates]
        /\ \A g \in Handlers : handler'[g].at # "idle" => handler'[g].client \in Clients
    <3>1. CASE handler' = [handler EXCEPT ![h].at = "ttl"]
      <4> DEFINE state == [handler[h] EXCEPT !.at = "ttl"]
      <4>1. state \in HandlerStates /\ state.client = c
        BY <2>1 DEF HandlerStates
      <4>2. handler' = [handler EXCEPT ![h] = state]
        BY <3>1
      <4> HIDE DEF state
      <4> QED
        BY <2>1, <4>1, <4>2, HandlerMoves
    <3>2. CASE handler' = [handler EXCEPT ![h] = Idle]
      <4>1. Idle \in HandlerStates /\ Idle.at = "idle"
        BY DEF Idle, HandlerStates
      <4> QED
        BY <3>2, <4>1, HandlerMoves
    <3> QED
      BY <1>3, <3>1, <3>2 DEF Expire, ExpireFails, Answer, Crash
  <2>3. /\ ttl' \in [Clients -> 1 .. Window \cup {NoTTL}]
        /\ lost' \in [Clients -> BOOLEAN]
        /\ \A d \in Clients : count[d] = 0 => ttl'[d] = NoTTL
    <3>1. TTLOfWindow \in 1 .. Window
      BY LimiterAssumption DEF TTLOfWindow
    <3>2. CASE Expire(h)
      BY <2>1, <3>1, <3>2 DEF Expire, TypeOK
    <3>3. CASE UNCHANGED ttl /\ (UNCHANGED lost \/ lost' = [lost EXCEPT ![c] = TRUE])
      BY <3>3 DEF TypeOK
    <3> QED
      BY <1>3, <3>2, <3>3 DEF ExpireFails, Answer, Crash
  <2>4. UNCHANGED <<count, admitted, age>>
    BY <1>3 DEF Expire, ExpireFails, Answer, Crash
  <2> QED
    BY <2>2, <2>3, <2>4 DEF TypeOK, HandlerStates
<1>4. CASE Tick
  <2>1. /\ count' \in [Clients -> 0 .. MaxCount] /\ admitted' \in [Clients -> Nat]
        /\ lost' \in [Clients -> BOOLEAN] /\ UNCHANGED handler
    BY <1>4, LimiterAssumption DEF Tick, TypeOK
  <2>2. ttl' \in [Clients -> 1 .. Window \cup {NoTTL}]
    BY <1>4, LimiterAssumption DEF Tick, TypeOK
  <2>3. age' \in [Clients -> 0 .. Window]
    BY <1>4, LimiterAssumption DEF Tick, TypeOK
  <2>4. \A c \in Clients : count'[c] = 0 => ttl'[c] = NoTTL /\ admitted'[c] = 0
    BY <1>4, LimiterAssumption DEF Tick, TypeOK
  <2> QED
    BY <2>1, <2>2, <2>3, <2>4 DEF TypeOK
<1>5. CASE UNCHANGED vars
  BY <1>5 DEF vars, TypeOK
<1> QED
  BY <1>1, <1>2, <1>3, <1>4, <1>5 DEF Next

\* Counters, times to live and handlers have their types in every state.
THEOREM TypeCorrect == Spec => []TypeOK
<1>1. Init => TypeOK
  BY LimiterAssumption DEF Init, TypeOK, Idle
<1>2. QED
  BY <1>1, TypeStep, PTL DEF Spec

------------------------------------------------------------------------------
(* The time to live of a key                                               *)

LEMMA OpeningIs ==
  ASSUME NEW c \in Clients, NEW h
  PROVE  h \in Opening(c) <=> h \in Handlers /\ handler[h].at = "expire" /\ handler[h].client = c
BY DEF Opening

\* OneExpirePerKey, of one client whose key is described by the arguments.
KeyFits(n, left, isLost, opening) ==
  /\ \A g, h \in opening : g = h
  /\ opening # {} => n > 0 /\ left = NoTTL /\ ~isLost
  /\ isLost => n > 0 /\ left = NoTTL
  /\ n > 0 => left # NoTTL \/ isLost \/ opening # {}

LEMMA KeysFit ==
  OneExpirePerKey <=> \A c \in Clients : KeyFits(count[c], ttl[c], lost[c], Opening(c))
BY DEF OneExpirePerKey, KeyFits

\* After Expire, or its failure, no handler is about to set the time to live
\* of the key any more.
LEMMA OpeningEnds ==
  ASSUME TypeOK, OneExpirePerKey, NEW c \in Clients, NEW h \in Opening(c),
         handler' = [handler EXCEPT ![h].at = "ttl"] \/ handler' = [handler EXCEPT ![h] = Idle]
  PROVE  /\ Opening(c)' = {}
         /\ \A d \in Clients \ {c} : Opening(d)' = Opening(d)
<1>1. h \in Handlers /\ handler[h].at = "expire" /\ handler[h].client = c
  BY OpeningIs
<1>2. handler'[h].at # "expire" /\ \A g \in Handlers \ {h} : handler'[g] = handler[g]
  BY <1>1, IdleIs DEF TypeOK
<1>3. \A g \in Opening(c) : g = h
  BY <1>1 DEF OneExpirePerKey
<1>4. Opening(c)' = {}
  BY <1>2, <1>3 DEF Opening
<1>5. \A d \in Clients \ {c} : Opening(d)' = Opening(d)
  BY <1>1, <1>2 DEF Opening
<1> QED
  BY <1>4, <1>5

LEMMA KeysStep == TypeOK /\ OneExpirePerKey /\ [Next]_vars => OneExpirePerKey'
<1> SUFFICES ASSUME TypeOK, OneExpirePerKey, [Next]_vars,
                    NEW c \in Clients
             PROVE  KeyFits(count'[c], ttl'[c], lost'[c], Opening(c)')
  BY KeysFit DEF OneExpirePerKey, KeyFits
<1>1. KeyFits(count[c], ttl[c], lost[c], Opening(c))
  BY KeysFit
<1>2. /\ count[c] \in 0 .. MaxCount /\ lost[c] \in BOOLEAN
      /\ ttl[c] \in 1 .. Window \cup {NoTTL} /\ (count[c] = 0 => ttl[c] = NoTTL)
  BY DEF TypeOK
<1>3. ASSUME NEW h \in Handlers, NEW d \in Clients, Incr(h, d)
      PROVE  KeyFits(count'[c], ttl'[c], lost'[c], Opening(c)')
  <2> DEFINE n == Incremented(count[d])
  <2>1. /\ handler[h].at = "idle" /\ handler'[h].client = d
        /\ handler'[h].at = IF OpensWindow(n) THEN "expire" ELSE "ttl"
        /\ \A g \in Handlers \ {h} : handler'[g] = handler[g]
    BY <1>3, IdleIs DEF Incr, TypeOK
  <2>2. ttl'[c] = ttl[c] /\ lost'[c] = lost[c]
    BY <1>3 DEF Incr
  <2>3. count'[d] = n /\ (d # c => count'[c] = count[c])
    BY <1>3, <1>2 DEF Incr, TypeOK
  <2>4. count[d] \in 0 .. MaxCount /\ n \in 1 .. MaxCount /\ (OpensWindow(n) <=> count[d] = 0)
    BY IncrementedIs DEF TypeOK
  <2>5. CASE d = c /\ count[d] = 0
    <3>1. Opening(c) = {} /\ ~lost[c] /\ ttl[c] = NoTTL
      BY <1>1, <1>2, <2>5 DEF KeyFits
    <3>2. Opening(c)' = {h}
      BY <2>1, <2>4, <2>5, <3>1 DEF Opening
    <3> QED
      BY <2>2, <2>3, <2>4, <2>5, <3>1, <3>2 DEF KeyFits
  <2>6. CASE d # c \/ count[d] # 0
    <3>1. Opening(c)' = Opening(c)
      BY <2>1, <2>4, <2>6 DEF Opening
    <3>2. count'[c] > 0 <=> count[c] > 0
      BY <1>2, <2>3, <2>4, <2>6
    <3> QED
      BY <1>1, <2>2, <3>1, <3>2 DEF KeyFits
  <2> QED
    BY <2>5, <2>6
<1>4. ASSUME NEW h \in Handlers, NEW d \in Clients, IncrLost(h, d)
      PROVE  KeyFits(count'[c], ttl'[c], lost'[c], Opening(c)')
  <2> DEFINE n == Incremented(count[d])
  <2>1. ttl'[c] = ttl[c] /\ Opening(c)' = Opening(c)
    BY <1>4 DEF IncrLost, Opening
  <2>2. count[d] \in 0 .. MaxCount /\ n \in 1 .. MaxCount /\ (OpensWindow(n) <=> count[d] = 0)
    BY IncrementedIs DEF TypeOK
  <2>3. /\ count'[d] = n /\ lost'[d] = (lost[d] \/ OpensWindow(n))
        /\ d # c => count'[c] = count[c] /\ lost'[c] = lost[c]
    BY <1>4 DEF IncrLost, TypeOK
  <2>4. CASE d = c /\ count[d] = 0
    <3>1. Opening(c) = {} /\ ttl[c] = NoTTL
      BY <1>1, <1>2, <2>4 DEF KeyFits
    <3>2. OpensWindow(n)
      BY <2>2, <2>4
    <3>3. lost'[c]
      BY <2>3, <2>4, <3>2, Zenon
    <3>4. count'[c] > 0
      BY <2>2, <2>3, <2>4
    <3> QED
      BY <2>1, <3>1, <3>3, <3>4 DEF KeyFits
  <2>5. CASE d # c \/ count[d] # 0
    <3>1. (count'[c] > 0 <=> count[c] > 0) /\ (lost'[c] <=> lost[c])
      BY <1>2, <2>2, <2>3, <2>5
    <3> QED
      BY <1>1, <2>1, <3>1 DEF KeyFits
  <2> QED
    BY <2>4, <2>5
<1>5. ASSUME NEW h \in Handlers, Expire(h) \/ ExpireFails(h) \/ Crash(h)
      PROVE  KeyFits(count'[c], ttl'[c], lost'[c], Opening(c)')
  <2> PICK d \in Clients : handler[h].client = d /\ handler[h].at = "expire"
    BY <1>5 DEF Expire, ExpireFails, Crash, TypeOK
  <2>1. /\ h \in Opening(d) /\ Opening(d)' = {}
        /\ d # c => Opening(c)' = Opening(c)
    <3>1. h \in Opening(d)
      BY DEF Opening
    <3> QED
      BY <1>5, <3>1, OpeningEnds DEF Expire, ExpireFails, Crash
  <2>2. KeyFits(count[d], ttl[d], lost[d], Opening(d))
    BY <2>1, KeysFit
  <2>3. count[d] > 0 /\ ttl[d] = NoTTL /\ ~lost[d]
    BY <2>1, <2>2 DEF KeyFits
  <2>4. /\ count'[c] = count[c]
        /\ d # c => ttl'[c] = ttl[c] /\ lost'[c] = lost[c]
        /\ \/ ttl'[d] = Window /\ lost'[d] = lost[d]
           \/ ttl'[d] = ttl[d] /\ lost'[d]
    BY <1>5, <2>1, <2>3 DEF Expire, ExpireFails, Crash, TypeOK, TTLOfWindow
  <2>5. Window # NoTTL
    BY LimiterAssumption
  <2> QED
    BY <1>1, <2>1, <2>3, <2>4, <2>5 DEF KeyFits
<1>6. ASSUME NEW h \in Handlers, Answer(h)
      PROVE  KeyFits(count'[c], ttl'[c], lost'[c], Opening(c)')
  <2>1. Opening(c)' = Opening(c)
    BY <1>6, IdleIs DEF Answer, Opening, TypeOK
  <2> QED
    BY <1>1, <1>6, <2>1 DEF Answer
<1>7. CASE Tick
  <2>1. Opening(c)' = Opening(c)
    BY <1>7 DEF Tick, Opening
  <2>2. CASE ttl[c] = 1
    <3>1. ttl[c] # NoTTL
      BY <2>2, LimiterAssumption
    <3>2. Opening(c) = {} /\ ~lost[c]
      BY <1>1, <3>1 DEF KeyFits
    <3>3. count'[c] = 0 /\ ~lost'[c]
      BY <1>7, <2>2 DEF Tick
    <3> QED
      BY <2>1, <3>2, <3>3 DEF KeyFits
  <2>3. CASE ttl[c] # 1
    <3>1. count'[c] = count[c] /\ (lost'[c] <=> lost[c])
      BY <1>2, <1>7, <2>3 DEF Tick
    <3>2. ttl'[c] = IF ttl[c] = NoTTL THEN NoTTL ELSE ttl[c] - 1
      BY <1>7, <2>3 DEF Tick
    <3>3. ttl'[c] = NoTTL <=> ttl[c] = NoTTL
      BY <1>2, <2>3, <3>2, LimiterAssumption
    <3> QED
      BY <1>1, <2>1, <3>1, <3>3 DEF KeyFits
  <2> QED
    BY <2>2, <2>3
<1>8. CASE UNCHANGED vars
  <2>1. Opening(c)' = Opening(c)
    BY <1>8 DEF vars, Opening
  <2> QED
    BY <1>1, <1>8, <2>1 DEF vars
<1> QED
  BY <1>3, <1>4, <1>5, <1>6, <1>7, <1>8 DEF Next

\* Whatever requests of a client run at the same time, its key gets its time
\* to live from the one that created it, once, or never if that one fails.
THEOREM KeysExpireOnce == Spec => []OneExpirePerKey
<1>1. ASSUME Init  PROVE OneExpirePerKey
  <2>1. \A c \in Clients : ~lost[c]
    BY <1>1 DEF Init
  <2>2. \A c \in Clients : Opening(c) = {}
    BY <1>1, IdleIs DEF Init, Opening
  <2>3. ASSUME NEW c \in Clients  PROVE ~(count[c] > 0)
    <3>1. count[c] = 0
      BY <1>1 DEF Init
    <3> QED
      BY <3>1
  <2> QED
    BY <2>1, <2>2, <2>3, Zenon DEF OneExpirePerKey
<1>2. QED
  BY <1>1, KeysStep, TypeCorrect, PTL DEF Spec

\* In one window no more requests of a client are let through than the limit:
\* the counter is at least the number of those that were let through, and a
\* request is let through only when the counter has not passed the limit.
CountedFirst == \A c \in Clients : admitted[c] \leq count[c]

THEOREM LimitHolds == Spec => []AdmittedWithinLimit
<1> DEFINE Inv == CountedFirst /\ AdmittedWithinLimit
<1>1. Init => Inv
  BY LimiterAssumption DEF Init, CountedFirst, AdmittedWithinLimit
<1>2. TypeOK /\ Inv /\ [Next]_vars => Inv'
  <2> SUFFICES ASSUME TypeOK, CountedFirst, AdmittedWithinLimit, [Next]_vars,
                      NEW c \in Clients
               PROVE  admitted'[c] \leq count'[c] /\ admitted'[c] \leq Limit
    BY DEF CountedFirst, AdmittedWithinLimit
  <2>1. /\ count[c] \in 0 .. MaxCount /\ admitted[c] \in Nat
        /\ admitted[c] \leq count[c] /\ admitted[c] \leq Limit
    BY DEF TypeOK, CountedFirst, AdmittedWithinLimit
  <2>2. ASSUME NEW h \in Handlers, NEW d \in Clients, Incr(h, d)
        PROVE  admitted'[c] \leq count'[c] /\ admitted'[c] \leq Limit
    <3> DEFINE n == Incremented(count[d])
    <3>1. /\ d = c => count'[c] = n /\ admitted'[c] = IF IsAllowed(n) THEN admitted[c] + 1 ELSE admitted[c]
          /\ d # c => count'[c] = count[c] /\ admitted'[c] = admitted[c]
      BY <2>2 DEF Incr, TypeOK
    <3>2. n \in 1 .. MaxCount /\ count[d] \leq n /\ (IsAllowed(n) => n = count[d] + 1)
      BY IncrementedIs DEF TypeOK
    <3>3. IsAllowed(n) <=> n \leq Limit
      BY DEF IsAllowed
    <3> HIDE DEF n
    <3> QED
      BY <2>1, <3>1, <3>2, <3>3, LimiterAssumption
  <2>3. ASSUME NEW h \in Handlers, NEW d \in Clients, IncrLost(h, d)
        PROVE  admitted'[c] \leq count'[c] /\ admitted'[c] \leq Limit
    <3> DEFINE n == Incremented(count[d])
    <3>1. /\ admitted'[c] = admitted[c]
          /\ count'[c] = IF d = c THEN n ELSE count[c]
      BY <2>3 DEF IncrLost, TypeOK
    <3>2. n \in 1 .. MaxCount /\ count[d] \leq n
      BY IncrementedIs DEF TypeOK
    <3> HIDE DEF n
    <3> QED
      BY <2>1, <3>1, <3>2
  <2>4. CASE Tick
    BY <2>1, <2>4, LimiterAssumption DEF Tick
  <2>5. CASE UNCHANGED <<count, admitted>>
    BY <2>1, <2>5
  <2> QED
    BY <2>2, <2>3, <2>4, <2>5 DEF Next, vars, Expire, ExpireFails, Answer, Crash
<1>3. QED
  BY <1>1, <1>2, TypeCorrect, PTL DEF Spec

------------------------------------------------------------------------------
(* The length of a window                                                  *)

\* What a key has lived and what it has left to live make a window: a handler
\* that calls Expire late lengthens the window, none shortens it.
WindowsAreWhole == \A c \in Clients : ttl[c] # NoTTL => age[c] + ttl[c] \geq Window

LEMMA WindowsStayWhole == Spec => []WindowsAreWhole
<1>1. Init => WindowsAreWhole
  BY DEF Init, WindowsAreWhole
<1>2. TypeOK /\ WindowsAreWhole /\ [Next]_vars => WindowsAreWhole'
  <2> SUFFICES ASSUME TypeOK, WindowsAreWhole, [Next]_vars,
                      NEW c \in Clients, ttl'[c] # NoTTL
               PROVE  age'[c] + ttl'[c] \geq Window
    BY DEF WindowsAreWhole
  <2>1. /\ age[c] \in 0 .. Window /\ ttl[c] \in 1 .. Window \cup {NoTTL}
        /\ ttl[c] # NoTTL => age[c] + ttl[c] \geq Window
        /\ count[c] = 0 => ttl[c] = NoTTL
    BY DEF TypeOK, WindowsAreWhole
  <2>2. ASSUME NEW h \in Handlers, Expire(h)  PROVE age'[c] + ttl'[c] \geq Window
    <3>1. age'[c] = age[c] /\ (ttl'[c] = ttl[c] \/ ttl'[c] = Window)
      BY <2>2 DEF Expire, TypeOK, TTLOfWindow
    <3> QED
      BY <2>1, <3>1, LimiterAssumption
  <2>3. CASE Tick
    <3>1. ttl[c] # 1 /\ ttl[c] # NoTTL /\ ttl'[c] = ttl[c] - 1
      BY <2>3 DEF Tick
    <3>2. age'[c] = IF age[c] < Window THEN age[c] + 1 ELSE age[c]
      BY <2>1, <2>3, <3>1 DEF Tick
    <3> QED
      BY <2>1, <3>1, <3>2, LimiterAssumption
  <2>4. CASE UNCHANGED <<ttl, age>>
    BY <2>1, <2>4
  <2> QED
    BY <2>2, <2>3, <2>4 DEF Next, vars, Incr, IncrLost, ExpireFails, Answer, Crash
<1>3. QED
  BY <1>1, <1>2, TypeCorrect, PTL DEF Spec

\* Only a tick deletes a key, and only one that has no more to live.
LEMMA KeysEndInTicks ==
  ASSUME TypeOK, [Next]_vars, NEW c \in Clients, count[c] > 0, count'[c] = 0
  PROVE  Tick /\ ttl[c] = 1
<1>1. count[c] \in 0 .. MaxCount
  BY DEF TypeOK
<1>2. ASSUME NEW h \in Handlers, NEW d \in Clients, Incr(h, d) \/ IncrLost(h, d)  PROVE FALSE
  <2>1. count'[c] = IF d = c THEN Incremented(count[d]) ELSE count[c]
    BY <1>2 DEF Incr, IncrLost, TypeOK
  <2>2. Incremented(count[c]) \in 1 .. MaxCount
    BY <1>1, IncrementedIs
  <2> QED
    BY <2>1, <2>2
<1>3. CASE Tick
  BY <1>3 DEF Tick
<1>4. CASE UNCHANGED count
  BY <1>4
<1> QED
  BY <1>2, <1>3, <1>4 DEF Next, vars, Expire, ExpireFails, Answer, Crash

\* The limit of a client cannot be had again before the window has passed.
THEOREM WindowsLastAlways == Spec => WindowsLast
<1>1. TypeOK /\ WindowsAreWhole /\ [Next]_vars
        => \A c \in Clients : count[c] > 0 /\ count'[c] = 0 => age[c] \geq Window - 1
  <2> SUFFICES ASSUME TypeOK, WindowsAreWhole, [Next]_vars,
                      NEW c \in Clients, count[c] > 0, count'[c] = 0
               PROVE  age[c] \geq Window - 1
    OBVIOUS
  <2>1. ttl[c] = 1
    BY KeysEndInTicks
  <2>2. age[c] \in 0 .. Window /\ age[c] + ttl[c] \geq Window
    BY <2>1, LimiterAssumption DEF TypeOK, WindowsAreWhole
  <2> QED
    BY <2>1, <2>2, LimiterAssumption
<1>2. QED
  BY <1>1, TypeCorrect, WindowsStayWhole, PTL DEF Spec, WindowsLast

\* Once the Expire of a key was lost, the key stays for ever and its counter
\* never falls: no later request repairs it, and a client who has used up the
\* limit is refused from then on.
THEOREM LostKeysStay ==
  Spec => [][\A c \in Clients : lost[c] => lost'[c] /\ count'[c] \geq count[c]]_vars
<1>1. TypeOK /\ OneExpirePerKey /\ [Next]_vars
        => \A c \in Clients : lost[c] => lost'[c] /\ count'[c] \geq count[c]
  <2> SUFFICES ASSUME TypeOK, OneExpirePerKey, [Next]_vars, NEW c \in Clients, lost[c]
               PROVE  lost'[c] /\ count'[c] \geq count[c]
    OBVIOUS
  <2>1. count[c] \in 0 .. MaxCount /\ ttl[c] = NoTTL
    BY DEF TypeOK, OneExpirePerKey
  <2>2. ASSUME NEW h \in Handlers, NEW d \in Clients, Incr(h, d) \/ IncrLost(h, d)
        PROVE  lost'[c] /\ count'[c] \geq count[c]
    <3>1. count'[c] = IF d = c THEN Incremented(count[d]) ELSE count[c]
      BY <2>2 DEF Incr, IncrLost, TypeOK
    <3>2. count[c] \leq Incremented(count[c]) /\ Incremented(count[c]) \in Nat
      BY <2>1, IncrementedIs, LimiterAssumption
    <3>3. lost'[c]
      BY <2>2 DEF Incr, IncrLost, TypeOK
    <3> QED
      BY <2>1, <3>1, <3>2, <3>3
  <2>3. CASE Tick
    <3>1. ttl[c] # 1
      BY <2>1, LimiterAssumption
    <3>2. lost'[c] /\ count'[c] = count[c]
      BY <2>3, <3>1 DEF Tick
    <3> QED
      BY <2>1, <3>2
  <2>4. ASSUME UNCHANGED count,
               UNCHANGED lost \/ \E d \in Clients : lost' = [lost EXCEPT ![d] = TRUE]
        PROVE  lost'[c] /\ count'[c] \geq count[c]
    BY <2>1, <2>4 DEF TypeOK
  <2>5. ASSUME NEW h \in Handlers, ExpireFails(h) \/ Crash(h)
        PROVE  UNCHANGED count /\ \E d \in Clients : lost' = [lost EXCEPT ![d] = TRUE]
    BY <2>5 DEF ExpireFails, Crash, TypeOK
  <2> QED
    BY <2>2, <2>3, <2>4, <2>5 DEF Next, vars, Expire, Answer
<1>2. QED
  BY <1>1, TypeCorrect, KeysExpireOnce, PTL DEF Spec
===============================================================================
