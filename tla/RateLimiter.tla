----------------------------- MODULE RateLimiter -----------------------------
(***************************************************************************)
(* RateLimiter.Allow: a counter per client in Redis that INCR creates and  *)
(* that EXPIRE, a second command, makes end after the window.  Requests    *)
(* are handled concurrently; a command may fail, with or without having    *)
(* been executed, and the handler of a request may die between the two.    *)
(***************************************************************************)
EXTENDS Naturals

CONSTANTS Clients,    \* the keys: client addresses
          Handlers,   \* goroutines that handle a request each
          Limit,      \* requests a client may make in a window
          Window,     \* length of the window, in ticks
          NoTTL,      \* the key has no time to live
          MaxCount    \* bound: the counters stop here; above Limit + 1 no
                      \* two values are told apart

ASSUME LimiterAssumption ==
  /\ Limit \in Nat \ {0} /\ Window \in Nat \ {0}
  /\ NoTTL \notin Nat
  /\ MaxCount \in Nat /\ MaxCount > Limit + 1

VARIABLES count,      \* the counter of each client, 0: there is no key
          ttl,        \* ticks until the key is deleted
          handler,    \* [at, client]: idle, or about to call Expire or TTL
          admitted,   \* history variable: requests let through in this window
          age,        \* history variable: ticks since the key was created
          lost        \* history variable: the key was created by a request
                      \* that did not call Expire, or not successfully

vars == <<count, ttl, handler, admitted, age, lost>>

Idle == [at |-> "idle", client |-> NoTTL]

Init ==
  /\ count = [c \in Clients |-> 0]
  /\ ttl = [c \in Clients |-> NoTTL]
  /\ handler = [h \in Handlers |-> Idle]
  /\ admitted = [c \in Clients |-> 0]
  /\ age = [c \in Clients |-> 0]
  /\ lost = [c \in Clients |-> FALSE]

\* Mutant of IsAllowed: `remaining' is tested, which is never negative.
HasRemaining(n) == (IF n > Limit THEN 0 ELSE Limit - n) \geq 0

\* The value INCR returned decides about the request.
IsAllowed(n) == n \leq Limit

\* Mutant of OpensWindow: every request calls Expire.
OpensAlways(n) == TRUE

\* Only the request that created the key calls Expire.
OpensWindow(n) == n = 1

\* Mutant of TTLOfWindow: the window is not multiplied by its unit.
TTLOfOneUnit == 1

\* Mutant of TTLOfWindow: the window is converted to whole minutes, 0 here.
TTLInMinutes == Window \div 60

TTLOfWindow == Window

Incremented(n) == IF n < MaxCount THEN n + 1 ELSE n

------------------------------------------------------------------------------

\* INCR, and its answer arrives.  Whether the request is let through is known
\* now, though the handler goes on with Expire (the first request) and TTL.
Incr(h, c) ==
  LET n == Incremented(count[c]) IN
  /\ handler[h] = Idle
  /\ count' = [count EXCEPT ![c] = n]
  /\ admitted' = [admitted EXCEPT ![c] = IF IsAllowed(n) THEN @ + 1 ELSE @]
  /\ handler' = [handler EXCEPT ![h] = [at |-> IF OpensWindow(n) THEN "expire" ELSE "ttl",
                                        client |-> c]]
  /\ UNCHANGED <<ttl, age, lost>>

\* INCR is executed but its answer is lost: Allow returns an error.
IncrLost(h, c) ==
  LET n == Incremented(count[c]) IN
  /\ handler[h] = Idle
  /\ count' = [count EXCEPT ![c] = n]
  /\ lost' = [lost EXCEPT ![c] = @ \/ OpensWindow(n)]
  /\ UNCHANGED <<ttl, handler, admitted, age>>

\* EXPIRE.
Expire(h) ==
  LET c == handler[h].client IN
  /\ handler[h].at = "expire"
  /\ ttl' = IF count[c] > 0 THEN [ttl EXCEPT ![c] = TTLOfWindow] ELSE ttl
  /\ handler' = [handler EXCEPT ![h].at = "ttl"]
  /\ UNCHANGED <<count, admitted, age, lost>>

\* EXPIRE fails: a warning is logged and the request goes on.
ExpireFails(h) ==
  /\ handler[h].at = "expire"
  /\ handler' = [handler EXCEPT ![h].at = "ttl"]
  /\ lost' = [lost EXCEPT ![handler[h].client] = TRUE]
  /\ UNCHANGED <<count, ttl, admitted, age>>

\* TTL is read for the headers (if it fails the window is reported), and the
\* request is answered or handed on.
Answer(h) ==
  /\ handler[h].at = "ttl"
  /\ handler' = [handler EXCEPT ![h] = Idle]
  /\ UNCHANGED <<count, ttl, admitted, age, lost>>

\* The server dies before Expire was sent.
Crash(h) ==
  /\ handler[h].at = "expire"
  /\ handler' = [handler EXCEPT ![h] = Idle]
  /\ lost' = [lost EXCEPT ![handler[h].client] = TRUE]
  /\ UNCHANGED <<count, ttl, admitted, age>>

\* A tick: Redis deletes the keys whose time has come.
Tick ==
  LET Ends(c) == ttl[c] = 1 IN
  /\ count' = [c \in Clients |-> IF Ends(c) THEN 0 ELSE count[c]]
  /\ ttl' = [c \in Clients |-> IF Ends(c) \/ ttl[c] = NoTTL THEN NoTTL ELSE ttl[c] - 1]
  /\ admitted' = [c \in Clients |-> IF Ends(c) THEN 0 ELSE admitted[c]]
  /\ age' = [c \in Clients |-> IF Ends(c) \/ count[c] = 0 THEN 0
                               ELSE IF age[c] < Window THEN age[c] + 1 ELSE age[c]]
  /\ lost' = [c \in Clients |-> lost[c] /\ ~Ends(c)]
  /\ UNCHANGED handler

Next ==
  \/ \E h \in Handlers, c \in Clients : Incr(h, c) \/ IncrLost(h, c)
  \/ \E h \in Handlers : Expire(h) \/ ExpireFails(h) \/ Answer(h) \/ Crash(h)
  \/ Tick

Spec == Init /\ [][Next]_vars

\* Time passes, and a handler that lives goes on.
Fairness ==
  /\ WF_vars(Tick)
  /\ \A h \in Handlers : WF_vars(Expire(h) \/ ExpireFails(h)) /\ WF_vars(Answer(h))

FairSpec == Spec /\ Fairness

------------------------------------------------------------------------------

TypeOK ==
  /\ count \in [Clients -> 0 .. MaxCount]
  /\ ttl \in [Clients -> 1 .. Window \cup {NoTTL}]
  /\ handler \in [Handlers -> [at : {"idle", "expire", "ttl"}, client : Clients \cup {NoTTL}]]
  /\ \A h \in Handlers : handler[h].at # "idle" => handler[h].client \in Clients
  /\ admitted \in [Clients -> Nat]
  /\ age \in [Clients -> 0 .. Window]
  /\ lost \in [Clients -> BOOLEAN]
  /\ \A c \in Clients : count[c] = 0 => ttl[c] = NoTTL /\ admitted[c] = 0

\* In one window no more requests of a client are let through than the limit,
\* whatever requests run at the same time and whichever of them fail.
AdmittedWithinLimit == \A c \in Clients : admitted[c] \leq Limit

\* A window lasts: the counter of a client is not deleted before Window ticks
\* have passed since its first request, so the limit cannot be had again.
WindowsLast ==
  [][\A c \in Clients : count[c] > 0 /\ count'[c] = 0 => age[c] \geq Window - 1]_vars

\* The time to live of a key is set once, by the request that created it:
\* every key has it, or is about to get it from one handler, or that
\* handler's Expire was lost.  No handler reaches the key of a later window.
Opening(c) == {h \in Handlers : handler[h].at = "expire" /\ handler[h].client = c}

OneExpirePerKey ==
  \A c \in Clients :
    /\ \A g, h \in Opening(c) : g = h
    /\ Opening(c) # {} => count[c] > 0 /\ ttl[c] = NoTTL /\ ~lost[c]
    /\ lost[c] => count[c] > 0 /\ ttl[c] = NoTTL
    /\ count[c] > 0 => ttl[c] # NoTTL \/ lost[c] \/ Opening(c) # {}

\* A window ends, however many requests the client goes on making, if the
\* Expire of its first request was not lost.
WindowsEndUnlessLost ==
  \A c \in Clients : (count[c] > 0) ~> (count[c] = 0 \/ lost[c])

\* rate_limiter.go:16 describes a limit in a fixed window: a client who has
\* used up the limit gets a new window in the end.
WindowsEnd == \A c \in Clients : (count[c] > Limit) ~> (count[c] = 0)
==============================================================================
