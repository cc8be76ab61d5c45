------------------------------ MODULE ServerProofs ------------------------------
(***************************************************************************)
(* Server, for every number of processes, partitions, messages, restarts   *)
(* and mishaps.                                                            *)
(***************************************************************************)
EXTENDS Server, FiniteSetTheorems, TLAPS

------------------------------------------------------------------------------
(* What a step does to the consumers                                       *)

LEMMA ConsumerSteps ==
  ASSUME [Next]_vars
  PROVE  \/ UNCHANGED consumerVars
         \/ \E p \in Partitions, content \in Contents : Store(p, content)
         \/ \E s \in Servers, p \in Partitions :
              \/ Grant(s, p)
              \/ Take(s, p)
              \/ Handle(s, p)
              \/ AutoCommit(s, p)
              \/ EndSession(s, p)
         \/ \E p \in Partitions : Evict(p)
         \/ \E s \in Servers : DropClaims(s)
<1>1. "event" \in Contents /\ "malformed" \in Contents
  BY DEF Contents
<1> QED
  BY <1>1
     DEF Next, vars, Proceeds, Serving, Consuming, Start, Connect, ConnectFails, Accept, Refuse,
         Commit, Publish, PublishUnacknowledged, PublishFails, ForeignMessage, Join, TakeMessage,
         HandleMessage, CommitOffsets, Rebalance, Leave, Timeout, TimeoutAlive, Signal, Stopped,
         Drained, DrainTimeout, DeadlinePasses, Close, Exit, Crash

------------------------------------------------------------------------------
(* Types                                                                   *)

LEMMA StoredIs ==
  /\ \A p, i : <<p, i>> \in Stored <=> p \in Partitions /\ i \in 1 .. Len(log[p])
  /\ \A m \in Stored : m = <<m[1], m[2]>>
BY DEF Stored

\* The consumers' part of the type invariant.
ConsumerTypes ==
  /\ log \in [Partitions -> Seq(Contents)]
  /\ committed \in [Partitions -> Nat]
  /\ owner \in [Partitions -> Servers \cup {Null}]
  /\ claim \in [Servers -> [Partitions -> Claim]]
  /\ tried \subseteq Stored
  /\ again \subseteq tried

\* The events up to n have been handled, and n is an event itself, if any.
Done(messages, handled, p, n) ==
  /\ n \in 0 .. Len(messages)
  /\ \A i \in 1 .. n : <<p, i>> \in handled
  /\ n > 0 => messages[n] = "event"

\* A claim has taken the messages before `next' one after the other, and all
\* of them are handled, but for the one in hand.
Sound(c, messages, handled, p) ==
  /\ Done(messages, handled, p, c.marked)
  /\ c.next <= Len(messages) + 1
  /\ c.hand <= Len(messages)
  /\ \A i \in 1 .. Len(messages) : i < c.next /\ i # c.hand => <<p, i>> \in handled
  /\ c.on => c.marked < c.next
  /\ c.hand # 0 => c.on /\ c.hand < c.next /\ c.marked < c.hand

\* What holds of offsets and claims at every step.
ClaimsAreSound ==
  /\ \A p \in Partitions : Done(log[p], tried, p, committed[p])
  /\ \A s \in Servers, p \in Partitions : Sound(claim[s][p], log[p], tried, p)

\* Both stay so while messages are appended and handled.
LEMMA DoneStays ==
  ASSUME NEW old \in Seq(Contents), NEW new \in Seq(Contents), Len(old) <= Len(new),
         \A i \in 1 .. Len(old) : new[i] = old[i],
         NEW before, NEW after, before \subseteq after, NEW p, NEW n
  PROVE  Done(old, before, p, n) => Done(new, after, p, n)
BY DEF Done

LEMMA NoClaimIsSound ==
  ASSUME NEW messages \in Seq(Contents), NEW handled, NEW p
  PROVE  Sound(NoClaim, messages, handled, p) /\ NoClaim \in Claim
BY DEF Sound, NoClaim, Done, Claim

LEMMA SoundStays ==
  ASSUME NEW old \in Seq(Contents), NEW new \in Seq(Contents), Len(old) <= Len(new),
         \A i \in 1 .. Len(old) : new[i] = old[i],
         NEW before, NEW after, before \subseteq after, NEW p, NEW c \in Claim,
         Sound(c, old, before, p)
  PROVE  Sound(c, new, after, p)
<1>1. Done(new, after, p, c.marked)
  BY DoneStays DEF Sound
<1>2. Len(old) \in Nat /\ Len(new) \in Nat /\ c.next \in Nat /\ c.hand \in Nat /\ c.marked \in Nat
  BY DEF Claim
<1>3. ASSUME NEW i \in 1 .. Len(new), i < c.next, i # c.hand  PROVE <<p, i>> \in after
  <2>1. i \in 1 .. Len(old)
    BY <1>2, <1>3 DEF Sound
  <2> QED
    BY <1>3, <2>1 DEF Sound
<1> QED
  BY <1>1, <1>2, <1>3 DEF Sound

\* What the updates of a claim are.
LEMMA ClaimUpdates ==
  ASSUME NEW c \in Claim, NEW i \in Nat, NEW j \in Nat
  PROVE  /\ [c EXCEPT !.hand = i, !.next = j] =
              [on |-> c.on, next |-> j, hand |-> i, marked |-> c.marked]
         /\ [c EXCEPT !.hand = i, !.marked = j] =
              [on |-> c.on, next |-> c.next, hand |-> i, marked |-> j]
         /\ [on |-> c.on, next |-> j, hand |-> i, marked |-> c.marked] \in Claim
         /\ [on |-> c.on, next |-> c.next, hand |-> i, marked |-> j] \in Claim
<1>1. c.on \in BOOLEAN /\ c.next \in Nat /\ c.marked \in Nat
  BY DEF Claim
<1>2. [c EXCEPT !.hand = i, !.next = j] =
        [on |-> c.on, next |-> j, hand |-> i, marked |-> c.marked]
  <2> DEFINE d == [c EXCEPT !.hand = i, !.next = j]
  <2>1. d \in Claim
    BY DEF Claim
  <2>2. d.on = c.on /\ d.hand = i /\ d.next = j /\ d.marked = c.marked
    BY DEF Claim
  <2> HIDE DEF d
  <2>3. d = [on |-> d.on, next |-> d.next, hand |-> d.hand, marked |-> d.marked]
    BY <2>1 DEF Claim
  <2>4. d = [on |-> c.on, next |-> j, hand |-> i, marked |-> c.marked]
    BY <2>2, <2>3
  <2> QED
    BY <2>4 DEF d
<1>3. [c EXCEPT !.hand = i, !.marked = j] =
        [on |-> c.on, next |-> c.next, hand |-> i, marked |-> j]
  <2> DEFINE d == [c EXCEPT !.hand = i, !.marked = j]
  <2>1. d \in Claim
    BY DEF Claim
  <2>2. d.on = c.on /\ d.hand = i /\ d.marked = j /\ d.next = c.next
    BY DEF Claim
  <2> HIDE DEF d
  <2>3. d = [on |-> d.on, next |-> d.next, hand |-> d.hand, marked |-> d.marked]
    BY <2>1 DEF Claim
  <2>4. d = [on |-> c.on, next |-> c.next, hand |-> i, marked |-> j]
    BY <2>2, <2>3
  <2> QED
    BY <2>4 DEF d
<1>4. [on |-> c.on, next |-> j, hand |-> i, marked |-> c.marked] \in Claim
  BY <1>1 DEF Claim
<1>5. [on |-> c.on, next |-> c.next, hand |-> i, marked |-> j] \in Claim
  BY <1>1 DEF Claim
<1> QED
  BY <1>2, <1>3, <1>4, <1>5

\* The claim that has taken its next message, and the one that has handled it.
LEMMA TakenClaim ==
  ASSUME NEW messages \in Seq(Contents), NEW handled, NEW p, NEW c \in Claim,
         Sound(c, messages, handled, p), c.on, c.hand = 0, c.next <= Len(messages),
         NEW new \in Claim, new.on = c.on, new.hand = c.next, new.next = c.next + 1,
         new.marked = c.marked
  PROVE  Sound(new, messages, handled, p)
<1>1. /\ Len(messages) \in Nat /\ c.next \in Nat /\ c.marked \in Nat /\ c.marked < c.next
      /\ Done(messages, handled, p, c.marked)
      /\ \A i \in 1 .. Len(messages) : i < c.next => <<p, i>> \in handled
  BY DEF Sound, Claim
<1> QED
  BY <1>1 DEF Sound

LEMMA HandledClaim ==
  ASSUME NEW messages \in Seq(Contents), NEW before, NEW p, NEW c \in Claim,
         Sound(c, messages, before, p), c.hand # 0,
         NEW new \in Claim, new.on = c.on, new.hand = 0, new.next = c.next,
         new.marked = IF messages[c.hand] = "event" THEN c.hand ELSE c.marked
  PROVE  Sound(new, messages, before \cup {<<p, c.hand>>}, p)
<1> DEFINE after == before \cup {<<p, c.hand>>}
<1>1. /\ Len(messages) \in Nat /\ c.next \in Nat /\ c.marked \in Nat /\ c.hand \in Nat
      /\ c.on /\ c.hand < c.next /\ c.marked < c.hand
      /\ c.hand <= Len(messages) /\ c.next <= Len(messages) + 1
      /\ Done(messages, before, p, c.marked)
      /\ \A i \in 1 .. Len(messages) : i < c.next /\ i # c.hand => <<p, i>> \in before
  BY DEF Sound, Claim
<1>2. new.marked = IF messages[c.hand] = "event" THEN c.hand ELSE c.marked
  OBVIOUS
<1>3. \A i \in 1 .. Len(messages) : i < c.next => <<p, i>> \in after
  BY <1>1
<1>4. Done(messages, after, p, new.marked)
  <2>1. CASE messages[c.hand] = "event"
    <3>1. new.marked = c.hand /\ c.hand \in 0 .. Len(messages)
      BY <1>1, <1>2, <2>1
    <3>2. \A i \in 1 .. c.hand : i \in 1 .. Len(messages) /\ i < c.next
      BY <1>1
    <3> QED
      BY <1>3, <2>1, <3>1, <3>2 DEF Done
  <2>2. CASE messages[c.hand] # "event"
    BY <1>1, <1>2, <2>2 DEF Done
  <2> QED
    BY <2>1, <2>2
<1>5. new.marked < new.next /\ new.marked \in Nat
  BY <1>1, <1>2
<1> QED
  BY <1>1, <1>2, <1>3, <1>4, <1>5 DEF Sound

\* One claim is replaced.
LEMMA OneClaim ==
  ASSUME ConsumerTypes, NEW s \in Servers, NEW p \in Partitions, NEW new \in Claim,
         claim' = [claim EXCEPT ![s][p] = new]
  PROVE  /\ claim' \in [Servers -> [Partitions -> Claim]]
         /\ claim'[s][p] = new
         /\ \A t \in Servers, q \in Partitions : t # s \/ q # p => claim'[t][q] = claim[t][q]
BY DEF ConsumerTypes

\* The consumers keep their types, and the claims stay sound.
LEMMA ConsumerStep ==
  ASSUME ConsumerTypes, ClaimsAreSound, [Next]_vars
  PROVE  ConsumerTypes' /\ ClaimsAreSound'
<1> USE DEF ConsumerTypes
\* A step that changes one claim, and perhaps hands a message to a handler.
<1>1. ASSUME UNCHANGED log, committed' \in [Partitions -> Nat],
             owner' \in [Partitions -> Servers \cup {Null}],
             \A p \in Partitions : Done(log[p], tried', p, committed'[p]),
             tried \subseteq tried', tried' \subseteq Stored, again' \subseteq tried',
             NEW s \in Servers, NEW p \in Partitions, NEW new \in Claim,
             claim' = [claim EXCEPT ![s][p] = new], Sound(new, log[p], tried', p)
      PROVE  ConsumerTypes' /\ ClaimsAreSound'
  <2>1. /\ claim' \in [Servers -> [Partitions -> Claim]] /\ claim'[s][p] = new
        /\ \A t \in Servers, q \in Partitions : t # s \/ q # p => claim'[t][q] = claim[t][q]
    BY <1>1, OneClaim
  <2>2. Stored' = Stored
    BY <1>1 DEF Stored
  <2>3. ASSUME NEW t \in Servers, NEW q \in Partitions
        PROVE  Sound(claim'[t][q], log'[q], tried', q)
    <3>1. CASE t = s /\ q = p
      BY <1>1, <2>1, <3>1
    <3>2. CASE t # s \/ q # p
      <4>1. claim[t][q] \in Claim /\ log[q] \in Seq(Contents) /\ Sound(claim[t][q], log[q], tried, q)
        BY DEF ClaimsAreSound
      <4>2. Len(log[q]) <= Len(log[q])
        BY <4>1
      <4>3. Sound(claim[t][q], log[q], tried', q)
        BY <1>1, <4>1, <4>2, SoundStays
      <4> QED
        BY <1>1, <2>1, <3>2, <4>3
    <3> QED
      BY <3>1, <3>2
  <2> QED
    BY <1>1, <2>1, <2>2, <2>3 DEF ClaimsAreSound
<1>2. ASSUME \A p \in Partitions : Done(log[p], tried, p, committed'[p]),
             committed' \in [Partitions -> Nat],
             owner' \in [Partitions -> Servers \cup {Null}],
             UNCHANGED <<log, claim, tried, again>>
      PROVE  ConsumerTypes' /\ ClaimsAreSound'
  BY <1>2 DEF ClaimsAreSound, Stored
<1>3. \A s \in Servers, p \in Partitions :
        /\ claim[s][p] \in Claim /\ Sound(claim[s][p], log[p], tried, p)
        /\ log[p] \in Seq(Contents) /\ Len(log[p]) \in Nat
        /\ Done(log[p], tried, p, committed[p]) /\ committed[p] \in Nat
  BY DEF ClaimsAreSound
<1>5. ASSUME NEW p \in Partitions, NEW content \in Contents, Store(p, content)
      PROVE  ConsumerTypes' /\ ClaimsAreSound'
  <2>1. /\ log' = [log EXCEPT ![p] = Append(log[p], content)]
        /\ UNCHANGED <<committed, owner, claim, tried, again>>
    BY <1>5 DEF Store
  <2>2. /\ log' \in [Partitions -> Seq(Contents)]
        /\ \A q \in Partitions : /\ Len(log[q]) <= Len(log'[q])
                                 /\ \A i \in 1 .. Len(log[q]) : log'[q][i] = log[q][i]
    <3>1. Append(log[p], content) \in Seq(Contents) /\ Len(log[p]) \in Nat
          /\ Len(Append(log[p], content)) = Len(log[p]) + 1
          /\ \A i \in 1 .. Len(log[p]) : Append(log[p], content)[i] = log[p][i]
      OBVIOUS
    <3> QED
      BY <2>1, <3>1
  <2>3. Stored \subseteq Stored'
    <3>1. \A q \in Partitions : Len(log[q]) \in Nat /\ Len(log'[q]) \in Nat
      BY <2>2
    <3> QED
      BY <2>2, <3>1 DEF Stored
  <2>4. \A q \in Partitions : Done(log'[q], tried', q, committed'[q])
    BY <1>3, <2>1, <2>2, DoneStays DEF ClaimsAreSound
  <2>5. \A s \in Servers, q \in Partitions : Sound(claim'[s][q], log'[q], tried', q)
    BY <1>3, <2>1, <2>2, SoundStays
  <2> QED
    BY <2>1, <2>2, <2>3, <2>4, <2>5 DEF ClaimsAreSound
<1>6. ASSUME NEW s \in Servers, NEW p \in Partitions, Grant(s, p)
      PROVE  ConsumerTypes' /\ ClaimsAreSound'
  <2> DEFINE new == [on |-> TRUE, next |-> committed[p] + 1, hand |-> 0, marked |-> committed[p]]
  <2>1. /\ claim' = [claim EXCEPT ![s][p] = new] /\ owner' = [owner EXCEPT ![p] = s]
        /\ UNCHANGED <<log, committed, tried, again>>
    BY <1>6 DEF Grant
  <2>2. new \in Claim
    BY DEF Claim
  <2>3. Sound(new, log[p], tried, p)
    BY <1>3 DEF Sound, Done
  <2> HIDE DEF new
  <2> QED
    BY <1>1, <1>3, <2>1, <2>2, <2>3
<1>7. ASSUME NEW s \in Servers, NEW p \in Partitions, Take(s, p)
      PROVE  ConsumerTypes' /\ ClaimsAreSound'
  <2>1. PICK c \in Claim, j \in Nat : c = claim[s][p] /\ j = c.next + 1
    <3>1. claim[s][p] \in Claim /\ claim[s][p].next + 1 \in Nat
      BY <1>3 DEF Claim
    <3> QED
      BY <3>1, Zenon
  <2> DEFINE new == [on |-> c.on, next |-> j, hand |-> c.next, marked |-> c.marked]
  <2>2. /\ claim' = [claim EXCEPT ![s][p] = [c EXCEPT !.hand = c.next, !.next = j]]
        /\ c.on /\ c.hand = 0 /\ c.next <= Len(log[p])
        /\ UNCHANGED <<log, committed, owner, tried, again>>
    BY <1>7, <2>1 DEF Take
  <2>3. c.next \in Nat
    BY DEF Claim
  <2>4. claim' = [claim EXCEPT ![s][p] = new] /\ new \in Claim
    BY <2>2, <2>3, ClaimUpdates
  <2>5. Sound(new, log[p], tried, p)
    <3>1. Sound(c, log[p], tried, p) /\ log[p] \in Seq(Contents)
      BY <1>3, <2>1
    <3>2. /\ new.on = c.on /\ new.hand = c.next /\ new.next = c.next + 1
          /\ new.marked = c.marked
      BY <2>1
    <3> HIDE DEF new
    <3> QED
      BY <2>2, <2>4, <3>1, <3>2, TakenClaim
  <2> HIDE DEF new
  <2> QED
    BY <1>1, <1>3, <2>2, <2>4, <2>5
<1>8. ASSUME NEW s \in Servers, NEW p \in Partitions, Handle(s, p)
      PROVE  ConsumerTypes' /\ ClaimsAreSound'
  <2>1. PICK c \in Claim, j \in Nat :
          c = claim[s][p] /\ j = IF log[p][c.hand] = "event" THEN c.hand ELSE c.marked
    <3> DEFINE mark == IF log[p][claim[s][p].hand] = "event" THEN claim[s][p].hand
                       ELSE claim[s][p].marked
    <3>1. claim[s][p] \in Claim /\ mark \in Nat
      BY <1>3 DEF Claim
    <3> QED
      BY <3>1, Zenon
  <2> DEFINE new == [on |-> c.on, next |-> c.next, hand |-> 0, marked |-> j]
  <2>2. /\ claim' = [claim EXCEPT ![s][p] = [c EXCEPT !.hand = 0, !.marked = j]]
        /\ c.hand # 0 /\ tried' = tried \cup {<<p, c.hand>>} /\ again' \subseteq tried'
        /\ UNCHANGED <<log, committed, owner>>
    BY <1>8, <2>1 DEF Handle
  <2>3. Sound(c, log[p], tried, p) /\ log[p] \in Seq(Contents)
    BY <1>3, <2>1
  <2>4. claim' = [claim EXCEPT ![s][p] = new] /\ new \in Claim
    <3>1. 0 \in Nat
      OBVIOUS
    <3>2. [c EXCEPT !.hand = 0, !.marked = j] = new /\ new \in Claim
      BY <3>1, ClaimUpdates
    <3> QED
      BY <2>2, <3>2
  <2>5. Sound(new, log[p], tried', p)
    <3>1. new.on = c.on /\ new.hand = 0 /\ new.next = c.next /\ new.marked = j
      OBVIOUS
    <3> HIDE DEF new
    <3>2. Sound(new, log[p], tried \cup {<<p, c.hand>>}, p)
      BY <2>1, <2>2, <2>3, <2>4, <3>1, HandledClaim
    <3> QED
      BY <2>2, <3>2
  <2> HIDE DEF new
  <2>6. tried' \subseteq Stored
    <3>1. c.hand \in 1 .. Len(log[p])
      BY <2>2, <2>3 DEF Sound, Claim
    <3> QED
      BY <2>2, <3>1, StoredIs
  <2>7. \A q \in Partitions : Done(log[q], tried', q, committed'[q])
    BY <1>3, <2>2 DEF Done
  <2> QED
    BY <1>1, <2>2, <2>4, <2>5, <2>6, <2>7
\* Who commits commits what is marked, or is not heard.
<1>9. ASSUME NEW s \in Servers, NEW p \in Partitions,
             committed' = [committed EXCEPT ![p] = CommittedBy(s, p)]
      PROVE  /\ committed' \in [Partitions -> Nat]
             /\ \A q \in Partitions : Done(log[q], tried, q, committed'[q])
  <2>1. CommittedBy(s, p) \in Nat /\ Done(log[p], tried, p, CommittedBy(s, p))
    BY <1>3 DEF CommittedBy, Sound, Claim
  <2> QED
    BY <1>3, <1>9, <2>1
<1>10. ASSUME NEW s \in Servers, NEW p \in Partitions, AutoCommit(s, p)
       PROVE  ConsumerTypes' /\ ClaimsAreSound'
  BY <1>2, <1>9, <1>10 DEF AutoCommit
<1>11. ASSUME NEW s \in Servers, NEW p \in Partitions, EndSession(s, p)
       PROVE  ConsumerTypes' /\ ClaimsAreSound'
  <2>1. /\ claim' = [claim EXCEPT ![s][p] = NoClaim]
        /\ committed' = [committed EXCEPT ![p] = CommittedBy(s, p)]
        /\ owner' \in [Partitions -> Servers \cup {Null}]
        /\ UNCHANGED <<log, tried, again>>
    BY <1>11 DEF EndSession
  <2>2. NoClaim \in Claim /\ Sound(NoClaim, log[p], tried, p)
    BY <1>3, NoClaimIsSound
  <2> QED
    BY <1>1, <1>9, <2>1, <2>2
<1>12. ASSUME NEW p \in Partitions, Evict(p)  PROVE ConsumerTypes' /\ ClaimsAreSound'
  BY <1>2, <1>3, <1>12 DEF Evict
<1>13. ASSUME NEW s \in Servers, DropClaims(s)  PROVE ConsumerTypes' /\ ClaimsAreSound'
  <2>1. /\ claim' = [claim EXCEPT ![s] = [p \in Partitions |-> NoClaim]]
        /\ UNCHANGED <<log, committed, owner, tried, again>>
    BY <1>13 DEF DropClaims
  <2>2. \A p \in Partitions : NoClaim \in Claim /\ Sound(NoClaim, log[p], tried, p)
    BY <1>3, NoClaimIsSound
  <2>3. claim' \in [Servers -> [Partitions -> Claim]]
    BY <2>1, <2>2
  <2>4. \A t \in Servers, p \in Partitions : Sound(claim'[t][p], log[p], tried, p)
    BY <1>3, <2>1, <2>2
  <2> QED
    BY <1>3, <2>1, <2>3, <2>4 DEF ClaimsAreSound, Stored
<1>14. CASE UNCHANGED consumerVars
  BY <1>14 DEF consumerVars, ClaimsAreSound, Stored
<1> HIDE DEF ConsumerTypes
<1> QED
  BY <1>5, <1>6, <1>7, <1>8, <1>10, <1>11, <1>12, <1>13, <1>14, ConsumerSteps

\* The part of the type invariant that is about the processes.
ServerTypes ==
  /\ phase \in [Servers -> Phases]
  /\ open \in [Servers -> SUBSET Connections]
  /\ inflight \in [Servers -> Progress]
  /\ late \subseteq Servers
  /\ begun \in 0 .. MaxMessages
  /\ untold \subseteq {"early", "late"}
  /\ ends \in 0 .. MaxEnds
  /\ mishaps \in 0 .. MaxMishaps

LEMMA CountsStay ==
  ASSUME ServerTypes
  PROVE  /\ Regular => ends' \in 0 .. MaxEnds /\ mishaps' \in 0 .. MaxMishaps
         /\ OrderlyEnd => ends' \in 0 .. MaxEnds /\ mishaps' \in 0 .. MaxMishaps
         /\ Mishap => ends' \in 0 .. MaxEnds /\ mishaps' \in 0 .. MaxMishaps
         /\ begun < MaxMessages /\ begun' = begun + 1 => begun' \in 0 .. MaxMessages
BY ServerAssumption DEF ServerTypes, Regular, OrderlyEnd, Mishap

LEMMA ServerStep ==
  ASSUME ServerTypes, [Next]_vars
  PROVE  ServerTypes'
<1> USE DEF ServerTypes
<1>1. ASSUME NEW s \in Servers, Start(s)  PROVE ServerTypes'
  BY <1>1, CountsStay DEF Start, Moves, Phases
<1>2. ASSUME NEW s \in Servers, NEW connection \in Connections, Connect(s, connection)
      PROVE  ServerTypes'
  BY <1>2, CountsStay DEF Connect, Phases
<1>3. ASSUME NEW s \in Servers, ConnectFails(s)  PROVE ServerTypes'
  BY <1>3, CountsStay DEF ConnectFails, Moves, Phases
<1>4. ASSUME NEW s \in Servers, Accept(s) \/ Refuse(s) \/ Commit(s)  PROVE ServerTypes'
  BY <1>4, CountsStay DEF Accept, Refuse, Commit, Serves, Progress
<1>5. ASSUME NEW s \in Servers, NEW p \in Partitions,
             Publish(s, p) \/ PublishUnacknowledged(s, p)
      PROVE  ServerTypes'
  BY <1>5, CountsStay DEF Publish, PublishUnacknowledged, Serves, Progress
<1>6. ASSUME NEW s \in Servers, PublishFails(s)  PROVE ServerTypes'
  BY <1>6, CountsStay DEF PublishFails, Serves, Lose, Progress
<1>7. ASSUME NEW p \in Partitions, ForeignMessage(p) \/ Timeout(p)  PROVE ServerTypes'
  BY <1>7, CountsStay DEF ForeignMessage, Timeout
<1>8. ASSUME NEW s \in Servers, NEW p \in Partitions,
             \/ Consuming(s, p) \/ Join(s, p) \/ CommitOffsets(s, p)
             \/ Rebalance(s, p) \/ TimeoutAlive(s, p)
      PROVE  ServerTypes'
  BY <1>8, CountsStay
     DEF Consuming, TakeMessage, HandleMessage, Leave, Join, CommitOffsets, Rebalance, TimeoutAlive
<1>9. ASSUME NEW s \in Servers, Signal(s) \/ Drained(s) \/ DrainTimeout(s)  PROVE ServerTypes'
  BY <1>9, CountsStay DEF Signal, Drained, DrainTimeout, Moves, Phases
<1>10. ASSUME NEW s \in Servers, Stopped(s)  PROVE ServerTypes'
  BY <1>10, CountsStay DEF Stopped, Moves, Phases
<1>11. ASSUME NEW s \in Servers, NEW connection \in Connections, Close(s, connection)
       PROVE  ServerTypes'
  BY <1>11, CountsStay DEF Close
<1>12. ASSUME NEW s \in Servers, Exit(s) \/ Crash(s)  PROVE ServerTypes'
  <2>1. /\ phase' = [phase EXCEPT ![s] = "down"] /\ inflight' = [inflight EXCEPT ![s] = "none"]
        /\ open' = open \/ open' = [open EXCEPT ![s] = {}]
        /\ late' = late \ {s} /\ begun' = begun /\ (Regular \/ Mishap)
    BY <1>12 DEF Exit, Crash, Moves, Forget
  <2>2. untold' = untold \/ untold' = untold \cup {IF s \in late THEN "late" ELSE "early"}
    BY <1>12 DEF Exit, Crash, Forget, Lose
  <2>3. "down" \in Phases /\ "none" \in Progress
    BY DEF Phases, Progress
  <2>4. untold' \subseteq {"early", "late"}
    BY <2>2
  <2>5. ends' \in 0 .. MaxEnds /\ mishaps' \in 0 .. MaxMishaps
    BY <2>1, CountsStay
  <2> QED
    BY <2>1, <2>3, <2>4, <2>5
<1>13. ASSUME NEW s \in Servers, DeadlinePasses(s)  PROVE ServerTypes'
  BY <1>13, CountsStay DEF DeadlinePasses
<1>14. CASE UNCHANGED vars
  BY <1>14 DEF vars
<1> HIDE DEF ServerTypes
<1> QED
  BY <1>1, <1>2, <1>3, <1>4, <1>5, <1>6, <1>7, <1>8, <1>9, <1>10, <1>11, <1>12, <1>13, <1>14
     DEF Next, Proceeds, Serving

------------------------------------------------------------------------------
(* The inductive invariant, and what follows from it                       *)

IInv == ServerTypes /\ ConsumerTypes /\ ClaimsAreSound

LEMMA IInvInit == Init => IInv
<1> SUFFICES ASSUME Init  PROVE IInv
  OBVIOUS
<1>1. ServerTypes
  BY ServerAssumption DEF Init, ServerTypes, Phases, Progress
<1>2. <<>> \in Seq(Contents) /\ Len(<<>>) = 0
  OBVIOUS
<1>3. NoClaim \in Claim
  BY <1>2, NoClaimIsSound
<1>4. ConsumerTypes
  BY <1>2, <1>3 DEF Init, InitConsumer, ConsumerTypes
<1>5. ClaimsAreSound
  <2>1. \A p : Sound(NoClaim, <<>>, {}, p)
    BY <1>2, NoClaimIsSound
  <2>2. \A p : Done(<<>>, {}, p, 0)
    BY <1>2 DEF Done
  <2> QED
    BY <2>1, <2>2 DEF Init, InitConsumer, ClaimsAreSound
<1> QED
  BY <1>1, <1>4, <1>5 DEF IInv

LEMMA IInvStep == IInv /\ [Next]_vars => IInv'
BY ServerStep, ConsumerStep DEF IInv

LEMMA IInvAlways == Spec => []IInv
BY IInvInit, IInvStep, PTL DEF Spec

\* Every reachable state of processes and consumers is well typed, and no
\* claim refers to a message beyond the log.
THEOREM TypeCorrect == Spec => []TypeOK
<1>1. IInv => TypeOK
  <2> SUFFICES ASSUME IInv  PROVE TypeOK
    OBVIOUS
  <2>1. \A s \in Servers, p \in Partitions :
          claim[s][p].hand <= Len(log[p]) /\ claim[s][p].marked <= Len(log[p])
    BY DEF IInv, ConsumerTypes, ClaimsAreSound, Sound, Done
  <2> QED
    BY <2>1 DEF IInv, ServerTypes, ConsumerTypes, TypeOK
<1> QED
  BY <1>1, IInvAlways, PTL

\* Offsets that are committed by ConsumeClaim's marks never pass a message
\* that no member has handled, and rest on an event that was handled.
THEOREM OffsetsFollowHandling == Spec => []MarksFollowHandling
<1>1. IInv => MarksFollowHandling
  <2> SUFFICES ASSUME IInv, NEW p \in Partitions
               PROVE  /\ committed[p] <= Len(log[p])
                      /\ {p} \X (1 .. committed[p]) \subseteq tried
                      /\ committed[p] > 0 => log[p][committed[p]] = "event"
    BY DEF MarksFollowHandling
  <2>1. Done(log[p], tried, p, committed[p]) /\ log[p] \in Seq(Contents) /\ committed[p] \in Nat
    BY DEF IInv, ClaimsAreSound, ConsumerTypes
  <2> QED
    BY <2>1 DEF Done
<1> QED
  BY <1>1, IInvAlways, PTL

------------------------------------------------------------------------------
(* The group delivers what AtLeastOnce says                                *)

Busy(progress) == {s \in Servers : progress[s] # "none"}

\* Every message in a log was counted when its request, or a foreign message,
\* began, or when the producer sent it again; so is the one a request may
\* still publish.
LogsAreCounted ==
  \A p \in Partitions : Len(log[p]) + Cardinality(Busy(inflight)) <= begun + mishaps

LEMMA BusyIs ==
  /\ IsFiniteSet(Busy(inflight)) /\ Cardinality(Busy(inflight)) \in Nat
  /\ IsFiniteSet(Busy(inflight')) /\ Cardinality(Busy(inflight')) \in Nat
<1>1. Busy(inflight) \subseteq Servers /\ Busy(inflight') \subseteq Servers
  BY DEF Busy
<1> QED
  BY <1>1, ConsumerAssumption, FS_Subset, FS_CardinalityType

LEMMA BusyLess ==
  ASSUME ServerTypes, NEW s \in Servers, inflight' = [inflight EXCEPT ![s] = "none"]
  PROVE  /\ Cardinality(Busy(inflight')) <= Cardinality(Busy(inflight))
         /\ inflight[s] # "none" => Cardinality(Busy(inflight')) + 1 = Cardinality(Busy(inflight))
<1>1. Busy(inflight') = Busy(inflight) \ {s}
  BY DEF Busy, ServerTypes
<1>2. CASE s \in Busy(inflight)
  <2>1. Cardinality(Busy(inflight')) = Cardinality(Busy(inflight)) - 1
    BY <1>1, <1>2, BusyIs, FS_RemoveElement
  <2> QED
    BY <2>1, BusyIs
<1>3. CASE s \notin Busy(inflight)
  <2>1. Busy(inflight') = Busy(inflight)
    BY <1>1, <1>3
  <2> QED
    BY <1>3, <2>1, BusyIs DEF Busy
<1> QED
  BY <1>2, <1>3

LEMMA BusySame ==
  ASSUME ServerTypes, NEW s \in Servers, inflight' = [inflight EXCEPT ![s] = "committed"],
         inflight[s] # "none"
  PROVE  Busy(inflight') = Busy(inflight)
BY DEF Busy, ServerTypes

LEMMA BusyMore ==
  ASSUME ServerTypes, NEW s \in Servers, inflight' = [inflight EXCEPT ![s] = "accepted"],
         inflight[s] = "none"
  PROVE  Cardinality(Busy(inflight')) = Cardinality(Busy(inflight)) + 1
<1>1. Busy(inflight') = Busy(inflight) \cup {s} /\ s \notin Busy(inflight)
  BY DEF Busy, ServerTypes
<1> QED
  BY <1>1, BusyIs, FS_AddElement

\* A message that is appended is one more in one log.
LEMMA StoreAdds ==
  ASSUME ConsumerTypes, NEW p \in Partitions, NEW content \in Contents, Store(p, content)
  PROVE  /\ \A q \in Partitions :
              /\ Len(log[q]) \in Nat
              /\ Len(log'[q]) = IF q = p THEN Len(log[p]) + 1 ELSE Len(log[q])
         /\ Stored' = Stored \cup {<<p, Len(log[p]) + 1>>}
         /\ tried' = tried
<1>1. log' = [log EXCEPT ![p] = Append(log[p], content)] /\ tried' = tried
  BY DEF Store
<1>2. log \in [Partitions -> Seq(Contents)]
  BY DEF ConsumerTypes
<1>3. Len(log[p]) \in Nat /\ Len(Append(log[p], content)) = Len(log[p]) + 1
  BY <1>2
<1>4. \A q \in Partitions :
        /\ Len(log[q]) \in Nat
        /\ Len(log'[q]) = IF q = p THEN Len(log[p]) + 1 ELSE Len(log[q])
  BY <1>1, <1>2, <1>3
<1>5. ASSUME NEW m
      PROVE  m \in Stored' <=> m \in Stored \cup {<<p, Len(log[p]) + 1>>}
  <2>1. m \in Stored' <=> \E q \in Partitions : \E i \in 1 .. Len(log'[q]) : m = <<q, i>>
    BY DEF Stored
  <2>2. m \in Stored <=> \E q \in Partitions : \E i \in 1 .. Len(log[q]) : m = <<q, i>>
    BY DEF Stored
  <2>3. \A q \in Partitions : \A i : i \in 1 .. Len(log'[q]) <=>
          i \in 1 .. Len(log[q]) \/ (q = p /\ i = Len(log[p]) + 1)
    BY <1>4
  <2> QED
    BY <2>1, <2>2, <2>3
<1> QED
  BY <1>1, <1>4, <1>5

LEMMA CountedStep ==
  ASSUME IInv, LogsAreCounted, [Next]_vars
  PROVE  LogsAreCounted'
<1> USE DEF IInv
<1>1. /\ begun \in Nat /\ mishaps \in Nat
      /\ \A p \in Partitions : Len(log[p]) \in Nat
      /\ Cardinality(Busy(inflight)) \in Nat
  BY BusyIs, ServerAssumption DEF ServerTypes, ConsumerTypes
\* What is counted grows by no more than the counts.
<1>2. ASSUME NEW more \in Nat, \A q \in Partitions : Len(log'[q]) \in Nat,
             \A q \in Partitions : Len(log'[q]) + Cardinality(Busy(inflight')) <=
                                     Len(log[q]) + Cardinality(Busy(inflight)) + more,
             begun' \in Nat, mishaps' \in Nat, begun + mishaps + more <= begun' + mishaps'
      PROVE  LogsAreCounted'
  <2>1. Cardinality(Busy(inflight')) \in Nat
    BY BusyIs
  <2>2. ASSUME NEW q \in Partitions
        PROVE  Len(log'[q]) + Cardinality(Busy(inflight')) <= begun' + mishaps'
    <3>1. Len(log[q]) + Cardinality(Busy(inflight)) <= begun + mishaps
      BY DEF LogsAreCounted
    <3>2. /\ Len(log'[q]) + Cardinality(Busy(inflight')) <=
               Len(log[q]) + Cardinality(Busy(inflight)) + more
          /\ Len(log[q]) \in Nat /\ Len(log'[q]) \in Nat
      BY <1>1, <1>2
    <3>3. begun + mishaps + more <= begun' + mishaps' /\ begun' \in Nat /\ mishaps' \in Nat
      BY <1>2
    <3> DEFINE a == Len(log'[q])
               b == Cardinality(Busy(inflight'))
               c == Len(log[q])
               d == Cardinality(Busy(inflight))
               i == begun + mishaps
               j == begun' + mishaps'
    <3>4. a \in Nat /\ b \in Nat /\ c \in Nat /\ d \in Nat
      BY <1>1, <2>1, <3>2
    <3>7. i \in Nat /\ j \in Nat
      <4>1. begun \in Nat /\ mishaps \in Nat /\ begun' \in Nat /\ mishaps' \in Nat
        BY <1>1, <3>3
      <4> HIDE DEF IInv
      <4>2. i \in Nat
        BY <4>1
      <4>3. \A x, y \in Nat : x + y \in Nat
        OBVIOUS
      <4>4. begun' + mishaps' \in Nat
        BY <4>1, <4>3
      <4> QED
        BY <4>2, <4>4, Zenon
    <3>5. a + b <= c + d + more /\ c + d <= i /\ i + more <= j
      BY <3>1, <3>2, <3>3
    <3> HIDE DEF IInv, a, b, c, d, i, j
    <3>6. a + b <= j
      BY <3>4, <3>5, <3>7
    <3> QED
      BY <3>6 DEF a, b, j
  <2> QED
    BY <2>2 DEF LogsAreCounted
<1>15. ASSUME UNCHANGED <<log, inflight>>, UNCHANGED begun, mishaps' = mishaps \/ mishaps' = mishaps + 1
      PROVE  LogsAreCounted'
  <2>1. Busy(inflight') = Busy(inflight)
    BY <1>15 DEF Busy
  <2>2. \A q \in Partitions : Len(log'[q]) \in Nat /\ Len(log'[q]) = Len(log[q])
    BY <1>1, <1>15
  <2>3. begun' \in Nat /\ mishaps' \in Nat /\ begun + mishaps + 0 <= begun' + mishaps'
    BY <1>1, <1>15
  <2> HIDE DEF IInv
  <2>8. \A q \in Partitions : Len(log'[q]) + Cardinality(Busy(inflight')) <=
                                Len(log[q]) + Cardinality(Busy(inflight)) + 0
    BY <1>1, <2>1, <2>2
  <2>9. begun' \in Nat /\ mishaps' \in Nat /\ begun + mishaps + 0 <= begun' + mishaps'
    BY <2>3
  <2> QED
    BY <1>2, <2>2, <2>8, <2>9
<1>3. ASSUME UNCHANGED <<log, begun>>, NEW s \in Servers,
             inflight' = [inflight EXCEPT ![s] = "none"], mishaps' = mishaps \/ mishaps' = mishaps + 1
      PROVE  LogsAreCounted'
  <2>1. Cardinality(Busy(inflight')) <= Cardinality(Busy(inflight))
    BY <1>3, BusyLess
  <2>2. \A q \in Partitions : Len(log'[q]) \in Nat /\ Len(log'[q]) = Len(log[q])
    BY <1>1, <1>3
  <2>3. begun' \in Nat /\ mishaps' \in Nat /\ begun + mishaps + 0 <= begun' + mishaps'
    BY <1>1, <1>3
  <2> HIDE DEF IInv
  <2>8. \A q \in Partitions : Len(log'[q]) + Cardinality(Busy(inflight')) <=
                                Len(log[q]) + Cardinality(Busy(inflight)) + 0
    BY <1>1, <2>1, <2>2, BusyIs
  <2>9. begun' \in Nat /\ mishaps' \in Nat /\ begun + mishaps + 0 <= begun' + mishaps'
    BY <2>3
  <2> QED
    BY <1>2, <2>2, <2>8, <2>9
<1>4. ASSUME NEW s \in Servers, Accept(s)  PROVE LogsAreCounted'
  <2>1. /\ inflight[s] = "none" /\ inflight' = [inflight EXCEPT ![s] = "accepted"]
        /\ begun' = begun + 1 /\ UNCHANGED <<log, mishaps>>
    BY <1>4 DEF Accept, Serves, Regular, consumerVars
  <2>2. Cardinality(Busy(inflight')) = Cardinality(Busy(inflight)) + 1
    BY <2>1, BusyMore
  <2>3. \A q \in Partitions : Len(log'[q]) \in Nat
    BY <1>1, <2>1
  <2> HIDE DEF IInv
  <2>8. \A q \in Partitions : Len(log'[q]) + Cardinality(Busy(inflight')) <=
                                Len(log[q]) + Cardinality(Busy(inflight)) + 1
    BY <1>1, <2>1, <2>2
  <2>9. begun' \in Nat /\ mishaps' \in Nat /\ begun + mishaps + 1 <= begun' + mishaps'
    BY <1>1, <2>1
  <2> QED
    BY <1>2, <2>3, <2>8, <2>9
<1>5. ASSUME NEW s \in Servers, Commit(s)  PROVE LogsAreCounted'
  <2>1. /\ inflight[s] = "accepted" /\ inflight' = [inflight EXCEPT ![s] = "committed"]
        /\ UNCHANGED <<log, begun, mishaps>>
    BY <1>5 DEF Commit, Serves, Regular, consumerVars
  <2>2. Busy(inflight') = Busy(inflight)
    BY <2>1, BusySame
  <2> HIDE DEF IInv
  <2>8. \A q \in Partitions : Len(log'[q]) + Cardinality(Busy(inflight')) <=
                                Len(log[q]) + Cardinality(Busy(inflight)) + 0
    BY <1>1, <2>1, <2>2
  <2>9. begun' \in Nat /\ mishaps' \in Nat /\ begun + mishaps + 0 <= begun' + mishaps'
    BY <1>1, <2>1
  <2>10. \A q \in Partitions : Len(log'[q]) \in Nat
    BY <1>1, <2>1
  <2> QED
    BY <1>2, <2>8, <2>9, <2>10
<1>6. ASSUME NEW s \in Servers, NEW p \in Partitions, Publish(s, p)  PROVE LogsAreCounted'
  <2>1. /\ inflight[s] = "committed" /\ inflight' = [inflight EXCEPT ![s] = "none"]
        /\ Store(p, "event") /\ UNCHANGED <<begun, mishaps>>
    BY <1>6 DEF Publish, Serves, Regular
  <2>2. \A q \in Partitions : Len(log'[q]) \in Nat /\ Len(log'[q]) <= Len(log[q]) + 1
    BY <1>1, <2>1, StoreAdds DEF Contents
  <2>3. Cardinality(Busy(inflight')) + 1 = Cardinality(Busy(inflight))
    BY <2>1, BusyLess
  <2> HIDE DEF IInv
  <2>8. \A q \in Partitions : Len(log'[q]) + Cardinality(Busy(inflight')) <=
                                Len(log[q]) + Cardinality(Busy(inflight)) + 0
    BY <1>1, <2>2, <2>3, BusyIs
  <2>9. begun' \in Nat /\ mishaps' \in Nat /\ begun + mishaps + 0 <= begun' + mishaps'
    BY <1>1, <2>1
  <2> QED
    BY <1>2, <2>2, <2>8, <2>9
<1>7. ASSUME NEW s \in Servers, NEW p \in Partitions, PublishUnacknowledged(s, p)
      PROVE  LogsAreCounted'
  <2>1. Store(p, "event") /\ mishaps' = mishaps + 1 /\ UNCHANGED <<inflight, begun>>
    BY <1>7 DEF PublishUnacknowledged, Mishap
  <2>2. \A q \in Partitions : Len(log'[q]) \in Nat /\ Len(log'[q]) <= Len(log[q]) + 1
    BY <1>1, <2>1, StoreAdds DEF Contents
  <2>3. Busy(inflight') = Busy(inflight)
    BY <2>1 DEF Busy
  <2> HIDE DEF IInv
  <2>8. \A q \in Partitions : Len(log'[q]) + Cardinality(Busy(inflight')) <=
                                Len(log[q]) + Cardinality(Busy(inflight)) + 1
    BY <1>1, <2>2, <2>3
  <2>9. begun' \in Nat /\ mishaps' \in Nat /\ begun + mishaps + 1 <= begun' + mishaps'
    BY <1>1, <2>1
  <2> QED
    BY <1>2, <2>2, <2>8, <2>9
<1>8. ASSUME NEW p \in Partitions, ForeignMessage(p)  PROVE LogsAreCounted'
  <2>1. Store(p, "malformed") /\ begun' = begun + 1 /\ UNCHANGED <<inflight, mishaps>>
    BY <1>8 DEF ForeignMessage, Regular
  <2>2. \A q \in Partitions : Len(log'[q]) \in Nat /\ Len(log'[q]) <= Len(log[q]) + 1
    BY <1>1, <2>1, StoreAdds DEF Contents
  <2>3. Busy(inflight') = Busy(inflight)
    BY <2>1 DEF Busy
  <2> HIDE DEF IInv
  <2>8. \A q \in Partitions : Len(log'[q]) + Cardinality(Busy(inflight')) <=
                                Len(log[q]) + Cardinality(Busy(inflight)) + 1
    BY <1>1, <2>2, <2>3
  <2>9. begun' \in Nat /\ mishaps' \in Nat /\ begun + mishaps + 1 <= begun' + mishaps'
    BY <1>1, <2>1
  <2> QED
    BY <1>2, <2>2, <2>8, <2>9
<1>9. ASSUME NEW s \in Servers, Refuse(s) \/ PublishFails(s)  PROVE LogsAreCounted'
  <2>1. /\ inflight' = [inflight EXCEPT ![s] = "none"] /\ UNCHANGED <<log, begun>>
        /\ (mishaps' = mishaps \/ mishaps' = mishaps + 1)
    BY <1>9 DEF Refuse, PublishFails, Serves, Regular, Mishap, consumerVars
  <2> QED
    BY <1>3, <2>1
<1>10. ASSUME NEW s \in Servers, Exit(s) \/ Crash(s)  PROVE LogsAreCounted'
  <2>1. /\ inflight' = [inflight EXCEPT ![s] = "none"] /\ UNCHANGED <<log, begun>>
        /\ (mishaps' = mishaps \/ mishaps' = mishaps + 1)
    BY <1>10 DEF Exit, Crash, Forget, DropClaims, Regular, Mishap, consumerVars
  <2> QED
    BY <1>3, <2>1
<1>11. ASSUME NEW s \in Servers,
              \/ Start(s) \/ Stopped(s) \/ Drained(s) \/ DrainTimeout(s) \/ Signal(s)
              \/ ConnectFails(s) \/ DeadlinePasses(s)
              \/ \E connection \in Connections : Connect(s, connection) \/ Close(s, connection)
       PROVE  LogsAreCounted'
  <2>1. UNCHANGED <<log, inflight, begun>> /\ (mishaps' = mishaps \/ mishaps' = mishaps + 1)
    BY <1>11 DEF Start, Stopped, Drained, DrainTimeout, Signal, ConnectFails, DeadlinePasses,
                 Connect, Close, Regular, Mishap, OrderlyEnd, consumerVars
  <2> QED
    BY <1>15, <2>1
<1>12. ASSUME NEW s \in Servers, NEW p \in Partitions,
              \/ Consuming(s, p) \/ Join(s, p) \/ CommitOffsets(s, p)
              \/ Rebalance(s, p) \/ TimeoutAlive(s, p)
       PROVE  LogsAreCounted'
  <2>1. UNCHANGED <<log, inflight, begun>> /\ (mishaps' = mishaps \/ mishaps' = mishaps + 1)
    BY <1>12 DEF Consuming, TakeMessage, HandleMessage, Leave, Join, CommitOffsets, Rebalance,
                 TimeoutAlive, Take, Handle, EndSession, Grant, AutoCommit, Evict,
                 Regular, Mishap, OrderlyEnd
  <2> QED
    BY <1>15, <2>1
<1>13. CASE UNCHANGED vars
  BY <1>15, <1>13 DEF vars, consumerVars
<1>14. ASSUME NEW p \in Partitions, Timeout(p)  PROVE LogsAreCounted'
  <2>1. UNCHANGED <<log, inflight, begun, mishaps>>
    BY <1>14 DEF Timeout, Evict, Regular
  <2> QED
    BY <1>15, <2>1
<1> QED
  BY <1>4, <1>5, <1>6, <1>7, <1>8, <1>9, <1>10, <1>11, <1>12, <1>13, <1>14
     DEF Next, Proceeds, Serving

LEMMA CountedInit == Init => LogsAreCounted
<1> SUFFICES ASSUME Init  PROVE LogsAreCounted
  OBVIOUS
<1>1. Busy(inflight) = {}
  BY DEF Busy, Init
<1>2. Cardinality(Busy(inflight)) = 0
  BY <1>1, FS_EmptySet
<1> QED
  BY <1>2 DEF Init, InitConsumer, LogsAreCounted

LEMMA CountedAlways == Spec => []LogsAreCounted
BY CountedInit, CountedStep, IInvAlways, PTL DEF Spec

\* Every step sends a message, hands one to a handler, or is neither.
LEMMA GroupStep ==
  ASSUME IInv, IInv', LogsAreCounted', [Next]_vars
  PROVE  [Group!Next]_<<Stored, tried>>
<1>1. ASSUME NEW p \in Partitions, NEW content \in Contents, Store(p, content)
      PROVE  Group!Next
  <2> DEFINE m == <<p, Len(log[p]) + 1>>
  <2>1. Len(log[p]) \in Nat /\ Len(log'[p]) = Len(log[p]) + 1 /\ Stored' = Stored \cup {m}
        /\ tried' = tried
    BY <1>1, StoreAdds DEF IInv
  <2>2. m \notin Stored
    BY <2>1, StoredIs
  <2>3. m \in Partitions \X (1 .. MaxMessages + MaxMishaps)
    <3>1. Len(log'[p]) + Cardinality(Busy(inflight')) <= begun' + mishaps'
      BY DEF LogsAreCounted
    <3>2. Cardinality(Busy(inflight')) \in Nat
      BY BusyIs
    <3>3. begun' \in 0 .. MaxMessages /\ mishaps' \in 0 .. MaxMishaps
      BY DEF IInv, ServerTypes
    <3>4. Len(log[p]) + 1 <= MaxMessages + MaxMishaps
      BY <2>1, <3>1, <3>2, <3>3, ServerAssumption
    <3>5. Len(log[p]) + 1 \in 1 .. MaxMessages + MaxMishaps
      BY <2>1, <3>4, ServerAssumption
    <3> QED
      BY <3>5
  <2>4. Group!Send(m)
    BY <2>1, <2>2 DEF Group!Send
  <2> QED
    BY <2>3, <2>4 DEF Group!Next
<1>2. ASSUME NEW s \in Servers, NEW p \in Partitions, Handle(s, p)
      PROVE  Group!Next
  <2> DEFINE m == <<p, claim[s][p].hand>>
  <2>1. tried' = tried \cup {m} /\ log' = log
    BY <1>2 DEF Handle
  <2>2. m \in Stored /\ Stored' = Stored
    <3>1. tried' \subseteq Stored'
      BY DEF IInv, ConsumerTypes
    <3>2. Stored' = Stored
      BY <2>1 DEF Stored
    <3> QED
      BY <2>1, <3>1, <3>2
  <2>3. claim[s][p].hand \in 1 .. MaxMessages + MaxMishaps
    <3>1. claim[s][p].hand \in 1 .. Len(log[p]) /\ Len(log[p]) \in Nat
      BY <2>2, StoredIs DEF IInv, ConsumerTypes
    <3>2. Len(log[p]) + Cardinality(Busy(inflight')) <= begun' + mishaps'
      BY <2>1 DEF LogsAreCounted
    <3>3. Cardinality(Busy(inflight')) \in Nat
      BY BusyIs
    <3>4. begun' \in 0 .. MaxMessages /\ mishaps' \in 0 .. MaxMishaps
      BY DEF IInv, ServerTypes
    <3>5. Len(log[p]) <= MaxMessages + MaxMishaps
      BY <3>1, <3>2, <3>3, <3>4, ServerAssumption
    <3> QED
      BY <3>1, <3>5, ServerAssumption
  <2>4. Group!Handle(m)
    BY <2>1, <2>2 DEF Group!Handle
  <2> QED
    BY <2>3, <2>4 DEF Group!Next
<1>3. ASSUME UNCHANGED <<log, tried>>  PROVE UNCHANGED <<Stored, tried>>
  BY <1>3 DEF Stored
<1>4. ASSUME NEW s \in Servers, NEW p \in Partitions,
             Grant(s, p) \/ Take(s, p) \/ AutoCommit(s, p) \/ EndSession(s, p)
      PROVE  UNCHANGED <<log, tried>>
  BY <1>4 DEF Grant, Take, AutoCommit, EndSession
<1>5. ASSUME NEW p \in Partitions, Evict(p)  PROVE UNCHANGED <<log, tried>>
  BY <1>5 DEF Evict
<1>6. ASSUME NEW s \in Servers, DropClaims(s)  PROVE UNCHANGED <<log, tried>>
  BY <1>6 DEF DropClaims
<1>7. CASE UNCHANGED consumerVars
  BY <1>3, <1>7 DEF consumerVars
<1> QED
  BY <1>1, <1>2, <1>3, <1>4, <1>5, <1>6, <1>7, ConsumerSteps

\* The safety part of DeliversAtLeastOnce: nothing is handed to a handler
\* that the broker has not stored, each message is stored once at its offset,
\* and what was handled stays handled, whoever crashes.
THEOREM GroupDelivers == Spec => Group!Spec
<1>1. Init => Group!Init
  <2> SUFFICES ASSUME Init  PROVE Stored = {} /\ tried = {}
    BY DEF Group!Init
  <2>1. \A p \in Partitions : 1 .. Len(log[p]) = {}
    BY DEF Init, InitConsumer
  <2> QED
    BY <2>1 DEF Init, InitConsumer, Stored
<1> QED
  BY <1>1, IInvAlways, CountedAlways, GroupStep, PTL DEF Spec, Group!Spec

------------------------------------------------------------------------------
(* A stop without mishaps is clean                                         *)

\* What is open, and what is served, in each phase.
Prefixes == {{}, {"db"}, {"db", "redis"}, {"db", "redis", "producer"}}

PhasesAgree ==
  \A s \in Servers :
    /\ phase[s] = "down" => open[s] = {}
    /\ phase[s] = "building" => open[s] \in Prefixes
    /\ phase[s] \in {"down", "building"} => inflight[s] = "none"
    /\ phase[s] \in {"up", "stopping", "draining"} => "producer" \in open[s]

\* Without a mishap, no event is lost before the deadline, because only requests
\* that the deadline has cut off outlive the server's drain.
NothingUntold ==
  /\ untold \subseteq {"late"}
  /\ \A s \in Servers : phase[s] = "closing" /\ inflight[s] # "none" => s \in late

\* Without a mishap, only the owner of a partition has a claim on it, and no
\* event beyond the mark of the owner, or the committed offset, was tried.
LastMark(p) == IF owner[p] = Null THEN committed[p] ELSE claim[owner[p]][p].marked

NothingAgain ==
  /\ again = {}
  /\ \A s \in Servers, p \in Partitions : claim[s][p].on <=> owner[p] = s
  /\ \A p \in Partitions : \A i \in 1 .. Len(log[p]) :
       <<p, i>> \in tried /\ log[p][i] = "event" => i <= LastMark(p)

Clean == mishaps = 0 => NothingUntold /\ NothingAgain

\* PhasesAgree, of one process.
Fits(at, connections, progress) ==
  /\ at = "down" => connections = {}
  /\ at = "building" => connections \in Prefixes
  /\ at \in {"down", "building"} => progress = "none"
  /\ at \in {"up", "stopping", "draining"} => "producer" \in connections

LEMMA PhasesStep ==
  ASSUME ServerTypes, PhasesAgree, [Next]_vars
  PROVE  PhasesAgree'
<1> USE DEF ServerTypes
<1>1. \A s \in Servers : Fits(phase[s], open[s], inflight[s])
  BY DEF PhasesAgree, Fits
\* One process changes, or none.
<1>2. ASSUME NEW s \in Servers, Fits(phase'[s], open'[s], inflight'[s]),
             \A t \in Servers \ {s} : /\ phase'[t] = phase[t] /\ open'[t] = open[t]
                                      /\ inflight'[t] = inflight[t]
      PROVE  PhasesAgree'
  BY <1>1, <1>2 DEF PhasesAgree, Fits
<1>3. ASSUME UNCHANGED <<phase, open, inflight>>  PROVE PhasesAgree'
  BY <1>3 DEF PhasesAgree
<1>4. ASSUME NEW s \in Servers,
             Start(s) \/ Signal(s) \/ Drained(s) \/ DrainTimeout(s)
      PROVE  PhasesAgree'
  <2>1. /\ UNCHANGED <<open, inflight>>
        /\ \E from, to \in Phases :
             /\ phase[s] = from /\ phase' = [phase EXCEPT ![s] = to]
             /\ <<from, to>> \in {<<"down", "building">>, <<"up", "stopping">>,
                                  <<"draining", "closing">>}
    BY <1>4 DEF Start, Signal, Drained, DrainTimeout, Moves, Phases
  <2>2. PICK from \in Phases, to \in Phases :
          /\ phase[s] = from /\ phase' = [phase EXCEPT ![s] = to]
          /\ <<from, to>> \in {<<"down", "building">>, <<"up", "stopping">>,
                               <<"draining", "closing">>}
    BY <2>1
  <2>3. Fits(to, open[s], inflight[s])
    BY <1>1, <2>2 DEF Fits, Prefixes, Phases
  <2> QED
    BY <1>2, <2>1, <2>2, <2>3
<1>5. ASSUME NEW s \in Servers, NEW connection \in Connections, Connect(s, connection)
      PROVE  PhasesAgree'
  <2>1. /\ phase[s] = "building" /\ open' = [open EXCEPT ![s] = open[s] \cup {connection}]
        /\ phase' = [phase EXCEPT ![s] = IF connection = "consumer" THEN "up" ELSE phase[s]]
        /\ UNCHANGED inflight
        /\ connection = CASE open[s] = {} -> "db"
                          [] open[s] = {"db"} -> "redis"
                          [] open[s] = {"db", "redis"} -> "producer"
                          [] OTHER -> "consumer"
    BY <1>5 DEF Connect
  <2>2. open[s] \in Prefixes /\ inflight[s] = "none"
    BY <1>1, <2>1 DEF Fits
  <2>3. Fits(IF connection = "consumer" THEN "up" ELSE "building",
             open[s] \cup {connection}, inflight[s])
    <3>1. CASE open[s] = {}
      BY <2>1, <2>2, <3>1 DEF Fits, Prefixes
    <3>2. CASE open[s] = {"db"}
      BY <2>1, <2>2, <3>2 DEF Fits, Prefixes
    <3>3. CASE open[s] = {"db", "redis"}
      BY <2>1, <2>2, <3>3 DEF Fits, Prefixes
    <3>4. CASE open[s] = {"db", "redis", "producer"}
      BY <2>1, <2>2, <3>4 DEF Fits, Prefixes
    <3> QED
      BY <2>2, <3>1, <3>2, <3>3, <3>4 DEF Prefixes
  <2>4. /\ phase'[s] = IF connection = "consumer" THEN "up" ELSE "building"
        /\ open'[s] = open[s] \cup {connection} /\ inflight'[s] = inflight[s]
        /\ \A t \in Servers \ {s} : /\ phase'[t] = phase[t] /\ open'[t] = open[t]
                                    /\ inflight'[t] = inflight[t]
    BY <2>1
  <2> HIDE DEF ServerTypes
  <2>5. Fits(phase'[s], open'[s], inflight'[s])
    BY <2>3, <2>4, Zenon
  <2> QED
    BY <1>2, <2>4, <2>5, Zenon
<1>6. ASSUME NEW s \in Servers, ConnectFails(s)  PROVE PhasesAgree'
  <2>1. /\ phase[s] = "building" /\ phase' = [phase EXCEPT ![s] = "down"]
        /\ open' = [open EXCEPT ![s] = {}] /\ UNCHANGED inflight
    BY <1>6 DEF ConnectFails, Moves
  <2>2. Fits("down", {}, inflight[s])
    BY <1>1, <2>1 DEF Fits
  <2> QED
    BY <1>2, <2>1, <2>2
<1>7. ASSUME NEW s \in Servers, Exit(s) \/ Crash(s)  PROVE PhasesAgree'
  <2>1. /\ phase' = [phase EXCEPT ![s] = "down"] /\ inflight' = [inflight EXCEPT ![s] = "none"]
        /\ open'[s] = {} /\ \A t \in Servers \ {s} : open'[t] = open[t]
    BY <1>7 DEF Exit, Crash, Moves, Forget
  <2>2. Fits("down", {}, "none")
    BY DEF Fits
  <2> QED
    BY <1>2, <2>1, <2>2
<1>8. ASSUME NEW s \in Servers, Stopped(s)  PROVE PhasesAgree'
  <2>1. /\ phase[s] = "stopping" /\ phase' = [phase EXCEPT ![s] = "draining"]
        /\ open' = [open EXCEPT ![s] = open[s] \ {"consumer"}] /\ UNCHANGED inflight
    BY <1>8 DEF Stopped, Moves
  <2>2. Fits("draining", open[s] \ {"consumer"}, inflight[s])
    BY <1>1, <2>1 DEF Fits
  <2> QED
    BY <1>2, <2>1, <2>2
<1>9. ASSUME NEW s \in Servers, NEW connection \in Connections, Close(s, connection)
      PROVE  PhasesAgree'
  <2>1. /\ phase[s] = "closing" /\ UNCHANGED <<phase, inflight>>
        /\ open' = [open EXCEPT ![s] = open[s] \ {connection}]
    BY <1>9 DEF Close
  <2>2. Fits("closing", open[s] \ {connection}, inflight[s])
    BY DEF Fits
  <2> QED
    BY <1>2, <2>1, <2>2
\* Requests are accepted by a process that is up or stopping, and go on in one
\* whose request is accepted or committed.
<1>10. ASSUME NEW s \in Servers,
              \/ Accept(s) \/ Refuse(s) \/ Commit(s) \/ PublishFails(s)
              \/ \E p \in Partitions : Publish(s, p)
       PROVE  PhasesAgree'
  <2>1. /\ UNCHANGED <<phase, open>>
        /\ \E to \in Progress : inflight' = [inflight EXCEPT ![s] = to]
        /\ phase[s] \in {"up", "stopping"} \/ inflight[s] # "none"
    BY <1>10 DEF Accept, Refuse, Commit, PublishFails, Publish, Serves, Progress
  <2>2. PICK to \in Progress : inflight' = [inflight EXCEPT ![s] = to]
    BY <2>1
  <2>3. Fits(phase[s], open[s], to)
    BY <1>1, <2>1 DEF Fits
  <2> QED
    BY <1>2, <2>1, <2>2, <2>3
<1>11. ASSUME NEW s \in Servers, NEW p \in Partitions,
              \/ Consuming(s, p) \/ Join(s, p) \/ CommitOffsets(s, p)
              \/ Rebalance(s, p) \/ TimeoutAlive(s, p) \/ PublishUnacknowledged(s, p)
       PROVE  PhasesAgree'
  BY <1>3, <1>11 DEF Consuming, TakeMessage, HandleMessage, Leave, Join, CommitOffsets,
                     Rebalance, TimeoutAlive, PublishUnacknowledged
<1>12. ASSUME NEW p \in Partitions, ForeignMessage(p) \/ Timeout(p)  PROVE PhasesAgree'
  BY <1>3, <1>12 DEF ForeignMessage, Timeout
<1>13. ASSUME NEW s \in Servers, DeadlinePasses(s)  PROVE PhasesAgree'
  BY <1>3, <1>13 DEF DeadlinePasses
<1>14. CASE UNCHANGED vars
  BY <1>3, <1>14 DEF vars
<1> QED
  BY <1>4, <1>5, <1>6, <1>7, <1>8, <1>9, <1>10, <1>11, <1>12, <1>13, <1>14
     DEF Next, Proceeds, Serving

LEMMA MishapsGrow ==
  ASSUME ServerTypes, [Next]_vars, mishaps' = 0
  PROVE  mishaps = 0 /\ ~Mishap
<1>1. mishaps \in Nat
  BY ServerAssumption DEF ServerTypes
<1>2. ~Mishap
  BY <1>1 DEF Mishap
<1>3. mishaps' = mishaps
  BY <1>2
     DEF Next, vars, Proceeds, Serving, Consuming, Start, Connect, ConnectFails, Accept, Refuse,
         Commit, Publish, PublishUnacknowledged, PublishFails, ForeignMessage, Join, TakeMessage,
         HandleMessage, CommitOffsets, Rebalance, Leave, Timeout, TimeoutAlive, Signal, Stopped,
         Drained, DrainTimeout, DeadlinePasses, Close, Exit, Crash, Regular, OrderlyEnd
<1> QED
  BY <1>2, <1>3

LEMMA UntoldStep ==
  ASSUME ServerTypes, PhasesAgree, NothingUntold, [Next]_vars, ~Mishap
  PROVE  NothingUntold'
<1> USE DEF ServerTypes
<1>1. ASSUME NEW s \in Servers, NEW p \in Partitions,
             \/ Consuming(s, p) \/ Join(s, p) \/ CommitOffsets(s, p)
             \/ Rebalance(s, p)
      PROVE  NothingUntold'
  BY <1>1 DEF NothingUntold, Consuming, TakeMessage, HandleMessage, Leave, Join, CommitOffsets,
              Rebalance
<1>2. ASSUME NEW p \in Partitions, ForeignMessage(p) \/ Timeout(p)  PROVE NothingUntold'
  BY <1>2 DEF NothingUntold, ForeignMessage, Timeout
\* Shutdown returns without a request, or when the deadline has passed.
<1>3. ASSUME NEW s \in Servers, Start(s) \/ Signal(s) \/ Drained(s) \/ DrainTimeout(s)
      PROVE  NothingUntold'
  <2>1. /\ UNCHANGED <<untold, inflight, late>>
        /\ \A t \in Servers \ {s} : phase'[t] = phase[t]
        /\ phase'[s] = "closing" => inflight[s] = "none" \/ s \in late
    BY <1>3 DEF Start, Signal, Drained, DrainTimeout, Moves
  <2> QED
    BY <2>1 DEF NothingUntold
<1>4. ASSUME NEW s \in Servers, NEW connection \in Connections,
             Connect(s, connection) \/ Close(s, connection)
      PROVE  NothingUntold'
  BY <1>4 DEF NothingUntold, Connect, Close
<1>5. ASSUME NEW s \in Servers,
             Accept(s) \/ Refuse(s) \/ Commit(s) \/ \E p \in Partitions : Publish(s, p)
      PROVE  NothingUntold'
  <2>1. /\ UNCHANGED <<untold, phase, late>>
        /\ \A t \in Servers \ {s} : inflight'[t] = inflight[t]
        /\ phase[s] = "closing" => inflight[s] # "none"
    BY <1>5 DEF Accept, Refuse, Commit, Publish, Serves
  <2> QED
    BY <2>1 DEF NothingUntold
\* Who cannot publish any more has closed the producer under its request: the
\* deadline has passed.
<1>6. ASSUME NEW s \in Servers, PublishFails(s)  PROVE NothingUntold'
  <2>1. /\ "producer" \notin open[s] /\ inflight[s] = "committed"
        /\ inflight' = [inflight EXCEPT ![s] = "none"] /\ UNCHANGED <<phase, late>>
    BY <1>6 DEF PublishFails, Serves
  <2>2. phase[s] = "closing"
    BY <2>1 DEF PhasesAgree, Phases
  <2>3. s \in late
    BY <2>1, <2>2 DEF NothingUntold
  <2>4. untold' = untold \cup {"late"}
    BY <1>6, <2>3 DEF PublishFails, Lose
  <2> QED
    BY <2>1, <2>4 DEF NothingUntold
<1>7. ASSUME NEW s \in Servers, Exit(s)  PROVE NothingUntold'
  <2>1. /\ phase[s] = "closing" /\ phase' = [phase EXCEPT ![s] = "down"]
        /\ inflight' = [inflight EXCEPT ![s] = "none"] /\ late' = late \ {s}
        /\ inflight[s] # "committed" => untold' = untold
    BY <1>7 DEF Exit, Moves, Forget
  <2>2. inflight[s] = "committed" => untold' = untold \cup {"late"}
    BY <1>7, <2>1 DEF NothingUntold, Exit, Forget, Lose
  <2> QED
    BY <2>1, <2>2 DEF NothingUntold
<1>8. ASSUME NEW s \in Servers, Stopped(s) \/ DeadlinePasses(s)  PROVE NothingUntold'
  <2>1. /\ UNCHANGED <<untold, inflight>> /\ late \subseteq late'
        /\ \A t \in Servers : phase'[t] = "closing" => phase[t] = "closing"
    BY <1>8 DEF Stopped, DeadlinePasses, Moves
  <2> QED
    BY <2>1 DEF NothingUntold
<1>9. CASE UNCHANGED vars
  BY <1>9 DEF NothingUntold, vars
<1>10. ASSUME NEW s \in Servers, NEW p \in Partitions
       PROVE  ~TimeoutAlive(s, p) /\ ~PublishUnacknowledged(s, p)
  BY DEF TimeoutAlive, PublishUnacknowledged
<1>11. ASSUME NEW s \in Servers  PROVE ~ConnectFails(s) /\ ~Crash(s)
  BY DEF ConnectFails, Crash
<1> QED
  BY <1>1, <1>2, <1>3, <1>4, <1>5, <1>6, <1>7, <1>8, <1>9, <1>10, <1>11
     DEF Next, Proceeds, Serving

\* What a step that is no mishap does to the consumers.
LEMMA RegularSteps ==
  ASSUME [Next]_vars, ~Mishap
  PROVE  \/ UNCHANGED consumerVars
         \/ \E p \in Partitions, content \in Contents : Store(p, content)
         \/ \E s \in Servers, p \in Partitions :
              \/ Grant(s, p)
              \/ Take(s, p)
              \/ Handle(s, p)
              \/ AutoCommit(s, p)
              \/ EndSession(s, p)
         \/ \E p \in Partitions : Timeout(p)
<1>1. "event" \in Contents /\ "malformed" \in Contents
  BY DEF Contents
<1> QED
  BY <1>1
     DEF Next, vars, Proceeds, Serving, Consuming, Start, Connect, ConnectFails, Accept, Refuse,
         Commit, Publish, PublishUnacknowledged, PublishFails, ForeignMessage, Join, TakeMessage,
         HandleMessage, CommitOffsets, Rebalance, Leave, TimeoutAlive, Signal, Stopped,
         Drained, DrainTimeout, DeadlinePasses, Close, Exit, Crash

LEMMA AgainStep ==
  ASSUME ConsumerTypes, ClaimsAreSound, NothingAgain, [Next]_vars, ~Mishap
  PROVE  NothingAgain'
<1>1. /\ \A s \in Servers, p \in Partitions :
           /\ claim[s][p] \in Claim /\ claim[s][p].hand \in Nat /\ claim[s][p].marked \in Nat
           /\ Sound(claim[s][p], log[p], tried, p)
           /\ claim[s][p].on => owner[p] = s
           /\ owner[p] = s => claim[s][p].on
           /\ s # Null
      /\ \A p \in Partitions :
           /\ log[p] \in Seq(Contents) /\ Len(log[p]) \in Nat
           /\ owner[p] \in Servers \cup {Null} /\ committed[p] \in Nat
           /\ \A i \in 1 .. Len(log[p]) : <<p, i>> \in tried /\ log[p][i] = "event" => i <= LastMark(p)
  BY ConsumerAssumption DEF ConsumerTypes, ClaimsAreSound, NothingAgain, Claim
\* A step with one claim, of a partition whose only possible owner is s.
<1>2. ASSUME NEW s \in Servers, NEW p \in Partitions, NEW new \in Claim,
             claim' = [claim EXCEPT ![s][p] = new], log' = log, again' = again,
             owner[p] \in {s, Null}, NEW after \in {s, Null},
             owner' = [owner EXCEPT ![p] = after], new.on => after = s, after = s => new.on,
             \A q \in Partitions \ {p} : committed'[q] = committed[q],
             \A q \in Partitions \ {p} : \A i : <<q, i>> \in tried' => <<q, i>> \in tried,
             \A i \in 1 .. Len(log[p]) : <<p, i>> \in tried' /\ log[p][i] = "event" =>
                i <= IF after = Null THEN committed'[p] ELSE new.marked
      PROVE  NothingAgain'
  <2>1. /\ claim'[s][p] = new
        /\ \A t \in Servers, q \in Partitions : t # s \/ q # p => claim'[t][q] = claim[t][q]
    <3>1. claim' = [claim EXCEPT ![s][p] = new]
      BY <1>2
    <3>2. claim \in [Servers -> [Partitions -> Claim]]
      BY DEF ConsumerTypes
    <3>3. claim'[s][p] = new
      BY <3>1, <3>2
    <3>4. ASSUME NEW t \in Servers, NEW q \in Partitions, t # s \/ q # p
          PROVE  claim'[t][q] = claim[t][q]
      BY <3>1, <3>2, <3>4
    <3> QED
      BY <3>3, <3>4
  <2>2. owner'[p] = after /\ \A q \in Partitions \ {p} : owner'[q] = owner[q]
    BY <1>2 DEF ConsumerTypes
  <2>3. \A t \in Servers, q \in Partitions :
          (claim'[t][q].on => owner'[q] = t) /\ (owner'[q] = t => claim'[t][q].on)
    <3>1. ASSUME NEW t \in Servers, NEW q \in Partitions, q # p
          PROVE  (claim'[t][q].on => owner'[q] = t) /\ (owner'[q] = t => claim'[t][q].on)
      BY <1>1, <2>1, <2>2, <3>1
    <3>2. ASSUME NEW t \in Servers, t # s
          PROVE  (claim'[t][p].on => owner'[p] = t) /\ (owner'[p] = t => claim'[t][p].on)
      BY <1>1, <1>2, <2>1, <2>2, <3>2
    <3>3. (claim'[s][p].on => owner'[p] = s) /\ (owner'[p] = s => claim'[s][p].on)
      BY <1>2, <2>1, <2>2
    <3> QED
      BY <3>1, <3>2, <3>3
  <2>4. ASSUME NEW q \in Partitions, NEW i \in 1 .. Len(log[q]), <<q, i>> \in tried', log[q][i] = "event"
        PROVE  i <= IF owner'[q] = Null THEN committed'[q] ELSE claim'[owner'[q]][q].marked
    <3>1. CASE q = p
      BY <1>1, <1>2, <2>1, <2>2, <2>4, <3>1
    <3>2. CASE q # p
      <4>1. i <= IF owner[q] = Null THEN committed[q] ELSE claim[owner[q]][q].marked
        BY <1>1, <1>2, <2>4, <3>2 DEF LastMark
      <4>2. owner[q] # Null => claim'[owner[q]][q] = claim[owner[q]][q]
        BY <1>1, <2>1, <3>2
      <4> QED
        BY <1>2, <2>2, <3>2, <4>1, <4>2
    <3> QED
      BY <3>1, <3>2
  <2>5. again' = {}
    BY <1>2 DEF NothingAgain
  <2> QED
    BY <1>2, <2>3, <2>4, <2>5 DEF NothingAgain, LastMark
<1>3. ASSUME NEW s \in Servers, NEW p \in Partitions, Grant(s, p)  PROVE NothingAgain'
  <2> DEFINE new == [on |-> TRUE, next |-> committed[p] + 1, hand |-> 0, marked |-> committed[p]]
  <2>1. /\ claim' = [claim EXCEPT ![s][p] = new] /\ owner' = [owner EXCEPT ![p] = s]
        /\ owner[p] = Null /\ UNCHANGED <<log, committed, tried, again>>
    BY <1>3 DEF Grant
  <2>2. new \in Claim /\ new.on /\ new.marked = committed[p]
    BY <1>1 DEF Claim
  <2>3. \A i \in 1 .. Len(log[p]) : <<p, i>> \in tried /\ log[p][i] = "event" => i <= committed[p]
    BY <1>1, <2>1 DEF LastMark
  <2> HIDE DEF new
  <2> QED
    BY <1>1, <1>2, <2>1, <2>2, <2>3
<1>4. ASSUME NEW s \in Servers, NEW p \in Partitions, Take(s, p)  PROVE NothingAgain'
  <2>1. PICK c \in Claim, j \in Nat : c = claim[s][p] /\ j = c.next + 1
    <3>1. claim[s][p] \in Claim /\ claim[s][p].next + 1 \in Nat
      BY <1>1 DEF Claim
    <3> QED
      BY <3>1, Zenon
  <2> DEFINE new == [on |-> c.on, next |-> j, hand |-> c.next, marked |-> c.marked]
  <2>2. /\ claim' = [claim EXCEPT ![s][p] = [c EXCEPT !.hand = c.next, !.next = j]]
        /\ c.on /\ UNCHANGED <<log, committed, owner, tried, again>>
    BY <1>4, <2>1 DEF Take
  <2>3. c.next \in Nat
    BY DEF Claim
  <2>4. claim' = [claim EXCEPT ![s][p] = new] /\ new \in Claim
    BY <2>2, <2>3, ClaimUpdates
  <2>5. new.on /\ new.marked = claim[s][p].marked
    BY <2>1, <2>2
  <2>6. owner[p] = s /\ s # Null
    BY <1>1, <2>1, <2>2
  <2>7. \A i \in 1 .. Len(log[p]) : <<p, i>> \in tried /\ log[p][i] = "event" => i <= claim[s][p].marked
    BY <1>1, <2>6 DEF LastMark
  <2>8. owner' = [owner EXCEPT ![p] = s]
    BY <2>2, <2>6 DEF ConsumerTypes
  <2>9. /\ \A q \in Partitions \ {p} : committed'[q] = committed[q]
        /\ \A q \in Partitions \ {p} : \A i : <<q, i>> \in tried' => <<q, i>> \in tried
        /\ \A i \in 1 .. Len(log[p]) : <<p, i>> \in tried' /\ log[p][i] = "event" =>
             i <= IF s = Null THEN committed'[p] ELSE new.marked
    BY <2>2, <2>5, <2>6, <2>7
  <2> HIDE DEF new
  <2> QED
    BY <1>2, <2>2, <2>4, <2>5, <2>6, <2>8, <2>9, ZenonT(30)
<1>5. ASSUME NEW s \in Servers, NEW p \in Partitions, Handle(s, p)  PROVE NothingAgain'
  <2>1. PICK c \in Claim, j \in Nat :
          c = claim[s][p] /\ j = IF log[p][c.hand] = "event" THEN c.hand ELSE c.marked
    <3> DEFINE mark == IF log[p][claim[s][p].hand] = "event" THEN claim[s][p].hand
                       ELSE claim[s][p].marked
    <3>1. claim[s][p] \in Claim /\ mark \in Nat
      BY <1>1
    <3> QED
      BY <3>1, Zenon
  <2> DEFINE new == [on |-> c.on, next |-> c.next, hand |-> 0, marked |-> j]
  <2>2. /\ claim' = [claim EXCEPT ![s][p] = [c EXCEPT !.hand = 0, !.marked = j]]
        /\ c.hand # 0 /\ tried' = tried \cup {<<p, c.hand>>}
        /\ again' = IF log[p][c.hand] = "event" THEN again \cup ({<<p, c.hand>>} \cap tried) ELSE again
        /\ UNCHANGED <<log, committed, owner>>
    BY <1>5, <2>1 DEF Handle
  <2>3. /\ c.on /\ c.marked < c.hand /\ c.hand \in 1 .. Len(log[p]) /\ c.marked \in Nat
        /\ c.hand \in Nat
    BY <1>1, <2>1, <2>2 DEF Sound, Claim
  <2>4. claim' = [claim EXCEPT ![s][p] = new] /\ new \in Claim
    <3>1. 0 \in Nat
      OBVIOUS
    <3>2. [c EXCEPT !.hand = 0, !.marked = j] = new /\ new \in Claim
      BY <3>1, ClaimUpdates
    <3> QED
      BY <2>2, <3>2
  <2>5. new.on /\ new.marked = j
    BY <2>3
  <2>6. owner[p] = s /\ s # Null
    BY <1>1, <2>1, <2>3
  <2>7. \A i \in 1 .. Len(log[p]) : <<p, i>> \in tried /\ log[p][i] = "event" => i <= c.marked
    BY <1>1, <2>1, <2>6 DEF LastMark
  \* The event in hand lies beyond the mark: nobody has handled it.
  <2>8. again' = again
    <3>1. log[p][c.hand] = "event" => <<p, c.hand>> \notin tried
      BY <2>3, <2>7
    <3> QED
      BY <2>2, <3>1
  <2>9. \A i \in 1 .. Len(log[p]) : <<p, i>> \in tried' /\ log[p][i] = "event" => i <= j
    <3>1. c.marked <= j
      BY <2>1, <2>3
    <3>2. ASSUME NEW i \in 1 .. Len(log[p]), <<p, i>> \in tried', log[p][i] = "event"
          PROVE  i <= j
      <4>1. CASE i = c.hand
        BY <2>1, <2>3, <3>2, <4>1
      <4>2. CASE i # c.hand
        <5>1. i <= c.marked /\ i \in Nat
          BY <1>1, <2>2, <2>7, <3>2, <4>2
        <5> QED
          BY <2>3, <3>1, <5>1
      <4> QED
        BY <4>1, <4>2
    <3> QED
      BY <3>2
  <2>10. owner' = [owner EXCEPT ![p] = s]
    BY <2>2, <2>6 DEF ConsumerTypes
  <2>11. \A q \in Partitions \ {p} : \A i : <<q, i>> \in tried' => <<q, i>> \in tried
    BY <2>2
  <2> HIDE DEF new
  <2> QED
    BY <1>2, <2>2, <2>4, <2>5, <2>6, <2>8, <2>9, <2>10, <2>11
<1>6. ASSUME NEW s \in Servers, NEW p \in Partitions, EndSession(s, p)  PROVE NothingAgain'
  <2>1. /\ claim' = [claim EXCEPT ![s][p] = NoClaim] /\ claim[s][p].on
        /\ committed' = [committed EXCEPT ![p] = CommittedBy(s, p)]
        /\ owner' = [owner EXCEPT ![p] = IF owner[p] = s THEN Null ELSE owner[p]]
        /\ UNCHANGED <<log, tried, again>>
    BY <1>6 DEF EndSession
  <2>2. owner[p] = s /\ s # Null
    BY <1>1, <2>1
  <2>3. owner' = [owner EXCEPT ![p] = Null] /\ committed' = [committed EXCEPT ![p] = claim[s][p].marked]
    BY <2>1, <2>2 DEF CommittedBy
  <2>4. committed'[p] = claim[s][p].marked /\ \A q \in Partitions \ {p} : committed'[q] = committed[q]
    BY <2>3 DEF ConsumerTypes
  <2>5. \A i \in 1 .. Len(log[p]) : <<p, i>> \in tried /\ log[p][i] = "event" => i <= claim[s][p].marked
    BY <1>1, <2>2 DEF LastMark
  <2>6. NoClaim \in Claim /\ ~NoClaim.on
    BY DEF NoClaim, Claim
  <2> QED
    BY <1>2, <2>1, <2>2, <2>3, <2>4, <2>5, <2>6
<1>7. ASSUME NEW s \in Servers, NEW p \in Partitions, AutoCommit(s, p)  PROVE NothingAgain'
  <2>1. /\ committed' = [committed EXCEPT ![p] = CommittedBy(s, p)] /\ claim[s][p].on
        /\ UNCHANGED <<log, owner, claim, tried, again>>
    BY <1>7 DEF AutoCommit
  <2>2. owner[p] = s /\ s # Null
    BY <1>1, <2>1
  <2>3. \A q \in Partitions : owner[q] = Null => committed'[q] = committed[q]
    BY <2>1, <2>2 DEF ConsumerTypes
  <2> QED
    BY <1>1, <2>1, <2>3 DEF NothingAgain, LastMark
\* No session times out while its member lives.
<1>8. ASSUME NEW p \in Partitions, Timeout(p)  PROVE FALSE
  BY <1>1, <1>8 DEF Timeout, Evict
<1>9. ASSUME NEW p \in Partitions, NEW content \in Contents, Store(p, content)  PROVE NothingAgain'
  <2>1. /\ log' = [log EXCEPT ![p] = Append(log[p], content)]
        /\ UNCHANGED <<committed, owner, claim, tried, again>>
    BY <1>9 DEF Store
  <2>2. \A q \in Partitions : \A i \in 1 .. Len(log'[q]) :
          <<q, i>> \in tried => i \in 1 .. Len(log[q]) /\ log'[q][i] = log[q][i]
    <3>1. \A q \in Partitions : \A i \in 1 .. Len(log[q]) : log'[q][i] = log[q][i]
      <4>1. \A i \in 1 .. Len(log[p]) : Append(log[p], content)[i] = log[p][i]
        BY <1>1
      <4> QED
        BY <2>1, <4>1 DEF ConsumerTypes
    <3> QED
      BY <3>1, StoredIs DEF ConsumerTypes
  <2> QED
    BY <1>1, <2>1, <2>2 DEF NothingAgain, LastMark
<1>10. CASE UNCHANGED consumerVars
  BY <1>10 DEF NothingAgain, LastMark, consumerVars
<1> QED
  BY <1>3, <1>4, <1>5, <1>6, <1>7, <1>8, <1>9, <1>10, RegularSteps

LEMMA CleanInit == Init => PhasesAgree /\ Clean
<1> SUFFICES ASSUME Init  PROVE PhasesAgree /\ Clean
  OBVIOUS
<1>1. PhasesAgree
  BY DEF Init, PhasesAgree
<1>2. NothingUntold
  BY DEF Init, NothingUntold
<1>3. \A s \in Servers, p \in Partitions : ~claim[s][p].on /\ owner[p] # s
  BY ConsumerAssumption DEF Init, InitConsumer, NoClaim
<1>4. NothingAgain
  BY <1>3 DEF Init, InitConsumer, NothingAgain
<1> QED
  BY <1>1, <1>2, <1>4 DEF Clean

LEMMA CleanStep ==
  ASSUME IInv, PhasesAgree, Clean, [Next]_vars
  PROVE  PhasesAgree' /\ Clean'
<1>1. PhasesAgree'
  BY PhasesStep DEF IInv
<1>2. ASSUME mishaps' = 0  PROVE NothingUntold' /\ NothingAgain'
  <2>1. mishaps = 0 /\ ~Mishap
    BY <1>2, MishapsGrow DEF IInv
  <2> QED
    BY <2>1, UntoldStep, AgainStep DEF IInv, Clean
<1> QED
  BY <1>1, <1>2 DEF Clean

\* SIGTERM, rebalances and restarts, however many, repeat no event, and lose
\* none before 30 seconds have passed since the SIGTERM of the process, also if
\* all of them went by before consumer.Stop returned: what is counted as a
\* mishap aside, only the deadline that main sets first loses events.
THEOREM CleanStops == Spec => []GracefulStopIsClean
<1>1. PhasesAgree /\ Clean => GracefulStopIsClean
  BY DEF Clean, NothingUntold, NothingAgain, GracefulStopIsClean
<1>2. IInv /\ PhasesAgree /\ Clean /\ [Next]_vars => (PhasesAgree /\ Clean)'
  BY CleanStep
<1> QED
  BY <1>1, <1>2, CleanInit, IInvAlways, PTL DEF Spec

------------------------------------------------------------------------------
(* Committed offsets                                                       *)

\* Whom the coordinator hears has marked no less than is committed.
OwnersAreAhead ==
  \A s \in Servers, p \in Partitions :
    owner[p] = s /\ claim[s][p].on => committed[p] <= claim[s][p].marked

LEMMA AheadStep ==
  ASSUME ConsumerTypes, ClaimsAreSound, OwnersAreAhead, [Next]_vars
  PROVE  OwnersAreAhead' /\ \A p \in Partitions : committed[p] <= committed'[p]
<1> DEFINE Ahead == OwnersAreAhead' /\ \A p \in Partitions : committed[p] <= committed'[p]
<1>1. /\ \A s \in Servers, p \in Partitions :
           /\ claim[s][p] \in Claim /\ claim[s][p].hand \in Nat /\ claim[s][p].marked \in Nat
           /\ claim[s][p].hand # 0 => claim[s][p].marked < claim[s][p].hand
           /\ s # Null
      /\ \A p \in Partitions : owner[p] \in Servers \cup {Null} /\ committed[p] \in Nat
  BY ConsumerAssumption DEF ConsumerTypes, ClaimsAreSound, Claim, Sound
\* A step with one claim, that leaves the offsets alone.
<1>2. ASSUME NEW s \in Servers, NEW p \in Partitions, NEW new \in Claim,
             claim' = [claim EXCEPT ![s][p] = new], committed' = committed,
             \A q \in Partitions \ {p} : owner'[q] = owner[q],
             owner'[p] \in {s, owner[p]},
             owner'[p] = s /\ new.on => committed[p] <= new.marked,
             owner'[p] = owner[p] \/ owner[p] = Null
      PROVE  Ahead
  <2>1. /\ claim'[s][p] = new
        /\ \A t \in Servers, q \in Partitions : t # s \/ q # p => claim'[t][q] = claim[t][q]
    <3>1. claim' = [claim EXCEPT ![s][p] = new] /\ claim \in [Servers -> [Partitions -> Claim]]
      BY <1>2 DEF ConsumerTypes
    <3>2. claim'[s][p] = new
      BY <3>1
    <3>3. ASSUME NEW t \in Servers, NEW q \in Partitions, t # s \/ q # p
          PROVE  claim'[t][q] = claim[t][q]
      BY <3>1, <3>3
    <3> QED
      BY <3>2, <3>3
  <2>2. ASSUME NEW t \in Servers, NEW q \in Partitions, owner'[q] = t, claim'[t][q].on
        PROVE  committed'[q] <= claim'[t][q].marked
    <3>1. CASE t = s /\ q = p
      BY <1>2, <2>1, <2>2, <3>1
    <3>2. CASE q # p
      BY <1>2, <2>1, <2>2, <3>2 DEF OwnersAreAhead
    <3>3. CASE t # s /\ q = p
      BY <1>2, <2>1, <2>2, <3>3 DEF OwnersAreAhead
    <3> QED
      BY <3>1, <3>2, <3>3
  <2> QED
    BY <1>1, <1>2, <2>2 DEF OwnersAreAhead
<1>3. ASSUME NEW s \in Servers, NEW p \in Partitions, Grant(s, p)  PROVE Ahead
  <2> DEFINE new == [on |-> TRUE, next |-> committed[p] + 1, hand |-> 0, marked |-> committed[p]]
  <2>1. /\ claim' = [claim EXCEPT ![s][p] = new] /\ owner' = [owner EXCEPT ![p] = s]
        /\ owner[p] = Null /\ committed' = committed
    BY <1>3 DEF Grant
  <2>2. new \in Claim /\ committed[p] <= new.marked
    BY <1>1 DEF Claim
  <2>3. owner'[p] = s /\ \A q \in Partitions \ {p} : owner'[q] = owner[q]
    BY <2>1 DEF ConsumerTypes
  <2> HIDE DEF new
  <2> QED
    BY <1>2, <2>1, <2>2, <2>3
<1>4. ASSUME NEW s \in Servers, NEW p \in Partitions, Take(s, p)  PROVE Ahead
  <2>1. PICK c \in Claim, j \in Nat : c = claim[s][p] /\ j = c.next + 1
    <3>1. claim[s][p] \in Claim /\ claim[s][p].next + 1 \in Nat
      BY <1>1 DEF Claim
    <3> QED
      BY <3>1, Zenon
  <2> DEFINE new == [on |-> c.on, next |-> j, hand |-> c.next, marked |-> c.marked]
  <2>2. /\ claim' = [claim EXCEPT ![s][p] = [c EXCEPT !.hand = c.next, !.next = j]]
        /\ UNCHANGED <<owner, committed>>
    BY <1>4, <2>1 DEF Take
  <2>3. c.next \in Nat
    BY DEF Claim
  <2>4. claim' = [claim EXCEPT ![s][p] = new] /\ new \in Claim
    <3>1. [c EXCEPT !.hand = c.next, !.next = j] = new /\ new \in Claim
      BY <2>3, ClaimUpdates
    <3> QED
      BY <2>2, <3>1
  <2>5. owner[p] = s /\ new.on => committed[p] <= new.marked
    BY <2>1 DEF OwnersAreAhead
  <2> HIDE DEF new
  <2> QED
    BY <1>2, <2>2, <2>4, <2>5
<1>5. ASSUME NEW s \in Servers, NEW p \in Partitions, Handle(s, p)  PROVE Ahead
  <2>1. PICK c \in Claim, j \in Nat :
          c = claim[s][p] /\ j = IF log[p][c.hand] = "event" THEN c.hand ELSE c.marked
    <3> DEFINE mark == IF log[p][claim[s][p].hand] = "event" THEN claim[s][p].hand
                       ELSE claim[s][p].marked
    <3>1. claim[s][p] \in Claim /\ mark \in Nat
      BY <1>1
    <3> QED
      BY <3>1, Zenon
  <2> DEFINE new == [on |-> c.on, next |-> c.next, hand |-> 0, marked |-> j]
  <2>2. /\ claim' = [claim EXCEPT ![s][p] = [c EXCEPT !.hand = 0, !.marked = j]]
        /\ c.hand # 0 /\ UNCHANGED <<owner, committed>>
    BY <1>5, <2>1 DEF Handle
  <2>3. claim' = [claim EXCEPT ![s][p] = new] /\ new \in Claim
    <3>1. 0 \in Nat
      OBVIOUS
    <3>2. [c EXCEPT !.hand = 0, !.marked = j] = new /\ new \in Claim
      BY <3>1, ClaimUpdates
    <3> QED
      BY <2>2, <3>2
  <2>4. c.marked <= j
    BY <1>1, <2>1, <2>2
  <2>5. owner[p] = s /\ new.on => committed[p] <= new.marked
    <3>1. owner[p] = s /\ c.on => committed[p] <= c.marked
      BY <2>1 DEF OwnersAreAhead
    <3>2. c.marked \in Nat /\ committed[p] \in Nat
      BY <1>1, <2>1
    <3> QED
      BY <2>4, <3>1, <3>2
  <2> HIDE DEF new
  <2> QED
    BY <1>2, <2>2, <2>3, <2>5
\* What is committed is what the owner has marked, or nothing.
<1>6. ASSUME NEW s \in Servers, NEW p \in Partitions, claim[s][p].on,
             committed' = [committed EXCEPT ![p] = CommittedBy(s, p)]
      PROVE  /\ committed[p] <= committed'[p]
             /\ committed'[p] = IF owner[p] = s THEN claim[s][p].marked ELSE committed[p]
             /\ \A q \in Partitions \ {p} : committed'[q] = committed[q]
  BY <1>1, <1>6 DEF CommittedBy, OwnersAreAhead, ConsumerTypes
<1>7. ASSUME NEW s \in Servers, NEW p \in Partitions, AutoCommit(s, p)  PROVE Ahead
  <2>1. /\ committed[p] <= committed'[p]
        /\ committed'[p] = IF owner[p] = s THEN claim[s][p].marked ELSE committed[p]
        /\ \A q \in Partitions \ {p} : committed'[q] = committed[q]
        /\ UNCHANGED <<owner, claim>>
    BY <1>6, <1>7 DEF AutoCommit
  <2>2. \A q \in Partitions : committed[q] <= committed'[q]
    BY <1>1, <2>1
  <2>3. ASSUME NEW t \in Servers, NEW q \in Partitions, owner[q] = t, claim[t][q].on
        PROVE  committed'[q] <= claim[t][q].marked
    <3>1. CASE q = p
      BY <1>1, <2>1, <2>3, <3>1 DEF OwnersAreAhead
    <3>2. CASE q # p
      BY <2>1, <2>3, <3>2 DEF OwnersAreAhead
    <3> QED
      BY <3>1, <3>2
  <2> QED
    BY <2>1, <2>2, <2>3 DEF OwnersAreAhead
<1>8. ASSUME NEW s \in Servers, NEW p \in Partitions, EndSession(s, p)  PROVE Ahead
  <2>1. /\ claim' = [claim EXCEPT ![s][p] = NoClaim]
        /\ owner' = [owner EXCEPT ![p] = IF owner[p] = s THEN Null ELSE owner[p]]
        /\ committed[p] <= committed'[p]
        /\ committed'[p] = IF owner[p] = s THEN claim[s][p].marked ELSE committed[p]
        /\ \A q \in Partitions \ {p} : committed'[q] = committed[q]
    BY <1>6, <1>8 DEF EndSession
  <2>2. /\ claim'[s][p] = NoClaim
        /\ \A t \in Servers, q \in Partitions : t # s \/ q # p => claim'[t][q] = claim[t][q]
    <3>1. claim' = [claim EXCEPT ![s][p] = NoClaim] /\ claim \in [Servers -> [Partitions -> Claim]]
      BY <2>1 DEF ConsumerTypes
    <3>2. claim'[s][p] = NoClaim
      BY <3>1
    <3>3. ASSUME NEW t \in Servers, NEW q \in Partitions, t # s \/ q # p
          PROVE  claim'[t][q] = claim[t][q]
      BY <3>1, <3>3
    <3> QED
      BY <3>2, <3>3
  <2>3. /\ owner'[p] = IF owner[p] = s THEN Null ELSE owner[p]
        /\ \A q \in Partitions \ {p} : owner'[q] = owner[q]
    BY <2>1 DEF ConsumerTypes
  <2>4. ASSUME NEW t \in Servers, NEW q \in Partitions, owner'[q] = t, claim'[t][q].on
        PROVE  committed'[q] <= claim'[t][q].marked
    <3>1. CASE q # p
      BY <2>1, <2>2, <2>3, <2>4, <3>1 DEF OwnersAreAhead
    <3>2. CASE q = p
      <4>1. t # s
        BY <2>2, <2>4, <3>2 DEF NoClaim
      <4>2. owner[p] = t
        BY <1>1, <2>3, <2>4, <3>2
      <4> QED
        BY <2>1, <2>2, <2>4, <3>2, <4>1, <4>2 DEF OwnersAreAhead
    <3> QED
      BY <3>1, <3>2
  <2>5. \A q \in Partitions : committed[q] <= committed'[q]
    BY <1>1, <2>1
  <2> QED
    BY <2>4, <2>5 DEF OwnersAreAhead
<1>9. ASSUME NEW p \in Partitions, Evict(p)  PROVE Ahead
  <2>1. UNCHANGED <<claim, committed>> /\ owner' = [owner EXCEPT ![p] = Null]
    BY <1>9 DEF Evict
  <2>2. owner'[p] = Null /\ \A q \in Partitions \ {p} : owner'[q] = owner[q]
    BY <2>1 DEF ConsumerTypes
  <2> QED
    BY <1>1, <2>1, <2>2 DEF OwnersAreAhead
<1>10. ASSUME NEW s \in Servers, DropClaims(s)  PROVE Ahead
  <2>1. /\ claim' = [claim EXCEPT ![s] = [p \in Partitions |-> NoClaim]]
        /\ UNCHANGED <<owner, committed>>
    BY <1>10 DEF DropClaims
  <2>2. /\ \A p \in Partitions : ~claim'[s][p].on
        /\ \A t \in Servers \ {s} : claim'[t] = claim[t]
    BY <2>1 DEF ConsumerTypes, NoClaim
  <2> QED
    BY <1>1, <2>1, <2>2 DEF OwnersAreAhead
<1>11. ASSUME UNCHANGED <<owner, claim, committed>>  PROVE Ahead
  BY <1>1, <1>11 DEF OwnersAreAhead
<1>12. \A p \in Partitions, content \in Contents : Store(p, content) => UNCHANGED <<owner, claim, committed>>
  BY DEF Store
<1>13. UNCHANGED consumerVars => UNCHANGED <<owner, claim, committed>>
  BY DEF consumerVars
<1> HIDE DEF Ahead
<1>14. Ahead
  BY <1>3, <1>4, <1>5, <1>7, <1>8, <1>9, <1>10, <1>11, <1>12, <1>13, ConsumerSteps
<1> QED
  BY <1>14 DEF Ahead

\* A committed offset never falls: no member that has lost its partition, or
\* has got it back, and goes on with what it has marked before can make the
\* group read messages again that another one has committed.
THEOREM OffsetsNeverFall == Spec => [][\A p \in Partitions : committed[p] <= committed'[p]]_vars
<1>1. Init => OwnersAreAhead
  BY ConsumerAssumption DEF Init, InitConsumer, OwnersAreAhead
<1>2. IInv /\ OwnersAreAhead /\ [Next]_vars
        => OwnersAreAhead' /\ \A p \in Partitions : committed[p] <= committed'[p]
  BY AheadStep DEF IInv
<1> QED
  BY <1>1, <1>2, IInvAlways, PTL DEF Spec
==============================================================================
