------------------------------- MODULE Consumer -------------------------------
(***************************************************************************)
(* The consumer group that reads the topics: the messages the broker has   *)
(* stored, the offsets it has committed, the member it has given each      *)
(* partition to, and the claims the members work on.  kafka.Consumer is    *)
(* the code of a member; the broker and the client library are modelled    *)
(* from how it configures and uses them (offsets are committed             *)
(* automatically, sessions time out, the oldest message comes first).      *)
(* Module Server says when a member runs.                                  *)
(***************************************************************************)
EXTENDS Naturals, Sequences, FiniteSets

CONSTANTS Servers,     \* processes of the service, each a member when it runs
          Partitions,  \* partitions of the topics
          Null         \* no member

ASSUME ConsumerAssumption == Null \notin Servers /\ IsFiniteSet(Servers)

VARIABLES log,        \* the messages of each partition, in order
          committed,  \* how many messages of a partition are committed
          owner,      \* the member the coordinator has given a partition to
          claim,      \* what each member knows of each partition
          tried,      \* history variable: the messages some member has handled
          again       \* history variable: events handled when they had been

consumerVars == <<log, committed, owner, claim, tried, again>>

\* What processMessage makes of a message: an event, of a type that has a
\* handler or not, is done with; other contents are an error.
Contents == {"event", "malformed"}

\* on: ConsumeClaim runs; next: the offset it takes next; hand: the one it
\* is handling, or 0; marked: the last one it has marked.
Claim == [on : BOOLEAN, next : Nat, hand : Nat, marked : Nat]

NoClaim == [on |-> FALSE, next |-> 0, hand |-> 0, marked |-> 0]

InitConsumer ==
  /\ log = [p \in Partitions |-> <<>>]
  /\ committed = [p \in Partitions |-> 0]
  /\ owner = [p \in Partitions |-> Null]
  /\ claim = [s \in Servers |-> [p \in Partitions |-> NoClaim]]
  /\ tried = {}
  /\ again = {}

\* The broker stores a message.  Its key is random, so is its partition.
Store(p, content) ==
  /\ log' = [log EXCEPT ![p] = Append(@, content)]
  /\ UNCHANGED <<committed, owner, claim, tried, again>>

\* Mutant of Grant: without a committed offset, the newest message comes first.
GrantNewest(s, p) ==
  /\ owner[p] = Null
  /\ ~claim[s][p].on
  /\ owner' = [owner EXCEPT ![p] = s]
  /\ claim' = [claim EXCEPT ![s][p] =
                 [on |-> TRUE, hand |-> 0, marked |-> committed[p],
                  next |-> IF committed[p] = 0 THEN Len(log[p]) + 1 ELSE committed[p] + 1]]
  /\ UNCHANGED <<log, committed, tried, again>>

\* A rebalance gives s a partition that nobody has: it begins after the last
\* committed message.
Grant(s, p) ==
  /\ owner[p] = Null
  /\ ~claim[s][p].on
  /\ owner' = [owner EXCEPT ![p] = s]
  /\ claim' = [claim EXCEPT ![s][p] = [on |-> TRUE, next |-> committed[p] + 1,
                                       hand |-> 0, marked |-> committed[p]]]
  /\ UNCHANGED <<log, committed, tried, again>>

\* Mutant of Take: one message too many is taken.
TakeBeyond(s, p) ==
  LET c == claim[s][p] IN
  /\ c.on
  /\ c.hand = 0
  /\ c.next <= Len(log[p]) + 1
  /\ claim' = [claim EXCEPT ![s][p].hand = c.next, ![s][p].next = c.next + 1]
  /\ UNCHANGED <<log, committed, owner, tried, again>>

\* ConsumeClaim receives a message.
Take(s, p) ==
  LET c == claim[s][p] IN
  /\ c.on
  /\ c.hand = 0
  /\ c.next <= Len(log[p])
  /\ claim' = [claim EXCEPT ![s][p].hand = c.next, ![s][p].next = c.next + 1]
  /\ UNCHANGED <<log, committed, owner, tried, again>>

\* Mutant of Handle: a message is marked whatever processMessage returns.
HandleAnyway(s, p) ==
  LET c == claim[s][p] IN
  /\ c.hand # 0
  /\ tried' = tried \cup {<<p, c.hand>>}
  /\ again' = again \cup ({<<p, c.hand>>} \cap tried)
  /\ claim' = [claim EXCEPT ![s][p].hand = 0, ![s][p].marked = c.hand]
  /\ UNCHANGED <<log, committed, owner>>

\* processMessage, then MarkMessage if it has returned no error; an error is
\* only logged, and the next message is taken all the same.
Handle(s, p) ==
  LET c == claim[s][p]
      ok == log[p][c.hand] = "event"
  IN
  /\ c.hand # 0
  /\ tried' = tried \cup {<<p, c.hand>>}
  /\ again' = IF ok THEN again \cup ({<<p, c.hand>>} \cap tried) ELSE again
  /\ claim' = [claim EXCEPT ![s][p].hand = 0,
                            ![s][p].marked = IF ok THEN c.hand ELSE @]
  /\ UNCHANGED <<log, committed, owner>>

\* The offset that is committed for p when s commits: that of the last marked
\* message, whatever became of those before it.  The coordinator ignores who
\* is not the owner (any more).
CommittedBy(s, p) == IF owner[p] = s THEN claim[s][p].marked ELSE committed[p]

\* Once a second.
AutoCommit(s, p) ==
  /\ claim[s][p].on
  /\ committed' = [committed EXCEPT ![p] = CommittedBy(s, p)]
  /\ UNCHANGED <<log, owner, claim, tried, again>>

\* Mutant of EndSession: what was marked since the last commit is forgotten.
EndSessionUncommitted(s, p) ==
  /\ claim[s][p].on
  /\ claim[s][p].hand = 0
  /\ claim' = [claim EXCEPT ![s][p] = NoClaim]
  /\ owner' = [owner EXCEPT ![p] = IF @ = s THEN Null ELSE @]
  /\ UNCHANGED <<log, committed, tried, again>>

\* The session ends: s leaves, or learns of a rebalance.  ConsumeClaim returns
\* when it has handled its message, and the library commits what is marked.
EndSession(s, p) ==
  /\ claim[s][p].on
  /\ claim[s][p].hand = 0
  /\ committed' = [committed EXCEPT ![p] = CommittedBy(s, p)]
  /\ claim' = [claim EXCEPT ![s][p] = NoClaim]
  /\ owner' = [owner EXCEPT ![p] = IF @ = s THEN Null ELSE @]
  /\ UNCHANGED <<log, tried, again>>

\* The coordinator has not heard of the owner for ten seconds.  The owner, if
\* it lives, goes on with its claim until it learns that it has lost it.
Evict(p) ==
  /\ owner[p] # Null
  /\ owner' = [owner EXCEPT ![p] = Null]
  /\ UNCHANGED <<log, committed, claim, tried, again>>

\* The claims of a process die with it; the coordinator does not know.
DropClaims(s) ==
  /\ claim' = [claim EXCEPT ![s] = [p \in Partitions |-> NoClaim]]
  /\ UNCHANGED <<log, committed, owner, tried, again>>

\* The messages the broker has stored, by partition and offset.
Stored == UNION {{p} \X (1 .. Len(log[p])) : p \in Partitions}
==============================================================================
