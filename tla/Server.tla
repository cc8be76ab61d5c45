-------------------------------- MODULE Server --------------------------------
(***************************************************************************)
(* The life of the processes of the service: main builds the application,  *)
(* serves requests and consumes events, and on SIGTERM stops the consumer, *)
(* drains the HTTP server, both within 30 seconds if the requests are to   *)
(* end before the producer, and closes what it has opened.                 *)
(* A process serves one request at a time here: a commit, then an event    *)
(* (Requests has the handlers in detail).  Composes with Consumer.         *)
(***************************************************************************)
EXTENDS Consumer

CONSTANTS MaxMessages,  \* bound: events and foreign messages, but for retries
          MaxEnds,      \* bound: SIGTERMs and rebalances
          MaxMishaps    \* bound: crashes, evictions, failed publications ...

ASSUME ServerAssumption == MaxMessages \in Nat /\ MaxEnds \in Nat /\ MaxMishaps \in Nat

VARIABLES phase,     \* what main does
          open,      \* the connections that are open
          inflight,  \* the request that is being served
          late,      \* the processes that Shutdown has no time left for
          begun,     \* the number of requests and foreign messages
          untold,    \* history variable: when processes have lost the event
                     \* of a commit, early or late
          ends, mishaps   \* how many there were

vars == <<consumerVars, phase, open, inflight, late, begun, untold, ends, mishaps>>

\* down: no process; building: buildApplication; up: main waits for a signal;
\* stopping: consumer.Stop; draining: server.Shutdown; closing: the rest.
Phases == {"down", "building", "up", "stopping", "draining", "closing"}

Connections == {"db", "redis", "producer", "consumer"}

\* accepted: not committed yet; committed: the event is not published yet.
Progress == {"none", "accepted", "committed"}

Init ==
  /\ InitConsumer
  /\ phase = [s \in Servers |-> "down"]
  /\ open = [s \in Servers |-> {}]
  /\ inflight = [s \in Servers |-> "none"]
  /\ late = {}
  /\ begun = 0
  /\ untold = {}
  /\ ends = 0
  /\ mishaps = 0

Moves(s, from, to) == phase[s] = from /\ phase' = [phase EXCEPT ![s] = to]

Serves(s, from, to) == inflight[s] = from /\ inflight' = [inflight EXCEPT ![s] = to]

OrderlyEnd == ends < MaxEnds /\ ends' = ends + 1 /\ UNCHANGED mishaps

Mishap == mishaps < MaxMishaps /\ mishaps' = mishaps + 1 /\ UNCHANGED ends

Regular == UNCHANGED <<ends, mishaps>>

------------------------------------------------------------------------------
(* buildApplication                                                        *)

\* The environment starts a process that is down (restart: always).
Start(s) ==
  /\ Moves(s, "down", "building")
  /\ Regular
  /\ UNCHANGED <<consumerVars, open, inflight, late, begun, untold>>

\* The connections are opened one after the other.
Connect(s, connection) ==
  /\ phase[s] = "building"
  /\ connection = CASE open[s] = {} -> "db"
                    [] open[s] = {"db"} -> "redis"
                    [] open[s] = {"db", "redis"} -> "producer"
                    [] OTHER -> "consumer"
  /\ open' = [open EXCEPT ![s] = @ \cup {connection}]
  /\ phase' = [phase EXCEPT ![s] = IF connection = "consumer" THEN "up" ELSE @]
  /\ Regular
  /\ UNCHANGED <<consumerVars, inflight, late, begun, untold>>

\* A connection that cannot be opened ends the process: those before it are
\* closed.
ConnectFails(s) ==
  /\ Moves(s, "building", "down")
  /\ open' = [open EXCEPT ![s] = {}]
  /\ Mishap
  /\ UNCHANGED <<consumerVars, inflight, late, begun, untold>>

------------------------------------------------------------------------------
(* Requests: served until the server is drained                            *)

Accept(s) ==
  /\ phase[s] \in {"up", "stopping"}
  /\ Serves(s, "none", "accepted")
  /\ begun < MaxMessages
  /\ begun' = begun + 1
  /\ Regular
  /\ UNCHANGED <<consumerVars, phase, open, late, untold>>

\* The request is refused or fails, or, with its connection closed, cannot
\* but fail.
Refuse(s) ==
  /\ Serves(s, "accepted", "none")
  /\ Regular
  /\ UNCHANGED <<consumerVars, phase, open, late, begun, untold>>

Commit(s) ==
  /\ "db" \in open[s]
  /\ Serves(s, "accepted", "committed")
  /\ Regular
  /\ UNCHANGED <<consumerVars, phase, open, late, begun, untold>>

Publish(s, p) ==
  /\ "producer" \in open[s]
  /\ Serves(s, "committed", "none")
  /\ Store(p, "event")
  /\ Regular
  /\ UNCHANGED <<phase, open, late, begun, untold>>

\* The broker has stored the event, but its acknowledgement is lost: the
\* producer, which is not idempotent, sends the event again.
PublishUnacknowledged(s, p) ==
  /\ "producer" \in open[s]
  /\ inflight[s] = "committed"
  /\ Store(p, "event")
  /\ Mishap
  /\ UNCHANGED <<phase, open, inflight, late, begun, untold>>

\* The event of the request that s serves will not be published: before or
\* after the deadline of its shutdown.
Lose(s) == untold' = untold \cup {IF s \in late THEN "late" ELSE "early"}

\* The producer gives up, or has been closed.
PublishFails(s) ==
  /\ Serves(s, "committed", "none")
  /\ Lose(s)
  /\ IF "producer" \in open[s] THEN Mishap ELSE Regular
  /\ UNCHANGED <<consumerVars, phase, open, late, begun>>

\* Somebody else's message gets into the topic.
ForeignMessage(p) ==
  /\ begun < MaxMessages
  /\ begun' = begun + 1
  /\ Store(p, "malformed")
  /\ Regular
  /\ UNCHANGED <<phase, open, inflight, late, untold>>

------------------------------------------------------------------------------
(* The consumer of a process                                               *)

\* Consume joins the group again and again until its context is cancelled.
Join(s, p) ==
  /\ phase[s] = "up"
  /\ Grant(s, p)
  /\ Regular
  /\ UNCHANGED <<phase, open, inflight, late, begun, untold>>

TakeMessage(s, p) ==
  /\ Take(s, p)
  /\ Regular
  /\ UNCHANGED <<phase, open, inflight, late, begun, untold>>

HandleMessage(s, p) ==
  /\ Handle(s, p)
  /\ Regular
  /\ UNCHANGED <<phase, open, inflight, late, begun, untold>>

CommitOffsets(s, p) ==
  /\ AutoCommit(s, p)
  /\ Regular
  /\ UNCHANGED <<phase, open, inflight, late, begun, untold>>

\* The group is rebalanced and takes p away from s, which it can tell.
Rebalance(s, p) ==
  /\ phase[s] = "up"
  /\ owner[p] = s
  /\ EndSession(s, p)
  /\ OrderlyEnd
  /\ UNCHANGED <<phase, open, inflight, late, begun, untold>>

\* Mutant of Leave: Stop waits without having cancelled the context.
LeaveUncancelled(s, p) ==
  /\ owner[p] # s
  /\ EndSession(s, p)
  /\ Regular
  /\ UNCHANGED <<phase, open, inflight, late, begun, untold>>

\* consumer.Stop has cancelled the context, or the owner has changed.
Leave(s, p) ==
  /\ phase[s] = "stopping" \/ owner[p] # s
  /\ EndSession(s, p)
  /\ Regular
  /\ UNCHANGED <<phase, open, inflight, late, begun, untold>>

\* The session of a process that has died times out ...
Timeout(p) ==
  /\ \A s \in Servers : owner[p] = s => ~claim[s][p].on
  /\ Evict(p)
  /\ Regular
  /\ UNCHANGED <<phase, open, inflight, late, begun, untold>>

\* ... or that of one whose heartbeats are late.
TimeoutAlive(s, p) ==
  /\ owner[p] = s
  /\ claim[s][p].on
  /\ Evict(p)
  /\ Mishap
  /\ UNCHANGED <<phase, open, inflight, late, begun, untold>>

------------------------------------------------------------------------------
(* The end of a process                                                    *)

Signal(s) ==
  /\ Moves(s, "up", "stopping")
  /\ OrderlyEnd
  /\ UNCHANGED <<consumerVars, open, inflight, late, begun, untold>>

\* Stop returns when Consume has, however long that takes: perhaps the 30
\* seconds until the deadline of Shutdown, which is set before Stop is called.
Stopped(s) ==
  /\ Moves(s, "stopping", "draining")
  /\ \A p \in Partitions : ~claim[s][p].on
  /\ open' = [open EXCEPT ![s] = @ \ {"consumer"}]
  /\ late' \in {late, late \cup {s}}
  /\ Regular
  /\ UNCHANGED <<consumerVars, inflight, begun, untold>>

\* The 30 seconds, or what Stop has left of them, are over.
DeadlinePasses(s) ==
  /\ phase[s] = "draining"
  /\ s \notin late
  /\ late' = late \cup {s}
  /\ Regular
  /\ UNCHANGED <<consumerVars, phase, open, inflight, begun, untold>>

\* Mutant of Drained: the connections are closed while a request is served.
DrainedAtOnce(s) ==
  /\ Moves(s, "draining", "closing")
  /\ Regular
  /\ UNCHANGED <<consumerVars, open, inflight, late, begun, untold>>

\* Shutdown returns when no request is being served ...
Drained(s) ==
  /\ Moves(s, "draining", "closing")
  /\ inflight[s] = "none"
  /\ Regular
  /\ UNCHANGED <<consumerVars, open, inflight, late, begun, untold>>

\* ... or, with a request still running, when the deadline has passed: at
\* once, if that was while Stop was waiting.
DrainTimeout(s) ==
  /\ Moves(s, "draining", "closing")
  /\ s \in late
  /\ inflight[s] # "none"
  /\ Regular
  /\ UNCHANGED <<consumerVars, open, inflight, late, begun, untold>>

Close(s, connection) ==
  /\ phase[s] = "closing"
  /\ connection = CASE "producer" \in open[s] -> "producer"
                    [] "redis" \in open[s] -> "redis"
                    [] OTHER -> "db"
  /\ connection \in open[s]
  /\ open' = [open EXCEPT ![s] = @ \ {connection}]
  /\ Regular
  /\ UNCHANGED <<consumerVars, phase, inflight, late, begun, untold>>

\* What dies with a process: the request it serves, and its deadline.
Forget(s) ==
  /\ inflight' = [inflight EXCEPT ![s] = "none"]
  /\ IF inflight[s] = "committed" THEN Lose(s) ELSE UNCHANGED untold
  /\ late' = late \ {s}

\* main returns.
Exit(s) ==
  /\ Moves(s, "closing", "down")
  /\ open[s] = {}
  /\ Forget(s)
  /\ Regular
  /\ UNCHANGED <<consumerVars, open, begun>>

\* The process is killed, or ListenAndServe fails (log.Fatal).
Crash(s) ==
  /\ phase[s] # "down"
  /\ phase' = [phase EXCEPT ![s] = "down"]
  /\ open' = [open EXCEPT ![s] = {}]
  /\ Forget(s)
  /\ DropClaims(s)
  /\ Mishap
  /\ UNCHANGED begun

------------------------------------------------------------------------------

\* What a process that runs goes on to do, and the environment with it.
Proceeds(s) ==
  \/ Start(s)
  \/ \E connection \in Connections : Connect(s, connection)
  \/ Stopped(s)
  \/ Drained(s)
  \/ DrainTimeout(s)
  \/ \E connection \in Connections : Close(s, connection)
  \/ Exit(s)

Serving(s) ==
  \/ Refuse(s)
  \/ Commit(s)
  \/ \E p \in Partitions : Publish(s, p)
  \/ PublishFails(s)

Consuming(s, p) ==
  \/ TakeMessage(s, p)
  \/ HandleMessage(s, p)
  \/ Leave(s, p)

Next ==
  \/ \E s \in Servers :
       \/ Proceeds(s)
       \/ Serving(s)
       \/ Accept(s)
       \/ ConnectFails(s)
       \/ Signal(s)
       \/ DeadlinePasses(s)
       \/ Crash(s)
  \/ \E s \in Servers, p \in Partitions :
       \/ Consuming(s, p)
       \/ Join(s, p)
       \/ CommitOffsets(s, p)
       \/ Rebalance(s, p)
       \/ TimeoutAlive(s, p)
       \/ PublishUnacknowledged(s, p)
  \/ \E p \in Partitions : ForeignMessage(p) \/ Timeout(p)

Spec == Init /\ [][Next]_vars

\* Processes and goroutines run, so do the timers of main and of the
\* coordinator; a partition nobody has is given to some member.  No commit of
\* offsets is relied upon, and no request has to end.
Fairness ==
  /\ \A s \in Servers : WF_vars(Proceeds(s)) /\ WF_vars(DeadlinePasses(s))
  /\ \A s \in Servers, p \in Partitions : WF_vars(Consuming(s, p))
  /\ \A p \in Partitions :
       /\ WF_vars(\E s \in Servers : Join(s, p))
       /\ WF_vars(Timeout(p))

FairSpec == Spec /\ Fairness

------------------------------------------------------------------------------
(* Properties                                                              *)

\* Connections, requests, claims and offsets have their types; what a claim
\* refers to is in the log.
TypeOK ==
  /\ log \in [Partitions -> Seq(Contents)]
  /\ committed \in [Partitions -> Nat]
  /\ owner \in [Partitions -> Servers \cup {Null}]
  /\ claim \in [Servers -> [Partitions -> Claim]]
  /\ tried \subseteq Stored
  /\ again \subseteq tried
  /\ phase \in [Servers -> Phases]
  /\ open \in [Servers -> SUBSET Connections]
  /\ inflight \in [Servers -> Progress]
  /\ late \subseteq Servers
  /\ begun \in 0 .. MaxMessages
  /\ untold \subseteq {"early", "late"}
  /\ ends \in 0 .. MaxEnds
  /\ mishaps \in 0 .. MaxMishaps
  /\ \A s \in Servers, p \in Partitions :
       claim[s][p].hand <= Len(log[p]) /\ claim[s][p].marked <= Len(log[p])

\* The committed offset of a partition never passes a message that no member
\* has handled, although the mark of a message commits those before it,
\* handled or failed, and although a member that has lost the partition goes
\* on; and it always rests on an event that was handled, so that a message
\* whose handling failed last of all is read again by the next member.
MarksFollowHandling ==
  \A p \in Partitions :
    /\ committed[p] <= Len(log[p])
    /\ {p} \X (1 .. committed[p]) \subseteq tried
    /\ committed[p] > 0 => log[p][committed[p]] = "event"

\* The refinement mapping: a message is handled when a member has tried to.
Group == INSTANCE AtLeastOnce
  WITH Messages <- Partitions \X (1 .. MaxMessages + MaxMishaps),
       sent <- Stored,
       handled <- tried

\* Every message that the broker has stored is handled at least once, whoever
\* stops, crashes or loses its partition in between, if the partition stays
\* with a living member in the end.
DeliversAtLeastOnce == Group!FairSpec

\* A process that has got SIGTERM ends: waiting for the consumer without a
\* deadline does not keep it for ever, nor does a request that never ends,
\* because of the deadline of Shutdown.
ShutdownEnds == \A s \in Servers : phase[s] = "stopping" ~> phase[s] = "down"

\* What SIGTERM and rebalances alone can do: they repeat nothing, because what
\* is marked is committed before the partition goes to another member; and no
\* process loses an event before 30 seconds have passed since its SIGTERM,
\* although requests go on while the consumer stops.  After that it may: when
\* Stop takes the 30 seconds, Shutdown does not wait, and the producer is
\* closed under requests that run.
GracefulStopIsClean == mishaps = 0 => again = {} /\ untold \subseteq {"late"}
==============================================================================
