---------------------------- MODULE RowCacheProofs ----------------------------
(***************************************************************************)
(* RowCache, for all sets of orders, couriers and handlers.                *)
(***************************************************************************)
EXTENDS RowCache, SequenceTheorems, TLAPS

\* A handler holds a row that is no longer current only if it was overtaken.
HeldRowsAreNoted ==
  \A h \in Handlers : \A i \in 1 .. Len(calls[h]) :
    LET c == calls[h][i] IN
    c.op = "set" => c.version = version[c.key] \/ overtaken[c.key]

IInv == TypeOK /\ HeldRowsAreNoted /\ FreshUnlessOvertaken

Deletes(call, k) == call.op \in {"delete", "scan"} /\ call.key = k

LEMMA CallType ==
  ASSUME NEW call \in Call
  PROVE  /\ call.op \in {"set", "delete", "scan", "assign"}
         /\ call.key \in Keys
         /\ call.version \in 0 .. MaxVersion
         /\ call.op = "assign" => call.key \in Orders
BY CacheAssumption DEF Call, Keys

\* The calls the requests are made of.
LEMMA CallsAreTyped ==
  /\ \A k \in Keys : Delete(k) \in Call
  /\ \A k \in Keys, v \in 1 .. MaxVersion : Set(k, v) \in Call
  /\ \A o \in Orders : AutoAssign(o) \in Call
  /\ DeleteByPrefix(Stats) \in Call
BY DEF Delete, Set, AutoAssign, DeleteByPrefix, Call, Keys

\* The keys noted as overtaken, and those of which no old version is about.
Noted == {k \in Keys : overtaken'[k] \/ ~Astray(k)'}

LEMMA NotesAre ==
  ASSUME NEW more, Notes(more)
  PROVE  /\ overtaken' \in [Keys -> BOOLEAN]
         /\ \A k \in Keys : overtaken[k] \/ k \in more => k \in Noted
<1> DEFINE Remains(k) == (overtaken[k] \/ k \in more) /\ Astray(k)'
<1>1. overtaken' = [k \in Keys |-> Remains(k)]
  BY DEF Notes
<1>2. \A k \in Keys : overtaken'[k] = Remains(k)
  BY <1>1, Zenon
<1>3. \A k \in Keys : Remains(k) \in BOOLEAN
  OBVIOUS
<1>4. overtaken' \in [Keys -> BOOLEAN]
  BY <1>1, <1>3, Zenon
<1> QED
  BY <1>2, <1>4 DEF Noted

\* Where a key is noted, an old version of it in the next state is excused.
LEMMA NotedIsEnough ==
  ASSUME NEW k \in Keys, k \in Noted
  PROVE  /\ overtaken'[k] \/ cache'[k] \in {0, version'[k]}
         /\ \A g \in Handlers : \A i \in 1 .. Len(calls'[g]) :
              calls'[g][i].op = "set" /\ calls'[g][i].key = k =>
                calls'[g][i].version = version'[k] \/ overtaken'[k]
BY DEF Noted, Astray

\* A commit keeps the invariant if the calls left to make store new rows only,
\* delete what was to be deleted, and delete every changed row that was there
\* and is not left.
LEMMA CommitStep ==
  ASSUME IInv, NEW h \in Handlers, NEW changed \in SUBSET Keys, NEW next \in Seq(Call),
         NEW left, CommitLeaving(h, changed, left, next),
         \A i \in 1 .. Len(next) :
           \/ \E j \in 1 .. Len(calls[h]) : next[i] = calls[h][j]
           \/ /\ next[i].version \leq version'[next[i].key]
              /\ next[i].op = "set" => next[i].version = version'[next[i].key],
         \A k \in Keys : WillDelete(h, k) => \E i \in 1 .. Len(next) : Deletes(next[i], k),
         \A k \in changed : version[k] > 0 =>
           k \in left \/ \E i \in 1 .. Len(next) : Deletes(next[i], k)
  PROVE  IInv'
<1>1. /\ version \in [Keys -> 0 .. MaxVersion] /\ cache \in [Keys -> 0 .. MaxVersion]
      /\ calls \in [Handlers -> Seq(Call)] /\ overtaken \in [Keys -> BOOLEAN]
      /\ \A k \in Keys : cache[k] \leq version[k]
  BY DEF IInv, TypeOK
<1>2. /\ \A k \in Keys : version'[k] = IF k \in changed THEN version[k] + 1 ELSE version[k]
      /\ \A k \in changed : version[k] < MaxVersion
      /\ version' \in [Keys -> 0 .. MaxVersion]
      /\ \A k \in Keys : version[k] \leq version'[k]
  <2>1. MaxVersion \in Nat
    BY CacheAssumption
  <2> QED
    BY <1>1, <2>1 DEF CommitLeaving
<1>3. /\ overtaken' \in [Keys -> BOOLEAN]
      /\ \A k \in Keys : overtaken[k] => k \in Noted
      /\ \A k \in changed, g \in Handlers : WillSet(g, k) => k \in Noted
      /\ \A k \in Keys : k \in left /\ cache[k] # 0 => k \in Noted
  <2>1. Notes({k \in changed : \E i \in Handlers : WillSet(i, k)} \cup {k \in left : cache[k] # 0})
    BY DEF CommitLeaving
  <2>2. \A more : Notes(more) =>
          /\ overtaken' \in [Keys -> BOOLEAN]
          /\ \A k \in Keys : overtaken[k] \/ k \in more => k \in Noted
    BY NotesAre
  <2> QED
    BY <2>1, <2>2
<1>4. /\ calls' \in [Handlers -> Seq(Call)] /\ calls'[h] = next
      /\ \A g \in Handlers : g # h => calls'[g] = calls[g]
      /\ cache' = cache
  BY <1>1 DEF CommitLeaving
<1>5. ASSUME NEW g \in Handlers, NEW i \in 1 .. Len(calls[g])
      PROVE  /\ calls[g][i] \in Call
             /\ calls[g][i].key \in Keys
             /\ calls[g][i].version \in 0 .. MaxVersion
             /\ calls[g][i].version \leq version'[calls[g][i].key]
             /\ calls[g][i].op = "set" => \/ calls[g][i].version = version'[calls[g][i].key]
                                          \/ calls[g][i].key \in Noted
  <2> DEFINE c == calls[g][i]
  <2>1. c \in Call /\ c.key \in Keys /\ c.version \in 0 .. MaxVersion
    BY <1>1, CallType
  <2>2. c.version \leq version[c.key]
    BY DEF IInv, TypeOK
  <2>3. c.version \leq version'[c.key]
    BY <1>1, <1>2, <2>1, <2>2, CacheAssumption
  <2>4. c.op = "set" => c.version = version[c.key] \/ overtaken[c.key]
    BY DEF IInv, HeldRowsAreNoted
  <2>5. c.op = "set" => WillSet(g, c.key)
    BY DEF WillSet
  <2> QED
    BY <1>2, <1>3, <2>1, <2>3, <2>4, <2>5
<1>6. ASSUME NEW g \in Handlers, NEW i \in 1 .. Len(calls'[g])
      PROVE  /\ calls'[g][i].key \in Keys
             /\ calls'[g][i].version \leq version'[calls'[g][i].key]
             /\ calls'[g][i].op = "set" => \/ calls'[g][i].version = version'[calls'[g][i].key]
                                           \/ calls'[g][i].key \in Noted
  <2>1. CASE g # h
    BY <1>4, <1>5, <2>1
  <2>2. CASE g = h
    <3>1. calls'[g][i] = next[i] /\ i \in 1 .. Len(next) /\ next[i] \in Call
      BY <1>4, <2>2
    <3>2. next[i].key \in Keys
      BY <3>1, CallType
    <3>3. CASE \E j \in 1 .. Len(calls[h]) : next[i] = calls[h][j]
      BY <1>5, <2>2, <3>1, <3>3
    <3> QED
      BY <3>1, <3>2, <3>3
  <2> QED
    BY <2>1, <2>2
<1>7. TypeOK'
  <2>1. \A k \in Keys : cache'[k] \leq version'[k]
    BY <1>1, <1>2, <1>4, CacheAssumption
  <2> QED
    BY <1>1, <1>2, <1>3, <1>4, <1>6, <2>1 DEF TypeOK
<1>8. HeldRowsAreNoted'
  BY <1>6, NotedIsEnough DEF HeldRowsAreNoted
<1>9. FreshUnlessOvertaken'
  <2> SUFFICES ASSUME NEW k \in Keys
               PROVE  \/ cache'[k] \in {0, version'[k]}
                      \/ overtaken'[k]
                      \/ \E g \in Handlers : WillDelete(g, k)'
    BY DEF FreshUnlessOvertaken
  <2>1. (\E i \in 1 .. Len(next) : Deletes(next[i], k)) => WillDelete(h, k)'
    BY <1>4 DEF WillDelete, Deletes
  <2>2. ASSUME NEW g \in Handlers, WillDelete(g, k)  PROVE \E f \in Handlers : WillDelete(f, k)'
    <3>1. CASE g # h
      BY <1>4, <2>2, <3>1 DEF WillDelete
    <3>2. CASE g = h
      BY <2>1, <2>2, <3>2
    <3> QED
      BY <3>1, <3>2
  <2>3. CASE k \in changed
    <3>1. version[k] = 0 => cache'[k] = 0
      BY <1>1, <1>4
    <3>2. version[k] > 0 => cache'[k] = 0 \/ k \in Noted \/ WillDelete(h, k)'
      BY <1>3, <1>4, <2>1, <2>3
    <3>3. version[k] = 0 \/ version[k] > 0
      BY <1>1
    <3> QED
      BY <3>1, <3>2, <3>3, NotedIsEnough
  <2>4. CASE k \notin changed
    <3>1. version'[k] = version[k] /\ cache'[k] = cache[k]
      BY <1>2, <1>4, <2>4
    <3>2. \/ cache[k] \in {0, version[k]}
          \/ overtaken[k]
          \/ \E g \in Handlers : WillDelete(g, k)
      BY DEF IInv, FreshUnlessOvertaken
    <3> QED
      BY <1>3, <2>2, <3>1, <3>2, NotedIsEnough
  <2> QED
    BY <2>3, <2>4
<1> QED
  BY <1>7, <1>8, <1>9 DEF IInv

\* Any other step keeps the invariant if what it stores is noted when it is
\* stale, and a deletion is dropped only when it was made or is noted.
LEMMA CallsStep ==
  ASSUME IInv, NEW h \in Handlers, NEW next \in Seq(Call),
         version' = version, calls' = [calls EXCEPT ![h] = next],
         \A i \in 1 .. Len(next) :
           \/ \E j \in 1 .. Len(calls[h]) : next[i] = calls[h][j]
           \/ /\ next[i].version \leq version[next[i].key]
              /\ next[i].op = "set" => next[i].version = version[next[i].key],
         overtaken' \in [Keys -> BOOLEAN],
         \A k \in Keys : overtaken[k] => k \in Noted,
         cache' \in [Keys -> 0 .. MaxVersion],
         \A k \in Keys : \/ cache'[k] \in {0, cache[k]}
                        \/ /\ cache'[k] \leq version[k]
                           /\ cache'[k] = version[k] \/ k \in Noted,
         \A k \in Keys : WillDelete(h, k) =>
                          \/ k \in Noted \/ cache'[k] = 0
                          \/ \E i \in 1 .. Len(next) : Deletes(next[i], k)
  PROVE  IInv'
<1>1. /\ version \in [Keys -> 0 .. MaxVersion] /\ cache \in [Keys -> 0 .. MaxVersion]
      /\ calls \in [Handlers -> Seq(Call)]
      /\ \A k \in Keys : cache[k] \leq version[k]
  BY DEF IInv, TypeOK
<1>2. /\ calls' \in [Handlers -> Seq(Call)] /\ calls'[h] = next
      /\ \A g \in Handlers : g # h => calls'[g] = calls[g]
  BY <1>1
<1>3. ASSUME NEW g \in Handlers, NEW i \in 1 .. Len(calls[g])
      PROVE  /\ calls[g][i].key \in Keys
             /\ calls[g][i].version \leq version[calls[g][i].key]
             /\ calls[g][i].op = "set" => \/ calls[g][i].version = version[calls[g][i].key]
                                          \/ calls[g][i].key \in Noted
  <2> DEFINE c == calls[g][i]
  <2>1. c \in Call /\ c.key \in Keys
    BY <1>1, CallType
  <2>2. c.version \leq version[c.key]
    BY DEF IInv, TypeOK
  <2>3. c.op = "set" => c.version = version[c.key] \/ overtaken[c.key]
    BY DEF IInv, HeldRowsAreNoted
  <2> QED
    BY <2>1, <2>2, <2>3
<1>4. ASSUME NEW g \in Handlers, NEW i \in 1 .. Len(calls'[g])
      PROVE  /\ calls'[g][i].key \in Keys
             /\ calls'[g][i].version \leq version'[calls'[g][i].key]
             /\ calls'[g][i].op = "set" => \/ calls'[g][i].version = version'[calls'[g][i].key]
                                           \/ calls'[g][i].key \in Noted
  <2>1. CASE g # h
    BY <1>2, <1>3, <2>1
  <2>2. CASE g = h
    <3>1. calls'[g][i] = next[i] /\ i \in 1 .. Len(next) /\ next[i] \in Call
      BY <1>2, <2>2
    <3>2. next[i].key \in Keys
      BY <3>1, CallType
    <3>3. CASE \E j \in 1 .. Len(calls[h]) : next[i] = calls[h][j]
      BY <1>3, <2>2, <3>1, <3>3
    <3> QED
      BY <3>1, <3>2, <3>3
  <2> QED
    BY <2>1, <2>2
<1>5. TypeOK'
  <2>1. ASSUME NEW k \in Keys  PROVE cache'[k] \leq version'[k]
    <3>1. version[k] \in Nat /\ version'[k] = version[k] /\ cache[k] \leq version[k]
      BY <1>1, CacheAssumption
    <3>2. cache'[k] = 0 \/ cache'[k] = cache[k] \/ cache'[k] \leq version[k]
      OBVIOUS
    <3> QED
      BY <3>1, <3>2
  <2> QED
    BY <1>1, <1>2, <1>4, <2>1 DEF TypeOK
<1>6. HeldRowsAreNoted'
  BY <1>4, NotedIsEnough DEF HeldRowsAreNoted
<1>7. FreshUnlessOvertaken'
  <2> SUFFICES ASSUME NEW k \in Keys
               PROVE  \/ cache'[k] \in {0, version'[k]}
                      \/ overtaken'[k]
                      \/ \E g \in Handlers : WillDelete(g, k)'
    BY DEF FreshUnlessOvertaken
  <2>1. ASSUME NEW g \in Handlers, WillDelete(g, k)
        PROVE  k \in Noted \/ cache'[k] = 0 \/ \E f \in Handlers : WillDelete(f, k)'
    <3>1. CASE g # h
      BY <1>2, <2>1, <3>1 DEF WillDelete
    <3>2. CASE g = h
      <4>1. (\E i \in 1 .. Len(next) : Deletes(next[i], k)) => WillDelete(h, k)'
        BY <1>2 DEF WillDelete, Deletes
      <4> QED
        BY <2>1, <3>2, <4>1
    <3> QED
      BY <3>1, <3>2
  <2>2. \/ cache[k] \in {0, version[k]}
        \/ overtaken[k]
        \/ \E g \in Handlers : WillDelete(g, k)
    BY DEF IInv, FreshUnlessOvertaken
  <2> QED
    BY <2>1, <2>2, NotedIsEnough
<1> QED
  BY <1>5, <1>6, <1>7 DEF IInv

\* What is left of the calls of a handler after one of them.
LEMMA TailOfCalls ==
  ASSUME IInv, NEW h \in Handlers, calls[h] # <<>>
  PROVE  /\ Head(calls[h]) \in Call
         /\ Head(calls[h]) = calls[h][1] /\ 1 \in 1 .. Len(calls[h])
         /\ Tail(calls[h]) \in Seq(Call)
         /\ \A i \in 1 .. Len(Tail(calls[h])) : \E j \in 1 .. Len(calls[h]) :
              Tail(calls[h])[i] = calls[h][j]
         /\ \A k \in Keys : WillDelete(h, k) =>
              \/ Deletes(Head(calls[h]), k)
              \/ \E i \in 1 .. Len(Tail(calls[h])) : Deletes(Tail(calls[h])[i], k)
<1>1. calls[h] \in Seq(Call)
  BY DEF IInv, TypeOK
<1>2. /\ Head(calls[h]) \in Call
      /\ Tail(calls[h]) \in Seq(Call)
      /\ Len(Tail(calls[h])) = Len(calls[h]) - 1
      /\ \A i \in 1 .. Len(Tail(calls[h])) : Tail(calls[h])[i] = calls[h][i + 1]
  BY <1>1, HeadTailProperties
<1>3. Head(calls[h]) = calls[h][1] /\ Len(calls[h]) \in Nat /\ Len(calls[h]) # 0
  BY <1>1
<1>4. \A j \in 1 .. Len(calls[h]) :
        \/ j = 1
        \/ /\ j - 1 \in 1 .. Len(Tail(calls[h]))
           /\ Tail(calls[h])[j - 1] = calls[h][j]
  BY <1>2, <1>3
<1>5. ASSUME NEW k \in Keys, WillDelete(h, k)
      PROVE  \/ Deletes(Head(calls[h]), k)
             \/ \E i \in 1 .. Len(Tail(calls[h])) : Deletes(Tail(calls[h])[i], k)
  BY <1>3, <1>4, <1>5 DEF WillDelete, Deletes
<1>6. \A i \in 1 .. Len(Tail(calls[h])) : i + 1 \in 1 .. Len(calls[h])
  BY <1>2, <1>3
<1>7. \A i \in 1 .. Len(Tail(calls[h])) : \E j \in 1 .. Len(calls[h]) :
        Tail(calls[h])[i] = calls[h][j]
  BY <1>2, <1>6, Zenon
<1>8. 1 \in 1 .. Len(calls[h])
  BY <1>3
<1>9. \A k \in Keys : WillDelete(h, k) =>
        \/ Deletes(Head(calls[h]), k)
        \/ \E i \in 1 .. Len(Tail(calls[h])) : Deletes(Tail(calls[h])[i], k)
  BY <1>5, Zenon
<1> QED
  BY <1>2, <1>3, <1>7, <1>8, <1>9, Zenon

\* The requests that change a row which exists delete what they change.
LEMMA RequestStep ==
  ASSUME IInv, NEW h \in Handlers, calls[h] = <<>>,
         NEW changed \in SUBSET Keys, NEW next \in Seq(Call),
         Commit(h, changed, next),
         \A i \in 1 .. Len(next) : next[i].op \in {"delete", "scan"},
         \A k \in changed : \E i \in 1 .. Len(next) : next[i].key = k
  PROVE  IInv'
<1>1. version \in [Keys -> 0 .. MaxVersion] /\ MaxVersion \in Nat
  BY CacheAssumption DEF IInv, TypeOK
<1>2. \A k \in Keys : version'[k] = IF k \in changed THEN version[k] + 1 ELSE version[k]
  BY DEF Commit, CommitLeaving
<1>3. ASSUME NEW i \in 1 .. Len(next)
      PROVE  /\ next[i].version \leq version'[next[i].key]
             /\ next[i].op = "set" => next[i].version = version'[next[i].key]
  <2>1. next[i] \in Call /\ next[i].key \in Keys /\ next[i].op \in {"delete", "scan"}
    BY CallType
  <2>2. next[i].version = 0
    BY <2>1 DEF Call
  <2>3. version'[next[i].key] \in Nat
    BY <1>1, <1>2, <2>1
  <2> QED
    BY <2>1, <2>2, <2>3
<1>4. \A k \in Keys : ~WillDelete(h, k)
  BY DEF WillDelete
<1>5. \A k \in changed : \E i \in 1 .. Len(next) : Deletes(next[i], k)
  BY DEF Deletes
<1> QED
  BY <1>3, <1>4, <1>5, CommitStep DEF Commit

\* The requests that insert a row store it.
LEMMA InsertStep ==
  ASSUME IInv, NEW h \in Handlers, calls[h] = <<>>, NEW k \in Keys, ~Exists(k),
         NEW next \in Seq(Call), Commit(h, {k}, next),
         \A i \in 1 .. Len(next) :
           \/ next[i].op = "assign"
           \/ next[i].op = "set" /\ next[i].key = k /\ next[i].version = 1
  PROVE  IInv'
<1>1. version \in [Keys -> 0 .. MaxVersion] /\ MaxVersion \in Nat
  BY CacheAssumption DEF IInv, TypeOK
<1>2. /\ \A j \in Keys : version'[j] = IF j = k THEN version[j] + 1 ELSE version[j]
      /\ version[k] = 0
  BY <1>1 DEF Commit, CommitLeaving, Exists
<1>3. ASSUME NEW i \in 1 .. Len(next)
      PROVE  /\ next[i].version \leq version'[next[i].key]
             /\ next[i].op = "set" => next[i].version = version'[next[i].key]
  <2>1. next[i] \in Call /\ next[i].key \in Keys
    BY CallType
  <2>2. CASE next[i].op = "assign"
    <3>1. next[i].version = 0
      BY <2>1, <2>2 DEF Call
    <3>2. version'[next[i].key] \in Nat
      BY <1>1, <1>2, <2>1
    <3> QED
      BY <2>2, <3>1, <3>2
  <2>3. CASE next[i].op = "set" /\ next[i].key = k /\ next[i].version = 1
    BY <1>2, <2>3
  <2> QED
    BY <2>2, <2>3
<1>4. \A j \in Keys : ~WillDelete(h, j)
  BY DEF WillDelete
<1>5. \A j \in {k} : ~(version[j] > 0)
  BY <1>1, <1>2
<1>6. {k} \in SUBSET Keys
  OBVIOUS
<1> QED
  BY <1>3, <1>4, <1>5, <1>6, CommitStep DEF Commit

\* The answer of a call, and a handler that dies.
LEMMA CallStep ==
  ASSUME IInv, NEW h \in Handlers,
         DoSet(h) \/ DoDelete(h) \/ DoScan(h) \/ FailCall(h) \/ Die(h)
  PROVE  IInv'
<1>1. /\ version \in [Keys -> 0 .. MaxVersion] /\ cache \in [Keys -> 0 .. MaxVersion]
      /\ overtaken \in [Keys -> BOOLEAN] /\ calls \in [Handlers -> Seq(Call)]
      /\ 0 \in 0 .. MaxVersion
  BY CacheAssumption DEF IInv, TypeOK
<1>2. calls[h] # <<>>
  BY DEF DoSet, DoDelete, DoScan, FailCall, Die, Calls
<1> DEFINE call == Head(calls[h])
           rest == Tail(calls[h])
<1>3. /\ call \in Call /\ call = calls[h][1] /\ 1 \in 1 .. Len(calls[h])
      /\ rest \in Seq(Call)
      /\ \A i \in 1 .. Len(rest) : \E j \in 1 .. Len(calls[h]) : rest[i] = calls[h][j]
      /\ \A k \in Keys : WillDelete(h, k) =>
           Deletes(call, k) \/ \E i \in 1 .. Len(rest) : Deletes(rest[i], k)
  BY <1>2, TailOfCalls
<1>4. call.key \in Keys /\ call.version \in 0 .. MaxVersion
  BY <1>3, CallType
<1> HIDE DEF call, rest
<1>5. CASE DoSet(h)
  <2>1. /\ version' = version /\ Notes({}) /\ call.op = "set"
        /\ calls' = [calls EXCEPT ![h] = rest]
        /\ cache' = [cache EXCEPT ![call.key] = call.version]
    BY <1>5 DEF DoSet, Calls, call, rest
  <2>2. cache' \in [Keys -> 0 .. MaxVersion] /\ cache'[call.key] = call.version
        /\ \A k \in Keys : k # call.key => cache'[k] = cache[k]
    BY <1>1, <1>4, <2>1
  <2>3. /\ call.version \leq version[call.key]
        /\ call.version = version[call.key] \/ overtaken[call.key]
    BY <1>3, <2>1 DEF IInv, TypeOK, HeldRowsAreNoted
  <2>4. \A k \in Keys : WillDelete(h, k) => \E i \in 1 .. Len(rest) : Deletes(rest[i], k)
    BY <1>3, <2>1 DEF Deletes
  <2>6. overtaken' \in [Keys -> BOOLEAN] /\ \A k \in Keys : overtaken[k] => k \in Noted
    BY <2>1, NotesAre
  <2>5. ASSUME NEW k \in Keys
        PROVE  \/ cache'[k] \in {0, cache[k]}
               \/ /\ cache'[k] \leq version[k]
                  /\ cache'[k] = version[k] \/ k \in Noted
    <3>1. CASE k = call.key
      BY <2>2, <2>3, <2>6, <3>1
    <3>2. CASE k # call.key
      BY <2>2, <3>2
    <3> QED
      BY <3>1, <3>2
  <2>7. cache' \in [Keys -> 0 .. MaxVersion]
    BY <2>2
  <2> QED
    <3>1. version' = version /\ calls' = [calls EXCEPT ![h] = rest]
      BY <2>1
    <3>2. rest \in Seq(Call)
          /\ \A i \in 1 .. Len(rest) : \E j \in 1 .. Len(calls[h]) : rest[i] = calls[h][j]
      BY <1>3
    <3> QED
      BY <2>4, <2>5, <2>6, <2>7, <3>1, <3>2, CallsStep
<1>6. CASE DoDelete(h)
  <2>1. /\ version' = version /\ Notes({})
        /\ calls' = [calls EXCEPT ![h] = rest]
        /\ cache' = [cache EXCEPT ![call.key] = 0]
    BY <1>6 DEF DoDelete, Calls, call, rest
  <2>2. cache' \in [Keys -> 0 .. MaxVersion] /\ cache'[call.key] = 0
        /\ \A k \in Keys : k # call.key => cache'[k] = cache[k]
    BY <1>1, <1>4, <2>1
  <2>3. \A k \in Keys : Deletes(call, k) => cache'[k] = 0
    BY <2>2 DEF Deletes
  <2>4. overtaken' \in [Keys -> BOOLEAN] /\ \A k \in Keys : overtaken[k] => k \in Noted
    BY <2>1, NotesAre
  <2>5. \A k \in Keys : cache'[k] \in {0, cache[k]}
    BY <2>2
  <2>6. \A k \in Keys : WillDelete(h, k) =>
          cache'[k] = 0 \/ \E i \in 1 .. Len(rest) : Deletes(rest[i], k)
    BY <1>3, <2>3
  <2>7. version' = version /\ calls' = [calls EXCEPT ![h] = rest]
        /\ cache' \in [Keys -> 0 .. MaxVersion]
    BY <2>1, <2>2
  <2> QED
    BY <1>3, <2>4, <2>5, <2>6, <2>7, CallsStep
<1>7. CASE DoScan(h)
  <2> DEFINE next == IF cache[call.key] = 0 THEN rest ELSE <<Delete(call.key)>> \o rest
  <2>1. /\ version' = version /\ overtaken' = overtaken /\ cache' = cache
        /\ calls' = [calls EXCEPT ![h] = next]
    BY <1>7 DEF DoScan, Calls, call, rest
  <2>5. \A k \in Keys : overtaken[k] => k \in Noted
    BY <2>1 DEF Noted
  <2>2. Delete(call.key) \in Call /\ Delete(call.key).op = "delete"
        /\ Delete(call.key).version = 0 /\ Delete(call.key).key = call.key
    BY <1>4, CallsAreTyped DEF Delete
  <2>3. CASE cache[call.key] = 0
    <3>1. next = rest
      BY <2>3
    <3>2. \A k \in Keys : Deletes(call, k) => cache'[k] = 0
      BY <2>1, <2>3 DEF Deletes
    <3> HIDE DEF next
    <3> QED
      BY <1>1, <1>3, <2>1, <2>5, <3>1, <3>2, CallsStep
  <2>4. CASE cache[call.key] # 0
    <3>1. next = <<Delete(call.key)>> \o rest
      BY <2>4
    <3>2. /\ <<Delete(call.key)>> \in Seq(Call) /\ Len(<<Delete(call.key)>>) = 1
          /\ <<Delete(call.key)>>[1] = Delete(call.key)
      BY <2>2
    <3>3. Len(rest) \in Nat
      BY <1>3
    <3> HIDE DEF next
    <3>4. /\ next \in Seq(Call) /\ Len(next) = Len(rest) + 1
          /\ \A i \in 1 .. Len(next) : next[i] = IF i = 1 THEN Delete(call.key) ELSE rest[i - 1]
      BY <1>3, <3>1, <3>2, <3>3, ConcatProperties
    <3>5. next[1] = Delete(call.key) /\ 1 \in 1 .. Len(next)
      BY <3>3, <3>4
    <3>6. \A i \in 1 .. Len(rest) : i + 1 \in 1 .. Len(next) /\ next[i + 1] = rest[i]
      BY <3>3, <3>4
    <3>7. ASSUME NEW k \in Keys, WillDelete(h, k)
          PROVE  \E i \in 1 .. Len(next) : Deletes(next[i], k)
      <4>1. CASE Deletes(call, k)
        BY <2>2, <3>5, <4>1 DEF Deletes
      <4>2. CASE \E i \in 1 .. Len(rest) : Deletes(rest[i], k)
        BY <3>6, <4>2
      <4> QED
        BY <1>3, <3>7, <4>1, <4>2
    <3>8. ASSUME NEW i \in 1 .. Len(next)
          PROVE  \/ \E j \in 1 .. Len(calls[h]) : next[i] = calls[h][j]
                 \/ /\ next[i].version \leq version[next[i].key]
                    /\ next[i].op = "set" => next[i].version = version[next[i].key]
      <4>1. CASE i = 1
        <5>1. version[call.key] \in Nat
          BY <1>1, <1>4
        <5> QED
          BY <2>2, <3>5, <4>1, <5>1
      <4>2. CASE i # 1
        <5>1. i - 1 \in 1 .. Len(rest) /\ next[i] = rest[i - 1]
          BY <3>3, <3>4, <4>2
        <5> QED
          BY <1>3, <5>1
      <4> QED
        BY <4>1, <4>2
    <3> QED
      BY <1>1, <2>1, <2>5, <3>4, <3>7, <3>8, CallsStep
  <2> QED
    BY <2>3, <2>4
<1>8. CASE FailCall(h)
  <2>1. /\ version' = version /\ cache' = cache
        /\ calls' = [calls EXCEPT ![h] = rest]
        /\ Notes(IF call.op \in {"delete", "scan"} THEN {call.key} ELSE {})
    BY <1>8 DEF FailCall, call, rest
  <2>2. /\ overtaken' \in [Keys -> BOOLEAN]
        /\ \A k \in Keys : overtaken[k] => k \in Noted
        /\ call.op \in {"delete", "scan"} => call.key \in Noted
    BY <1>4, <2>1, NotesAre
  <2>4. \A k \in Keys : WillDelete(h, k) =>
          k \in Noted \/ \E i \in 1 .. Len(rest) : Deletes(rest[i], k)
    BY <1>3, <2>2 DEF Deletes
  <2>5. cache' \in [Keys -> 0 .. MaxVersion] /\ \A k \in Keys : cache'[k] = cache[k]
    BY <1>1, <2>1
  <2> QED
    BY <1>3, <2>1, <2>2, <2>4, <2>5, CallsStep
<1>9. CASE Die(h)
  <2>1. /\ version' = version /\ cache' = cache
        /\ calls' = [calls EXCEPT ![h] = <<>>]
        /\ Notes({k \in Keys : WillDelete(h, k)})
    BY <1>9 DEF Die
  <2>2. overtaken' \in [Keys -> BOOLEAN]
        /\ \A k \in Keys : overtaken[k] \/ WillDelete(h, k) => k \in Noted
    BY <2>1, NotesAre
  <2>3. /\ \A k \in Keys : overtaken[k] => k \in Noted
        /\ \A k \in Keys : WillDelete(h, k) => k \in Noted
    BY <2>2
  <2>4. <<>> \in Seq(Call) /\ Len(<<>>) = 0
    OBVIOUS
  <2>5. \A i \in 1 .. Len(<<>>) : FALSE
    BY <2>4
  <2> DEFINE next == <<>>
  <2>6. next \in Seq(Call) /\ (\A i \in 1 .. Len(next) : FALSE) /\ calls' = [calls EXCEPT ![h] = next]
    BY <2>1, <2>4, <2>5
  <2> HIDE DEF next
  <2> QED
    BY <1>1, <2>1, <2>2, <2>3, <2>6, CallsStep
<1> QED
  BY <1>5, <1>6, <1>7, <1>8, <1>9

LEMMA AssignStep ==
  ASSUME IInv, NEW h \in Handlers, NEW c \in Couriers, DoAssign(h, c)
  PROVE  IInv'
<1> DEFINE o == Head(calls[h]).key
           rest == Tail(calls[h])
           next == <<Delete(o), Delete(c)>> \o rest
           changed == {o, c}
<1>1. calls[h] # <<>> /\ Head(calls[h]).op = "assign" /\ Commit(h, {o, c}, next)
  BY DEF DoAssign, Calls
<1>2. CommitLeaving(h, changed, {}, next)
  BY <1>1 DEF Commit
<1>3. /\ o \in Orders /\ o \in Keys /\ c \in Keys
      /\ rest \in Seq(Call)
      /\ \A i \in 1 .. Len(rest) : \E j \in 1 .. Len(calls[h]) : rest[i] = calls[h][j]
      /\ \A k \in Keys : WillDelete(h, k) => \E i \in 1 .. Len(rest) : Deletes(rest[i], k)
  BY <1>1, TailOfCalls, CallType DEF Deletes, Keys
<1> HIDE DEF o, rest
<1>4. /\ Delete(o) \in Call /\ Delete(c) \in Call
      /\ Delete(o).op = "delete" /\ Delete(o).version = 0 /\ Delete(o).key = o
      /\ Delete(c).op = "delete" /\ Delete(c).version = 0 /\ Delete(c).key = c
  BY <1>3, CallsAreTyped DEF Delete
<1>5. /\ <<Delete(o), Delete(c)>> \in Seq(Call) /\ Len(<<Delete(o), Delete(c)>>) = 2
      /\ <<Delete(o), Delete(c)>>[1] = Delete(o) /\ <<Delete(o), Delete(c)>>[2] = Delete(c)
  BY <1>4
<1>6. Len(rest) \in Nat
  BY <1>3
<1> DEFINE first == <<Delete(o), Delete(c)>>
<1>7. /\ next \in Seq(Call) /\ Len(next) = Len(rest) + 2
      /\ \A i \in 1 .. Len(next) : next[i] = IF i \leq 2 THEN first[i] ELSE rest[i - 2]
  BY <1>3, <1>5, <1>6, ConcatProperties
<1>8. /\ 1 \in 1 .. Len(next) /\ next[1] = Delete(o)
      /\ 2 \in 1 .. Len(next) /\ next[2] = Delete(c)
  BY <1>5, <1>6, <1>7
<1> HIDE DEF next, first
<1>9. \A i \in 1 .. Len(rest) : i + 2 \in 1 .. Len(next) /\ next[i + 2] = rest[i]
  BY <1>6, <1>7
<1>10. \A k \in Keys : WillDelete(h, k) => \E i \in 1 .. Len(next) : Deletes(next[i], k)
  BY <1>3, <1>9
<1>11. ASSUME NEW k \in changed, version[k] > 0
       PROVE  k \in {} \/ \E i \in 1 .. Len(next) : Deletes(next[i], k)
  BY <1>4, <1>8 DEF Deletes
<1>12. ASSUME NEW i \in 1 .. Len(next)
       PROVE  \/ \E j \in 1 .. Len(calls[h]) : next[i] = calls[h][j]
              \/ /\ next[i].version \leq version'[next[i].key]
                 /\ next[i].op = "set" => next[i].version = version'[next[i].key]
  <2>1. version'[o] \in Nat /\ version'[c] \in Nat
    <3>1. version' = [k \in Keys |-> IF k \in {o, c} THEN version[k] + 1 ELSE version[k]]
      BY <1>2 DEF CommitLeaving
    <3>2. version[o] \in Nat /\ version[c] \in Nat
      BY <1>3, CacheAssumption DEF IInv, TypeOK
    <3> QED
      BY <1>3, <3>1, <3>2
  <2>2. CASE i = 1
    BY <1>4, <1>8, <2>1, <2>2
  <2>3. CASE i = 2
    BY <1>4, <1>8, <2>1, <2>3
  <2>4. CASE i # 1 /\ i # 2
    <3>1. i - 2 \in 1 .. Len(rest) /\ next[i] = rest[i - 2]
      BY <1>6, <1>7, <2>4
    <3> QED
      BY <1>3, <3>1
  <2> QED
    BY <2>2, <2>3, <2>4
<1>13. changed \in SUBSET Keys
  BY <1>3
<1> HIDE DEF changed
<1> QED
  BY <1>2, <1>7, <1>10, <1>11, <1>12, <1>13, CommitStep

LEMMA ReadStep ==
  ASSUME IInv, NEW h \in Handlers, NEW k \in Keys, ReadRow(h, k)
  PROVE  IInv'
<1> DEFINE next == <<Set(k, version[k])>>
<1>1. /\ version \in [Keys -> 0 .. MaxVersion] /\ cache \in [Keys -> 0 .. MaxVersion]
      /\ overtaken \in [Keys -> BOOLEAN]
  BY DEF IInv, TypeOK
<1>2. /\ calls[h] = <<>> /\ version[k] \in 1 .. MaxVersion
      /\ version' = version /\ cache' = cache /\ overtaken' = overtaken
      /\ calls' = [calls EXCEPT ![h] = next]
  BY <1>1, CacheAssumption DEF ReadRow, Exists
<1>3. Set(k, version[k]) \in Call /\ Set(k, version[k]).key = k
      /\ Set(k, version[k]).version = version[k]
  BY <1>2, CallsAreTyped DEF Set
<1>4. next \in Seq(Call) /\ Len(next) = 1 /\ next[1] = Set(k, version[k])
  BY <1>3
<1> HIDE DEF next
<1>5. \A j \in Keys : ~WillDelete(h, j)
  BY <1>2 DEF WillDelete
<1>6. \A i \in 1 .. Len(next) : /\ next[i].version \leq version[next[i].key]
                               /\ next[i].version = version[next[i].key]
  BY <1>2, <1>3, <1>4
<1>7. \A j \in Keys : overtaken[j] => j \in Noted
  BY <1>2 DEF Noted
<1> QED
  BY <1>1, <1>2, <1>4, <1>5, <1>6, <1>7, CallsStep

LEMMA InsertsStep ==
  ASSUME IInv, NEW h \in Handlers,
         \/ \E o \in Orders, autoAssign \in BOOLEAN : CreateOrder(h, o, autoAssign)
         \/ \E c \in Couriers : CreateCourier(h, c)
  PROVE  IInv'
<1>1. ASSUME NEW o \in Orders, NEW autoAssign \in BOOLEAN, CreateOrder(h, o, autoAssign)
      PROVE  IInv'
  <2> DEFINE next == IF autoAssign THEN <<Set(o, 1), AutoAssign(o)>> ELSE <<Set(o, 1)>>
  <2>1. o \in Keys /\ calls[h] = <<>> /\ ~Exists(o) /\ Commit(h, {o}, next)
    BY <1>1 DEF CreateOrder, Keys
  <2>2. /\ Set(o, 1) \in Call /\ AutoAssign(o) \in Call
        /\ Set(o, 1).op = "set" /\ Set(o, 1).key = o /\ Set(o, 1).version = 1
        /\ AutoAssign(o).op = "assign"
    BY <2>1, CallsAreTyped, CacheAssumption DEF Set, AutoAssign
  <2>3. CASE autoAssign
    <3>1. /\ next \in Seq(Call) /\ Len(next) = 2
          /\ next[1] = Set(o, 1) /\ next[2] = AutoAssign(o)
      BY <2>2, <2>3
    <3> HIDE DEF next
    <3> QED
      BY <2>1, <2>2, <3>1, InsertStep
  <2>4. CASE ~autoAssign
    <3>1. next \in Seq(Call) /\ Len(next) = 1 /\ next[1] = Set(o, 1)
      BY <2>2, <2>4
    <3> HIDE DEF next
    <3> QED
      BY <2>1, <2>2, <3>1, InsertStep
  <2> QED
    BY <2>3, <2>4
<1>2. ASSUME NEW c \in Couriers, CreateCourier(h, c)
      PROVE  IInv'
  <2> DEFINE next == <<Set(c, 1)>>
             changed == {c, Stats}
             left == {Stats}
  <2>1. /\ c \in Keys /\ changed \in SUBSET Keys /\ c # Stats
        /\ calls[h] = <<>> /\ ~Exists(c)
        /\ CommitLeaving(h, changed, left, next)
    BY <1>2, CacheAssumption DEF CreateCourier, Keys
  <2>2. /\ Set(c, 1) \in Call
        /\ Set(c, 1).op = "set" /\ Set(c, 1).key = c /\ Set(c, 1).version = 1
    BY <2>1, CallsAreTyped, CacheAssumption DEF Set
  <2>3. next \in Seq(Call) /\ \A i \in 1 .. Len(next) : next[i] = Set(c, 1)
    BY <2>2
  <2> HIDE DEF next
  <2>4. version[c] = 0 /\ version'[c] = 1
    <3>1. version[c] \in Nat
      BY <2>1, CacheAssumption DEF IInv, TypeOK
    <3>2. version[c] = 0
      BY <2>1, <3>1 DEF Exists
    <3>3. version' = [k \in Keys |-> IF k \in {c, Stats} THEN version[k] + 1 ELSE version[k]]
      BY <2>1 DEF CommitLeaving
    <3> QED
      BY <2>1, <3>2, <3>3
  <2>5. \A k \in Keys : ~WillDelete(h, k)
    BY <2>1 DEF WillDelete
  <2>6. ASSUME NEW k \in changed, version[k] > 0
        PROVE  k \in left \/ \E i \in 1 .. Len(next) : Deletes(next[i], k)
    BY <2>4, <2>6
  <2>7. \A i \in 1 .. Len(next) : next[i].version = version'[next[i].key] /\ next[i].key = c
    BY <2>2, <2>3, <2>4
  <2> HIDE DEF changed, left
  <2> QED
    BY <2>1, <2>2, <2>3, <2>4, <2>5, <2>6, <2>7, CommitStep
<1> QED
  BY <1>1, <1>2

\* The calls by which the requests delete what they have changed.
LEMMA DeletingCalls ==
  ASSUME NEW a \in Keys, NEW b \in Keys
  PROVE  /\ <<Delete(a)>> \in Seq(Call)
         /\ <<Delete(a), Delete(b)>> \in Seq(Call)
         /\ <<Delete(a), DeleteByPrefix(Stats)>> \in Seq(Call)
         /\ <<Delete(a), Delete(b), DeleteByPrefix(Stats)>> \in Seq(Call)
         /\ Delete(a).op = "delete" /\ Delete(a).key = a
         /\ DeleteByPrefix(Stats).op = "scan" /\ DeleteByPrefix(Stats).key = Stats
<1>1. Delete(a) \in Call /\ Delete(b) \in Call /\ DeleteByPrefix(Stats) \in Call
  BY CallsAreTyped
<1> QED
  BY <1>1 DEF Delete, DeleteByPrefix

LEMMA UpdatesStep ==
  ASSUME IInv, NEW h \in Handlers,
         (\E o \in Orders : UpdateOrderStatus(h, o)) \/ (\E c \in Couriers : UpdateCourierStatus(h, c))
  PROVE  IInv'
<1>1. ASSUME NEW o \in Orders, UpdateOrderStatus(h, o)
      PROVE  IInv'
  <2> DEFINE next == <<Delete(o), DeleteByPrefix(Stats)>>
  <2>1. /\ o \in Keys /\ Stats \in Keys /\ {o, Stats} \in SUBSET Keys
        /\ calls[h] = <<>> /\ Commit(h, {o, Stats}, next)
    BY <1>1 DEF UpdateOrderStatus, Keys
  <2>2. /\ Delete(o).op = "delete" /\ Delete(o).key = o
        /\ DeleteByPrefix(Stats).op = "scan" /\ DeleteByPrefix(Stats).key = Stats
    BY <2>1, DeletingCalls
  <2>3. next \in Seq(Call) /\ Len(next) = 2
        /\ next[1] = Delete(o) /\ next[2] = DeleteByPrefix(Stats)
    BY <2>1, DeletingCalls
  <2> HIDE DEF next
  <2>4. \A i \in 1 .. Len(next) : next[i].op \in {"delete", "scan"}
    BY <2>2, <2>3
  <2>5. \A k \in {o, Stats} : \E i \in 1 .. Len(next) : next[i].key = k
    BY <2>2, <2>3
  <2> QED
    BY <2>1, <2>3, <2>4, <2>5, RequestStep
<1>2. ASSUME NEW c \in Couriers, UpdateCourierStatus(h, c)
      PROVE  IInv'
  <2> DEFINE next == <<Delete(c)>>
  <2>1. /\ c \in Keys /\ {c} \in SUBSET Keys
        /\ calls[h] = <<>> /\ Commit(h, {c}, next)
    BY <1>2 DEF UpdateCourierStatus, Keys
  <2>2. Delete(c).op = "delete" /\ Delete(c).key = c
    BY <2>1, DeletingCalls
  <2>3. next \in Seq(Call) /\ Len(next) = 1 /\ next[1] = Delete(c)
    BY <2>1, DeletingCalls
  <2> HIDE DEF next
  <2> QED
    BY <2>1, <2>2, <2>3, RequestStep
<1> QED
  BY <1>1, <1>2

LEMMA ChangesStep ==
  ASSUME IInv, NEW h \in Handlers, NEW o \in Orders, NEW c \in Couriers,
         \/ AssignOrderToCourier(h, o, c) \/ AutoAssignCourier(h, o, c)
         \/ CreateReview(h, o, c)
  PROVE  IInv'
<1>1. /\ o \in Keys /\ c \in Keys /\ Stats \in Keys
      /\ {o, c} \in SUBSET Keys /\ {o, c, Stats} \in SUBSET Keys
  BY DEF Keys
<1>2. calls[h] = <<>>
  BY DEF AssignOrderToCourier, AutoAssignCourier, CreateReview
<1>3. /\ Delete(o).op = "delete" /\ Delete(o).key = o
      /\ Delete(c).op = "delete" /\ Delete(c).key = c
      /\ DeleteByPrefix(Stats).op = "scan" /\ DeleteByPrefix(Stats).key = Stats
  BY <1>1, DeletingCalls
<1>4. CASE AssignOrderToCourier(h, o, c)
  <2> DEFINE next == <<Delete(c), Delete(o)>>
  <2>1. Commit(h, {o, c}, next)
    BY <1>4 DEF AssignOrderToCourier
  <2>2. next \in Seq(Call) /\ Len(next) = 2 /\ next[1] = Delete(c) /\ next[2] = Delete(o)
    BY <1>1, DeletingCalls
  <2> HIDE DEF next
  <2>3. \A i \in 1 .. Len(next) : next[i].op \in {"delete", "scan"}
    BY <1>3, <2>2
  <2>4. \A k \in {o, c} : \E i \in 1 .. Len(next) : next[i].key = k
    BY <1>3, <2>2
  <2> QED
    BY <1>1, <1>2, <2>1, <2>2, <2>3, <2>4, RequestStep
<1>5. CASE AutoAssignCourier(h, o, c)
  <2> DEFINE next == <<Delete(o), Delete(c)>>
  <2>1. Commit(h, {o, c}, next)
    BY <1>5 DEF AutoAssignCourier
  <2>2. next \in Seq(Call) /\ Len(next) = 2 /\ next[1] = Delete(o) /\ next[2] = Delete(c)
    BY <1>1, DeletingCalls
  <2> HIDE DEF next
  <2>3. \A i \in 1 .. Len(next) : next[i].op \in {"delete", "scan"}
    BY <1>3, <2>2
  <2>4. \A k \in {o, c} : \E i \in 1 .. Len(next) : next[i].key = k
    BY <1>3, <2>2
  <2> QED
    BY <1>1, <1>2, <2>1, <2>2, <2>3, <2>4, RequestStep
<1>6. CASE CreateReview(h, o, c)
  <2> DEFINE next == <<Delete(o), Delete(c), DeleteByPrefix(Stats)>>
  <2>1. Commit(h, {o, c, Stats}, next)
    BY <1>6 DEF CreateReview
  <2>2. next \in Seq(Call) /\ Len(next) = 3 /\ next[1] = Delete(o)
        /\ next[2] = Delete(c) /\ next[3] = DeleteByPrefix(Stats)
    BY <1>1, DeletingCalls
  <2> HIDE DEF next
  <2>3. \A i \in 1 .. Len(next) : next[i].op \in {"delete", "scan"}
    BY <1>3, <2>2
  <2>4. \A k \in {o, c, Stats} : \E i \in 1 .. Len(next) : next[i].key = k
    BY <1>3, <2>2
  <2> QED
    BY <1>1, <1>2, <2>1, <2>2, <2>3, <2>4, RequestStep
<1> QED
  BY <1>4, <1>5, <1>6

\* A key ends.
LEMMA ExpireStep ==
  ASSUME IInv, NEW k \in Keys, Expire(k)
  PROVE  IInv'
<1>1. /\ version \in [Keys -> 0 .. MaxVersion] /\ cache \in [Keys -> 0 .. MaxVersion]
      /\ MaxVersion \in Nat
  BY CacheAssumption DEF IInv, TypeOK
<1>2. /\ version' = version /\ calls' = calls
      /\ cache' \in [Keys -> 0 .. MaxVersion]
      /\ \A j \in Keys : cache'[j] = 0 \/ cache'[j] = cache[j]
      /\ overtaken' \in [Keys -> BOOLEAN] /\ \A j \in Keys : overtaken[j] => j \in Noted
  BY <1>1, NotesAre DEF Expire
<1>3. TypeOK'
  <2>1. ASSUME NEW j \in Keys  PROVE cache'[j] \leq version'[j]
    <3>1. cache[j] \leq version[j] /\ version[j] \in Nat /\ version'[j] = version[j]
      BY <1>1, <1>2 DEF IInv, TypeOK
    <3> QED
      BY <1>2, <3>1
  <2> QED
    BY <1>2, <2>1 DEF IInv, TypeOK
<1>4. HeldRowsAreNoted'
  <2>1. ASSUME NEW h \in Handlers, NEW i \in 1 .. Len(calls[h]), calls[h][i].op = "set"
        PROVE  calls[h][i].version = version[calls[h][i].key] \/ overtaken'[calls[h][i].key]
    <3>1. calls[h][i].key \in Keys
      BY CallType DEF IInv, TypeOK
    <3>2. calls[h][i].version = version[calls[h][i].key] \/ calls[h][i].key \in Noted
      BY <1>2, <2>1, <3>1 DEF IInv, HeldRowsAreNoted
    <3> QED
      BY <1>2, <2>1, <3>1, <3>2, NotedIsEnough
  <2> QED
    BY <1>2, <2>1 DEF HeldRowsAreNoted
<1>5. FreshUnlessOvertaken'
  <2> SUFFICES ASSUME NEW j \in Keys
               PROVE  \/ cache'[j] \in {0, version'[j]}
                      \/ overtaken'[j]
                      \/ \E h \in Handlers : WillDelete(h, j)'
    BY DEF FreshUnlessOvertaken
  <2>1. \A h \in Handlers : WillDelete(h, j) => WillDelete(h, j)'
    BY <1>2 DEF WillDelete
  <2>2. \/ cache[j] \in {0, version[j]}
        \/ overtaken[j]
        \/ \E h \in Handlers : WillDelete(h, j)
    BY DEF IInv, FreshUnlessOvertaken
  <2> QED
    BY <1>2, <2>1, <2>2, NotedIsEnough
<1> QED
  BY <1>3, <1>4, <1>5 DEF IInv

LEMMA Invariance == Spec => []IInv
<1>1. Init => IInv
  <2> SUFFICES ASSUME Init  PROVE IInv
    OBVIOUS
  <2>1. /\ version \in [Keys -> 0 .. MaxVersion] /\ cache \in [Keys -> 0 .. MaxVersion]
        /\ \A k \in Keys : cache[k] = 0 /\ version[k] \in Nat
    BY CacheAssumption DEF Init
  <2>2. calls \in [Handlers -> Seq(Call)] /\ \A h \in Handlers : Len(calls[h]) = 0
    BY DEF Init
  <2>3. overtaken \in [Keys -> BOOLEAN]
    BY DEF Init
  <2> QED
    BY <2>1, <2>2, <2>3 DEF IInv, TypeOK, HeldRowsAreNoted, FreshUnlessOvertaken
<1>2. IInv /\ [Next]_vars => IInv'
  <2> SUFFICES ASSUME IInv, [Next]_vars  PROVE IInv'
    OBVIOUS
  <2>1. ASSUME NEW h \in Handlers,
               \/ \E o \in Orders : GetOrder(h, o)
               \/ \E c \in Couriers : GetCourier(h, c)
               \/ GetAnalytics(h)
        PROVE  IInv'
    BY <2>1, ReadStep DEF GetOrder, GetCourier, GetAnalytics, Keys
  <2>2. ASSUME NEW h \in Handlers,
               \/ \E o \in Orders, autoAssign \in BOOLEAN : CreateOrder(h, o, autoAssign)
               \/ \E c \in Couriers : CreateCourier(h, c)
        PROVE  IInv'
    BY <2>2, InsertsStep
  <2>3. ASSUME NEW h \in Handlers,
               \/ \E o \in Orders : UpdateOrderStatus(h, o)
               \/ \E c \in Couriers : UpdateCourierStatus(h, c)
        PROVE  IInv'
    BY <2>3, UpdatesStep
  <2>4. ASSUME NEW h \in Handlers, NEW o \in Orders, NEW c \in Couriers,
               \/ AssignOrderToCourier(h, o, c) \/ AutoAssignCourier(h, o, c)
               \/ CreateReview(h, o, c)
        PROVE  IInv'
    BY <2>4, ChangesStep
  <2>5. ASSUME NEW h \in Handlers, NEW c \in Couriers, DoAssign(h, c)  PROVE IInv'
    BY <2>5, AssignStep
  <2>6. ASSUME NEW h \in Handlers,
               DoSet(h) \/ DoDelete(h) \/ DoScan(h) \/ FailCall(h) \/ Die(h)
        PROVE  IInv'
    BY <2>6, CallStep
  <2>7. ASSUME NEW k \in Keys, Expire(k)  PROVE IInv'
    BY <2>7, ExpireStep
  <2>8. CASE UNCHANGED vars
    BY <2>8 DEF vars, IInv, TypeOK, HeldRowsAreNoted, FreshUnlessOvertaken, WillDelete
  <2> QED
    BY <2>1, <2>2, <2>3, <2>4, <2>5, <2>6, <2>7, <2>8 DEF Next, Proceed
<1> QED
  BY <1>1, <1>2, PTL DEF Spec

\* The keys of Redis hold versions of rows that were committed, and the calls
\* of the handlers are the ones the code makes.
THEOREM TypeCorrect == Spec => []TypeOK
<1>1. IInv => TypeOK
  BY DEF IInv
<1> QED
  BY <1>1, Invariance, PTL

\* Whatever requests interleave, a stale row in the cache is about to be
\* deleted, or a commit overtook a request that was to store it, or a
\* deletion was lost, and the old version has been about ever since: the
\* order of commits and deletions in the handlers leaves no other way.
THEOREM CacheStaysFreshUnlessOvertaken == Spec => []FreshUnlessOvertaken
<1>1. IInv => FreshUnlessOvertaken
  BY DEF IInv
<1> QED
  BY <1>1, Invariance, PTL
===============================================================================
