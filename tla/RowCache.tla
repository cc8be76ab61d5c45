------------------------------- MODULE RowCache -------------------------------
(***************************************************************************)
(* The Redis cache in front of the tables: orders, couriers and the        *)
(* analytics computed from them.  A request commits its transaction and    *)
(* then makes its calls to Redis one by one, while other requests do the   *)
(* same; there is no lock, so a row that was read may be stored after the  *)
(* commit that changed it.  A call may fail (the error is logged), and the *)
(* handler may die, or its client hang up, which cancels its calls.        *)
(*                                                                         *)
(* Of a row only its version counts: how often it was changed.  What is    *)
(* committed at all, and when, is the subject of Dispatch; here any        *)
(* existing row may be changed by the requests that change such rows.      *)
(***************************************************************************)
EXTENDS Naturals, Sequences

CONSTANTS Orders, Couriers,   \* cached rows
          Stats,              \* the cached analytics
          Handlers,           \* requests that are handled at the same time
          MaxVersion          \* bound: changes of a row, its insertion included

Keys == Orders \cup Couriers \cup {Stats}

ASSUME CacheAssumption == MaxVersion \in Nat \ {0} /\ Stats \notin Orders \cup Couriers

VARIABLES version,     \* versions of the rows in the database, 0: not inserted
          cache,       \* versions under the keys of Redis, 0: no such key
          calls,       \* what each handler still has to do, in this order
          overtaken    \* history variable: a change of the row overtook a
                       \* handler that was to store it, or its deletion failed,
                       \* or no deletion was foreseen (analytics, new couriers),
                       \* and an old version of it is still about since then

vars == <<version, cache, calls, overtaken>>

Set(k, v) == [op |-> "set", key |-> k, version |-> v]
Delete(k) == [op |-> "delete", key |-> k, version |-> 0]
DeleteByPrefix(k) == [op |-> "scan", key |-> k, version |-> 0]
AutoAssign(o) == [op |-> "assign", key |-> o, version |-> 0]

\* Analytics of an empty database can be asked for.
Init ==
  /\ version = [k \in Keys |-> IF k = Stats THEN 1 ELSE 0]
  /\ cache = [k \in Keys |-> 0]
  /\ calls = [h \in Handlers |-> <<>>]
  /\ overtaken = [k \in Keys |-> FALSE]

WillSet(h, k) == \E i \in 1 .. Len(calls[h]) : calls[h][i].op = "set" /\ calls[h][i].key = k

WillDelete(h, k) ==
  \E i \in 1 .. Len(calls[h]) : calls[h][i].op \in {"delete", "scan"} /\ calls[h][i].key = k

\* An old version of k is cached, or a handler is going to store it.
Astray(k) ==
  \/ cache[k] \notin {0, version[k]}
  \/ \E h \in Handlers : \E i \in 1 .. Len(calls[h]) :
       calls[h][i].op = "set" /\ calls[h][i].key = k /\ calls[h][i].version # version[k]

\* The rows in `more' are overtaken from now on, for as long as this matters.
Notes(more) == overtaken' = [k \in Keys |-> (overtaken[k] \/ k \in more) /\ Astray(k)']

\* h commits a transaction that changes the rows `changed', is to leave the
\* keys `left' of these in the cache, and has the calls `next' left to make.
CommitLeaving(h, changed, left, next) ==
  /\ \A k \in changed : version[k] < MaxVersion
  /\ version' = [k \in Keys |-> IF k \in changed THEN version[k] + 1 ELSE version[k]]
  /\ calls' = [calls EXCEPT ![h] = next]
  /\ UNCHANGED cache
  /\ Notes({k \in changed : \E i \in Handlers : WillSet(i, k)}
           \cup {k \in left : cache[k] # 0})

Commit(h, changed, next) == CommitLeaving(h, changed, {}, next)

Exists(k) == version[k] > 0

------------------------------------------------------------------------------
(* Requests                                                                *)

\* Mutant of ReadRow: a row that was not found is stored as well.
ReadAnyRow(h, k) ==
  /\ calls[h] = <<>>
  /\ calls' = [calls EXCEPT ![h] = <<Set(k, version[k])>>]
  /\ UNCHANGED <<version, cache, overtaken>>

\* Get found nothing, or failed, and the row is read from the database, to be
\* stored if it is found.  A hit changes nothing.
ReadRow(h, k) ==
  /\ calls[h] = <<>>
  /\ Exists(k)
  /\ calls' = [calls EXCEPT ![h] = <<Set(k, version[k])>>]
  /\ UNCHANGED <<version, cache, overtaken>>

GetOrder(h, o) == ReadRow(h, o)

GetCourier(h, c) == ReadRow(h, c)

\* GetKPIs and GetCourierAnalytics: what they store is as old as the first of
\* their queries.
GetAnalytics(h) == ReadRow(h, Stats)

\* CreateOrder, with or without auto_assign.
CreateOrder(h, o, autoAssign) ==
  /\ calls[h] = <<>>
  /\ ~Exists(o)
  /\ Commit(h, {o}, IF autoAssign THEN <<Set(o, 1), AutoAssign(o)>> ELSE <<Set(o, 1)>>)

\* The analytics list the new courier, but the cached ones are left alone.
CreateCourier(h, c) ==
  /\ calls[h] = <<>>
  /\ ~Exists(c)
  /\ CommitLeaving(h, {c, Stats}, {Stats}, <<Set(c, 1)>>)

\* Its event is published, then the keys are deleted.
UpdateOrderStatus(h, o) ==
  /\ calls[h] = <<>>
  /\ Exists(o)
  /\ Commit(h, {o, Stats}, <<Delete(o), DeleteByPrefix(Stats)>>)

UpdateCourierStatus(h, c) ==
  /\ calls[h] = <<>>
  /\ Exists(c)
  /\ Commit(h, {c}, <<Delete(c)>>)

AssignOrderToCourier(h, o, c) ==
  /\ calls[h] = <<>>
  /\ Exists(o) /\ Exists(c)
  /\ Commit(h, {o, c}, <<Delete(c), Delete(o)>>)

\* The handler of POST /auto-assign: its reads are the subject of Dispatch.
AutoAssignCourier(h, o, c) ==
  /\ calls[h] = <<>>
  /\ Exists(o) /\ Exists(c)
  /\ Commit(h, {o, c}, <<Delete(o), Delete(c)>>)

\* Mutant of CreateReview: the courier, whose rating changed, stays cached.
CreateReviewOnly(h, o, c) ==
  /\ calls[h] = <<>>
  /\ Exists(o) /\ Exists(c)
  /\ Commit(h, {o, c, Stats}, <<Delete(o), DeleteByPrefix(Stats)>>)

CreateReview(h, o, c) ==
  /\ calls[h] = <<>>
  /\ Exists(o) /\ Exists(c)
  /\ Commit(h, {o, c, Stats}, <<Delete(o), Delete(c), DeleteByPrefix(Stats)>>)

------------------------------------------------------------------------------
(* The calls of a request                                                  *)

Calls(h, op) == calls[h] # <<>> /\ Head(calls[h]).op = op

DoSet(h) ==
  /\ Calls(h, "set")
  /\ cache' = [cache EXCEPT ![Head(calls[h]).key] = Head(calls[h]).version]
  /\ calls' = [calls EXCEPT ![h] = Tail(@)]
  /\ UNCHANGED version
  /\ Notes({})

DoDelete(h) ==
  /\ Calls(h, "delete")
  /\ cache' = [cache EXCEPT ![Head(calls[h]).key] = 0]
  /\ calls' = [calls EXCEPT ![h] = Tail(@)]
  /\ UNCHANGED version
  /\ Notes({})

\* DeleteByPrefix finds nothing and is done, or finds the key and goes on to
\* delete it.
DoScan(h) ==
  LET k == Head(calls[h]).key IN
  /\ Calls(h, "scan")
  /\ calls' = [calls EXCEPT ![h] = IF cache[k] = 0 THEN Tail(@)
                                   ELSE <<Delete(k)>> \o Tail(@)]
  /\ UNCHANGED <<version, cache, overtaken>>

\* The assignment of CreateOrder succeeds.
DoAssign(h, c) ==
  LET o == Head(calls[h]).key IN
  /\ Calls(h, "assign")
  /\ Exists(c)
  /\ Commit(h, {o, c}, <<Delete(o), Delete(c)>> \o Tail(calls[h]))

\* A call fails and the next one is made.
FailCall(h) ==
  LET k == Head(calls[h]).key IN
  /\ calls[h] # <<>>
  /\ calls' = [calls EXCEPT ![h] = Tail(@)]
  /\ UNCHANGED <<version, cache>>
  /\ Notes(IF Head(calls[h]).op \in {"delete", "scan"} THEN {k} ELSE {})

\* The handler makes none of its remaining calls: the server dies, the client
\* hangs up, or AutoAssignCourier cannot read the courier it has assigned.
Die(h) ==
  /\ calls[h] # <<>>
  /\ calls' = [calls EXCEPT ![h] = <<>>]
  /\ UNCHANGED <<version, cache>>
  /\ Notes({k \in Keys : WillDelete(h, k)})

\* Mutant of HasTTL: the keys are stored without a time to live.
HasNoTTL(k) == FALSE

\* Set is called with a time to live, which reading the key does not renew.
HasTTL(k) == TRUE

Expire(k) ==
  /\ HasTTL(k)
  /\ cache[k] # 0
  /\ cache' = [cache EXCEPT ![k] = 0]
  /\ UNCHANGED <<version, calls>>
  /\ Notes({})

Proceed(h) ==
  DoSet(h) \/ DoDelete(h) \/ DoScan(h) \/ (\E c \in Couriers : DoAssign(h, c)) \/ FailCall(h)

Next ==
  \/ \E h \in Handlers :
       \/ \E o \in Orders : GetOrder(h, o)
       \/ \E c \in Couriers : GetCourier(h, c)
       \/ GetAnalytics(h)
       \/ \E o \in Orders, autoAssign \in BOOLEAN : CreateOrder(h, o, autoAssign)
       \/ \E c \in Couriers : CreateCourier(h, c)
       \/ \E o \in Orders : UpdateOrderStatus(h, o)
       \/ \E c \in Couriers : UpdateCourierStatus(h, c)
       \/ \E o \in Orders, c \in Couriers : AssignOrderToCourier(h, o, c)
       \/ \E o \in Orders, c \in Couriers : AutoAssignCourier(h, o, c)
       \/ \E o \in Orders, c \in Couriers : CreateReview(h, o, c)
       \/ Proceed(h)
       \/ Die(h)
  \/ \E k \in Keys : Expire(k)

Spec == Init /\ [][Next]_vars

\* A handler goes on with its calls, which succeed or fail, and Redis deletes
\* keys whose time has come.  Nobody has to send a request.
Fairness ==
  /\ \A h \in Handlers : WF_vars(Proceed(h))
  /\ \A k \in Keys : WF_vars(Expire(k))

FairSpec == Spec /\ Fairness

------------------------------------------------------------------------------

Call == [op : {"set"}, key : Keys, version : 1 .. MaxVersion]
        \cup [op : {"delete"}, key : Keys, version : {0}]
        \cup [op : {"scan"}, key : {Stats}, version : {0}]
        \cup [op : {"assign"}, key : Orders, version : {0}]

\* Only rows that were committed are stored, and none before it was.
TypeOK ==
  /\ version \in [Keys -> 0 .. MaxVersion]
  /\ cache \in [Keys -> 0 .. MaxVersion]
  /\ calls \in [Handlers -> Seq(Call)]
  /\ overtaken \in [Keys -> BOOLEAN]
  /\ \A k \in Keys : cache[k] \leq version[k]
  /\ \A h \in Handlers : \A i \in 1 .. Len(calls[h]) :
       calls[h][i].version \leq version[calls[h][i].key]

\* A cached row differs from the row in the database only while a request
\* that changed it has still to delete it; or a deletion of it failed, or a
\* commit came between the reading and the storing of the row by another
\* request, or a courier was created while analytics were cached; and of that
\* moment an old version is still about.  Once none is cached or held by a
\* request, the next stale row needs a new reason.  All other requests delete
\* all rows they change, after their commit, the couriers changed by the
\* rating trigger included.
FreshUnlessOvertaken ==
  \A k \in Keys :
    \/ cache[k] \in {0, version[k]}
    \/ overtaken[k]
    \/ \E h \in Handlers : WillDelete(h, k)

\* However stale a cached row has become, it does not stay: when a row is no
\* longer changed, the cache shows its last version in the end, or nothing.
FreshInTheEnd ==
  \A k \in Keys : (<>[][version'[k] = version[k]]_vars)
                    => <>[](cache[k] \in {0, version[k]})
==============================================================================
