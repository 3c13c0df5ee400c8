------------------------------ MODULE Broadcast ------------------------------
(***************************************************************************)
(* Observers of the cache: Cache.watch and the function it returns,        *)
(* Cache._setSnapshot with the loop that tells every observer of the new   *)
(* snapshot (Cache.ts), the QueryObserver that decides whether to read     *)
(* again (QueryObserver.ts), and the read cache that every GraphSnapshot   *)
(* has and that is carried over to the next one (read.ts, Cache.ts).       *)
(*                                                                         *)
(* Every callback is application code, which may call the cache again, in  *)
(* the middle of the loop.  `frames' holds the calls that wait for a       *)
(* callback to return, innermost last.  What a transaction writes is a     *)
(* new pair of graphs, and edited ids that are assumed to cover what       *)
(* changed (Covers), which does not hold of everything the cache does.     *)
(***************************************************************************)
EXTENDS Integers, SequencesExt

CONSTANTS
    Node,             \* node ids
    Query,            \* operations that are read and watched
    Graph,            \* contents of a GraphSnapshot
    EmptyGraph,       \* the contents a cache starts with
    Data,             \* what reading a query can give
    NoData,           \* a cache entry that holds no result
    Result(_, _),     \* what a query reads from a graph
    Complete(_, _),   \* the data satisfies the selection of the query
    Ids(_, _),        \* the entities and parameterized nodes in the data
    NoIds,            \* no node ids: the result was read without them
    SnapId,           \* identities of GraphSnapshot objects
    ObserverId,       \* identities of QueryObserver objects
    Strict,           \* CacheContext.strict
    Usage,            \* what application code calls from which callback
    MaxDepth          \* bound: callbacks running at once

Caller    == {"observer", "watch", "onChange"}
Operation == {"write", "watch", "unwatch", "throw"}

ASSUME UsageAssumption == Usage \subseteq Caller \X Operation

ASSUME ReadAssumption ==
    /\ EmptyGraph \in Graph
    /\ NoData \notin Data
    /\ NoIds \notin SUBSET Node
    /\ \A q \in Query, g \in Graph : Result(q, g) \in Data
    /\ \A q \in Query, d \in Data : Complete(q, d) \in BOOLEAN /\ Ids(q, d) \subseteq Node

ASSUME BoundAssumption ==
    /\ Strict \in BOOLEAN
    /\ MaxDepth \in Nat

VARIABLES
    live,        \* Cache._snapshot: its baseline and its optimistic graph
    snap,        \* the GraphSnapshot objects still referred to
    observers,   \* Cache._observers
    frames       \* the calls that wait for a callback, innermost last

vars == <<live, snap, observers, frames>>

-----------------------------------------------------------------------------
(* Reading: QueryResult objects and the read cache.                        *)

QueryResult ==
    [data     : Data \cup {NoData},
     complete : BOOLEAN,
     ids      : (SUBSET Node) \cup {NoIds}]

GraphSnapshot == [graph : Graph, readCache : [Query -> QueryResult]]

\* No entry, and the entry that only says that the query was complete once.
Unread == [data |-> NoData, complete |-> FALSE, ids |-> NoIds]
Once   == [data |-> NoData, complete |-> TRUE, ids |-> NoIds]

NewGraph(g) == [graph |-> g, readCache |-> [q \in Query |-> Unread]]

\* The result of reading q from snapshot s, with the node ids or without:
\* what the read cache has, and what it lacks.
Fetched(s, q, withIds) ==
    LET c    == s.readCache[q]
        data == IF c.data = NoData THEN Result(q, s.graph) ELSE c.data
    IN  IF c = Once
        THEN [c EXCEPT !.data = data]
        ELSE IF c.data # NoData /\ (withIds => c.ids # NoIds)
        THEN c
        ELSE [data |-> data, complete |-> Complete(q, data),
              ids |-> IF withIds THEN Ids(q, data) ELSE NoIds]

\* Mutants: completeness, or that the ids are not known, does not matter.
UnaffectedIds(result, edited) ==
    result.ids # NoIds /\ result.ids \cap edited = {}

UnaffectedUnknown(result, edited) ==
    result.complete /\ (result.ids = NoIds \/ result.ids \cap edited = {})

\* As far as the result can tell, edits to `edited' leave it as it is.
Unaffected(result, edited) ==
    result.complete /\ result.ids # NoIds /\ result.ids \cap edited = {}

\* Mutants: the cache lacks what is not carried over; all complete results
\* are carried over, in either mode.
CarriedReadsOnly(s, r, edited) ==
    [q \in {x \in Query : Unaffected(s.readCache[x], edited)} |-> s.readCache[q]]

CarriedReadsAll(s, r, edited) ==
    [q \in Query |-> IF s.readCache[q].complete THEN s.readCache[q] ELSE r.readCache[q]]

\* _copyUnaffectedCachedReads, from snapshot s to snapshot r.
CarriedReads(s, r, edited) ==
    [q \in Query |->
        LET c == s.readCache[q]
        IN  IF ~Strict /\ c.complete THEN Once
            ELSE IF Strict /\ Unaffected(c, edited) THEN c
            ELSE r.readCache[q]]

-----------------------------------------------------------------------------
(* Observers and the calls in progress.                                    *)

QueryObserver == [id : ObserverId, query : Query, result : QueryResult]

\* The loop of _setSnapshot, and the constructor of a QueryObserver.
Loop ==
    [kind     : {"broadcast"},
     snapshot : SnapId,                  \* snapshot.optimistic
     edited   : SUBSET Node,
     next     : Nat \ {0},               \* the index the loop looks at next
     calling  : {"none", "observer", "onChange"}]

Constructor == [kind : {"watch"}, observer : QueryObserver]

top        == frames[Len(frames)]
WithTop(f) == [frames EXCEPT ![Len(frames)] = f]
Popped     == SubSeq(frames, 1, Len(frames) - 1)

\* Who has control: the application outside of any callback, a callback of
\* some kind, or the broadcast loop.
Control ==
    IF frames = <<>> THEN "application"
    ELSE IF top.kind = "watch" THEN "watch"
    ELSE IF top.calling = "none" THEN "loop"
    ELSE top.calling

May(operation) ==
    \/ Control = "application" /\ operation # "throw"
    \/ <<Control, operation>> \in Usage

UnusedObservers ==
    ObserverId \ ({observers[i].id : i \in 1..Len(observers)}
       \cup {frames[i].observer.id : i \in {j \in 1..Len(frames) : frames[j].kind = "watch"}})

\* The snapshots that a cache pointing to l and the calls fs refer to.
Held(l, fs) ==
    {l.baseline, l.optimistic}
      \cup {fs[i].snapshot : i \in {j \in 1..Len(fs) : fs[j].kind = "broadcast"}}

Unused == SnapId \ DOMAIN snap

\* The next state; snapshots nothing refers to any more are collected.
Store(h, l, fs) ==
    /\ live' = l
    /\ frames' = fs
    /\ snap' = [s \in Held(l, fs) |-> h[s]]

\* What q is read from snapshot s stays in its read cache.
AfterRead(s, q, withIds) ==
    [snap EXCEPT ![s].readCache[q] = Fetched(snap[s], q, withIds)]

-----------------------------------------------------------------------------
(* The actions.                                                            *)

Init ==
    \E s \in SnapId :
        /\ live = [baseline |-> s, optimistic |-> s]
        /\ snap = [r \in {s} |-> NewGraph(EmptyGraph)]
        /\ observers = <<>>
        /\ frames = <<>>

\* Cache.read of the baseline or the optimistic graph.
Read(s, q) ==
    /\ Control # "loop"
    /\ snap' = AfterRead(s, q, FALSE)
    /\ UNCHANGED <<live, observers, frames>>

\* An assumption about the edited ids that _setSnapshot is given, which it
\* does not check: a query that was complete and has none of them among its
\* ids reads the same afterwards.  ReportedEdits shows it of the commits of
\* transactions that do not nest, unless a rollback has failed before, and of
\* the optimistic graph of a reset.  It fails for restores, for the baseline
\* of a reset, and for commits of nested transactions.
Covers(edited, g, h) ==
    \A q \in Query :
        LET d == Result(q, g)
        IN  Complete(q, d) /\ Ids(q, d) \cap edited = {} => Result(q, h) = d

\* _setSnapshot up to its loop.  A baseline write makes new graphs, which are
\* one when no update is queued; an optimistic write makes a new optimistic
\* graph, and a rollback may go back to the baseline.  The two conjuncts with
\* Covers are the assumption above and stand for no condition of the code.
SetSnapshot(b, o, heap, edited) ==
    /\ May("write")
    /\ Len(frames) < MaxDepth
    /\ Covers(edited, snap[live.baseline].graph, heap[b].graph)
    /\ Covers(edited, snap[live.optimistic].graph, heap[o].graph)
    /\ LET first  == [heap EXCEPT ![b].readCache =
                        CarriedReads(heap[live.baseline], heap[b], edited)]
           second == IF o = b THEN first
                     ELSE [first EXCEPT ![o].readCache =
                             CarriedReads(first[live.optimistic], first[o], edited)]
       IN  Store(second, [baseline |-> b, optimistic |-> o],
                 Append(frames, [kind |-> "broadcast", snapshot |-> o, edited |-> edited,
                                 next |-> 1, calling |-> "none"]))
    /\ UNCHANGED observers

Write ==
    \E b \in {live.baseline} \cup Unused :
      \E o \in {live.optimistic, b} \cup Unused :
        /\ o = live.optimistic => b = live.baseline
        /\ \E made \in [{b, o} \ DOMAIN snap -> Graph], edited \in SUBSET Node :
             SetSnapshot(b, o,
               [s \in DOMAIN snap \cup {b, o} |->
                  IF s \in DOMAIN snap THEN snap[s] ELSE NewGraph(made[s])],
               edited)

\* The loop looks at an observer that has no update.
PassOver ==
    /\ Control = "loop"
    /\ top.next <= Len(observers)
    /\ Unaffected(observers[top.next].result, top.edited)
    /\ frames' = WithTop([top EXCEPT !.next = @ + 1])
    /\ UNCHANGED <<live, snap, observers>>

\* The loop looks at an observer that has one: it reads the query from the
\* snapshot that is being broadcast, and calls back.
Notify ==
    /\ Control = "loop"
    /\ top.next <= Len(observers)
    /\ LET o == observers[top.next]
       IN  /\ ~Unaffected(o.result, top.edited)
           /\ observers' = [observers EXCEPT
                ![top.next].result = Fetched(snap[top.snapshot], o.query, Strict)]
           /\ snap' = AfterRead(top.snapshot, o.query, Strict)
    /\ frames' = WithTop([top EXCEPT !.next = @ + 1, !.calling = "observer"])
    /\ UNCHANGED live

\* Mutant: the last observer is left out.
AllToldEarly ==
    /\ Control = "loop"
    /\ top.next >= Len(observers)
    /\ frames' = WithTop([top EXCEPT !.calling = "onChange"])
    /\ UNCHANGED <<live, snap, observers>>

\* The loop is over, and onChange is called.
AllTold ==
    /\ Control = "loop"
    /\ top.next > Len(observers)
    /\ frames' = WithTop([top EXCEPT !.calling = "onChange"])
    /\ UNCHANGED <<live, snap, observers>>

\* Cache.watch: the new observer reads and calls back before the cache knows
\* of it.
Watch(q) ==
    /\ May("watch")
    /\ Len(frames) < MaxDepth
    /\ \E o \in UnusedObservers :
         frames' = Append(frames, [kind |-> "watch", observer |->
           [id |-> o, query |-> q, result |-> Fetched(snap[live.optimistic], q, Strict)]])
    /\ snap' = AfterRead(live.optimistic, q, Strict)
    /\ UNCHANGED <<live, observers>>

\* The function that watch returned is called: the observer leaves the array.
Unwatch(i) ==
    /\ May("unwatch")
    /\ observers' = RemoveAt(observers, i)
    /\ UNCHANGED <<live, snap, frames>>

\* A callback returns to the code that called it.
ObserverReturns ==
    /\ Control = "observer"
    /\ frames' = WithTop([top EXCEPT !.calling = "none"])
    /\ UNCHANGED <<live, snap, observers>>

WatchReturns ==
    /\ Control = "watch"
    /\ observers' = Append(observers, top.observer)
    /\ Store(snap, live, Popped)

OnChangeReturns ==
    /\ Control = "onChange"
    /\ Store(snap, live, Popped)
    /\ UNCHANGED observers

\* A callback throws.  The exception leaves the call that made the callback,
\* which ends there, and reaches the application code that made that call.
Throw ==
    /\ May("throw")
    /\ Store(snap, live, Popped)
    /\ UNCHANGED observers

Return == ObserverReturns \/ WatchReturns \/ OnChangeReturns

Next ==
    \/ \E s \in {live.baseline, live.optimistic}, q \in Query : Read(s, q)
    \/ Write
    \/ PassOver
    \/ Notify
    \/ AllTold
    \/ \E q \in Query : Watch(q)
    \/ \E i \in 1..Len(observers) : Unwatch(i)
    \/ Return
    \/ Throw

Spec == Init /\ [][Next]_vars

\* The loop is a synchronous piece of code: it goes on while it has control.
\* A callback returns in the end, however often it calls the cache before.
Fairness ==
    /\ WF_vars(PassOver \/ Notify \/ AllTold)
    /\ \A d \in 1..MaxDepth : SF_vars(Len(frames) = d /\ Return)

FairSpec == Spec /\ Fairness

-----------------------------------------------------------------------------
(* Properties.                                                             *)

TypeOK ==
    /\ live \in [baseline : SnapId, optimistic : SnapId]
    /\ DOMAIN snap = Held(live, frames)
    /\ DOMAIN snap \subseteq SnapId
    /\ \A s \in DOMAIN snap : snap[s] \in GraphSnapshot
    /\ observers \in Seq(QueryObserver)
    /\ frames \in Seq(Loop \cup Constructor)
    /\ Len(frames) <= MaxDepth

\* A result in the read cache of a graph, however many graphs it was carried
\* over from, is what reading that graph afresh gives (read.ts,
\* _copyUnaffectedCachedReads).
ReadCacheIsFresh ==
    \A s \in DOMAIN snap, q \in Query :
        LET c == snap[s].readCache[q]
        IN  c.data # NoData => c.data = Result(q, snap[s].graph)

\* What the read cache of graph g may have for query q: nothing, a result of
\* g with its node ids or without, and, unless the mode is strict, that q was
\* complete in an earlier graph.
Entries(q, g) ==
    LET d == Result(q, g)
    IN  {Unread}
          \cup {[data |-> d, complete |-> Complete(q, d), ids |-> i] : i \in {NoIds, Ids(q, d)}}
          \cup (IF Strict THEN {} ELSE {Once, [Once EXCEPT !.data = d]})

\* Why cached reads are fresh: completeness and ids are those of the result,
\* so that they tell whether an edit concerns it.
ReadCacheInv ==
    \A s \in DOMAIN snap, q \in Query :
        snap[s].readCache[q] \in Entries(q, snap[s].graph)

Current(o) == o.result.data = Result(o.query, snap[live.optimistic].graph)

\* When every callback has returned, what each observer was last told is
\* what the optimistic graph of the cache now says (Cache.watch).
ObserversCurrent ==
    frames = <<>> => \A i \in 1..Len(observers) : Current(observers[i])

\* What application code must not do in a callback: end the loop that made
\* the call, take observers from under it, or write while it goes on or
\* while an observer that has read is not yet registered.
Careless == {<<"observer", "write">>, <<"observer", "unwatch">>, <<"observer", "throw">>,
             <<"watch", "write">>, <<"watch", "unwatch">>}

\* The observer has a result that the live graph gives.
Informed(o) ==
    /\ o.result.data # NoData
    /\ o.result \in Entries(o.query, snap[live.optimistic].graph)

\* A loop that is not through with the observers.
Telling(f) == f.kind = "broadcast" /\ f.calling # "onChange"

\* Why observers are current: at most one loop is telling them, which
\* broadcasts the live graph with nothing but new observers above it.  The
\* observers that it has told are informed, and so are those that it will
\* pass over, and all of them when no loop is telling.
ObserversInv ==
    LET Frame == 1..Len(frames)
        Place == 1..Len(observers)
    IN  /\ \A i \in Frame, j \in Frame :
             i < j => frames[j].kind = "watch" \/ ~(frames[i].kind = "watch" \/ Telling(frames[i]))
        /\ \A i \in Frame : frames[i].kind = "watch" => Informed(frames[i].observer)
        /\ \A i \in Frame : Telling(frames[i]) =>
             /\ frames[i].snapshot = live.optimistic
             /\ \A k \in Place :
                  k < frames[i].next \/ Unaffected(observers[k].result, frames[i].edited)
                    => Informed(observers[k])
        /\ (\A i \in Frame : ~Telling(frames[i])) => \A k \in Place : Informed(observers[k])

\* Every observer is told what is live sooner or later, or is unwatched.
EventuallyTold ==
    \A x \in ObserverId :
        []<>(\A i \in 1..Len(observers) : observers[i].id = x => Current(observers[i]))
=============================================================================
