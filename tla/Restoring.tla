------------------------------ MODULE Restoring ------------------------------
(***************************************************************************)
(* Starting from a saved cache: Cache.extract, with a query to prune by if *)
(* the application has one (operations/prune.ts), and Cache.restore with   *)
(* migrations (operations/migrate.ts), taken as one step, next to writes.  *)
(*                                                                         *)
(* The verification query of restore can only refuse, and is left out.  So *)
(* is the optimistic graph, which the migrations do not reach.             *)
(***************************************************************************)
EXTENDS Reading

CONSTANTS
    PruneQueries,       \* queries that a cache is pruned by
    NoQuery,            \* none of these: all of the cache is saved
    TypeOf,             \* the type name of a root or an entity
    FieldMigrations,    \* _entities: from a type name to what a leaf becomes
    FieldAdditions,     \* _parameterized: from a type name to entries
    NoField             \* an entry that has no copyFrom

-----------------------------------------------------------------------------
(* Pruning: the result of a read, written to an empty graph.               *)

Empty     == INSTANCE SnapshotEditor WITH graph <- [n \in Node |-> Absent], editor <- {}
NewEditor == [nodes |-> [n \in Node |-> Absent], made |-> {}, edited |-> {},
              merged |-> <<>>, failed |-> FALSE]

FieldAt(loc, name) == CHOOSE n \in Param : Owner(n) = [id |-> loc.node, path |-> Append(loc.path, name)]

\* What the walk of a result comes upon.  It takes undefined for null, and an
\* object for the one that it finds at the location, or for an entity.
RECURSIVE PayloadOf(_, _, _)
PayloadOf(value, query, loc) ==
    LET into(k)  == IF query[k].parameterized THEN At(FieldAt(loc, query[k].name), <<>>)
                    ELSE At(loc.node, Append(loc.path, query[k].name))
        enter(k) == IF query[k].parameterized THEN <<FieldOf(into(k).node)>> ELSE <<>>
        leaf(v)  == IF v \in {Missing, Undefined} THEN Null ELSE v
        field(k) == enter(k) \o
                    IF query[k].children = NoFields
                    THEN <<LeafOf(into(k).node, leaf(value.fields[k]))>>
                    ELSE PayloadOf(value.fields[k], query[k].children, into(k))
        keys     == SetToSeq(DOMAIN query)
    IN  CASE value \in {Null, Missing} -> <<RefTo(loc.node, loc.path, Null)>>
          [] "list" \in DOMAIN value ->
               <<ListOf(loc.node, loc.path, Len(value.list))>>
                 \o FlattenSeq([i \in DOMAIN value.list |->
                       PayloadOf(value.list[i], query, At(loc.node, Append(loc.path, i)))])
          [] value.ids # {} /\ loc # At(CHOOSE n \in value.ids : TRUE, <<>>) ->
               LET id == CHOOSE n \in value.ids : TRUE
               IN  <<RefTo(loc.node, loc.path, id)>> \o PayloadOf(value, query, At(id, <<>>))
          [] OTHER -> FlattenSeq([i \in DOMAIN keys |-> field(keys[i])])

\* The payload {}, of which every field counts as null.
Nothing(query) == [ids |-> {}, dynamic |-> {}, fields |-> [k \in DOMAIN query |-> Missing]]

\* prune, and the write it does.
Prune(g, q) ==
    LET value == IF Complete(g, q) THEN Result(g, q) ELSE Nothing(q.fields)
        e     == Empty!Merge(NewEditor, PayloadOf(value, q.fields, At(q.root, <<>>)))
    IN  Empty!NewGraph(Empty!RebuildInboundReferences(e).nodes)

-----------------------------------------------------------------------------
(* Migrations.                                                             *)

\* The field gets the data of the one it copies, as it was saved, or a value.
\* Where there is nothing to copy, what was to be copied gets the value too,
\* and no references.
NewField(w, n, m) ==
    LET to     == m.field[n]
        from   == IF m.copyFrom = NoField THEN {} ELSE {m.copyFrom[n]}
        copied == {f \in from : w.nodes[f] # Absent}
        data   == IF copied # {} THEN w.nodes[CHOOSE f \in copied : TRUE]
                  ELSE [NewSnapshot EXCEPT !.leaf = m.value]
        new    == [NewSnapshot EXCEPT !.leaf = data.leaf, !.at = data.at]
        ref    == [id |-> to, path |-> Owner(to).path]
    IN  [nodes |-> [w.nodes EXCEPT ![n].outbound = @ \cup {ref}],
         added |-> [f \in Param |->
                      IF f = to THEN [new EXCEPT !.inbound = {Owner(to)}]
                      ELSE IF f \in from \ copied THEN new
                      ELSE w.added[f]]]

\* One entry of _parameterized; a field that the node has stays as it is.
AddField(w, n, m) ==
    IF \E r \in w.nodes[n].outbound : r.id = m.field[n] THEN w ELSE NewField(w, n, m)

\* migrateEntity, for a node whose data is an object.
MigrateEntity(w, n) ==
    LET type  == TypeOf[n]
        leaf  == w.nodes[n].leaf
        named == IF type \in DOMAIN FieldMigrations
                 THEN [w EXCEPT !.nodes[n].leaf = FieldMigrations[type][leaf]] ELSE w
    IN  IF w.nodes[n] = Absent \/ ~HasData(w.nodes[n]) THEN w
        ELSE IF type \notin DOMAIN FieldAdditions THEN named
        ELSE FoldLeft(LAMBDA x, m : AddField(x, n, m), named, FieldAdditions[type])

\* migrate: the nodes to add are put in at the end.
Migrate(g) ==
    LET w == FoldSet(LAMBDA n, x : MigrateEntity(x, n),
                     [nodes |-> g, added |-> [f \in Param |-> Absent]], Root \cup Entity)
    IN  [n \in Node |-> IF n \in Param /\ w.added[n] # Absent THEN w.added[n] ELSE w.nodes[n]]

-----------------------------------------------------------------------------
(* The specification.                                                      *)

\* What a cache that was pruned by s, saved, and restored holds.
Reloaded(s) == Migrate(Restore(Extract(IF s = NoQuery THEN graph ELSE Prune(graph, s))))

\* The cache is saved and restored.
Reload(s) ==
    /\ editor = {}
    /\ editor' = {}
    /\ ~RestoreThrows(Extract(IF s = NoQuery THEN graph ELSE Prune(graph, s)))
    /\ graph' = Reloaded(s)

RestoringNext == Next \/ (\E s \in PruneQueries \cup {NoQuery} : Reload(s))

RestoringSpec == Init /\ [][RestoringNext]_vars

-----------------------------------------------------------------------------
(* Properties.                                                             *)

\* What a reader sees of a result.
RECURSIVE Seen(_, _)
Seen(value, query) ==
    IF value \in {Null, Missing} THEN value
    ELSE IF "list" \in DOMAIN value
    THEN [list |-> [i \in DOMAIN value.list |-> Seen(value.list[i], query)]]
    ELSE [ids    |-> value.ids,
          fields |-> [k \in DOMAIN query |->
                        IF query[k].children = NoFields THEN value.fields[k]
                        ELSE Seen(value.fields[k], query[k].children)]]

\* A query that the cache could answer gives the same result after the cache
\* was saved and restored, with whatever migrations add: every such query,
\* or the one that the cache was pruned by (Cache.extract, Cache.restore).
SavedReadsTheSame ==
    editor = {} =>
      \A s \in PruneQueries \cup {NoQuery} :
        \A q \in IF s = NoQuery THEN Queries ELSE {s} :
          Complete(graph, q) /\ Cached(graph, At(q.root, <<>>), q.fields)
            => Seen(Result(Reloaded(s), q), q.fields) = Seen(Result(graph, q), q.fields)
=============================================================================
