---------------------------- MODULE Serialization ----------------------------
(***************************************************************************)
(* Saving a graph and getting it back: operations/extract.ts, then         *)
(* JSON.stringify and JSON.parse, then operations/restore.ts.  extract cuts *)
(* the pointers out of the data and keeps the references; restore puts the *)
(* pointers back from the references.                                      *)
(*                                                                         *)
(* Lists here have no holes, so tryRestoreSparseArray finds nothing to do. *)
(***************************************************************************)
EXTENDS SnapshotEditor

CONSTANT Element      \* the paths of elements of lists

ASSUME ElementAssumption == Element \subseteq Path \ {<<>>}

\* A saved node.  `defined' tells whether it has data at all: an object that
\* has lost all of its fields still is one.
Serialized == [defined : BOOLEAN, leaf : Scalar \cup {Missing}, at : [Path -> {Missing, Null, Here}],
               inbound : SUBSET Reference, outbound : SUBSET Reference]

\* A node whose data is itself the value: null, or a pointer to an entity.
IsValue(s) == s.at[<<>>] # Missing

\* Mutant: undefined in the place of a reference, be it all there is or not.
ExtractSerializableDataUndefined(g, n) ==
    FoldSet(LAMBDA r, at : IF r.id \in Param THEN at ELSE DeepSet(at, g[n].at, r.path, Missing),
            g[n].at, g[n].outbound \ {Self(n)})

\* One reference of extractSerializableData: undefined in the place of the
\* pointer, or null where the pointer is all of the data.
CutReference(g, s, at, r) ==
    IF r.id \in Param \/ g[r.id] = Absent THEN at
    ELSE DeepSet(at, s.at, r.path, IF r.path = <<>> THEN Null ELSE Missing)

\* A reference of an entity to all of itself is the first of those to
\* entities.  It leaves null of the data, in which the next copies the data.
ExtractSerializableData(g, n) ==
    LET s == g[n]
    IN  IF ~HasData(s) \/ s.at[<<>>] = Null THEN s.at
        ELSE FoldSet(LAMBDA r, at : CutReference(g, s, at, r), s.at, s.outbound \ {Self(n)})

\* The entities of which extract leaves null.
Forgotten(g) ==
    {n \in Entity \cap Present(g) :
        /\ HasData(g[n])
        /\ {r \in g[n].outbound : r.id \in Entity \cap Present(g)} = {Self(n)}}

NullData == [NoData EXCEPT ![<<>>] = Null]

\* extract, and the round through JSON: an undefined field is left out, and an
\* undefined element of a list is null.
Extract(g) ==
    [n \in Present(g) |->
        LET s  == IF n \in Forgotten(g) THEN [g[n] EXCEPT !.leaf = Missing, !.at = NullData] ELSE g[n]
            at == IF n \in Forgotten(g) THEN NullData ELSE ExtractSerializableData(g, n)
        IN  [defined  |-> HasData(s) /\ (IsValue(s) => at[<<>>] # Missing),
             leaf     |-> s.leaf,
             at       |-> [q \in Path |-> IF q \in Element /\ s.at[q] # Missing /\ at[q] = Missing
                                          THEN Null ELSE at[q]],
             inbound  |-> s.inbound,
             outbound |-> s.outbound]]

\* One reference of restoreEntityReferences.  What the data was before is
\* what tells a reference that is all of it.  The data of an entity can be
\* null by now; lodash.set does nothing for the path of all of an object.
RestoreReference(saved, n, at, r) ==
    LET pointer == IF saved[r.id].at[<<>>] = Null THEN Null ELSE [to |-> r.id, fresh |-> FALSE]
    IN  IF r.id \in Param \/ r = Self(n) THEN at
        ELSE IF saved[n].at[<<>>] = Null THEN [at EXCEPT ![<<>>] = pointer]
        ELSE DeepSet(at, NoData, r.path, pointer)

\* restoreEntityReferences dereferences a node that was not saved.
RestoreThrows(saved) ==
    \E n \in DOMAIN saved :
        /\ saved[n].defined
        /\ ~IsValue(saved[n])
        /\ \E r \in saved[n].outbound : r.id \notin DOMAIN saved

\* restore, of nodes that were saved together.
Restore(saved) ==
    [n \in Node |->
        IF n \notin DOMAIN saved THEN Absent
        ELSE LET s == saved[n]
             IN  [leaf     |-> s.leaf,
                  at       |-> IF s.defined
                               THEN FoldSet(LAMBDA r, at : RestoreReference(saved, n, at, r),
                                            s.at, s.outbound)
                               ELSE s.at,
                  fresh    |-> FALSE,
                  inbound  |-> s.inbound,
                  outbound |-> s.outbound]]

\* What is left of a graph without the data of the forgotten entities.
Remembered(g) ==
    [n \in Node |->
        IF g[n] = Absent THEN Absent
        ELSE IF n \in Forgotten(g) THEN [g[n] EXCEPT !.leaf = Missing, !.at = NullData]
        ELSE [g[n] EXCEPT !.at = [q \in Path |->
                IF g[n].at[q] \in Pointer /\ g[n].at[q].to \in Forgotten(g) THEN Null
                ELSE g[n].at[q]]]]

\* A graph that was saved comes back as it was, but for the entities that
\* refer to all of themselves and to no other: those come back as null, and so
\* do the pointers to them.  All other nodes and values are the same, every
\* pointer at its path leads to the data of the same entity, and there is
\* nothing but nulls and pointers where nulls and pointers were (Cache.extract
\* and Cache.restore).  It needs the references to have exactly the pointers
\* of the data, after any sequence of merges.
RestoresWhatWasExtracted ==
    LET saved == Extract(graph)
    IN  /\ saved \in [Present(graph) -> Serialized]
        /\ ~RestoreThrows(saved)
        /\ Restore(saved) = Remembered(graph)
=============================================================================
