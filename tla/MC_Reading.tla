----------------------------- MODULE MC_Reading -----------------------------
(***************************************************************************)
(* Instances of Reading and Restoring: a root and two entities, with       *)
(* parameterized fields of the root, of an entity and of an object without *)
(* an id.  Each payload comes with the query it is for and the values it   *)
(* has.                                                                    *)
(***************************************************************************)
EXTENDS Restoring

CONSTANTS root, e1, e2,
    ofRoot, ofE1, ofE2, ofInfo, ofCopy,    \* the values of parameterized fields
    sized          \* the name of those, comparable with an index of a list

ref    == <<"ref">>
list   == <<"list">>
first  == <<"list", 1>>
second == <<"list", 2>>
info   == <<"info">>

copy   == <<"copy">>

ReadPaths == {<<>>, ref, list, first, second, info, copy} \cup {<<sized>>, <<"info", sized>>}
Items     == {first, second}

FieldOwner(n) ==
    CASE n = ofRoot -> [id |-> root, path |-> <<sized>>]
      [] n = ofE1   -> [id |-> e1, path |-> <<sized>>]
      [] n = ofE2   -> [id |-> e2, path |-> <<sized>>]
      [] n = ofInfo -> [id |-> root, path |-> <<"info", sized>>]
      [] n = ofCopy -> [id |-> root, path |-> copy]

\* The field of e2 is not written: it is redirected to e1.
Redirected == ofE2 :> e1

To(n, q, e, v) == <<RefTo(n, q, e), LeafOf(e, v)>>

-----------------------------------------------------------------------------
(* Queries.                                                                *)

Leaf(name)           == Field(name, FALSE, NoFields)
Static(name, fields) == name :> Field(name, FALSE, fields)
leaf  == "leaf" :> Leaf("leaf")
field == sized :> Field(sized, TRUE, leaf)

RefQuery   == Static("ref", leaf @@ Static("ref", leaf))
AliasQuery == "r" :> Field("ref", FALSE, "l" :> Leaf("leaf"))
FieldQuery == "f" :> Field(sized, TRUE, leaf @@ Static("ref", leaf))
SubQuery   == Static("ref", leaf @@ field)
ListQuery  == Static("list", leaf)
ItemsQuery == Static("list", leaf @@ field)
InfoQuery  == Static("info", sized :> Field(sized, TRUE, NoFields))

CopyQuery  == "c" :> Field("copy", TRUE, NoFields)

CoreQueries == {[root |-> root, fields |-> q] :
    q \in {RefQuery, AliasQuery, FieldQuery, SubQuery, ListQuery, ItemsQuery, InfoQuery, CopyQuery}}

\* Not InfoQuery: where there is no info, the nulls of a pruned cache hide
\* what is written to a parameterized field of info.
CorePruneQueries ==
    {[root |-> root, fields |-> q] : q \in {RefQuery, FieldQuery, SubQuery, ItemsQuery}}

-----------------------------------------------------------------------------
(* Migrations: of the root, of e1 and of e2.                               *)

Types == (root :> "Query") @@ (e1 :> "T") @@ (e2 :> "U")

Leaves == "U" :> [v \in Scalar \cup {Missing, Null} |-> IF v = Missing THEN 1 ELSE v]

Additions ==
    ("Query" :> <<[field |-> root :> ofCopy, value |-> 1, copyFrom |-> root :> ofInfo]>>)
      @@ ("T" :> <<[field |-> e1 :> ofE1, value |-> 1, copyFrom |-> NoField]>>)

-----------------------------------------------------------------------------
(* Payloads, with the query they are for and its result.                   *)

Object(ids, dynamic, fields) == [ids |-> ids, dynamic |-> dynamic, fields |-> fields]
Write(query, payload, dynamic, fields) ==
    [query |-> query, payload |-> payload, value |-> Object({}, dynamic, fields)]

Item(e, v)     == Object({e}, {}, "leaf" :> v)
Items1(e, v, n, d) == Object({e}, {n}, ("leaf" :> v) @@ (sized :> Item(d, v)))

RefWrites ==
    {Write(RefQuery, To(root, ref, e1, 1) \o To(e1, ref, e2, 1), {},
           "ref" :> Object({e1}, {}, ("leaf" :> 1) @@ ("ref" :> Item(e2, 1)))),
     Write(AliasQuery, To(root, ref, e2, 2), {}, "r" :> Object({e2}, {}, "l" :> 2))}

FieldWrites ==
    {Write(FieldQuery, <<FieldOf(ofRoot)>> \o To(ofRoot, <<>>, e1, 2) \o To(e1, ref, e2, 1),
           {ofRoot}, "f" :> Object({e1}, {}, ("leaf" :> 2) @@ ("ref" :> Item(e2, 1)))),
     Write(SubQuery, To(root, ref, e1, 1) \o <<FieldOf(ofE1)>> \o To(ofE1, <<>>, e2, 1),
           {}, "ref" :> Items1(e1, 1, ofE1, e2)),
     Write(InfoQuery, <<FieldOf(ofInfo), LeafOf(ofInfo, 1)>>, {},
           "info" :> Object({}, {ofInfo}, sized :> 1))}

ListWrites ==
    {Write(ListQuery, <<ListOf(root, list, 0)>>, {}, "list" :> [list |-> <<>>]),
     Write(ListQuery, <<ListOf(root, list, 2)>> \o To(root, first, e1, 2) \o To(root, second, e2, 1),
           {}, "list" :> [list |-> <<Item(e1, 2), Item(e2, 1)>>]),
     Write(ItemsQuery, <<ListOf(root, list, 1)>> \o To(root, first, e1, 2)
                         \o <<FieldOf(ofE1)>> \o To(ofE1, <<>>, e1, 2),
           {}, "list" :> [list |-> <<Items1(e1, 2, ofE1, e1)>>])}

CoreWrites   == RefWrites \cup FieldWrites \cup ListWrites
CorePayloads == {w.payload : w \in CoreWrites}

\* A read of the query that a payload was written with gives the values of
\* the payload, complete, whatever was in the cache before (SnapshotEditor
\* and read agree on where the value of a field is).
ReadsWhatWasWritten ==
    [][\A e \in editor, w \in CoreWrites : e.merged = <<w.payload>> /\ Commit =>
         LET q == [root |-> root, fields |-> w.query]
         IN  Complete(graph', q) /\ Result(graph', q) = w.value]_vars
=============================================================================
