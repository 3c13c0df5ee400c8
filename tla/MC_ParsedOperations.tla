------------------------- MODULE MC_ParsedOperations -------------------------
(***************************************************************************)
(* An instance of ParsedOperations: documents with one or two selections   *)
(* on a level, three levels deep, and at most two fragments.               *)
(***************************************************************************)
EXTENDS ParsedOperations

CONSTANT v     \* a variable

Field(alias, name, args, static, directives, selections) ==
    [kind |-> "Field", alias |-> alias, name |-> name, args |-> args,
     static |-> static, directives |-> directives, selections |-> selections]

Inline(selections) ==
    [kind |-> "InlineFragment", directives |-> {}, selections |-> selections]

\* f   f(x: 1)   f(x: $v)   a: f   f: g   f(x: $v) @static   f @include(if: $v)
Leaves ==
    {Field(Undefined, "f", Undefined, FALSE, {}, <<>>),
     Field(Undefined, "f", 1, FALSE, {}, <<>>),
     Field(Undefined, "f", v, FALSE, {}, <<>>),
     Field("a", "f", Undefined, FALSE, {}, <<>>),
     Field("f", "g", Undefined, FALSE, {}, <<>>),
     Field("a", "f", v, TRUE, {}, <<>>),
     Field(Undefined, "f", Undefined, FALSE, {v}, <<>>)}

FewLeaves == {l \in Leaves : l.alias = Undefined /\ l.directives = {}}

Object(args, selections) == Field(Undefined, "o", args, FALSE, {}, selections)

Objects ==
    {Object(Undefined, <<l>>) : l \in Leaves}
      \cup {Object(Undefined, <<Object(Undefined, <<l>>)>>) : l \in FewLeaves}
      \cup {Object(1, <<l>>) : l \in FewLeaves}

Inlines == {Inline(<<s>>) : s \in {Object(Undefined, <<l>>) : l \in FewLeaves}}

Selections == Leaves \cup Objects \cup Inlines

Lists(S, T) == {<<s>> : s \in S} \cup {<<s, t>> : s \in S, t \in T}

Declared ==
    {NoFields,
     v :> [required |-> TRUE, default |-> Undefined],
     v :> [required |-> FALSE, default |-> Undefined],
     v :> [required |-> FALSE, default |-> 2],
     v :> [required |-> TRUE, default |-> 2]}

Query(selections, declared) == [selections |-> selections, declared |-> declared]

FragmentBodies == Leaves \cup {Object(Undefined, <<l>>) : l \in FewLeaves}

QueryDocuments ==
    [operation : {Query(s, d) : s \in Lists(Selections, Selections), d \in Declared},
     fragments : {NoFields}]

\* A fragment beside other selections or below one, one that is missing, and
\* one that spreads another.
SpreadDocuments ==
    [operation : {Query(s, d) : s \in
                     Lists({Spread("F", {}), Spread("F", {v}),
                            Object(Undefined, <<Spread("F", {})>>)}, FragmentBodies),
                   d \in Declared},
     fragments : {NoFields} \cup {"F" :> <<b>> : b \in FragmentBodies}
                   \cup {("F" :> <<b, Spread("G", {})>>) @@ ("G" :> <<c>>) :
                           b \in FewLeaves, c \in FragmentBodies}]

FragmentDocuments ==
    [operation : {Undefined},
     fragments : {"F" :> <<b>> : b \in FragmentBodies}
                   \cup {("F" :> <<b>>) @@ ("G" :> <<c, Spread("F", {})>>) :
                           b \in FragmentBodies, c \in FragmentBodies}]

AllDocuments == QueryDocuments \cup SpreadDocuments \cup FragmentDocuments

GivenValues == {Undefined, v :> 1, v :> Null}
=============================================================================
