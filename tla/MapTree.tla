------------------------------ MODULE MapTree ------------------------------
(* Inheritance in configuration documents (common/map.go): an object that    *)
(* names another one under __base_obj_name__ takes over what it does not     *)
(* define itself.  Objects are resolved in place, in the order in which Go   *)
(* happens to range over a map, so the objects are kept in a heap: h[a] maps *)
(* the keys of object a to values, and a value is <<"str", s>>, <<"obj", a>>,*)
(* <<"arr", values>> or <<"nil">>.                                           *)
EXTENDS Naturals, Sequences, TLC

LOCAL INSTANCE SequencesExt

BaseKey == "__base_obj_name__"
NameKey == "__name__"

\* The keys of a map in the order in which it is ranged over.
InOrder(order, keys) == SelectSeq(order, LAMBDA k : k \in keys)

\* newGetBaseObjFunc: the object that a name stands for, innermost map first;
\* 0 for nil.
RECURSIVE GetBaseObj(_, _, _)
GetBaseObj(h, scope, name) ==
  IF scope = <<>> THEN 0
  ELSE IF name \in DOMAIN h[Head(scope)] THEN h[Head(scope)][name][2]
  ELSE GetBaseObj(h, Tail(scope), name)

RECURSIVE InheritObj(_, _, _, _, _), CopyValue(_, _, _, _)

\* Mutant: objects are not copied.
ShareValue(h, v, scope, order) == <<h, v>>

\* The heap afterwards and the copy of v.  An array starts with as many nils
\* as it has items.
CopyValue(h, v, scope, order) ==
  CASE v[1] = "obj" ->
         <<InheritObj(Append(h, <<>>), v[2], Len(h) + 1, scope, order), <<"obj", Len(h) + 1>>>>
    [] v[1] = "arr" ->
         LET copied == FoldLeft(LAMBDA acc, it : LET c == CopyValue(acc[1], it, scope, order)
                                                 IN  <<c[1], Append(acc[2], c[2])>>,
                                <<h, [i \in 1..Len(v[2]) |-> <<"nil">>]>>, v[2])
         IN  <<copied[1], <<"arr", copied[2]>>>>
    [] v[1] \in {"str", "nil"} -> <<h, v>>

\* The base first inherits from its own base, in place; then m takes over the
\* keys it does not have.
InheritObj(h, base, m, scope, order) ==
  LET has == base # 0 /\ BaseKey \in DOMAIN h[base]
      h1 == IF has /\ h[base][BaseKey][2] # ""
            THEN InheritObj(h, GetBaseObj(h, scope, h[base][BaseKey][2]), base, scope, order)
            ELSE h
      missing == IF base = 0 THEN <<>> ELSE InOrder(order, DOMAIN h1[base] \ DOMAIN h1[m])
      h2 == FoldLeft(LAMBDA hh, k : LET c == CopyValue(hh, hh[base][k], scope, order)
                                    IN  [c[1] EXCEPT ![m] = @ @@ (k :> c[2])],
                     h1, missing)
  IN  [h2 EXCEPT ![m] = [k \in DOMAIN @ \ {BaseKey} |-> @[k]]]

\* processMapTree: names for the objects in m, the base of m, then the objects
\* that were in m before it inherited.  The document is refused when a base
\* cannot be found.
RECURSIVE ProcessMapTree(_, _, _, _)
ProcessMapTree(h, m, scope, order) ==
  LET nextLevels == SelectSeq(InOrder(order, DOMAIN h[m]), LAMBDA k : h[m][k][1] = "obj")
      named == FoldLeft(LAMBDA hh, k : [hh EXCEPT ![h[m][k][2]] = (NameKey :> <<"str", k>>) @@ @],
                        h, nextLevels)
      base == GetBaseObj(named, <<m>> \o scope, named[m][BaseKey][2])
      inherited == IF BaseKey \notin DOMAIN h[m] THEN <<TRUE, named>>
                   ELSE IF base = 0 THEN <<FALSE, named>>
                   ELSE <<TRUE, InheritObj(named, base, m, scope, order)>>
  IN  FoldLeft(LAMBDA acc, k : IF acc[1] THEN ProcessMapTree(acc[2], h[m][k][2], <<m>> \o scope, order)
                               ELSE acc,
               inherited, nextLevels)

\* ReadMap(_, true) of a document whose root is object 1.  The root names no
\* base of its own: there is nothing to look it up in.
ReadMap(h, order) == ProcessMapTree(h, 1, <<>>, order)
-----------------------------------------------------------------------------
(* What the result should be. *)

\* The document below an object, without the private keys.
RECURSIVE Tree(_, _)
Tree(h, a) ==
  [k \in DOMAIN h[a] \ {BaseKey, NameKey} |->
     IF h[a][k][1] = "obj" THEN <<"obj", Tree(h, h[a][k][2])>> ELSE h[a][k]]

\* What is taken over from a document: the same, but that a list of n items
\* comes after n nils.
RECURSIVE Inherited(_)
Inherited(tree) ==
  [k \in DOMAIN tree |->
     CASE tree[k][1] = "obj" -> <<"obj", Inherited(tree[k][2])>>
       [] tree[k][1] = "arr" -> <<"arr", [i \in 1..Len(tree[k][2]) |-> <<"nil">>] \o tree[k][2]>>
       [] tree[k][1] = "str" -> tree[k]]

\* The maps from the one outwards in which a name is found.
RECURSIVE FoundIn(_, _, _)
FoundIn(h, scope, name) ==
  IF name \in DOMAIN h[Head(scope)] THEN scope ELSE FoundIn(h, Tail(scope), name)

\* Own keys first, the others from the base that its name stands for where it
\* is written.
RECURSIVE Resolved(_, _, _)
Resolved(h, a, scope) ==
  LET inner == <<a>> \o scope
      own == [k \in DOMAIN h[a] \ {BaseKey} |->
                IF h[a][k][1] = "obj" THEN <<"obj", Resolved(h, h[a][k][2], inner)>> ELSE h[a][k]]
      name == h[a][BaseKey][2]
      at == FoundIn(h, inner, name)
  IN  IF BaseKey \in DOMAIN h[a] THEN own @@ Inherited(Resolved(h, h[Head(at)][name][2], at)) ELSE own

\* Every base is one of the objects of the root.
RootBases(h) ==
  \A a \in DOMAIN h : BaseKey \in DOMAIN h[a] => h[a][BaseKey][2] \in DOMAIN h[1]

\* One document is another with keys left out.
RECURSIVE Within(_, _)
Within(part, whole) ==
  \A k \in DOMAIN part :
    /\ k \in DOMAIN whole /\ part[k][1] = whole[k][1]
    /\ IF part[k][1] = "obj" THEN Within(part[k][2], whole[k][2]) ELSE part[k] = whole[k]

\* The objects below a, once for every way to get there.
RECURSIVE ObjectsBelow(_, _, _)
ObjectsBelow(h, a, order) ==
  LET keys == SelectSeq(InOrder(order, DOMAIN h[a]), LAMBDA k : h[a][k][1] = "obj")
  IN  <<a>> \o FlattenSeq([i \in 1..Len(keys) |-> ObjectsBelow(h, h[a][keys[i]][2], order)])
=============================================================================
