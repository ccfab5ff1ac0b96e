-------------------------------- MODULE KeyedSet --------------------------------
(* registry/gl.py, OrderedKeyedSet: a ring of nodes [prev, next, key, value]    *)
(* whose root stays, and a map from the keys to the nodes. A node is an object: *)
(* one that was popped can be used again when nothing points to it.             *)
EXTENDS Integers, SequencesExt

CONSTANTS Keys, Values, None,
          Nodes \* the objects: at least one for each key

VARIABLES ring, \* of the root and every node: [prev, next, key, value]
          nodes   \* from keys to nodes
keyedVars == <<ring, nodes>>

Root == 0
ASSUME RootIsNoNode == Root \notin Nodes
EmptyRing == [n \in {Root} |-> [prev |-> Root, next |-> Root, key |-> None, value |-> None]]
KeyedInit == ring = EmptyRing /\ nodes = <<>>

SetNext(r, n, to) == [r EXCEPT ![n].next = to]
SetPrev(r, n, to) == [r EXCEPT ![n].prev = to]

AddReplaced(k, v) ==
    /\ ring' = [ring EXCEPT ![nodes[k]].value = v]
    /\ UNCHANGED nodes
With(f, x, y) == [z \in DOMAIN f \cup {x} |-> IF z = x THEN y ELSE f[z]]
Linked(k, v, n) == With(ring, n, [prev |-> ring[Root].prev, next |-> Root, key |-> k, value |-> v])
AddHalfLinked(k, v) ==
    \E n \in Nodes \ DOMAIN ring :
        /\ ring' = SetNext(Linked(k, v, n), ring[Root].prev, n)
        /\ nodes' = With(nodes, k, n)
AddNew(k, v) ==
    \E n \in Nodes \ DOMAIN ring :
        /\ ring' = SetPrev(SetNext(Linked(k, v, n), ring[Root].prev, n), Root, n)
        /\ nodes' = With(nodes, k, n)
Add(k, v) == IF k \in DOMAIN nodes THEN AddReplaced(k, v) ELSE AddNew(k, v)

Without(f, x) == [y \in DOMAIN f \ {x} |-> f[y]]
Pop(k) ==
    /\ k \in DOMAIN nodes
    /\ LET n == nodes[k]
       IN  ring' = Without(SetPrev(SetNext(ring, ring[n].prev, ring[n].next), ring[n].next, ring[n].prev), n)
    /\ nodes' = Without(nodes, k)
Clear == nodes' = <<>> /\ ring' = EmptyRing

KeyedNext == Clear \/ \E k \in Keys : Pop(k) \/ \E v \in Values : Add(k, v)
KeyedSpec == KeyedInit /\ [][KeyedNext]_keyedVars

\* iteritems: from the root along the links, until they are back at it; At(p, 0)
\* and At(p, Len(p) + 1) are the root.
At(p, i) == IF i \in DOMAIN p THEN p[i] ELSE Root
Walked(p) == \A i \in 0..Len(p) : ring[At(p, i)].next = At(p, i + 1)
Walks == UNION {{p \in [1..i -> DOMAIN ring \ {Root}] : Walked(p)} : i \in 0..Cardinality(DOMAIN ring)}
Walk == CHOOSE p \in Walks : TRUE
Items == [i \in DOMAIN Walk |-> <<ring[Walk[i]].key, ring[Walk[i]].value>>]
--------------------------------------------------------------------------------
\* The ring and the map implement the ordered set of the class's documentation:
\* whatever was added, replaced and popped, a walk along the links gives each
\* key once, in the order of insertion, with the last value it was given.
Ordered == INSTANCE OrderedSet WITH items <- Items
ImplementsOrderedSet == Ordered!Spec
=================================================================================
