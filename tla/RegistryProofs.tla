----------------------------- MODULE RegistryProofs -----------------------------
(***************************************************************************)
(* registry/gl.py: the sets of CommandAliasMap are the classes of the      *)
(* relation "a chain of aliases leads from one name to the other", for any *)
(* commands whose aliases come back on no chain, added in any order; an    *)
(* OrderedKeyedSet is the ordered set it says it is; the enums of the      *)
(* registry are sorted as its documentation says; and what the parser      *)
(* makes of a gl.xml it accepts is linked as RegistryIsLinked says.        *)
(***************************************************************************)
EXTENDS AliasMap, KeyedSet, GLOrder, Registry, FiniteSetTheorems, WellFoundedInduction, TLAPS

(***************************************************************************)
(* CommandAliasMap.  The invariant: a set holds a command of each name     *)
(* mapped to it, all names of its commands are mapped to it (the assertion *)
(* of add), and aliases relate all of them.                                *)
(***************************************************************************)
Known ==
    /\ added \subseteq Commands
    /\ DOMAIN classes = NamesOfAll(added)
    /\ \A n \in DOMAIN classes : classes[n] \subseteq added
Owned == \A n \in DOMAIN classes : \E c \in classes[n] : n \in NamesOf(c)
Kept == \A c \in added : c \in classes[c.name]
Chained == \A n \in DOMAIN classes : \A c \in classes[n] : Related(n, c.name)
AliasInv == Known /\ Owned /\ MappingComplete /\ Kept /\ Chained

\* Names with one set are related; the early return of add is not a chance.
LEMMA SameSetRelated ==
    ASSUME AliasInv, NEW n \in DOMAIN classes, NEW m \in DOMAIN classes, classes[n] = classes[m]
    PROVE  Related(n, m)
<1>1. PICK d \in classes[m] : m \in NamesOf(d)
  BY DEF AliasInv, Owned
<1>2. Related(n, d.name) /\ Related(m, d.name)
  BY <1>1 DEF AliasInv, Chained
<1>. QED  BY <1>2 DEF Related

LEMMA NameOf ==
    ASSUME NEW c \in Commands
    PROVE  /\ c.name \in NamesOf(c) /\ c.name \in Names
           /\ NamesOf(c) \subseteq Names
           /\ \A m \in NamesOf(c) : m = c.name \/ (m = c.alias /\ c.alias # NoAlias)
BY CommandsAssumption DEF NamesOf

LEMMA DomainNames == ASSUME AliasInv  PROVE  DOMAIN classes \subseteq Names
BY NameOf DEF AliasInv, Known, NamesOfAll

\* The related names of the map are those of one set.
LEMMA ClassesOfInv == AliasInv => AliasClasses
<1>. SUFFICES ASSUME AliasInv PROVE AliasClasses
  OBVIOUS
<1>1. ASSUME NEW n \in DOMAIN classes, NEW m \in DOMAIN classes, Related(n, m)
      PROVE  classes[n] = classes[m]
  <2>. DEFINE Same == {x \in DOMAIN classes : classes[x] = classes[n]}
  <2>1. Same \in SUBSET Names
    BY DomainNames
  <2>2. ASSUME NEW c \in added, c.alias # NoAlias
        PROVE  c.name \in Same <=> c.alias \in Same
    <3>1. c.name \in DOMAIN classes /\ c \in classes[c.name] /\ c.alias \in NamesOf(c)
      BY <2>2, NameOf DEF AliasInv, Known, Kept, NamesOfAll, NamesOf
    <3>. QED  BY <3>1 DEF AliasInv, MappingComplete
  <2>3. Closed(Same)
    BY <2>2 DEF Closed
  <2>. QED  BY <1>1, <2>1, <2>3 DEF Related
<1>. QED  BY <1>1, SameSetRelated DEF AliasClasses, AliasInv, Known, Kept

\* add never returns early for a command it has not seen.
LEMMA NoEarlyReturn ==
    ASSUME AliasInv, NEW c \in Commands \ added,
           Get(c.name) = Get(c.alias), Get(c.name) # NoSet
    PROVE  FALSE
<1>1. c.name \in DOMAIN classes /\ c.alias \in DOMAIN classes /\ classes[c.name] = classes[c.alias]
  BY DEF Get, NoSet
<1>2. c.alias # NoAlias
  BY <1>1, DomainNames, CommandsAssumption
<1>3. PICK set \in SUBSET Names :
         /\ c.name \in set /\ c.alias \notin set
         /\ \A d \in Commands \ {c} : d.alias # NoAlias => (d.name \in set <=> d.alias \in set)
  BY <1>2, CommandsAssumption
<1>4. Closed(set)
  BY <1>3 DEF Closed, AliasInv, Known
<1>. QED  BY <1>1, <1>3, <1>4, SameSetRelated DEF Related

LEMMA AliasInitInv == AliasInit => AliasInv
BY DEF AliasInit, AliasInv, Known, Owned, MappingComplete, Kept, Chained, NamesOfAll

\* A new command makes one set of those of its two names.
LEMMA AddCommandInv ==
    ASSUME AliasInv, NEW c \in Commands \ added, AddCommand(c)
    PROVE  AliasInv'
<1>. DEFINE N == Joined(c)
            K == NamesOfAll(N)
<1>. HIDE DEF N, K
<1>1. added' = added \cup {c} /\ classes' = UpdateMap(N)
  <2>1. ~(Get(c.name) = Get(c.alias) /\ Get(c.name) # NoSet)
    BY NoEarlyReturn
  <2>. QED  BY <2>1 DEF AddCommand, N
<1>2. /\ DOMAIN classes' = DOMAIN classes \cup K
      /\ \A n \in K : classes'[n] = N
      /\ \A n \in DOMAIN classes \ K : classes'[n] = classes[n]
  BY <1>1 DEF UpdateMap, K
<1>3. /\ N = {c} \cup Get(c.name) \cup Get(c.alias) /\ N \subseteq added'
      /\ \A d \in N \ {c} : \E n \in DOMAIN classes : n \in {c.name, c.alias} /\ d \in classes[n]
      /\ \A m \in DOMAIN classes \cap NamesOf(c) : classes[m] \subseteq N
  <2>1. \A n : Get(n) # {} => n \in DOMAIN classes /\ Get(n) = classes[n]
    BY DEF Get, NoSet
  <2>2. \A n : Get(n) \subseteq added
    BY <2>1 DEF AliasInv, Known
  <2>3. \A d : d \in N <=> d = c \/ d \in Get(c.name) \/ d \in Get(c.alias)
    BY DEF N, Joined
  <2>4. \A m \in DOMAIN classes : Get(m) = classes[m]
    BY DEF Get
  <2>5. \A m \in NamesOf(c) : m = c.name \/ m = c.alias
    BY DEF NamesOf
  <2>6. N = {c} \cup Get(c.name) \cup Get(c.alias)
    BY DEF N, Joined
  <2>. QED  BY <1>1, <2>1, <2>2, <2>3, <2>4, <2>5, <2>6
<1>4. NamesOf(c) \subseteq K /\ c.name \in K
  BY <1>3, NameOf DEF K, NamesOfAll
\* A name of the new set brings its old set along.
<1>5. ASSUME NEW m \in K  PROVE  m \in NamesOf(c) \/ (m \in DOMAIN classes /\ classes[m] \subseteq N)
  <2>1. PICK e \in N : m \in NamesOf(e)
    BY DEF K, NamesOfAll
  <2>2. CASE e # c
    BY <1>3, <2>1, <2>2 DEF AliasInv, MappingComplete, Get, NoSet
  <2>. QED  BY <2>1, <2>2
<1>6. ASSUME NEW n \in DOMAIN classes, classes[n] \subseteq N  PROVE  n \in K
  BY <1>6 DEF AliasInv, Owned, K, NamesOfAll
<1>7. ASSUME NEW m \in K, m \in DOMAIN classes  PROVE  classes[m] \subseteq N
  BY <1>3, <1>5, <1>7
<1>8. Known'
  <2>1. K \subseteq DOMAIN classes \cup NamesOf(c)
    BY <1>5
  <2>2. NamesOfAll(added)' = NamesOfAll(added) \cup NamesOf(c)
    BY <1>1 DEF NamesOfAll
  <2>3. DOMAIN classes' = NamesOfAll(added)'
    BY <1>2, <1>4, <2>1, <2>2 DEF AliasInv, Known
  <2>. QED  BY <1>1, <1>2, <1>3, <2>3 DEF AliasInv, Known
<1>9. Owned'
  BY <1>2 DEF AliasInv, Owned, K, NamesOfAll
<1>10. MappingComplete'
  <2>. SUFFICES ASSUME NEW n \in DOMAIN classes', NEW d \in classes'[n], NEW m \in NamesOf(d)
                PROVE  m \in DOMAIN classes' /\ classes'[m] = classes'[n]
    BY DEF MappingComplete
  <2>1. CASE n \in K
    BY <1>2, <2>1 DEF K, NamesOfAll
  <2>2. CASE n \notin K
    <3>1. n \in DOMAIN classes /\ classes'[n] = classes[n] /\ m \in DOMAIN classes /\ classes[m] = classes[n]
      BY <1>2, <2>2 DEF AliasInv, MappingComplete
    <3>2. m \notin K
      BY <1>6, <1>7, <2>2, <3>1
    <3>. QED  BY <1>2, <3>1, <3>2
  <2>. QED  BY <2>1, <2>2
<1>11. Kept'
  <2>. SUFFICES ASSUME NEW d \in added'  PROVE  d \in classes'[d.name]
    BY DEF Kept
  <2>1. CASE d = c
    BY <1>2, <1>3, <1>4, <2>1
  <2>2. CASE d \in added
    <3>1. d.name \in DOMAIN classes /\ d \in classes[d.name]
      BY <2>2, NameOf DEF AliasInv, Known, Kept, NamesOfAll
    <3>. QED  BY <1>2, <1>7, <3>1
  <2>. QED  BY <1>1, <2>1, <2>2
<1>12. Chained'
  <2>. SUFFICES ASSUME NEW n \in DOMAIN classes', NEW d \in classes'[n], NEW set \in SUBSET Names, Closed(set)'
                PROVE  n \in set <=> d.name \in set
    BY DEF Chained, Related
  <2>1. Closed(set) /\ (c.alias # NoAlias => (c.name \in set <=> c.alias \in set))
    BY <1>1 DEF Closed
  <2>2. ASSUME NEW e \in N  PROVE  e.name \in set <=> c.name \in set
    <3>1. CASE e # c
      BY <1>3, <2>1, <3>1, DomainNames, CommandsAssumption DEF AliasInv, Chained, Related
    <3>. QED  BY <3>1
  <2>3. CASE n \in K
    <3>1. d \in N
      BY <1>2, <2>3
    <3>2. PICK e \in N : n \in NamesOf(e)
      BY <2>3 DEF K, NamesOfAll
    <3>3. n \in set <=> e.name \in set
      BY <1>1, <1>3, <3>2 DEF Closed, NamesOf
    <3>. QED  BY <2>2, <3>1, <3>2, <3>3
  <2>4. CASE n \notin K
    BY <1>2, <2>1, <2>4 DEF AliasInv, Chained, Related
  <2>. QED  BY <2>3, <2>4
<1>. QED  BY <1>8, <1>9, <1>10, <1>11, <1>12 DEF AliasInv

LEMMA AliasNextInv == ASSUME AliasInv, [AliasNext]_aliasVars  PROVE  AliasInv'
<1>1. CASE AliasNext
  BY <1>1, AddCommandInv DEF AliasNext
<1>2. CASE UNCHANGED aliasVars
  BY <1>2 DEF aliasVars, AliasInv, Known, Owned, MappingComplete, Kept, Chained, Related, Closed
<1>. QED  BY <1>1, <1>2

\* Every set of the map is the set all names of its commands are mapped to, as
\* the assertions of CommandAliasMap.add ask.
THEOREM MapComplete == AliasSpec => []MappingComplete
<1>1. AliasInv /\ [AliasNext]_aliasVars => AliasInv'
  BY AliasNextInv
<1>2. AliasInv => MappingComplete
  BY DEF AliasInv
<1>. QED  BY AliasInitInv, <1>1, <1>2, PTL DEF AliasSpec

\* Whatever the order of gl.xml, two names share a set if and only if a chain of
\* aliases leads from one to the other.
THEOREM SetsAreAliasClasses == AliasSpec => []AliasClasses
<1>1. AliasInv /\ [AliasNext]_aliasVars => AliasInv'
  BY AliasNextInv
<1>2. AliasInv => AliasClasses
  BY ClassesOfInv
<1>. QED  BY AliasInitInv, <1>1, <1>2, PTL DEF AliasSpec

(***************************************************************************)
(* OrderedKeyedSet.  The invariant: the nodes of the ring are a sequence,  *)
(* linked both ways from the root to the root, and the map leads from each *)
(* key to its node.  As there is only one way along the links, the walk of *)
(* iteritems is that sequence, and each operation changes it as the        *)
(* ordered set of the documentation does.                                  *)
(***************************************************************************)
Places == Nodes \cup {Root}
NodeType == [prev : Places, next : Places, key : Keys \cup {None}, value : Values \cup {None}]

RingType(p) ==
    /\ DOMAIN ring = {Root} \cup {p[i] : i \in DOMAIN p}
    /\ ring \in [DOMAIN ring -> NodeType]
    /\ \A i, j \in DOMAIN p : p[i] = p[j] => i = j
LinkedBothWays(p) == Walked(p) /\ \A i \in 0..Len(p) : ring[At(p, i + 1)].prev = At(p, i)
Mapped(p) ==
    /\ DOMAIN nodes = {ring[p[i]].key : i \in DOMAIN p}
    /\ \A i \in DOMAIN p : ring[p[i]].key \in Keys /\ ring[p[i]].value \in Values /\ nodes[ring[p[i]].key] = p[i]
RingOf(p) == RingType(p) /\ LinkedBothWays(p) /\ Mapped(p)
RingInv == \E p \in Seq(Nodes) : RingOf(p)

\* There is one way along the links.
LEMMA OneWalk ==
    ASSUME NEW S, Root \notin S, NEW p \in Seq(S), NEW q \in Seq(S), Walked(p), Walked(q)
    PROVE  p = q
<1>1. /\ \A i \in Nat : i \in 1..Len(p) => At(p, i) = p[i] /\ At(p, i) # Root
      /\ \A i \in Nat : i \notin 1..Len(p) => At(p, i) = Root
      /\ \A i \in Nat : i \in 1..Len(q) => At(q, i) = q[i] /\ At(q, i) # Root
      /\ \A i \in Nat : i \notin 1..Len(q) => At(q, i) = Root
  BY DEF At
<1>2. \A i \in Nat : At(p, i) = At(q, i)
  <2>. DEFINE T == {i \in Nat : At(p, i) # At(q, i)}
  <2>1. SUFFICES ASSUME T # {} PROVE FALSE
    OBVIOUS
  <2>2. PICK i \in T : \A j \in T : ~ (<<j, i>> \in OpToRel(<, Nat))
    <3>. HIDE DEF T
    <3>1. T \subseteq Nat
      BY DEF T
    <3>. QED  BY <2>1, <3>1, NatLessThanWellFounded, WFMin
  <2>3. i \in Nat /\ i # 0 /\ At(p, i) # At(q, i)
    BY <1>1
  <2>4. i - 1 \in Nat /\ i - 1 < i
    BY <2>3
  <2>5. <<i - 1, i>> \in OpToRel(<, Nat)
    BY <2>3, <2>4, Zenon DEF OpToRel
  <2>6. At(p, i - 1) = At(q, i - 1)
    BY <2>2, <2>4, <2>5
  <2>7. CASE i - 1 \in 0..Len(p) /\ i - 1 \in 0..Len(q)
    <3>1. ring[At(p, i - 1)].next = At(p, i) /\ ring[At(q, i - 1)].next = At(q, i)
      BY <2>3, <2>7 DEF Walked
    <3>. QED  BY <2>3, <2>6, <3>1
  <2>8. CASE i - 1 \notin 0..Len(p) \/ i - 1 \notin 0..Len(q)
    <3>1. At(p, i - 1) = Root /\ i - 1 # 0
      BY <1>1, <2>4, <2>6, <2>8
    <3>2. i \notin 1..Len(p) /\ i \notin 1..Len(q)
      BY <1>1, <2>3, <2>4, <2>6, <3>1
    <3>. QED  BY <1>1, <2>3, <3>2
  <2>. QED  BY <2>7, <2>8
<1>3. Len(p) = Len(q)
  BY <1>1, <1>2
<1>4. \A i \in 1..Len(p) : p[i] = q[i]
  BY <1>1, <1>2, <1>3
<1>. QED  BY <1>3, <1>4

\* The walk of iteritems visits the nodes of the ring.
ItemsAlongRing ==
    \A p \in Seq(Nodes) : RingOf(p) => Items = [i \in 1..Len(p) |-> <<ring[p[i]].key, ring[p[i]].value>>]
LEMMA ItemsOfRing == ItemsAlongRing
<1>. SUFFICES ASSUME NEW p \in Seq(Nodes), RingOf(p)
              PROVE  Items = [i \in 1..Len(p) |-> <<ring[p[i]].key, ring[p[i]].value>>]
  BY DEF ItemsAlongRing
<1>. DEFINE R == {p[i] : i \in DOMAIN p}
<1>1. Root \notin R /\ DOMAIN ring = {Root} \cup R /\ R = DOMAIN ring \ {Root}
  BY RootIsNoNode DEF RingOf, RingType
<1>2. p \in [1..Len(p) -> R] /\ p \in Seq(R)
  OBVIOUS
<1>3. Len(p) \in 0..Cardinality(DOMAIN ring)
  <2>1. p \in Bijection(1..Len(p), R)
    BY <1>2 DEF Bijection, Injection, Surjection, IsInjective, RingOf, RingType
  <2>2. IsFiniteSet(R) /\ Cardinality(R) = Len(p)
    <3>1. ExistsBijection(1..Len(p), R)
      BY <2>1, Zenon DEF ExistsBijection
    <3>2. Len(p) \in Nat
      OBVIOUS
    <3>. HIDE DEF R
    <3>. QED  BY <3>1, <3>2, FS_CountingElements, FS_NatBijection
  <2>3. Cardinality(R \cup {Root}) = Len(p) + 1
    <3>. HIDE DEF R
    <3>. QED  BY <1>1, <2>2, FS_AddElement
  <2>4. DOMAIN ring = R \cup {Root}
    BY <1>1
  <2>. HIDE DEF R
  <2>. QED  BY <2>3, <2>4
<1>4. Walked(p)
  BY DEF RingOf, LinkedBothWays
<1>5. p \in Walks
  <2>1. p \in {w \in [1..Len(p) -> DOMAIN ring \ {Root}] : Walked(w)}
    BY <1>1, <1>2, <1>4
  <2>. QED  BY <1>3, <2>1 DEF Walks
<1>6. ASSUME NEW q \in Walks  PROVE  q = p
  <2>1. q \in Seq(R) /\ Walked(q)
    <3>1. PICK i \in 0..Cardinality(DOMAIN ring) : q \in [1..i -> DOMAIN ring \ {Root}] /\ Walked(q)
      BY <1>6 DEF Walks
    <3>2. i \in Nat /\ q \in [1..i -> R]
      BY <1>1, <3>1
    <3>. HIDE DEF R
    <3>. QED  BY <3>1, <3>2
  <2>. HIDE DEF R
  <2>. QED  BY <1>1, <1>2, <1>4, <2>1, OneWalk
<1>7. Walk = p
  BY <1>5, <1>6 DEF Walk
<1>8. DOMAIN p = 1..Len(p)
  OBVIOUS
<1>. HIDE DEF R
<1>. QED  BY <1>7, <1>8 DEF Items

LEMMA ItemsOfNextRing == ItemsAlongRing'
BY ItemsOfRing, PTL

LEMMA SetFields ==
    ASSUME NEW D, NEW r \in [D -> NodeType], NEW n \in D, NEW to \in Places
    PROVE  /\ SetNext(r, n, to) \in [D -> NodeType]
           /\ \A x \in D : /\ SetNext(r, n, to)[x].next = IF x = n THEN to ELSE r[x].next
                           /\ SetNext(r, n, to)[x].prev = r[x].prev
                           /\ SetNext(r, n, to)[x].key = r[x].key
                           /\ SetNext(r, n, to)[x].value = r[x].value
           /\ SetPrev(r, n, to) \in [D -> NodeType]
           /\ \A x \in D : /\ SetPrev(r, n, to)[x].prev = IF x = n THEN to ELSE r[x].prev
                           /\ SetPrev(r, n, to)[x].next = r[x].next
                           /\ SetPrev(r, n, to)[x].key = r[x].key
                           /\ SetPrev(r, n, to)[x].value = r[x].value
BY DEF SetNext, SetPrev, NodeType

\* The fields of the ring after each of the operations.
LEMMA ReplacedStep ==
    ASSUME NEW p \in Seq(Nodes), RingOf(p), NEW k \in Keys, NEW v \in Values, k \in DOMAIN nodes, AddReplaced(k, v)
    PROVE  /\ RingOf(p)'
           /\ Items' = [i \in DOMAIN Items |-> IF Items[i][1] = k THEN <<k, v>> ELSE Items[i]]
           /\ \E i \in DOMAIN Items : Items[i][1] = k
<1>1. PICK j \in DOMAIN p : k = ring[p[j]].key /\ nodes[k] = p[j]
  BY DEF RingOf, Mapped
<1>2. /\ nodes' = nodes /\ DOMAIN ring' = DOMAIN ring /\ ring' \in [DOMAIN ring -> NodeType]
      /\ \A x \in DOMAIN ring : /\ ring'[x].next = ring[x].next /\ ring'[x].prev = ring[x].prev
                                /\ ring'[x].key = ring[x].key
                                /\ ring'[x].value = IF x = p[j] THEN v ELSE ring[x].value
  BY <1>1 DEF AddReplaced, RingOf, RingType, NodeType
<1>3. \A i \in Nat : At(p, i) \in DOMAIN ring
  BY DEF RingOf, RingType, At
<1>4. RingType(p)'
  BY <1>2 DEF RingOf, RingType
<1>5. LinkedBothWays(p)'
  BY <1>2, <1>3 DEF RingOf, LinkedBothWays, Walked
<1>6. \A i \in DOMAIN p : p[i] \in DOMAIN ring
  BY DEF RingOf, RingType
<1>7. Mapped(p)'
  BY <1>2, <1>6 DEF RingOf, Mapped
<1>8. RingOf(p)'
  BY <1>4, <1>5, <1>7 DEF RingOf
<1>9. Items = [i \in 1..Len(p) |-> <<ring[p[i]].key, ring[p[i]].value>>]
  BY ItemsOfRing DEF ItemsAlongRing
<1>10. Items' = [i \in 1..Len(p) |-> <<ring'[p[i]].key, ring'[p[i]].value>>]
  BY <1>8, ItemsOfNextRing DEF ItemsAlongRing
<1>11. \A i \in 1..Len(p) : ring[p[i]].key = k <=> p[i] = p[j]
  BY <1>1 DEF RingOf, Mapped
<1>12. DOMAIN Items = 1..Len(p) /\ \A i \in 1..Len(p) : Items[i] = <<ring[p[i]].key, ring[p[i]].value>>
  BY <1>9
<1>13. \A i \in 1..Len(p) : Items'[i] = IF Items[i][1] = k THEN <<k, v>> ELSE Items[i]
  BY <1>2, <1>6, <1>10, <1>11, <1>12
<1>14. DOMAIN Items' = 1..Len(p)
  BY <1>10
<1>15. Items' = [i \in DOMAIN Items |-> IF Items[i][1] = k THEN <<k, v>> ELSE Items[i]]
  BY <1>10, <1>12, <1>13, <1>14
<1>. QED  BY <1>1, <1>8, <1>12, <1>15

LEMMA AtFacts ==
    ASSUME NEW p \in Seq(Nodes), RingOf(p)
    PROVE  /\ \A i \in Nat : At(p, i) \in DOMAIN ring /\ At(p, i) \in Places
           /\ At(p, 0) = Root /\ At(p, Len(p) + 1) = Root
           /\ \A i \in 1..Len(p) : At(p, i) = p[i] /\ p[i] # Root
           /\ \A i, j \in 0..Len(p) : At(p, i) = At(p, j) => i = j
           /\ \A i, j \in 1..(Len(p) + 1) : At(p, i) = At(p, j) => i = j
<1>1. \A i \in DOMAIN p : p[i] \in Nodes /\ p[i] \in DOMAIN ring
  BY DEF RingOf, RingType
<1>2. Root \in DOMAIN ring
  BY DEF RingOf, RingType
<1>. QED  BY <1>1, <1>2, RootIsNoNode DEF At, Places, RingOf, RingType

\* A new node goes between the last and the root.
LEMMA NewStep ==
    ASSUME NEW p \in Seq(Nodes), RingOf(p), NEW k \in Keys, NEW v \in Values, k \notin DOMAIN nodes, AddNew(k, v)
    PROVE  /\ \E q \in Seq(Nodes) : RingOf(q)'
           /\ Items' = Append(Items, <<k, v>>)
           /\ \A i \in DOMAIN Items : Items[i][1] # k
<1>1. PICK n \in Nodes \ DOMAIN ring :
         /\ ring' = SetPrev(SetNext(Linked(k, v, n), ring[Root].prev, n), Root, n)
         /\ nodes' = With(nodes, k, n)
  BY DEF AddNew
<1>. DEFINE D == DOMAIN ring \cup {n}
            t == At(p, Len(p))
            q == Append(p, n)
<1>2. ring[Root].prev = t /\ t \in DOMAIN ring /\ t # n /\ Root \in DOMAIN ring /\ Root # n
  BY AtFacts, RootIsNoNode DEF RingOf, LinkedBothWays
<1>3. ring \in [DOMAIN ring -> NodeType]
  BY DEF RingOf, RingType
<1>4. /\ Linked(k, v, n) \in [D -> NodeType]
      /\ \A x \in DOMAIN ring : Linked(k, v, n)[x] = ring[x]
      /\ Linked(k, v, n)[n] = [prev |-> t, next |-> Root, key |-> k, value |-> v]
  <2>1. t \in Places
    BY AtFacts
  <2>2. [prev |-> t, next |-> Root, key |-> k, value |-> v] \in NodeType
    BY <2>1 DEF NodeType, Places
  <2>. HIDE DEF t
  <2>. QED  BY <1>2, <1>3, <2>2 DEF Linked, With
<1>5. /\ ring' \in [D -> NodeType]
      /\ \A x \in DOMAIN ring : /\ ring'[x].next = IF x = t THEN n ELSE ring[x].next
                                /\ ring'[x].prev = IF x = Root THEN n ELSE ring[x].prev
                                /\ ring'[x].key = ring[x].key /\ ring'[x].value = ring[x].value
      /\ ring'[n].next = Root /\ ring'[n].prev = t /\ ring'[n].key = k /\ ring'[n].value = v
  <2>. DEFINE r == SetNext(Linked(k, v, n), t, n)
  <2>1. n \in Places /\ t \in D /\ Root \in D /\ n \in D
    BY <1>2 DEF Places
  <2>2. /\ r \in [D -> NodeType]
        /\ \A x \in D : /\ r[x].next = IF x = t THEN n ELSE Linked(k, v, n)[x].next
                        /\ r[x].prev = Linked(k, v, n)[x].prev
                        /\ r[x].key = Linked(k, v, n)[x].key
                        /\ r[x].value = Linked(k, v, n)[x].value
    <3>. HIDE DEF t, D
    <3>. QED  BY <1>4, <2>1, SetFields
  <2>3. ring' = SetPrev(r, Root, n)
    BY <1>1, <1>2
  <2>4. /\ ring' \in [D -> NodeType]
        /\ \A x \in D : /\ ring'[x].prev = IF x = Root THEN n ELSE r[x].prev
                        /\ ring'[x].next = r[x].next
                        /\ ring'[x].key = r[x].key
                        /\ ring'[x].value = r[x].value
    <3>. HIDE DEF t, D, r
    <3>. QED  BY <2>1, <2>2, <2>3, SetFields
  <2>. HIDE DEF t, r
  <2>. QED  BY <1>2, <1>4, <2>1, <2>2, <2>4
<1>6. q \in Seq(Nodes) /\ Len(q) = Len(p) + 1 /\ DOMAIN q = 1..(Len(p) + 1) /\ q[Len(p) + 1] = n /\ \A i \in 1..Len(p) : q[i] = p[i]
  OBVIOUS
<1>7. \A i \in 1..Len(p) : p[i] # n /\ p[i] \in DOMAIN ring
  BY <1>1 DEF RingOf, RingType
<1>8. At(q, Len(q)) = n /\ At(q, Len(q) + 1) = Root /\ \A i \in 0..Len(p) : At(q, i) = At(p, i)
  <2>. HIDE DEF q
  <2>. QED  BY <1>6 DEF At
<1>. HIDE DEF q
<1>9. DOMAIN ring' = D
  BY <1>5
<1>10. RingType(q)'
  <2>1. D = {Root} \cup {q[i] : i \in DOMAIN q}
    BY <1>6 DEF RingOf, RingType
  <2>2. \A i, j \in DOMAIN q : q[i] = q[j] => i = j
    BY <1>6, <1>7 DEF RingOf, RingType
  <2>. QED  BY <1>5, <1>9, <2>1, <2>2 DEF RingType
<1>11. LinkedBothWays(q)'
  <2>1. ASSUME NEW i \in 0..Len(q)
        PROVE  ring'[At(q, i)].next = At(q, i + 1) /\ ring'[At(q, i + 1)].prev = At(q, i)
    <3>1. CASE i = Len(q)
      BY <1>2, <1>5, <1>6, <1>8, <3>1
    <3>2. CASE i = Len(p)
      BY <1>2, <1>5, <1>6, <1>8, <3>2
    <3>3. CASE i < Len(p)
      <4>1. /\ i \in 0..Len(p) /\ i + 1 \in 0..Len(p) /\ i + 1 # 0 /\ i # Len(p) /\ i \in Nat /\ i + 1 \in Nat
            /\ At(q, i) = At(p, i) /\ At(q, i + 1) = At(p, i + 1)
        BY <1>8, <3>3
      <4>2. At(p, i) # t /\ At(p, i + 1) # Root /\ At(p, i) \in DOMAIN ring /\ At(p, i + 1) \in DOMAIN ring
        BY <4>1, AtFacts
      <4>3. ring[At(p, i)].next = At(p, i + 1) /\ ring[At(p, i + 1)].prev = At(p, i)
        BY <4>1 DEF RingOf, LinkedBothWays, Walked
      <4>. HIDE DEF t
      <4>. QED  BY <1>5, <4>1, <4>2, <4>3
    <3>. QED  BY <1>6, <3>1, <3>2, <3>3
  <2>. QED  BY <2>1 DEF LinkedBothWays, Walked
<1>12. DOMAIN nodes' = DOMAIN nodes \cup {k} /\ nodes'[k] = n /\ \A x \in DOMAIN nodes : nodes'[x] = nodes[x]
  BY <1>1 DEF With
<1>13. Mapped(q)'
  <2>1. \A i \in 1..Len(p) : /\ ring'[q[i]].key = ring[p[i]].key /\ ring'[q[i]].value = ring[p[i]].value
                            /\ ring[p[i]].key # k /\ ring[p[i]].key \in DOMAIN nodes
    BY <1>5, <1>6, <1>7 DEF RingOf, Mapped
  <2>2. ring'[q[Len(p) + 1]].key = k /\ ring'[q[Len(p) + 1]].value = v
    BY <1>5, <1>6
  <2>3. \A i \in DOMAIN q : ring'[q[i]].key \in Keys /\ ring'[q[i]].value \in Values /\ nodes'[ring'[q[i]].key] = q[i]
    BY <1>6, <1>12, <2>1, <2>2 DEF RingOf, Mapped
  <2>4. DOMAIN nodes' = {ring'[q[i]].key : i \in DOMAIN q}
    <3>1. DOMAIN nodes = {ring[p[i]].key : i \in 1..Len(p)}
      BY DEF RingOf, Mapped
    <3>2. {ring'[q[i]].key : i \in 1..(Len(p) + 1)} = {ring[p[i]].key : i \in 1..Len(p)} \cup {k}
      <4>1. \A i \in 1..(Len(p) + 1) : i = Len(p) + 1 \/ i \in 1..Len(p)
        OBVIOUS
      <4>2. \A i \in 1..Len(p) : i \in 1..(Len(p) + 1)
        OBVIOUS
      <4>3. Len(p) + 1 \in 1..(Len(p) + 1)
        OBVIOUS
      <4>. QED  BY <2>1, <2>2, <4>1, <4>2, <4>3
    <3>. QED  BY <1>6, <1>12, <3>1, <3>2
  <2>. QED  BY <2>3, <2>4 DEF Mapped
<1>14. RingOf(q)'
  BY <1>10, <1>11, <1>13 DEF RingOf
<1>15. Items = [i \in 1..Len(p) |-> <<ring[p[i]].key, ring[p[i]].value>>]
  BY ItemsOfRing DEF ItemsAlongRing
<1>16. Items' = [i \in 1..Len(q) |-> <<ring'[q[i]].key, ring'[q[i]].value>>]
  BY <1>6, <1>14, ItemsOfNextRing DEF ItemsAlongRing
<1>17. Items \in Seq(Keys \X Values) /\ Len(Items) = Len(p)
  BY <1>15 DEF RingOf, Mapped
<1>18. Items' = Append(Items, <<k, v>>)
  <2>1. \A i \in 1..Len(p) : Items'[i] = Items[i]
    BY <1>5, <1>6, <1>7, <1>15, <1>16
  <2>2. Items'[Len(p) + 1] = <<k, v>>
    BY <1>5, <1>6, <1>16
  <2>3. Items' \in Seq(Keys \X Values) /\ Len(Items') = Len(p) + 1
    <3>1. \A i \in 1..(Len(p) + 1) : Items'[i] \in Keys \X Values
      <4>1. \A i \in 1..Len(p) : Items[i] \in Keys \X Values
        BY <1>17
      <4>2. \A i \in 1..(Len(p) + 1) : i = Len(p) + 1 \/ i \in 1..Len(p)
        OBVIOUS
      <4>3. <<k, v>> \in Keys \X Values
        OBVIOUS
      <4>. QED  BY <2>1, <2>2, <4>1, <4>2, <4>3
    <3>2. DOMAIN Items' = 1..(Len(p) + 1) /\ Items' = [i \in 1..(Len(p) + 1) |-> Items'[i]]
      BY <1>6, <1>16
    <3>. QED  BY <3>1, <3>2
  <2>. QED  BY <1>17, <2>1, <2>2, <2>3
<1>19. \A i \in DOMAIN Items : Items[i][1] # k
  BY <1>15 DEF RingOf, Mapped
<1>. QED  BY <1>6, <1>14, <1>18, <1>19

LEMMA Concatenated ==
    ASSUME NEW S, NEW a \in Seq(S), NEW b \in Seq(S)
    PROVE  /\ a \o b \in Seq(S) /\ Len(a \o b) = Len(a) + Len(b)
           /\ \A j \in 1..(Len(a) + Len(b)) : (a \o b)[j] = IF j <= Len(a) THEN a[j] ELSE b[j - Len(a)]
OBVIOUS

\* A sequence without one of its members.
LEMMA Removed ==
    ASSUME NEW S, NEW p \in Seq(S), NEW i \in 1..Len(p)
    PROVE  /\ RemoveAt(p, i) \in Seq(S) /\ Len(RemoveAt(p, i)) = Len(p) - 1
           /\ \A j \in 1..(i - 1) : RemoveAt(p, i)[j] = p[j]
           /\ \A j \in i..(Len(p) - 1) : RemoveAt(p, i)[j] = p[j + 1]
<1>. DEFINE a == SubSeq(p, 1, i - 1)
            b == SubSeq(p, i + 1, Len(p))
<1>1. a \in Seq(S) /\ Len(a) = i - 1 /\ \A j \in 1..(i - 1) : a[j] = p[j]
  OBVIOUS
<1>2. b \in Seq(S) /\ Len(b) = Len(p) - i /\ \A j \in 1..(Len(p) - i) : b[j] = p[i + j]
  OBVIOUS
<1>3. RemoveAt(p, i) = a \o b
  BY DEF RemoveAt
<1>. HIDE DEF a, b
<1>4. /\ a \o b \in Seq(S) /\ Len(a \o b) = Len(p) - 1
      /\ \A j \in 1..(i - 1) : (a \o b)[j] = a[j]
      /\ \A j \in i..(Len(p) - 1) : (a \o b)[j] = b[j - i + 1]
  <2>1. /\ a \o b \in Seq(S) /\ Len(a \o b) = Len(a) + Len(b)
        /\ \A j \in 1..(Len(a) + Len(b)) : (a \o b)[j] = IF j <= Len(a) THEN a[j] ELSE b[j - Len(a)]
    BY <1>1, <1>2, Concatenated
  <2>2. Len(a) = i - 1 /\ Len(a) + Len(b) = Len(p) - 1 /\ \A j \in i..(Len(p) - 1) : j - (i - 1) = j - i + 1
    BY <1>1, <1>2
  <2>. QED  BY <2>1, <2>2
<1>5. \A j \in i..(Len(p) - 1) : b[j - i + 1] = p[j + 1]
  BY <1>2
<1>. QED  BY <1>1, <1>3, <1>4, <1>5

\* The neighbours of a node that is popped are linked to each other.
LEMMA PopStep ==
    ASSUME NEW p \in Seq(Nodes), RingOf(p), NEW k \in Keys, Pop(k)
    PROVE  /\ \E q \in Seq(Nodes) : RingOf(q)'
           /\ \E i \in DOMAIN Items : Items[i][1] = k /\ Items' = RemoveAt(Items, i)
<1>1. PICK i \in 1..Len(p) : k = ring[p[i]].key /\ nodes[k] = p[i]
  BY DEF Pop, RingOf, Mapped
<1>. DEFINE n == p[i]
            a == At(p, i - 1)
            b == At(p, i + 1)
            q == RemoveAt(p, i)
            D == DOMAIN ring \ {n}
<1>2. /\ i - 1 \in 0..Len(p) /\ i + 1 \in 1..(Len(p) + 1) /\ i \in 0..Len(p) /\ i \in 1..(Len(p) + 1) /\ i \in Nat /\ i - 1 \in Nat /\ i + 1 \in Nat
      /\ At(p, i) = n
  BY AtFacts
<1>3. ring[n].prev = a /\ ring[n].next = b
  <2>1. ring[At(p, i)].next = At(p, i + 1) /\ ring[At(p, (i - 1) + 1)].prev = At(p, i - 1)
    BY <1>2 DEF RingOf, LinkedBothWays, Walked
  <2>2. (i - 1) + 1 = i
    BY <1>2
  <2>. QED  BY <1>2, <2>1, <2>2
<1>4. a \in DOMAIN ring /\ b \in DOMAIN ring /\ a \in Places /\ b \in Places /\ a # n /\ b # n
  BY <1>2, AtFacts
<1>5. ring \in [DOMAIN ring -> NodeType]
  BY DEF RingOf, RingType
<1>6. /\ ring' \in [D -> NodeType]
      /\ \A x \in D : /\ ring'[x].next = IF x = a THEN b ELSE ring[x].next
                      /\ ring'[x].prev = IF x = b THEN a ELSE ring[x].prev
                      /\ ring'[x].key = ring[x].key /\ ring'[x].value = ring[x].value
  <2>. DEFINE r == SetNext(ring, a, b)
              s == SetPrev(r, b, a)
  <2>1. /\ r \in [DOMAIN ring -> NodeType]
        /\ \A x \in DOMAIN ring : /\ r[x].next = IF x = a THEN b ELSE ring[x].next
                                  /\ r[x].prev = ring[x].prev
                                  /\ r[x].key = ring[x].key
                                  /\ r[x].value = ring[x].value
    <3>. HIDE DEF a, b
    <3>. QED  BY <1>4, <1>5, SetFields
  <2>2. /\ s \in [DOMAIN ring -> NodeType]
        /\ \A x \in DOMAIN ring : /\ s[x].prev = IF x = b THEN a ELSE r[x].prev
                                  /\ s[x].next = r[x].next
                                  /\ s[x].key = r[x].key
                                  /\ s[x].value = r[x].value
    <3>. HIDE DEF a, b, r
    <3>. QED  BY <1>4, <2>1, SetFields
  <2>3. ring' = [x \in D |-> s[x]]
    BY <1>1, <1>3, <2>2 DEF Pop, Without
  <2>. HIDE DEF a, b, r, s, n
  <2>. QED  BY <2>1, <2>2, <2>3
<1>7. /\ q \in Seq(Nodes) /\ Len(q) = Len(p) - 1
      /\ \A j \in 1..(i - 1) : q[j] = p[j]
      /\ \A j \in i..(Len(p) - 1) : q[j] = p[j + 1]
  BY Removed
<1>. DEFINE from(j) == IF j < i THEN j ELSE j + 1
<1>7a. \A j \in DOMAIN q : from(j) \in DOMAIN p /\ from(j) # i /\ q[j] = p[from(j)]
  <2>. HIDE DEF q
  <2>1. \A j \in DOMAIN q : j \in 1..(i - 1) \/ j \in i..(Len(p) - 1)
    BY <1>1, <1>7
  <2>. QED  BY <1>1, <1>7, <2>1
<1>7b. \A j, m \in Nat : from(j) = from(m) => j = m
  BY <1>1
<1>. HIDE DEF q, from
<1>8. /\ \A j \in 0..(i - 1) : At(q, j) = At(p, j)
      /\ \A j \in Nat : j >= i => At(q, j) = At(p, j + 1)
  BY <1>1, <1>7 DEF At
<1>9. DOMAIN ring' = D
  BY <1>6
<1>10. RingType(q)'
  <2>1. D = {Root} \cup {q[j] : j \in DOMAIN q}
    <3>1. ASSUME NEW x \in D  PROVE  x = Root \/ \E j \in DOMAIN q : x = q[j]
      <4>1. CASE x # Root
        <5>1. PICK j \in 1..Len(p) : x = p[j] /\ j # i
          BY <4>1 DEF RingOf, RingType
        <5>2. CASE j < i
          BY <1>1, <1>7, <5>1, <5>2
        <5>3. CASE j > i
          <6>1. j - 1 \in i..(Len(p) - 1) /\ j - 1 \in DOMAIN q /\ (j - 1) + 1 = j
            BY <1>1, <1>7, <5>3
          <6>2. q[j - 1] = p[j]
            BY <1>7, <6>1
          <6>. QED  BY <5>1, <6>1, <6>2
        <5>. QED  BY <1>1, <5>1, <5>2, <5>3
      <4>. QED  BY <4>1
    <3>2. Root \in D
      BY AtFacts DEF RingOf, RingType
    <3>3. ASSUME NEW j \in DOMAIN q  PROVE  q[j] \in D
      <4>1. PICK m \in DOMAIN p : m # i /\ q[j] = p[m]
        BY <1>7a
      <4>. QED  BY <4>1 DEF RingOf, RingType
    <3>. QED  BY <3>1, <3>2, <3>3
  <2>2. \A j, m \in DOMAIN q : q[j] = q[m] => j = m
    <3>. SUFFICES ASSUME NEW j \in DOMAIN q, NEW m \in DOMAIN q, q[j] = q[m]  PROVE  j = m
      OBVIOUS
    <3>1. from(j) \in DOMAIN p /\ from(m) \in DOMAIN p /\ p[from(j)] = p[from(m)] /\ j \in Nat /\ m \in Nat
      BY <1>7, <1>7a
    <3>2. from(j) = from(m)
      BY <3>1 DEF RingOf, RingType
    <3>. QED  BY <1>7b, <3>1, <3>2
  <2>. QED  BY <1>6, <1>9, <2>1, <2>2 DEF RingType
<1>11. LinkedBothWays(q)'
  <2>1. ASSUME NEW j \in 0..Len(q)
        PROVE  ring'[At(q, j)].next = At(q, j + 1) /\ ring'[At(q, j + 1)].prev = At(q, j)
    <3>1. CASE j < i - 1
      <4>1. j \in 0..(i - 1) /\ j + 1 \in 0..(i - 1) /\ j \in 0..Len(p) /\ j + 1 \in 0..Len(p) /\ j + 1 \in 1..(Len(p) + 1) /\ j \in Nat /\ j + 1 \in Nat
        BY <1>1, <3>1
      <4>2. At(p, j) # a /\ At(p, j + 1) # b /\ At(p, j) # n /\ At(p, j + 1) # n
        BY <1>1, <1>2, <3>1, <4>1, AtFacts
      <4>3. ring[At(p, j)].next = At(p, j + 1) /\ ring[At(p, j + 1)].prev = At(p, j)
        BY <4>1 DEF RingOf, LinkedBothWays, Walked
      <4>4. At(p, j) \in D /\ At(p, j + 1) \in D
        BY <4>1, <4>2, AtFacts
      <4>. HIDE DEF a, b, n, D
      <4>. QED  BY <1>6, <1>8, <4>1, <4>2, <4>3, <4>4
    <3>2. CASE j = i - 1
      <4>1. At(q, j) = a /\ At(q, j + 1) = b
        BY <1>1, <1>2, <1>8, <3>2
      <4>. QED  BY <1>4, <1>6, <4>1
    <3>3. CASE j > i - 1
      <4>1. /\ j >= i /\ j + 1 >= i /\ j \in Nat /\ j + 1 \in Nat /\ j + 2 \in Nat /\ (j + 1) + 1 = j + 2
            /\ j + 1 \in 0..Len(p) /\ j + 1 \in 1..(Len(p) + 1) /\ j + 2 \in 1..(Len(p) + 1)
        BY <1>1, <1>7, <3>3
      <4>2. At(p, j + 1) # a /\ At(p, j + 2) # b /\ At(p, j + 1) # n /\ At(p, j + 2) # n
        BY <1>1, <1>2, <3>3, <4>1, AtFacts
      <4>3. ring[At(p, j + 1)].next = At(p, j + 2) /\ ring[At(p, j + 2)].prev = At(p, j + 1)
        BY <4>1 DEF RingOf, LinkedBothWays, Walked
      <4>4. At(p, j + 1) \in D /\ At(p, j + 2) \in D
        BY <4>1, <4>2, AtFacts
      <4>5. At(q, j) = At(p, j + 1) /\ At(q, j + 1) = At(p, j + 2)
        BY <1>8, <4>1
      <4>. HIDE DEF a, b, n, D
      <4>. QED  BY <1>6, <4>2, <4>3, <4>4, <4>5
    <3>. QED  BY <1>1, <1>7, <3>1, <3>2, <3>3
  <2>. QED  BY <2>1 DEF LinkedBothWays, Walked
<1>12. \A x \in Seq(Nodes) : RingOf(x) => \A j, m \in DOMAIN x : ring[x[j]].key = ring[x[m]].key => j = m
  BY DEF RingOf, RingType, Mapped
<1>13. \A j \in DOMAIN q : \E m \in DOMAIN p : m # i /\ q[j] = p[m]
  BY <1>7a
<1>14. \A m \in DOMAIN p : m # i => \E j \in DOMAIN q : q[j] = p[m]
  <2>. SUFFICES ASSUME NEW m \in DOMAIN p, m # i  PROVE  \E j \in DOMAIN q : q[j] = p[m]
    OBVIOUS
  <2>1. CASE m < i
    BY <1>1, <1>7, <2>1
  <2>2. CASE m > i
    <3>1. m - 1 \in i..(Len(p) - 1) /\ m - 1 \in DOMAIN q /\ (m - 1) + 1 = m
      BY <1>1, <1>7, <2>2
    <3>2. q[m - 1] = p[m]
      BY <1>7, <3>1
    <3>. QED  BY <3>1, <3>2
  <2>. QED  BY <1>1, <2>1, <2>2
<1>15. Mapped(q)'
  <2>1. DOMAIN nodes' = DOMAIN nodes \ {k} /\ \A x \in DOMAIN nodes \ {k} : nodes'[x] = nodes[x]
    BY DEF Pop, Without
  <2>2. \A m \in DOMAIN p : m # i => p[m] \in D /\ ring'[p[m]].key = ring[p[m]].key /\ ring'[p[m]].value = ring[p[m]].value /\ ring[p[m]].key # k
    BY <1>1, <1>6, <1>12 DEF RingOf, RingType
  <2>3. \A j \in DOMAIN q : ring'[q[j]].key \in Keys /\ ring'[q[j]].value \in Values /\ nodes'[ring'[q[j]].key] = q[j] /\ ring'[q[j]].key \in DOMAIN nodes'
    BY <1>13, <2>1, <2>2 DEF RingOf, Mapped
  <2>4. \A x \in DOMAIN nodes' : \E j \in DOMAIN q : x = ring'[q[j]].key
    BY <1>1, <1>14, <2>1, <2>2 DEF RingOf, Mapped
  <2>. QED  BY <2>3, <2>4 DEF Mapped
<1>16. RingOf(q)'
  BY <1>10, <1>11, <1>15 DEF RingOf
<1>17. Items = [j \in 1..Len(p) |-> <<ring[p[j]].key, ring[p[j]].value>>]
  BY ItemsOfRing DEF ItemsAlongRing
<1>18. Items' = [j \in 1..Len(q) |-> <<ring'[q[j]].key, ring'[q[j]].value>>]
  BY <1>7, <1>16, ItemsOfNextRing DEF ItemsAlongRing
<1>19. Items \in Seq(Keys \X Values) /\ Len(Items) = Len(p)
  BY <1>17 DEF RingOf, Mapped
<1>20. Items' = RemoveAt(Items, i)
  <2>1. /\ RemoveAt(Items, i) \in Seq(Keys \X Values) /\ Len(RemoveAt(Items, i)) = Len(p) - 1
        /\ \A j \in 1..(i - 1) : RemoveAt(Items, i)[j] = Items[j]
        /\ \A j \in i..(Len(p) - 1) : RemoveAt(Items, i)[j] = Items[j + 1]
    BY <1>19, Removed
  <2>2. \A m \in DOMAIN p : m # i => <<ring'[p[m]].key, ring'[p[m]].value>> = Items[m]
    BY <1>6, <1>17 DEF RingOf, RingType
  <2>3. \A j \in 1..Len(q) : Items'[j] = RemoveAt(Items, i)[j]
    <3>. SUFFICES ASSUME NEW j \in 1..Len(q)  PROVE  Items'[j] = RemoveAt(Items, i)[j]
      OBVIOUS
    <3>1. CASE j < i
      <4>1. j \in 1..(i - 1) /\ j \in DOMAIN p /\ j # i
        BY <1>1, <3>1
      <4>. QED  BY <1>7, <1>18, <2>1, <2>2, <4>1
    <3>2. CASE j >= i
      <4>1. j \in i..(Len(p) - 1) /\ j + 1 \in DOMAIN p /\ j + 1 # i
        BY <1>1, <1>7, <3>2
      <4>. QED  BY <1>7, <1>18, <2>1, <2>2, <4>1
    <3>. QED  BY <1>1, <3>1, <3>2
  <2>4. Items' = [j \in 1..Len(q) |-> Items'[j]] /\ RemoveAt(Items, i) = [j \in 1..Len(q) |-> RemoveAt(Items, i)[j]]
    BY <1>7, <1>18, <2>1
  <2>. QED  BY <2>3, <2>4
<1>21. i \in DOMAIN Items /\ Items[i][1] = k
  BY <1>1, <1>17
<1>. QED  BY <1>7, <1>16, <1>20, <1>21

LEMMA EmptySequence == <<>> \in Seq(Nodes) /\ 1..Len(<<>>) = {} /\ \A f : DOMAIN f = {} /\ f = [x \in {} |-> f[x]] => f = <<>>
OBVIOUS

LEMMA ClearStep == ASSUME Clear PROVE RingOf(<<>>)' /\ Items' = <<>>
<1>1. ring' = EmptyRing /\ nodes' = <<>>
  BY DEF Clear
<1>2. RingOf(<<>>)'
  BY <1>1 DEF RingOf, RingType, LinkedBothWays, Walked, Mapped, EmptyRing, At, NodeType, Places
<1>3. Items' = [i \in 1..Len(<<>>) |-> <<ring'[<<>>[i]].key, ring'[<<>>[i]].value>>]
  BY <1>2, EmptySequence, ItemsOfNextRing DEF ItemsAlongRing
<1>4. Items' = <<>>
  BY <1>3, EmptySequence
<1>. QED  BY <1>2, <1>4

\* The ring and the map implement the ordered set, for any number of keys, values
\* and objects: a walk along the links gives each key once, in the order of
\* insertion, with its last value. The methods are those that change a set in place:
\* setting, adding, popping and clearing; sort_by_key, sort_by_value and the unions are
\* not among them.
THEOREM RingIsOrderedSet == KeyedSpec => ImplementsOrderedSet
<1>1. KeyedInit => RingInv /\ Ordered!Init
  <2>. SUFFICES ASSUME KeyedInit PROVE RingInv /\ Ordered!Init
    OBVIOUS
  <2>1. RingOf(<<>>)
    BY DEF KeyedInit, RingOf, RingType, LinkedBothWays, Walked, Mapped, EmptyRing, At, NodeType, Places
  <2>2. Items = [i \in 1..Len(<<>>) |-> <<ring[<<>>[i]].key, ring[<<>>[i]].value>>]
    BY <2>1, EmptySequence, ItemsOfRing DEF ItemsAlongRing
  <2>3. Items = <<>>
    BY <2>2, EmptySequence
  <2>. QED  BY <2>1, <2>3, EmptySequence DEF RingInv, Ordered!Init
<1>2. RingInv /\ [KeyedNext]_keyedVars => RingInv' /\ [Ordered!Next]_Items
  <2>. SUFFICES ASSUME RingInv, [KeyedNext]_keyedVars PROVE RingInv' /\ [Ordered!Next]_Items
    OBVIOUS
  <2>1. PICK p \in Seq(Nodes) : RingOf(p)
    BY DEF RingInv
  <2>2. CASE Clear
    BY <2>2, ClearStep, EmptySequence DEF RingInv, Ordered!Next, Ordered!Clear
  <2>3. ASSUME NEW k \in Keys, Pop(k)  PROVE  RingInv' /\ Ordered!Pop(k)
    BY <2>1, <2>3, PopStep DEF RingInv, Ordered!Pop, RemoveAt, Ordered!RemoveAt
  <2>4. ASSUME NEW k \in Keys, NEW v \in Values, Add(k, v)  PROVE  RingInv' /\ Ordered!Add(k, v)
    <3>1. CASE k \in DOMAIN nodes
      BY <2>1, <2>4, <3>1, ReplacedStep DEF RingInv, Add, Ordered!Add, Ordered!KeysOf
    <3>2. CASE k \notin DOMAIN nodes
      BY <2>1, <2>4, <3>2, NewStep DEF RingInv, Add, Ordered!Add, Ordered!KeysOf
    <3>. QED  BY <3>1, <3>2
  <2>5. CASE UNCHANGED keyedVars
    <3>1. ring' = ring /\ nodes' = nodes
      BY <2>5 DEF keyedVars
    <3>2. RingOf(p)'
      BY <2>1, <3>1 DEF RingOf, RingType, LinkedBothWays, Walked, Mapped
    <3>3. /\ Items = [i \in 1..Len(p) |-> <<ring[p[i]].key, ring[p[i]].value>>]
          /\ Items' = [i \in 1..Len(p) |-> <<ring'[p[i]].key, ring'[p[i]].value>>]
      BY <2>1, <3>2, ItemsOfRing, ItemsOfNextRing DEF ItemsAlongRing
    <3>. QED  BY <3>1, <3>2, <3>3 DEF RingInv
  <2>. QED  BY <2>2, <2>3, <2>4, <2>5 DEF KeyedNext, Ordered!Next
<1>. QED  BY <1>1, <1>2, PTL DEF KeyedSpec, ImplementsOrderedSet, Ordered!Spec

(***************************************************************************)
(* The order of enums.  Enum.__lt__ is a strict order by value, rank of    *)
(* the vendor, and name, total because no enum is declared twice; so the   *)
(* place that halving finds, between two neighbours, is right for the      *)
(* whole list.                                                             *)
(***************************************************************************)
OrderRank(x) == LET v == VendorNamespace(x)
                IN  IF v = "None" THEN 1 ELSE IF v \in Ratified THEN 2 ELSE IF v = "EXT" THEN 3 ELSE 4
Before(x, y) == \/ x.value < y.value
                \/ x.value = y.value /\ OrderRank(x) < OrderRank(y)
                \/ x.value = y.value /\ OrderRank(x) = OrderRank(y) /\ x.name < y.name

\* The case analysis of Enum.__lt__ is the order by value, rank and name.
LEMMA LessIsBefore ==
    ASSUME NEW x \in Provided, NEW y \in Provided
    PROVE  EnumLess(x, y) <=> Before(x, y)
<1>. DEFINE v == VendorNamespace(x)
            w == VendorNamespace(y)
<1>1. x.value \in Int /\ y.value \in Int /\ x.name \in Int /\ y.name \in Int
  BY DeclaredOnce
<1>2. CASE x.value # y.value
  BY <1>1, <1>2 DEF EnumLess, Before
<1>3. CASE x.value = y.value
  <2>1. /\ OrderRank(x) = IF v = "None" THEN 1 ELSE IF v \in Ratified THEN 2 ELSE IF v = "EXT" THEN 3 ELSE 4
        /\ OrderRank(y) = IF w = "None" THEN 1 ELSE IF w \in Ratified THEN 2 ELSE IF w = "EXT" THEN 3 ELSE 4
    BY DEF OrderRank
  <2>2. /\ v = "None" /\ w # "None" => EnumLess(x, y)
        /\ v # "None" /\ w = "None" => ~EnumLess(x, y)
        /\ v # "None" /\ w # "None" /\ v \in Ratified /\ w \notin Ratified => EnumLess(x, y)
        /\ v # "None" /\ w # "None" /\ v \notin Ratified /\ w \in Ratified => ~EnumLess(x, y)
        /\ v # "None" /\ w # "None" /\ v \notin Ratified /\ w \notin Ratified /\ v = "EXT" /\ w # "EXT" => EnumLess(x, y)
        /\ v # "None" /\ w # "None" /\ v \notin Ratified /\ w \notin Ratified /\ v # "EXT" /\ w = "EXT" => ~EnumLess(x, y)
    BY <1>3 DEF EnumLess
  <2>3. /\ v = "None" /\ w = "None" => (EnumLess(x, y) <=> x.name < y.name)
        /\ v # "None" /\ w # "None" /\ v \notin Ratified /\ w \notin Ratified /\ v # "EXT" /\ w # "EXT" => (EnumLess(x, y) <=> x.name < y.name)
        /\ v = "EXT" /\ w = "EXT" => (EnumLess(x, y) <=> x.name < y.name)
    BY <1>3 DEF EnumLess
  <2>4. v \in Ratified /\ w \in Ratified => (EnumLess(x, y) <=> x.name < y.name)
    BY <1>3 DEF EnumLess, Ratified
  <2>5. Before(x, y) <=> OrderRank(x) < OrderRank(y) \/ (OrderRank(x) = OrderRank(y) /\ x.name < y.name)
    BY <1>1, <1>3 DEF Before
  <2>6. "None" \notin Ratified /\ "EXT" \notin Ratified /\ "None" # "EXT"
    BY DEF Ratified
  <2>. HIDE DEF v, w
  <2>7. CASE v = "None" \/ w = "None"
    BY <2>1, <2>2, <2>3, <2>5, <2>7
  <2>8. CASE v # "None" /\ w # "None" /\ (v \in Ratified \/ w \in Ratified)
    BY <2>1, <2>2, <2>4, <2>5, <2>8
  <2>9. CASE v # "None" /\ w # "None" /\ v \notin Ratified /\ w \notin Ratified
    BY <2>1, <2>2, <2>3, <2>5, <2>9
  <2>. QED  BY <2>7, <2>8, <2>9
<1>. QED  BY <1>2, <1>3

LEMMA RankInt == \A x : OrderRank(x) \in Int
BY DEF OrderRank

\* It is a strict order, total on enums that are declared once.
LEMMA BeforeIsOrder ==
    /\ \A x, y \in Provided : x # y => Before(x, y) \/ Before(y, x)
    /\ \A x, y \in Provided : ~(Before(x, y) /\ Before(y, x))
    /\ \A x, y, z \in Provided : Before(x, y) /\ Before(y, z) => Before(x, z)
<1>. USE RankInt, DeclaredOnce DEF Before
<1>1. \A x, y \in Provided : x # y => Before(x, y) \/ Before(y, x)
  OBVIOUS
<1>2. \A x, y \in Provided : ~(Before(x, y) /\ Before(y, x))
  OBVIOUS
<1>3. \A x, y, z \in Provided : Before(x, y) /\ Before(y, z) => Before(x, z)
  OBVIOUS
<1>. QED  BY <1>1, <1>2, <1>3

\* Feature.__lt__ and Extension.__lt__, one case at a time.
LEMMA ProvidersCompared ==
    ASSUME NEW a, NEW b, a.kind = b.kind, a.kind \in {"feature", "extension"},
           a.gles \in BOOLEAN, b.gles \in BOOLEAN
    PROVE  LET p == a.vendor \in Ratified
               q == b.vendor \in Ratified
               s == a.vendor = "EXT"
               t == b.vendor = "EXT"
           IN  /\ a.kind = "feature" /\ a.gles # b.gles => (ProviderLess(a, b) <=> b.gles)
               /\ a.kind = "feature" /\ a.gles = b.gles => (ProviderLess(a, b) <=> a.name < b.name)
               /\ a.kind = "extension" /\ p /\ ~q => ProviderLess(a, b)
               /\ a.kind = "extension" /\ q /\ ~p => ~ProviderLess(a, b)
               /\ a.kind = "extension" /\ (p <=> q) /\ s /\ ~t => ProviderLess(a, b)
               /\ a.kind = "extension" /\ (p <=> q) /\ t /\ ~s => ~ProviderLess(a, b)
               /\ a.kind = "extension" /\ (p <=> q) /\ (s <=> t) => (ProviderLess(a, b) <=> a.name < b.name)
BY DEF ProviderLess

LEMMA ProvidersOrdered ==
    ASSUME NEW d \in Requires, NEW e \in Requires, d[1] # e[1]
    PROVE  ProviderLess(d[1], e[1]) <=> ~ProviderLess(e[1], d[1])
<1>1. /\ d[1].kind \in {"feature", "extension"} /\ e[1].kind \in {"feature", "extension"}
      /\ d[1].gles \in BOOLEAN /\ e[1].gles \in BOOLEAN /\ d[1].name \in Int /\ e[1].name \in Int
      /\ d[1].kind = e[1].kind => d[1].name # e[1].name
  BY DeclaredOnce
<1>2. CASE d[1].kind # e[1].kind
  <2>1. ProviderLess(d[1], e[1]) <=> d[1].kind = "feature"
    BY <1>2 DEF ProviderLess
  <2>2. ProviderLess(e[1], d[1]) <=> e[1].kind = "feature"
    BY <1>2 DEF ProviderLess
  <2>. QED  BY <1>1, <1>2, <2>1, <2>2
<1>3. CASE d[1].kind = e[1].kind
  BY <1>1, <1>3, ProvidersCompared
<1>. QED  BY <1>2, <1>3

SortedList == \A i, j \in DOMAIN sorted : i < j => Before(sorted[i], sorted[j])
OrderInv ==
    /\ sorted \in Seq(Provided)
    /\ SortedList
    /\ elementsLeft # {} => sorted = <<>>
    /\ elementsLeft \subseteq Requires
    /\ \A r \in required : \E e \in Requires : r.provider = e[1]

LEMMA LinkInv == ASSUME OrderInv, NEW r \in elementsLeft, Link(r) PROVE OrderInv'
<1>1. sorted = <<>> /\ sorted' = <<>>
  BY DEF Link, WithRequirement, OrderInv
<1>2. SortedList'
  BY <1>1 DEF SortedList
<1>3. \A q \in required' : \E e \in Requires : q.provider = e[1]
  BY DEF Link, WithRequirement, OrderInv
<1>. QED  BY <1>1, <1>2, <1>3 DEF Link, WithRequirement, OrderInv

LEMMA Inserted ==
    ASSUME NEW s \in Seq(Provided), NEW x \in Provided, NEW k \in 1..(Len(s) + 1)
    PROVE  LET t == InsertAt(s, k, x)
           IN  /\ t \in Seq(Provided) /\ Len(t) = Len(s) + 1
               /\ \A i \in 1..(k - 1) : t[i] = s[i]
               /\ t[k] = x
               /\ \A i \in (k + 1)..(Len(s) + 1) : t[i] = s[i - 1]
<1>. DEFINE a == SubSeq(s, 1, k - 1)
            b == SubSeq(s, k, Len(s))
<1>1. a \in Seq(Provided) /\ Len(a) = k - 1 /\ \A i \in 1..(k - 1) : a[i] = s[i]
  OBVIOUS
<1>2. b \in Seq(Provided) /\ Len(b) = Len(s) - k + 1 /\ \A i \in 1..(Len(s) - k + 1) : b[i] = s[k + i - 1]
  OBVIOUS
<1>3. InsertAt(s, k, x) = (a \o <<x>>) \o b
  BY DEF InsertAt
<1>. HIDE DEF a, b
<1>. DEFINE c == a \o <<x>>
<1>4. c \in Seq(Provided) /\ Len(c) = k /\ c[k] = x /\ \A i \in 1..(k - 1) : c[i] = s[i]
  BY <1>1
<1>. HIDE DEF c
<1>5. /\ c \o b \in Seq(Provided) /\ Len(c \o b) = Len(s) + 1
      /\ \A i \in 1..k : (c \o b)[i] = c[i]
      /\ \A i \in (k + 1)..(Len(s) + 1) : (c \o b)[i] = b[i - k]
  <2>1. k \in Nat /\ Len(s) \in Nat /\ k <= Len(s) + 1
    OBVIOUS
  <2>2. /\ c \o b \in Seq(Provided) /\ Len(c \o b) = Len(c) + Len(b)
        /\ \A i \in 1..(Len(c) + Len(b)) : (c \o b)[i] = IF i <= Len(c) THEN c[i] ELSE b[i - Len(c)]
    BY <1>2, <1>4
  <2>3. Len(c) + Len(b) = Len(s) + 1
    BY <1>2, <1>4, <2>1
  <2>4. ASSUME NEW i \in 1..k PROVE (c \o b)[i] = c[i]
    BY <1>4, <2>1, <2>2, <2>3
  <2>5. ASSUME NEW i \in (k + 1)..(Len(s) + 1) PROVE (c \o b)[i] = b[i - k]
    BY <1>4, <2>1, <2>2, <2>3
  <2>. QED  BY <2>2, <2>3, <2>4, <2>5
<1>6. ASSUME NEW i \in (k + 1)..(Len(s) + 1) PROVE b[i - k] = s[i - 1]
  <2>1. k \in Nat /\ Len(s) \in Nat /\ i \in Nat /\ i - k \in 1..(Len(s) - k + 1) /\ k + (i - k) - 1 = i - 1
    OBVIOUS
  <2>2. PICK j \in 1..(Len(s) - k + 1) : j = i - k
    BY <2>1
  <2>3. b[j] = s[k + j - 1]
    BY <1>2
  <2>4. k + j - 1 = i - 1
    BY <2>1, <2>2
  <2>. QED  BY <2>2, <2>3, <2>4
<1>7. InsertAt(s, k, x) = c \o b
  BY <1>3 DEF c
<1>8. PICK t : t = c \o b
  OBVIOUS
<1>9. t[k] = x /\ \A i \in 1..(k - 1) : t[i] = s[i]
  <2>1. k \in Nat /\ k \in 1..k /\ \A i \in 1..(k - 1) : i \in 1..k
    OBVIOUS
  <2>. QED  BY <1>4, <1>5, <1>8, <2>1
<1>10. \A i \in (k + 1)..(Len(s) + 1) : t[i] = s[i - 1]
  BY <1>5, <1>6, <1>8
<1>. QED  BY <1>5, <1>7, <1>8, <1>9, <1>10

LEMMA InsertInv == ASSUME OrderInv, NEW x \in Provided, Insert(x) PROVE OrderInv'
<1>1. PICK k \in 1..(Len(sorted) + 1) : Between(x, k) /\ sorted' = InsertAt(sorted, k, x)
  BY DEF Insert
<1>2. elementsLeft' = elementsLeft /\ required' = required /\ elementsLeft = {} /\ x \notin ToSet(sorted)
  BY DEF Insert
<1>3. sorted \in Seq(Provided) /\ \A i \in 1..Len(sorted) : sorted[i] \in Provided /\ sorted[i] # x
  BY <1>2 DEF OrderInv, ToSet
<1>4. \A y, z : Before(y, z)' <=> Before(y, z)
  BY <1>2 DEF Before, OrderRank, VendorNamespace
<1>5. /\ \A i \in DOMAIN sorted : i = k - 1 => Before(sorted[i], x)
      /\ \A i \in DOMAIN sorted : i = k => Before(x, sorted[i])
  BY <1>1, <1>3, LessIsBefore, BeforeIsOrder DEF Between
<1>6. \A i \in 1..Len(sorted) : i < k => Before(sorted[i], x)
  BY <1>3, <1>5, BeforeIsOrder DEF OrderInv, SortedList
<1>7. \A i \in 1..Len(sorted) : i >= k => Before(x, sorted[i])
  BY <1>3, <1>5, BeforeIsOrder DEF OrderInv, SortedList
<1>. DEFINE t == InsertAt(sorted, k, x)
<1>8. /\ t \in Seq(Provided) /\ Len(t) = Len(sorted) + 1
      /\ \A i \in 1..(k - 1) : t[i] = sorted[i]
      /\ t[k] = x
      /\ \A i \in (k + 1)..(Len(sorted) + 1) : t[i] = sorted[i - 1]
  BY <1>3, Inserted
<1>. HIDE DEF t
<1>9. ASSUME NEW i \in 1..(Len(sorted) + 1), NEW j \in 1..(Len(sorted) + 1), i < j
      PROVE  Before(t[i], t[j])
  <2>1. CASE j < k
    <3>1. t[i] = sorted[i] /\ t[j] = sorted[j] /\ i \in DOMAIN sorted /\ j \in DOMAIN sorted
      BY <1>3, <1>8, <1>9, <2>1
    <3>. QED  BY <1>9, <3>1 DEF OrderInv, SortedList
  <2>2. CASE j = k
    BY <1>3, <1>6, <1>8, <1>9, <2>2
  <2>3. CASE i = k
    BY <1>3, <1>7, <1>8, <1>9, <2>3
  <2>4. CASE i < k /\ j > k
    <3>0. i \in 1..(k - 1) /\ j \in (k + 1)..(Len(sorted) + 1)
      BY <1>3, <1>9, <2>4
    <3>1. t[i] = sorted[i] /\ t[j] = sorted[j - 1] /\ i \in 1..Len(sorted) /\ j - 1 \in 1..Len(sorted) /\ j - 1 >= k
      BY <1>3, <1>8, <3>0
    <3>2. Before(sorted[i], x) /\ Before(x, sorted[j - 1])
      BY <1>6, <1>7, <2>4, <3>1
    <3>. QED  BY <1>3, <3>1, <3>2, BeforeIsOrder
  <2>5. CASE i > k
    <3>1. t[i] = sorted[i - 1] /\ t[j] = sorted[j - 1] /\ i - 1 \in DOMAIN sorted /\ j - 1 \in DOMAIN sorted /\ i - 1 < j - 1
      BY <1>3, <1>8, <1>9, <2>5
    <3>. QED  BY <3>1 DEF OrderInv, SortedList
  <2>. QED  BY <1>9, <2>1, <2>2, <2>3, <2>4, <2>5
<1>10. SortedList'
  BY <1>1, <1>4, <1>8, <1>9 DEF SortedList, t
<1>. QED  BY <1>1, <1>2, <1>8, <1>10 DEF OrderInv, t

\* The sort order of the documentation of Enum.__lt__: whatever the order of the
\* elements, of the enums, and of the comparisons, the list is in the order by
\* value, vendor and name, and of two providers exactly one comes first.
THEOREM EnumsAreSorted == OrderSpec => []EnumsSorted
<1>1. OrderInit => OrderInv
  BY DEF OrderInit, OrderInv, SortedList
<1>2. OrderInv /\ [OrderNext]_orderVars => OrderInv'
  <2>. SUFFICES ASSUME OrderInv, [OrderNext]_orderVars PROVE OrderInv'
    OBVIOUS
  <2>1. CASE UNCHANGED orderVars
    <3>1. sorted' = sorted /\ required' = required /\ elementsLeft' = elementsLeft
      BY <2>1 DEF orderVars
    <3>2. \A y, z : Before(y, z)' <=> Before(y, z)
      BY <3>1 DEF Before, OrderRank, VendorNamespace
    <3>3. SortedList'
      BY <3>1, <3>2 DEF OrderInv, SortedList
    <3>. QED  BY <3>1, <3>3 DEF OrderInv
  <2>. QED  BY <2>1, LinkInv, InsertInv DEF OrderNext
<1>3. OrderInv => EnumsSorted
  <2>. SUFFICES ASSUME OrderInv PROVE EnumsSorted
    OBVIOUS
  <2>1. \A r, q \in required : r.provider # q.provider =>
              (ProviderLess(r.provider, q.provider) <=> ~ProviderLess(q.provider, r.provider))
    BY ProvidersOrdered DEF OrderInv
  <2>2. \A i, j \in DOMAIN sorted : i < j => Before(sorted[i], sorted[j])
    BY DEF OrderInv, SortedList
  <2>. QED  BY <2>1, <2>2 DEF EnumsSorted, Before, OrderRank
<1>. QED  BY <1>1, <1>2, <1>3, PTL DEF OrderSpec

(***************************************************************************)
(* The parser.  The invariant: the repaired document names no enum in two  *)
(* groups, so that no group takes an enum from another; and the elements   *)
(* parsed so far have left what RegistryIsLinked says of them.             *)
(***************************************************************************)
LEMMA NoLeast ==
    ASSUME NEW T \in SUBSET Nat, \A n \in T : \E k \in T : k < n
    PROVE  T = {}
<1>. SUFFICES ASSUME T # {} PROVE FALSE
  OBVIOUS
<1>1. PICK n \in T : \A k \in T : ~ (<<k, n>> \in OpToRel(<, Nat))
  BY NatLessThanWellFounded, WFMin
<1>2. PICK k \in T : k < n
  OBVIOUS
<1>3. <<k, n>> \in OpToRel(<, Nat)
  <2>1. k \in Nat /\ n \in Nat
    OBVIOUS
  <2>. QED  BY <1>2, <2>1, Zenon DEF OpToRel
<1>. QED  BY <1>1, <1>3

LEMMA LeastOf ==
    ASSUME NEW n \in Nat, NEW I \in SUBSET (1..n), I # {}
    PROVE  Min(I) \in I
<1>1. I \in SUBSET Nat
  OBVIOUS
<1>2. ~ \A m \in I : \E k \in I : k < m
  BY <1>1, NoLeast
<1>3. \E x \in I : \A y \in I : x =< y
  BY <1>1, <1>2
<1>. QED  BY <1>3 DEF Min

LEMMA MaskSelected ==
    ASSUME NEW S, NEW s \in Seq(S), MaskIn(s) # 0
    PROVE  MaskIn(s) \in 1..Len(s) /\ IsAllAttribBits(s[MaskIn(s)])
<1>. DEFINE I == {i \in 1..Len(s) : IsAllAttribBits(s[i])}
<1>1. MaskIn(s) = IF I # {} THEN Min(I) ELSE 0
  BY DEF SelectInSeq, MaskIn
<1>2. I # {} => Min(I) \in I
  <2>1. I \in SUBSET (1..Len(s)) /\ Len(s) \in Nat
    OBVIOUS
  <2>. HIDE DEF I
  <2>. QED  BY <2>1, LeastOf
<1>. QED  BY <1>1, <1>2

LEMMA BadSelected ==
    ASSUME NEW S, NEW s \in Seq(S), BadIn(s) # 0
    PROVE  BadIn(s) \in 1..Len(s) /\ IsBadActiveProgram(s[BadIn(s)])
<1>. DEFINE I == {i \in 1..Len(s) : IsBadActiveProgram(s[i])}
<1>1. BadIn(s) = IF I # {} THEN Min(I) ELSE 0
  BY DEF SelectInSeq, BadIn
<1>2. I # {} => Min(I) \in I
  <2>1. I \in SUBSET (1..Len(s)) /\ Len(s) \in Nat
    OBVIOUS
  <2>. HIDE DEF I
  <2>. QED  BY <2>1, LeastOf
<1>. QED  BY <1>1, <1>2

LEMMA FirstIn == ASSUME NEW n \in Nat, NEW I \in SUBSET (1..n), I # {} PROVE First(I) \in I
BY LeastOf DEF First, Min

Shaped(d) ==
    /\ d.commands \in Seq(Commands) /\ \A i, j \in DOMAIN d.commands : d.commands[i] = d.commands[j] => i = j
    /\ IsSequence(d.enums) /\ IsSequence(d.features) /\ IsSequence(d.extensions)
    /\ \A i \in DOMAIN d.enums : IsSequence(d.enums[i].enums)
    /\ \A p \in ToSet(d.features) \cup ToSet(d.extensions) : IsSequence(p.requires) /\ p.provider.supported # {}
NamedInOneGroup(d) ==
    \A i, j \in DOMAIN d.enums : i # j =>
        \A x \in ToSet(d.enums[i].enums), y \in ToSet(d.enums[j].enums) : x.name = y.name => x = y

LEMMA DeclaredInDocument ==
    ASSUME NEW d \in Documents, NEW i \in DOMAIN d.enums, NEW j \in DOMAIN d.enums,
           NEW a \in DOMAIN d.enums[i].enums, NEW b \in DOMAIN d.enums[j].enums
    PROVE  LET x == d.enums[i].enums[a]
               y == d.enums[j].enums[b]
           IN  /\ i # j /\ x.name = y.name => IsBadActiveProgram(x) \/ IsBadActiveProgram(y)
               /\ IsBadActiveProgram(x) /\ IsBadActiveProgram(y) => i = j /\ a = b
BY DocumentsAssumption

\* What is in a group after the repairs was in it before them.
LEMMA Originals ==
    ASSUME document \in Documents, Repairable, NEW i \in DOMAIN document.enums
    PROVE  /\ IsSequence(Repaired[i].enums)
           /\ \A x \in ToSet(Repaired[i].enums) : \E a \in DOMAIN document.enums[i].enums :
                 LET o == document.enums[i].enums[a]
                 IN  /\ x.name = o.name /\ (x = o \/ o.name = AllAttribBits)
                     /\ ~IsBadActiveProgram(o)
<1>. DEFINE d == document
            m == First(MaskGroups)
            r == First(RangeGroups)
            g == d.enums[i]
            s == g.enums
            Original(x) == \E a \in DOMAIN s : /\ x.name = s[a].name /\ (x = s[a] \/ s[a].name = AllAttribBits)
                                               /\ ~IsBadActiveProgram(s[a])
<1>1. \E n \in Nat : DOMAIN d.enums = 1..n
  BY DocumentsAssumption DEF IsSequence
<1>2. m \in MaskGroups /\ r \in RangeGroups
  BY <1>1, FirstIn DEF Repairable, MaskGroups, RangeGroups
<1>3. m \in DOMAIN d.enums /\ r \in DOMAIN d.enums /\ r # m
  BY <1>2 DEF MaskGroups, RangeGroups
<1>4. \A j \in DOMAIN d.enums : d.enums[j] \in ToSet(d.enums)
  BY DEF ToSet
<1>5. \A j \in DOMAIN d.enums : "enums" \in DOMAIN d.enums[j] /\ d.enums[j].enums \in Seq(ToSet(d.enums[j].enums))
  BY <1>4, DocumentsAssumption DEF IsSequence
<1>6. \A a \in DOMAIN s : {"name", "value"} \subseteq DOMAIN s[a]
  BY DocumentsAssumption
<1>. DEFINE t == d.enums[r].enums
            k == BadIn(t)
<1>7. k \in DOMAIN t /\ IsBadActiveProgram(t[k])
  BY <1>3, <1>5, BadSelected DEF Repairable
<1>8. \A a \in DOMAIN s : IsBadActiveProgram(s[a]) => i = r /\ a = k
  BY <1>3, <1>7, DeclaredInDocument
<1>9. CASE i = m
  <2>. DEFINE l == MaskIn(s)
              e == [s[l] EXCEPT !.value = AllAttribValue]
              u == [s EXCEPT ![l] = e]
  <2>1. l \in DOMAIN s /\ s[l].name = AllAttribBits
    BY <1>3, <1>5, <1>9, MaskSelected DEF Repairable, IsAllAttribBits
  <2>2. Repaired[i] = [g EXCEPT !.enums = u]
    BY <1>3, <1>9 DEF Repaired, WithMask
  <2>3. Repaired[i].enums = u
    BY <1>5, <2>2
  <2>4. e.name = AllAttribBits
    BY <1>6, <2>1
  <2>5. DOMAIN u = DOMAIN s /\ \A a \in DOMAIN s : u[a] = IF a = l THEN e ELSE s[a]
    OBVIOUS
  <2>. HIDE DEF u
  <2>6. \A a \in DOMAIN s : Original(u[a])
    BY <1>3, <1>8, <1>9, <2>1, <2>4, <2>5
  <2>7. IsSequence(u)
    <3>1. u = [a \in 1..Len(s) |-> u[a]] /\ Len(s) \in Nat
      BY <1>5, <2>5 DEF u
    <3>. QED  BY <2>5, <3>1 DEF IsSequence, ToSet
  <2>. QED  BY <2>3, <2>5, <2>6, <2>7 DEF ToSet
<1>10. CASE i = r
  <2>1. Repaired[i] = [g EXCEPT !.enums = RemoveAt(s, k)]
    BY <1>3, <1>10 DEF Repaired, WithoutBad
  <2>2. Repaired[i].enums = RemoveAt(s, k)
    BY <1>5, <2>1
  <2>. DEFINE u == RemoveAt(s, k)
  <2>3. k \in 1..Len(s) /\ s \in Seq(ToSet(s)) /\ DOMAIN s = 1..Len(s) /\ Len(s) \in Nat
    BY <1>5, <1>7, <1>10
  <2>4. /\ u \in Seq(ToSet(s)) /\ Len(u) = Len(s) - 1
        /\ \A a \in 1..(k - 1) : u[a] = s[a]
        /\ \A a \in k..(Len(s) - 1) : u[a] = s[a + 1]
    BY <2>3, Removed
  <2>. HIDE DEF u
  <2>5. \A a \in DOMAIN u : \E b \in DOMAIN s : b # k /\ u[a] = s[b]
    <3>. SUFFICES ASSUME NEW a \in DOMAIN u PROVE \E b \in DOMAIN s : b # k /\ u[a] = s[b]
      OBVIOUS
    <3>1. a \in 1..(Len(s) - 1)
      BY <2>3, <2>4
    <3>2. CASE a < k
      <4>1. a \in 1..(k - 1) /\ a \in 1..Len(s) /\ a # k
        BY <2>3, <3>1, <3>2
      <4>. QED  BY <2>3, <2>4, <4>1
    <3>3. CASE a >= k
      <4>1. a \in k..(Len(s) - 1) /\ a + 1 \in 1..Len(s) /\ a + 1 # k
        BY <2>3, <3>1, <3>3
      <4>. QED  BY <2>3, <2>4, <4>1
    <3>. QED  BY <2>3, <3>1, <3>2, <3>3
  <2>6. \A a \in DOMAIN u : Original(u[a])
    BY <1>8, <2>5
  <2>7. IsSequence(u)
    BY <2>4 DEF IsSequence, ToSet
  <2>. QED  BY <2>2, <2>6, <2>7 DEF ToSet, u
<1>11. CASE i # m /\ i # r
  <2>1. Repaired[i].enums = s
    BY <1>11 DEF Repaired
  <2>. QED  BY <1>5, <1>8, <1>11, <2>1 DEF IsSequence, ToSet
<1>. QED  BY <1>9, <1>10, <1>11

LEMMA RepairMakesOne ==
    ASSUME document \in Documents, Repair, outcome' = "repaired"
    PROVE  Shaped(document') /\ NamedInOneGroup(document')
<1>1. Repairable /\ document' = [document EXCEPT !.enums = Repaired]
  BY DEF Repair, Raise
<1>2. /\ document'.enums = Repaired /\ document'.commands = document.commands
      /\ document'.features = document.features /\ document'.extensions = document.extensions
  BY <1>1, DocumentsAssumption
<1>3. DOMAIN Repaired = DOMAIN document.enums
  BY DEF Repaired
<1>4. Shaped(document')
  <2>1. \A i \in DOMAIN document'.enums : IsSequence(document'.enums[i].enums)
    BY <1>1, <1>2, <1>3, Originals
  <2>2. IsSequence(Repaired)
    <3>1. Repaired = [i \in 1..Len(document.enums) |-> Repaired[i]] /\ Len(document.enums) \in Nat
      BY DocumentsAssumption DEF Repaired, IsSequence
    <3>. QED  BY <3>1 DEF IsSequence, ToSet
  <2>. QED  BY <1>2, <2>1, <2>2, DocumentsAssumption DEF Shaped
<1>5. NamedInOneGroup(document')
  <2>. SUFFICES ASSUME NEW i \in DOMAIN document.enums, NEW j \in DOMAIN document.enums, i # j,
                       NEW x \in ToSet(Repaired[i].enums), NEW y \in ToSet(Repaired[j].enums), x.name = y.name
                PROVE  x = y
    BY <1>2, <1>3 DEF NamedInOneGroup
  <2>1. PICK a \in DOMAIN document.enums[i].enums : LET o == document.enums[i].enums[a]
                 IN  x.name = o.name /\ (x = o \/ o.name = AllAttribBits) /\ ~IsBadActiveProgram(o)
    BY <1>1, Originals
  <2>2. PICK b \in DOMAIN document.enums[j].enums : LET o == document.enums[j].enums[b]
                 IN  y.name = o.name /\ (y = o \/ o.name = AllAttribBits) /\ ~IsBadActiveProgram(o)
    BY <1>1, Originals
  <2>. DEFINE o == document.enums[i].enums[a]
              q == document.enums[j].enums[b]
  <2>3. o.name = q.name => \/ o = q /\ o.name \notin {AllAttribBits, ActiveProgram}
                           \/ IsBadActiveProgram(o) \/ IsBadActiveProgram(q)
    BY DeclaredInDocument
  <2>4. x.name = o.name /\ (x = o \/ o.name = AllAttribBits) /\ ~IsBadActiveProgram(o)
    BY <2>1
  <2>5. y.name = q.name /\ (y = q \/ q.name = AllAttribBits) /\ ~IsBadActiveProgram(q)
    BY <2>2
  <2>. HIDE DEF o, q
  <2>. QED  BY <2>3, <2>4, <2>5
<1>. QED  BY <1>4, <1>5

NoTwoLinks(set) == \A r, q \in set : r.provider = q.provider /\ r.provided = q.provided => r = q
ApisFit(set) == \A r \in set : r.apis # {} /\ r.apis \subseteq r.provider.supported
LinkIn(set, p, x) == \E q \in set : q.provider = p /\ q.provided = x

LEMMA OneLinked ==
    ASSUME NEW set, NEW p, NEW api, NEW x, p.supported # {}, api = "all" \/ api \in p.supported,
           NoTwoLinks(set), ApisFit(set)
    PROVE  LET new == WithRequirement(set, <<p, api, x>>)
           IN  set \subseteq new /\ NoTwoLinks(new) /\ ApisFit(new) /\ LinkIn(new, p, x)
<1>. DEFINE q == [provider |-> p, provided |-> x, apis |-> IF api = "all" THEN p.supported ELSE {api}]
            new == WithRequirement(set, <<p, api, x>>)
<1>1. new = IF \E r \in set : r.provider = p /\ r.provided = x THEN set ELSE set \cup {q}
  BY DEF WithRequirement
<1>2. q.provider = p /\ q.provided = x /\ q.apis # {} /\ q.apis \subseteq p.supported
  OBVIOUS
<1>. HIDE DEF q, new
<1>. QED  BY <1>1, <1>2 DEF NoTwoLinks, ApisFit, LinkIn, new

\* The requirements after each of the first n elements.
LinkedUpTo(p, requires, n, f) ==
    f = [k \in 0..n |-> IF k = 0 THEN required
                        ELSE WithRequirement(f[k - 1], <<p, ApiFor(p, requires[k]), Lookup(requires[k])>>)]

LEMMA LinkingExists ==
    ASSUME NEW p, NEW requires, Len(requires) \in Nat
    PROVE  \E f : LinkedUpTo(p, requires, Len(requires), f)
<1>. DEFINE T == {n \in Nat : ~ \E f : LinkedUpTo(p, requires, n, f)}
<1>1. ASSUME NEW n \in T PROVE \E k \in T : k < n
  <2>1. CASE n = 0
    <3>. DEFINE f == [k \in 0..0 |-> required]
    <3>1. LinkedUpTo(p, requires, 0, f)
      BY DEF LinkedUpTo
    <3>. QED  BY <2>1, <3>1
  <2>2. CASE n # 0
    <3>. SUFFICES ASSUME n - 1 \notin T PROVE FALSE
      <4>1. n - 1 \in T => n - 1 < n
        OBVIOUS
      <4>. QED  BY <4>1
    <3>1. n \in Nat /\ n - 1 \in Nat
      BY <2>2
    <3>2. PICK g : LinkedUpTo(p, requires, n - 1, g)
      BY <3>1
    <3>. DEFINE f == [k \in 0..n |-> IF k = n THEN WithRequirement(g[n - 1], <<p, ApiFor(p, requires[n]), Lookup(requires[n])>>)
                                     ELSE g[k]]
    <3>3. LinkedUpTo(p, requires, n, f)
      <4>1. f = [k \in 0..n |-> f[k]]
        OBVIOUS
      <4>2. ASSUME NEW k \in 0..n
            PROVE  f[k] = IF k = 0 THEN required ELSE WithRequirement(f[k - 1], <<p, ApiFor(p, requires[k]), Lookup(requires[k])>>)
        <5>1. CASE k = n
          <6>1. k # 0 /\ f[k - 1] = g[k - 1]
            BY <2>2, <3>1, <5>1
          <6>. QED  BY <5>1, <6>1
        <5>2. CASE k # n
          <6>1. k \in 0..(n - 1) /\ f[k] = g[k] /\ (k # 0 => f[k - 1] = g[k - 1])
            BY <3>1, <5>2
          <6>. QED  BY <3>2, <6>1 DEF LinkedUpTo
        <5>. QED  BY <5>1, <5>2
      <4>. HIDE DEF f
      <4>. QED  BY <4>1, <4>2 DEF LinkedUpTo
    <3>. HIDE DEF f
    <3>. QED  BY <3>3
  <2>. QED  BY <2>1, <2>2
<1>2. T = {}
  <2>1. T \in SUBSET Nat
    OBVIOUS
  <2>. HIDE DEF T
  <2>. QED  BY <1>1, <2>1, NoLeast
<1>. QED  BY <1>2

LEMMA AllLinked ==
    ASSUME NEW p, NEW requires, IsSequence(requires), Accepted(p, requires), p.supported # {},
           NoTwoLinks(required), ApisFit(required)
    PROVE  LET new == LinkAll(p, requires)
           IN  /\ required \subseteq new /\ NoTwoLinks(new) /\ ApisFit(new)
               /\ \A k \in DOMAIN requires : LinkIn(new, p, Lookup(requires[k]))
<1>. DEFINE n == Len(requires)
            f == CHOOSE f : LinkedUpTo(p, requires, n, f)
<1>0. n \in Nat /\ DOMAIN requires = 1..n
  BY DEF IsSequence
<1>1. LinkAll(p, requires) = f[n]
  BY DEF LinkAll, LinkedUpTo
<1>2. LinkedUpTo(p, requires, n, f)
  BY <1>0, LinkingExists
<1>. HIDE DEF f, n
<1>3. f[0] = required /\ \A k \in 1..n : f[k] = WithRequirement(f[k - 1], <<p, ApiFor(p, requires[k]), Lookup(requires[k])>>)
  <2>1. \A k \in 0..n : f[k] = IF k = 0 THEN required ELSE WithRequirement(f[k - 1], <<p, ApiFor(p, requires[k]), Lookup(requires[k])>>)
    BY <1>2 DEF LinkedUpTo
  <2>2. 0 \in 0..n /\ \A k \in 1..n : k \in 0..n /\ k # 0
    BY <1>0
  <2>. QED  BY <2>1, <2>2, Zenon
<1>. DEFINE Good(k) == /\ required \subseteq f[k] /\ NoTwoLinks(f[k]) /\ ApisFit(f[k])
                       /\ \A l \in 1..k : LinkIn(f[k], p, Lookup(requires[l]))
            T == {k \in 0..n : ~Good(k)}
<1>4. ASSUME NEW k \in T PROVE \E l \in T : l < k
  <2>1. k # 0
    BY <1>0, <1>3
  <2>2. k \in 1..n /\ k - 1 \in 0..n /\ k - 1 < k
    BY <1>0, <2>1
  <2>. SUFFICES ASSUME Good(k - 1) PROVE Good(k)
    BY <2>2
  <2>3. ApiFor(p, requires[k]) = "all" \/ ApiFor(p, requires[k]) \in p.supported
    BY <1>0, <2>2 DEF Accepted
  <2>4. f[k - 1] \subseteq f[k] /\ NoTwoLinks(f[k]) /\ ApisFit(f[k]) /\ LinkIn(f[k], p, Lookup(requires[k]))
    <3>. DEFINE new == WithRequirement(f[k - 1], <<p, ApiFor(p, requires[k]), Lookup(requires[k])>>)
    <3>1. f[k - 1] \subseteq new /\ NoTwoLinks(new) /\ ApisFit(new) /\ LinkIn(new, p, Lookup(requires[k]))
      BY <2>3, OneLinked
    <3>2. f[k] = new
      BY <1>3, <2>2
    <3>. QED  BY <3>1, <3>2
  <2>5. \A l \in 1..k : l = k \/ l \in 1..(k - 1)
    BY <1>0, <2>2
  <2>6. \A l \in 1..k : LinkIn(f[k], p, Lookup(requires[l]))
    BY <2>4, <2>5 DEF LinkIn
  <2>. QED  BY <2>4, <2>6
<1>5. T = {}
  <2>1. T \in SUBSET Nat
    BY <1>0
  <2>. HIDE DEF T
  <2>. QED  BY <1>4, <2>1, NoLeast
<1>6. Good(n)
  BY <1>0, <1>5
<1>. QED  BY <1>0, <1>1, <1>6

\* The k-th element of the four loops.
Commanded(d) == Len(d.commands)
Grouped(d) == Len(d.enums)
Featured(d) == Len(d.features)
Extended(d) == Len(d.extensions)
Elements(d) == Len(d.commands \o d.enums \o d.features \o d.extensions)

LEMMA IsOne == ASSUME NEW S, NEW s \in Seq(S) PROVE IsSequence(s)
<1>1. s = [k \in 1..Len(s) |-> s[k]] /\ Len(s) \in Nat /\ \A k \in 1..Len(s) : s[k] \in ToSet(s)
  BY DEF ToSet
<1>. QED  BY <1>1 DEF IsSequence

LEMMA TwoInOrder ==
    ASSUME NEW s, NEW t, IsSequence(s), IsSequence(t)
    PROVE  /\ IsSequence(s \o t) /\ Len(s \o t) = Len(s) + Len(t)
           /\ Len(s) \in Nat /\ DOMAIN s = 1..Len(s)
           /\ \A k \in 1..(Len(s) + Len(t)) : (s \o t)[k] = IF k <= Len(s) THEN s[k] ELSE t[k - Len(s)]
<1>. DEFINE S == ToSet(s) \cup ToSet(t)
<1>1. s \in Seq(S) /\ t \in Seq(S)
  BY DEF IsSequence
<1>. HIDE DEF S
<1>2. /\ s \o t \in Seq(S) /\ Len(s \o t) = Len(s) + Len(t)
      /\ Len(s) \in Nat /\ DOMAIN s = 1..Len(s)
      /\ \A k \in 1..(Len(s) + Len(t)) : (s \o t)[k] = IF k <= Len(s) THEN s[k] ELSE t[k - Len(s)]
  BY <1>1
<1>3. IsSequence(s \o t)
  BY <1>2, IsOne
<1>. QED  BY <1>2, <1>3

Counted(d) ==
    /\ Commanded(d) \in Nat /\ Grouped(d) \in Nat /\ Featured(d) \in Nat /\ Extended(d) \in Nat
    /\ Elements(d) = Commanded(d) + Grouped(d) + Featured(d) + Extended(d)
ElementAt(k) ==
    /\ PartOf(k) = "command" => k <= Commanded(document) /\ InOrder[k] = document.commands[k]
    /\ PartOf(k) = "enums" =>
          /\ k - Commanded(document) \in 1..Grouped(document)
          /\ InOrder[k] = document.enums[k - Commanded(document)]
    /\ PartOf(k) = "feature" =>
          /\ k - Commanded(document) - Grouped(document) \in 1..Featured(document)
          /\ InOrder[k] = document.features[k - Commanded(document) - Grouped(document)]
    /\ PartOf(k) = "extension" =>
          /\ k - Commanded(document) - Grouped(document) - Featured(document) \in 1..Extended(document)
          /\ InOrder[k] = document.extensions[k - Commanded(document) - Grouped(document) - Featured(document)]

LEMMA CountedIn == ASSUME NEW d, Shaped(d) PROVE Counted(d)
<1>1. /\ IsSequence(d.commands) /\ IsSequence(d.enums) /\ IsSequence(d.features) /\ IsSequence(d.extensions)
  BY IsOne DEF Shaped
<1>2. IsSequence(d.commands \o d.enums) /\ IsSequence(d.commands \o d.enums \o d.features)
  BY <1>1, TwoInOrder
<1>. QED  BY <1>1, <1>2, TwoInOrder DEF Counted, Commanded, Grouped, Featured, Extended, Elements

LEMMA ElementsInOrder == Shaped(document) => \A k \in 1..Elements(document) : ElementAt(k)
<1>. SUFFICES ASSUME Shaped(document) PROVE \A k \in 1..Elements(document) : ElementAt(k)
  OBVIOUS
<1>. DEFINE a == document.commands
            b == document.enums
            c == document.features
            d == document.extensions
<1>1. IsSequence(a) /\ IsSequence(b) /\ IsSequence(c) /\ IsSequence(d)
  BY IsOne DEF Shaped
<1>. HIDE DEF a, b, c, d
<1>. DEFINE ab == a \o b
            abc == ab \o c
            all == abc \o d
<1>2. /\ IsSequence(ab) /\ Len(ab) = Len(a) + Len(b) /\ Len(a) \in Nat /\ Len(b) \in Nat /\ Len(c) \in Nat /\ Len(d) \in Nat
      /\ \A k \in 1..(Len(a) + Len(b)) : ab[k] = IF k <= Len(a) THEN a[k] ELSE b[k - Len(a)]
  BY <1>1, TwoInOrder
<1>. HIDE DEF ab
<1>3. /\ IsSequence(abc) /\ Len(abc) = Len(ab) + Len(c)
      /\ \A k \in 1..(Len(ab) + Len(c)) : abc[k] = IF k <= Len(ab) THEN ab[k] ELSE c[k - Len(ab)]
  BY <1>1, <1>2, TwoInOrder
<1>. HIDE DEF abc
<1>4. /\ Len(all) = Len(abc) + Len(d)
      /\ \A k \in 1..(Len(abc) + Len(d)) : all[k] = IF k <= Len(abc) THEN abc[k] ELSE d[k - Len(abc)]
  BY <1>1, <1>3, TwoInOrder
<1>. HIDE DEF all
<1>5. InOrder = all
  BY DEF InOrder, all, abc, ab, a, b, c, d
<1>6. /\ Commanded(document) = Len(a) /\ Grouped(document) = Len(b)
      /\ Featured(document) = Len(c) /\ Extended(document) = Len(d)
  BY DEF Commanded, Grouped, Featured, Extended, a, b, c, d
<1>7. \A k : PartOf(k) = IF k <= Len(a) THEN "command" ELSE IF k <= Len(a) + Len(b) THEN "enums"
                         ELSE IF k <= Len(a) + Len(b) + Len(c) THEN "feature" ELSE "extension"
  BY DEF PartOf, a, b, c
<1>8. ASSUME NEW k \in 1..Len(all)
      PROVE  /\ PartOf(k) = "command" => k <= Len(a) /\ all[k] = a[k]
             /\ PartOf(k) = "enums" => k - Len(a) \in 1..Len(b) /\ all[k] = b[k - Len(a)]
             /\ PartOf(k) = "feature" => k - Len(a) - Len(b) \in 1..Len(c) /\ all[k] = c[k - Len(a) - Len(b)]
             /\ PartOf(k) = "extension" =>
                   k - Len(a) - Len(b) - Len(c) \in 1..Len(d) /\ all[k] = d[k - Len(a) - Len(b) - Len(c)]
  <2>1. CASE k <= Len(a)
    BY <1>2, <1>3, <1>4, <1>7, <2>1
  <2>2. CASE k > Len(a) /\ k <= Len(a) + Len(b)
    BY <1>2, <1>3, <1>4, <1>7, <2>2
  <2>3. CASE k > Len(a) + Len(b) /\ k <= Len(a) + Len(b) + Len(c)
    BY <1>2, <1>3, <1>4, <1>7, <2>3
  <2>4. CASE k > Len(a) + Len(b) + Len(c)
    BY <1>2, <1>3, <1>4, <1>7, <2>4
  <2>. QED  BY <1>2, <1>3, <1>4, <2>1, <2>2, <2>3, <2>4
<1>9. Elements(document) = Len(all)
  BY <1>5 DEF Elements, InOrder
<1>. QED  BY <1>2, <1>5, <1>6, <1>8, <1>9 DEF a, b, c, d, ElementAt

\* What the elements parsed so far have left.
CommandsIn == added = {document.commands[k] : k \in {j \in 1..Commanded(document) : j <= place}}
EnumsIn ==
    /\ IsSequence(groups)
    /\ \A i \in DOMAIN groups : \A e \in groups[i].enums :
          /\ e.name \in DOMAIN enums /\ enums[e.name] = e
          /\ \E k \in 1..Grouped(document) : k <= place - Commanded(document) /\ e \in ToSet(document.enums[k].enums)
Provides(p) == \A i \in DOMAIN p.requires : LinkIn(required, p.provider, Lookup(p.requires[i]))
ProvidersIn ==
    /\ \A k \in 1..Featured(document) : k <= place - Commanded(document) - Grouped(document) => Provides(document.features[k])
    /\ \A k \in 1..Extended(document) : k <= place - Commanded(document) - Grouped(document) - Featured(document) =>
          Provides(document.extensions[k])
VendorsOf(d, n) == {d.extensions[k].provider.vendor : k \in {j \in 1..Extended(d) : j <= n}}
VendorsIn ==
    /\ outcome = "repaired" => vendors = VendorsOf(document, place - Commanded(document) - Grouped(document) - Featured(document))
    /\ outcome = "parsed" => place = Elements(document) /\ vendors = VendorsOf(document, Extended(document)) \ {"None"}
RegistryInv ==
    /\ AliasInv /\ NoTwoLinks(required) /\ ApisFit(required)
    /\ outcome \in {"read", "repaired", "parsed", "raised"}
    /\ outcome = "read" => document \in Documents /\ place = 0 /\ groups = <<>> /\ vendors = {} /\ added = {}
    /\ outcome \in {"repaired", "parsed"} =>
          /\ Shaped(document) /\ NamedInOneGroup(document)
          /\ place \in 0..Elements(document)
          /\ CommandsIn /\ EnumsIn /\ ProvidersIn /\ VendorsIn

LEMMA NoVendors == ASSUME NEW d, NEW n \in Int, n <= 0 PROVE VendorsOf(d, n) = {}
<1>1. \A k \in 1..Extended(d) : ~(k <= n)
  OBVIOUS
<1>. QED  BY <1>1 DEF VendorsOf

LEMMA RegistryInitInv == RegistryInit => RegistryInv
<1>. SUFFICES ASSUME RegistryInit PROVE RegistryInv
  OBVIOUS
<1>1. AliasInv
  BY AliasInitInv DEF RegistryInit, AliasInit
<1>. QED  BY <1>1 DEF RegistryInit, RegistryInv, NoTwoLinks, ApisFit

LEMMA RaiseInv == ASSUME RegistryInv, Raise PROVE RegistryInv'
<1>1. outcome' = "raised" /\ added' = added /\ classes' = classes /\ required' = required
  BY DEF Raise
<1>2. AliasInv'
  BY <1>1 DEF RegistryInv, AliasInv, Known, Owned, MappingComplete, Kept, Chained, Related, Closed
<1>. QED  BY <1>1, <1>2 DEF RegistryInv, NoTwoLinks, ApisFit

LEMMA RepairInv == ASSUME RegistryInv, Repair PROVE RegistryInv'
<1>1. CASE Raise
  BY <1>1, RaiseInv
<1>2. CASE ~Raise
  <2>1. outcome = "read" /\ outcome' = "repaired" /\ UNCHANGED <<place, groups, enums, vendors, added, classes, required>>
    BY <1>2 DEF Repair
  <2>2. Shaped(document') /\ NamedInOneGroup(document')
    BY <2>1, RepairMakesOne DEF RegistryInv
  <2>3. AliasInv'
    BY <2>1 DEF RegistryInv, AliasInv, Known, Owned, MappingComplete, Kept, Chained, Related, Closed
  <2>4. Counted(document')
    BY <2>2, CountedIn
  <2>5. place' = 0 /\ groups' = <<>> /\ vendors' = {} /\ added' = {}
    BY <2>1 DEF RegistryInv
  <2>6. CommandsIn'
    BY <2>4, <2>5 DEF CommandsIn, Counted
  <2>7. EnumsIn'
    <3>1. <<>> \in Seq({}) /\ DOMAIN <<>> = {}
      OBVIOUS
    <3>2. IsSequence(<<>>)
      BY <3>1, IsOne
    <3>. QED  BY <2>5, <3>1, <3>2 DEF EnumsIn
  <2>8. ProvidersIn'
    BY <2>4, <2>5 DEF ProvidersIn, Counted
  <2>9. VendorsIn'
    <3>1. VendorsOf(document', place' - Commanded(document') - Grouped(document') - Featured(document')) = {}
      BY <2>4, <2>5, NoVendors DEF Counted
    <3>. QED  BY <2>1, <2>5, <3>1 DEF VendorsIn
  <2>10. NoTwoLinks(required') /\ ApisFit(required')
    BY <2>1 DEF RegistryInv
  <2>11. place' \in 0..Elements(document')
    BY <2>4, <2>5 DEF Counted
  <2>. QED  BY <2>1, <2>2, <2>3, <2>6, <2>7, <2>8, <2>9, <2>10, <2>11 DEF RegistryInv
<1>. QED  BY <1>1, <1>2

\* The element that a step parses.
LEMMA NextElement ==
    ASSUME RegistryInv, NEW part, NEW x, Parses(part, x)
    PROVE  /\ outcome = "repaired" /\ Shaped(document) /\ Counted(document)
           /\ place \in Nat /\ place + 1 \in 1..Elements(document)
           /\ PartOf(place + 1) = part /\ InOrder[place + 1] = x /\ ElementAt(place + 1)
<1>1. outcome = "repaired" /\ Shaped(document) /\ place \in 0..Elements(document)
  BY DEF RegistryInv, Parses
<1>2. Counted(document) /\ Elements(document) \in Nat
  BY <1>1, CountedIn DEF Counted
<1>3. place < Elements(document)
  BY DEF Parses, Elements, InOrder
<1>4. place + 1 \in 1..Elements(document) /\ place \in Nat
  BY <1>1, <1>2, <1>3
<1>5. ElementAt(place + 1)
  BY <1>1, <1>4, ElementsInOrder
<1>. QED  BY <1>1, <1>2, <1>4, <1>5 DEF Parses

\* No vendor is added before the extensions.
LEMMA VendorsStay ==
    ASSUME RegistryInv, outcome = "repaired", Counted(document), place \in Nat,
           place + 1 <= Commanded(document) + Grouped(document) + Featured(document),
           place' = place + 1, document' = document, outcome' = outcome, vendors' = vendors
    PROVE  VendorsIn'
<1>. DEFINE before == Commanded(document) + Grouped(document) + Featured(document)
<1>1. /\ place - Commanded(document) - Grouped(document) - Featured(document) \in Int
      /\ place - Commanded(document) - Grouped(document) - Featured(document) <= 0
      /\ place + 1 - Commanded(document) - Grouped(document) - Featured(document) \in Int
      /\ place + 1 - Commanded(document) - Grouped(document) - Featured(document) <= 0
  BY DEF Counted
<1>2. vendors = VendorsOf(document, place - Commanded(document) - Grouped(document) - Featured(document))
  BY DEF RegistryInv, VendorsIn
<1>3. vendors = VendorsOf(document, place + 1 - Commanded(document) - Grouped(document) - Featured(document))
  BY <1>1, <1>2, NoVendors
<1>4. PICK d, p, v : d = document' /\ p = place' /\ v = vendors'
  OBVIOUS
<1>5. v = VendorsOf(d, p - Commanded(d) - Grouped(d) - Featured(d))
  BY <1>3, <1>4 DEF Counted
<1>. QED  BY <1>4, <1>5 DEF VendorsIn

LEMMA ParseCommandInv == ASSUME RegistryInv, NEW x, ParseCommand(x) PROVE RegistryInv'
<1>. DEFINE n == Commanded(document)
            early == place + 1 <= n
<1>1. /\ outcome = "repaired" /\ Shaped(document) /\ Counted(document)
      /\ place \in Nat /\ place + 1 \in 1..Elements(document)
      /\ place + 1 <= n /\ x = document.commands[place + 1]
  BY NextElement DEF ParseCommand, ElementAt
<1>2. /\ place' = place + 1 /\ document' = document /\ outcome' = outcome
      /\ AddCommand(x) /\ UNCHANGED <<groups, enums, vendors, required>>
  BY DEF ParseCommand, Parsed
<1>3. n \in Nat /\ DOMAIN document.commands = 1..n /\ place + 1 \in 1..n
      /\ \A k \in 1..n : document.commands[k] \in Commands
  BY <1>1 DEF Shaped, Commanded
<1>4. x \in Commands \ added
  <2>1. \A k \in 1..n : k <= place => document.commands[k] # x
    BY <1>1, <1>3 DEF Shaped
  <2>2. added = {document.commands[k] : k \in {j \in 1..n : j <= place}}
    BY <1>1 DEF RegistryInv, CommandsIn
  <2>. QED  BY <1>1, <1>3, <2>1, <2>2
<1>5. AliasInv' /\ added' = added \cup {x}
  BY <1>2, <1>4, AddCommandInv DEF RegistryInv, AddCommand
<1>6. CommandsIn'
  <2>1. {j \in 1..n : j <= place + 1} = {j \in 1..n : j <= place} \cup {place + 1}
    BY <1>1, <1>3
  <2>2. added = {document.commands[k] : k \in {j \in 1..n : j <= place}}
    BY <1>1 DEF RegistryInv, CommandsIn
  <2>. HIDE DEF n
  <2>3. added' = {document.commands[k] : k \in {j \in 1..n : j <= place + 1}}
    BY <1>1, <1>5, <2>1, <2>2
  <2>. QED  BY <1>2, <2>3 DEF CommandsIn, n
<1>7. EnumsIn'
  BY <1>1, <1>2 DEF RegistryInv, EnumsIn, Counted
<1>8. ProvidersIn'
  BY <1>1, <1>2 DEF ProvidersIn, Counted
<1>9. VendorsIn'
  BY <1>1, <1>2, VendorsStay DEF Counted
<1>. QED  BY <1>1, <1>2, <1>5, <1>6, <1>7, <1>8, <1>9 DEF RegistryInv

\* Of one name, LastNamed keeps one enum, of the sequence.
LEMMA OneOfAName ==
    ASSUME NEW s, IsSequence(s)
    PROVE  /\ LastNamed(s) \subseteq ToSet(s)
           /\ \A e, f \in LastNamed(s) : e.name = f.name => e = f
<1>1. \E n \in Nat : DOMAIN s = 1..n
  BY DEF IsSequence
<1>2. LastNamed(s) \subseteq ToSet(s)
  BY DEF LastNamed, ToSet
<1>3. ASSUME NEW e \in LastNamed(s), NEW f \in LastNamed(s), e.name = f.name PROVE e = f
  <2>1. PICK i \in DOMAIN s : e = s[i] /\ \A j \in DOMAIN s : j > i => s[j].name # s[i].name
    BY DEF LastNamed
  <2>2. PICK k \in DOMAIN s : f = s[k] /\ \A j \in DOMAIN s : j > k => s[j].name # s[k].name
    BY DEF LastNamed
  <2>3. i \in Nat /\ k \in Nat
    BY <1>1
  <2>. QED  BY <1>3, <2>1, <2>2, <2>3
<1>. QED  BY <1>2, <1>3

LEMMA ParseEnumsInv == ASSUME RegistryInv, NEW x, ParseEnums(x) PROVE RegistryInv'
<1>1. CASE Raise
  BY <1>1, RaiseInv
<1>2. CASE ~Raise
  <2>. DEFINE n == place + 1 - Commanded(document)
              new == LastNamed(x.enums)
              entries == [m \in DOMAIN enums \cup {e.name : e \in new} |->
                             IF \E e \in new : e.name = m THEN CHOOSE e \in new : e.name = m ELSE enums[m]]
              group == [type |-> InventedType(x), enums |-> new]
  <2>1. /\ outcome = "repaired" /\ Shaped(document) /\ Counted(document)
        /\ place \in Nat /\ place + 1 \in 1..Elements(document)
        /\ n \in 1..Grouped(document) /\ x = document.enums[n]
    <3>1. /\ outcome = "repaired" /\ Shaped(document) /\ Counted(document)
          /\ place \in Nat /\ place + 1 \in 1..Elements(document)
          /\ PartOf(place + 1) = "enums" /\ InOrder[place + 1] = x /\ ElementAt(place + 1)
      BY NextElement DEF ParseEnums
    <3>2. n \in 1..Grouped(document) /\ InOrder[place + 1] = document.enums[n]
      BY <3>1 DEF ElementAt, Counted
    <3>. QED  BY <3>1, <3>2
  <2>2. /\ place' = place + 1 /\ document' = document /\ outcome' = outcome
        /\ groups' = Append(groups, group) /\ enums' = entries /\ UNCHANGED <<vendors, added, classes, required>>
    BY <1>2 DEF ParseEnums, Parsed
  <2>3. DOMAIN document.enums = 1..Grouped(document) /\ Grouped(document) \in Nat
    BY <2>1 DEF Shaped, Grouped, IsSequence
  <2>4. IsSequence(x.enums)
    BY <2>1, <2>3 DEF Shaped
  <2>5. new \subseteq ToSet(x.enums) /\ \A e, f \in new : e.name = f.name => e = f
    BY <2>4, OneOfAName
  <2>6. AliasInv'
    BY <2>2 DEF RegistryInv, AliasInv, Known, Owned, MappingComplete, Kept, Chained, Related, Closed
  <2>7. CommandsIn'
    <3>1. \A j \in 1..Commanded(document) : j <= place /\ j <= place + 1
      BY <2>1 DEF Counted
    <3>2. {j \in 1..Commanded(document) : j <= place + 1} = {j \in 1..Commanded(document) : j <= place}
      BY <3>1
    <3>. QED  BY <2>1, <2>2, <3>2 DEF RegistryInv, CommandsIn
  <2>8. EnumsIn'
    <3>1. \A i \in DOMAIN groups : \A e \in groups[i].enums :
             /\ e.name \in DOMAIN enums /\ enums[e.name] = e
             /\ \E k \in 1..Grouped(document) : k <= place - Commanded(document) /\ e \in ToSet(document.enums[k].enums)
      BY <2>1 DEF RegistryInv, EnumsIn
    <3>2. IsSequence(groups)
      BY <2>1 DEF RegistryInv, EnumsIn
    <3>. HIDE DEF group
    <3>3. IsSequence(groups') /\ DOMAIN groups' = DOMAIN groups \cup {Len(groups) + 1}
          /\ groups'[Len(groups) + 1] = group /\ \A i \in DOMAIN groups : groups'[i] = groups[i]
      <4>1. groups \in Seq(ToSet(groups) \cup {group})
        BY <3>2 DEF IsSequence
      <4>2. Append(groups, group) \in Seq(ToSet(groups) \cup {group})
        BY <4>1
      <4>3. IsSequence(Append(groups, group))
        BY <4>2, IsOne
      <4>4. DOMAIN Append(groups, group) = DOMAIN groups \cup {Len(groups) + 1}
        BY <4>1
      <4>5. Append(groups, group)[Len(groups) + 1] = group /\ \A i \in DOMAIN groups : Append(groups, group)[i] = groups[i]
        BY <4>1
      <4>. QED  BY <2>2, <4>3, <4>4, <4>5
    <3>. DEFINE In(e) == /\ e.name \in DOMAIN entries /\ entries[e.name] = e
                         /\ \E k \in 1..Grouped(document) :
                               k <= place + 1 - Commanded(document) /\ e \in ToSet(document.enums[k].enums)
    <3>4. ASSUME NEW e \in new PROVE In(e)
      <4>1. entries[e.name] = CHOOSE f \in new : f.name = e.name
        OBVIOUS
      <4>2. (CHOOSE f \in new : f.name = e.name) = e
        BY <2>5
      <4>3. n <= place + 1 - Commanded(document) /\ e \in ToSet(document.enums[n].enums)
        BY <2>1, <2>5 DEF Counted
      <4>. QED  BY <2>1, <4>1, <4>2, <4>3
    <3>5. ASSUME NEW i \in DOMAIN groups, NEW e \in groups[i].enums PROVE In(e)
      <4>1. PICK k \in 1..Grouped(document) : k <= place - Commanded(document) /\ e \in ToSet(document.enums[k].enums)
        BY <3>1
      <4>2. k # n /\ k <= place + 1 - Commanded(document)
        BY <2>1, <4>1 DEF Counted
      <4>3. \A f \in new : f.name = e.name => f = e
        BY <2>1, <2>3, <2>5, <4>1, <4>2 DEF RegistryInv, NamedInOneGroup
      <4>4. entries[e.name] = e
        <5>1. e.name \in DOMAIN enums /\ enums[e.name] = e
          BY <3>1
        <5>2. CASE \E f \in new : f.name = e.name
          <6>1. (CHOOSE f \in new : f.name = e.name) = e
            BY <4>3, <5>2
          <6>. QED  BY <5>1, <5>2, <6>1
        <5>3. CASE ~\E f \in new : f.name = e.name
          BY <5>1, <5>3
        <5>. QED  BY <5>2, <5>3
      <4>. QED  BY <3>1, <4>1, <4>2, <4>4
    <3>6. group.enums = new
      BY DEF group
    <3>. HIDE DEF entries, new, n, In
    <3>7. \A i \in DOMAIN groups' : \A e \in groups'[i].enums : In(e)
      BY <3>3, <3>4, <3>5, <3>6
    <3>. QED  BY <2>1, <2>2, <3>3, <3>7 DEF EnumsIn, In, Counted
  <2>9. ProvidersIn'
    BY <2>1, <2>2 DEF ProvidersIn, Counted
  <2>10. VendorsIn'
    BY <2>1, <2>2, VendorsStay DEF Counted
  <2>. QED  BY <2>1, <2>2, <2>6, <2>7, <2>8, <2>9, <2>10 DEF RegistryInv
<1>. QED  BY <1>1, <1>2

\* What is linked stays linked.
LEMMA ProvidesStay ==
    ASSUME NEW p, Provides(p), required \subseteq required', added' = added, enums' = enums
    PROVE  \A i \in DOMAIN p.requires : LinkIn(required', p.provider, (Lookup(p.requires[i]))')
<1>1. \A i \in DOMAIN p.requires : (Lookup(p.requires[i]))' = Lookup(p.requires[i])
  BY DEF Lookup
<1>2. \A i \in DOMAIN p.requires : LinkIn(required, p.provider, Lookup(p.requires[i]))
  BY DEF Provides
<1>. HIDE DEF Lookup
<1>. QED  BY <1>1, <1>2 DEF LinkIn

LEMMA ProviderInv ==
    ASSUME RegistryInv, NEW part \in {"feature", "extension"}, NEW x, Parses(part, x),
           Accepted(x.provider, x.requires), required' = LinkAll(x.provider, x.requires),
           Parsed, UNCHANGED <<groups, enums, added, classes>>
    PROVE  AliasInv' /\ NoTwoLinks(required') /\ ApisFit(required') /\ CommandsIn' /\ EnumsIn' /\ ProvidersIn'
<1>. DEFINE C == Commanded(document)
            G == Grouped(document)
            F == Featured(document)
            X == Extended(document)
<1>1. /\ outcome = "repaired" /\ Shaped(document) /\ Counted(document)
      /\ place \in Nat /\ place + 1 \in 1..Elements(document)
      /\ PartOf(place + 1) = part /\ InOrder[place + 1] = x /\ ElementAt(place + 1)
  BY NextElement
<1>2. /\ C \in Nat /\ G \in Nat /\ F \in Nat /\ X \in Nat
      /\ DOMAIN document.features = 1..F /\ DOMAIN document.extensions = 1..X
  BY <1>1 DEF Counted, Shaped, Featured, Extended, IsSequence
<1>3. document' = document /\ place' = place + 1 /\ outcome' = outcome
  BY DEF Parsed
<1>4. \/ part = "feature" /\ place + 1 - C - G \in 1..F /\ x = document.features[place + 1 - C - G]
      \/ part = "extension" /\ place + 1 - C - G - F \in 1..X /\ x = document.extensions[place + 1 - C - G - F]
  <2>1. CASE part = "feature"
    BY <1>1, <1>2, <2>1 DEF ElementAt
  <2>2. CASE part = "extension"
    BY <1>1, <1>2, <2>2 DEF ElementAt
  <2>. QED  BY <2>1, <2>2
<1>5. x \in ToSet(document.features) \cup ToSet(document.extensions)
  BY <1>2, <1>4 DEF ToSet
<1>6. IsSequence(x.requires) /\ x.provider.supported # {}
  BY <1>1, <1>5 DEF Shaped
<1>7. /\ required \subseteq required' /\ NoTwoLinks(required') /\ ApisFit(required')
      /\ \A k \in DOMAIN x.requires : LinkIn(required', x.provider, Lookup(x.requires[k]))
  BY <1>6, AllLinked DEF RegistryInv
<1>8. AliasInv'
  BY DEF RegistryInv, AliasInv, Known, Owned, MappingComplete, Kept, Chained, Related, Closed
<1>9. CommandsIn'
  <2>1. {j \in 1..C : j <= place + 1} = {j \in 1..C : j <= place}
    BY <1>1, <1>2, <1>4
  <2>. QED  BY <1>1, <1>3, <2>1 DEF RegistryInv, CommandsIn
<1>10. EnumsIn'
  BY <1>1, <1>3 DEF RegistryInv, EnumsIn, Counted
<1>11. ProvidersIn'
  <2>. DEFINE FullyLinked(p) == \A i \in DOMAIN p.requires : LinkIn(required', p.provider, (Lookup(p.requires[i]))')
  <2>1. FullyLinked(x)
    <3>1. \A i \in DOMAIN x.requires : (Lookup(x.requires[i]))' = Lookup(x.requires[i])
      BY DEF Lookup
    <3>. QED  BY <1>7, <3>1
  <2>2. /\ \A k \in 1..F : k <= place - C - G => FullyLinked(document.features[k])
        /\ \A k \in 1..X : k <= place - C - G - F => FullyLinked(document.extensions[k])
    <3>1. /\ \A k \in 1..F : k <= place - C - G => Provides(document.features[k])
          /\ \A k \in 1..X : k <= place - C - G - F => Provides(document.extensions[k])
      BY <1>1 DEF RegistryInv, ProvidersIn
    <3>2. ASSUME NEW p, Provides(p) PROVE FullyLinked(p)
      BY <1>7, <3>2, ProvidesStay
    <3>. HIDE DEF FullyLinked
    <3>. QED  BY <3>1, <3>2
  <2>. HIDE DEF FullyLinked
  <2>3. /\ \A k \in 1..F : k <= place + 1 - C - G => FullyLinked(document.features[k])
        /\ \A k \in 1..X : k <= place + 1 - C - G - F => FullyLinked(document.extensions[k])
    <3>1. CASE part = "feature"
      <4>1. \A k \in 1..F : k <= place + 1 - C - G => k <= place - C - G \/ k = place + 1 - C - G
        BY <1>1, <1>2
      <4>2. \A k \in 1..X : ~(k <= place + 1 - C - G - F)
        BY <1>1, <1>2, <1>4, <3>1
      <4>. QED  BY <1>4, <2>1, <2>2, <3>1, <4>1, <4>2
    <3>2. CASE part = "extension"
      <4>1. \A k \in 1..X : k <= place + 1 - C - G - F => k <= place - C - G - F \/ k = place + 1 - C - G - F
        BY <1>1, <1>2
      <4>2. \A k \in 1..F : k <= place - C - G
        BY <1>1, <1>2, <1>4, <3>2
      <4>. QED  BY <1>4, <2>1, <2>2, <3>2, <4>1, <4>2
    <3>. QED  BY <3>1, <3>2
  <2>4. PICK d, q : d = document' /\ q = place'
    OBVIOUS
  <2>5. /\ \A k \in 1..Featured(d) : k <= q - Commanded(d) - Grouped(d) => FullyLinked(d.features[k])
        /\ \A k \in 1..Extended(d) : k <= q - Commanded(d) - Grouped(d) - Featured(d) => FullyLinked(d.extensions[k])
    BY <1>1, <1>2, <1>3, <2>3, <2>4
  <2>. QED  BY <2>4, <2>5 DEF ProvidersIn, Provides, FullyLinked
<1>. QED  BY <1>7, <1>8, <1>9, <1>10, <1>11

LEMMA ParseFeatureInv == ASSUME RegistryInv, NEW x, ParseFeature(x) PROVE RegistryInv'
<1>1. CASE Raise
  BY <1>1, RaiseInv
<1>2. CASE ~Raise
  <2>1. /\ outcome = "repaired" /\ Shaped(document) /\ Counted(document)
        /\ place \in Nat /\ place + 1 \in 1..Elements(document)
        /\ PartOf(place + 1) = "feature" /\ ElementAt(place + 1)
    BY NextElement DEF ParseFeature
  <2>2. /\ Accepted(x.provider, x.requires) /\ required' = LinkAll(x.provider, x.requires)
        /\ Parsed /\ UNCHANGED <<groups, enums, vendors, added, classes>>
    BY <1>2 DEF ParseFeature
  <2>3. document' = document /\ place' = place + 1 /\ outcome' = outcome
    BY <2>2 DEF Parsed
  <2>4. AliasInv' /\ NoTwoLinks(required') /\ ApisFit(required') /\ CommandsIn' /\ EnumsIn' /\ ProvidersIn'
    BY <2>2, ProviderInv DEF ParseFeature
  <2>5. place + 1 <= Commanded(document) + Grouped(document) + Featured(document)
    BY <2>1 DEF ElementAt, Counted
  <2>6. VendorsIn'
    BY <2>1, <2>2, <2>3, <2>5, VendorsStay
  <2>. QED  BY <2>1, <2>3, <2>4, <2>6 DEF RegistryInv
<1>. QED  BY <1>1, <1>2

LEMMA ParseExtensionInv == ASSUME RegistryInv, NEW x, ParseExtension(x) PROVE RegistryInv'
<1>1. CASE Raise
  BY <1>1, RaiseInv
<1>2. CASE ~Raise
  <2>. DEFINE n == place - Commanded(document) - Grouped(document) - Featured(document)
  <2>1. /\ outcome = "repaired" /\ Shaped(document) /\ Counted(document)
        /\ place \in Nat /\ place + 1 \in 1..Elements(document)
        /\ PartOf(place + 1) = "extension" /\ InOrder[place + 1] = x /\ ElementAt(place + 1)
    BY NextElement DEF ParseExtension
  <2>2. /\ Accepted(x.provider, x.requires) /\ required' = LinkAll(x.provider, x.requires)
        /\ vendors' = vendors \cup {x.provider.vendor}
        /\ Parsed /\ UNCHANGED <<groups, enums, added, classes>>
    BY <1>2 DEF ParseExtension
  <2>3. document' = document /\ place' = place + 1 /\ outcome' = outcome
    BY <2>2 DEF Parsed
  <2>4. AliasInv' /\ NoTwoLinks(required') /\ ApisFit(required') /\ CommandsIn' /\ EnumsIn' /\ ProvidersIn'
    BY <2>2, ProviderInv DEF ParseExtension
  <2>5. /\ n \in Int /\ n + 1 \in 1..Extended(document) /\ x = document.extensions[n + 1]
        /\ place + 1 - Commanded(document) - Grouped(document) - Featured(document) = n + 1
    <3>1. place + 1 - Commanded(document) - Grouped(document) - Featured(document) = n + 1 /\ n \in Int
      BY <2>1 DEF Counted
    <3>. QED  BY <2>1, <3>1 DEF ElementAt, Counted
  <2>6. VendorsIn'
    <3>1. vendors = VendorsOf(document, n)
      BY <2>1 DEF RegistryInv, VendorsIn
    <3>. HIDE DEF n
    <3>2. {j \in 1..Extended(document) : j <= n + 1} = {j \in 1..Extended(document) : j <= n} \cup {n + 1}
      BY <2>1, <2>5 DEF Counted
    <3>3. vendors' = VendorsOf(document, n + 1)
      BY <2>2, <2>5, <3>1, <3>2 DEF VendorsOf
    <3>4. PICK d, p, v : d = document' /\ p = place' /\ v = vendors'
      OBVIOUS
    <3>5. v = VendorsOf(d, p - Commanded(d) - Grouped(d) - Featured(d))
      BY <2>1, <2>3, <2>5, <3>3, <3>4 DEF Counted
    <3>. QED  BY <2>1, <2>3, <3>4, <3>5 DEF VendorsIn
  <2>. QED  BY <2>1, <2>3, <2>4, <2>6 DEF RegistryInv
<1>. QED  BY <1>1, <1>2

LEMMA EndRegistryInv == ASSUME RegistryInv, EndRegistry PROVE RegistryInv'
<1>1. CASE Raise
  BY <1>1, RaiseInv
<1>2. CASE ~Raise
  <2>1. /\ outcome = "repaired" /\ outcome' = "parsed" /\ vendors' = vendors \ {"None"}
        /\ UNCHANGED <<document, place, groups, enums, added, classes, required>>
    BY <1>2 DEF EndRegistry
  <2>2. Shaped(document) /\ Counted(document) /\ place = Elements(document)
    BY <2>1, CountedIn DEF EndRegistry, RegistryInv, Elements, InOrder
  <2>3. AliasInv'
    BY <2>1 DEF RegistryInv, AliasInv, Known, Owned, MappingComplete, Kept, Chained, Related, Closed
  <2>4. CommandsIn' /\ EnumsIn'
    BY <2>1 DEF RegistryInv, CommandsIn, EnumsIn
  <2>5. ProvidersIn'
    BY <2>1 DEF RegistryInv, ProvidersIn, Provides, Lookup
  <2>6. VendorsIn'
    <3>1. place - Commanded(document) - Grouped(document) - Featured(document) = Extended(document)
      BY <2>2 DEF Counted
    <3>2. vendors = VendorsOf(document, Extended(document))
      BY <2>1, <3>1 DEF RegistryInv, VendorsIn
    <3>. QED  BY <2>1, <2>2, <3>2 DEF VendorsIn
  <2>. QED  BY <2>1, <2>2, <2>3, <2>4, <2>5, <2>6 DEF RegistryInv
<1>. QED  BY <1>1, <1>2

LEMMA RegistryNextInv == RegistryInv /\ [RegistryNext]_parseVars => RegistryInv'
<1>. SUFFICES ASSUME RegistryInv, [RegistryNext]_parseVars PROVE RegistryInv'
  OBVIOUS
<1>1. CASE Repair
  BY <1>1, RepairInv
<1>2. CASE EndRegistry
  BY <1>2, EndRegistryInv
<1>3. ASSUME NEW x \in ToSet(InOrder), ParseCommand(x) PROVE RegistryInv'
  BY <1>3, ParseCommandInv
<1>4. ASSUME NEW x \in ToSet(InOrder), ParseEnums(x) PROVE RegistryInv'
  BY <1>4, ParseEnumsInv
<1>5. ASSUME NEW x \in ToSet(InOrder), ParseFeature(x) PROVE RegistryInv'
  BY <1>5, ParseFeatureInv
<1>6. ASSUME NEW x \in ToSet(InOrder), ParseExtension(x) PROVE RegistryInv'
  BY <1>6, ParseExtensionInv
<1>7. CASE UNCHANGED parseVars
  <2>1. UNCHANGED <<document, place, outcome, groups, enums, vendors, added, classes, required>>
    BY <1>7 DEF parseVars, documentVars
  <2>2. AliasInv'
    BY <2>1 DEF RegistryInv, AliasInv, Known, Owned, MappingComplete, Kept, Chained, Related, Closed
  <2>3. (CommandsIn' <=> CommandsIn) /\ (EnumsIn' <=> EnumsIn) /\ (VendorsIn' <=> VendorsIn)
    BY <2>1 DEF CommandsIn, EnumsIn, VendorsIn
  <2>4. ProvidersIn' <=> ProvidersIn
    BY <2>1 DEF ProvidersIn, Provides, Lookup
  <2>. QED  BY <2>1, <2>2, <2>3, <2>4 DEF RegistryInv
<1>. QED  BY <1>1, <1>2, <1>3, <1>4, <1>5, <1>6, <1>7 DEF RegistryNext

LEMMA LinkedOfInv == RegistryInv => RegistryIsLinked
<1>. SUFFICES ASSUME RegistryInv, outcome = "parsed" PROVE RegistryIsLinked
  BY DEF RegistryIsLinked
<1>1. Shaped(document) /\ Counted(document) /\ place = Elements(document)
  BY CountedIn DEF RegistryInv, VendorsIn
<1>2. \A i \in DOMAIN groups : \A e \in groups[i].enums : enums[e.name] = e
  BY DEF RegistryInv, EnumsIn
<1>3. ASSUME NEW p \in ToSet(document.features \o document.extensions), NEW i \in DOMAIN p.requires
      PROVE  LET links == {r \in required : r.provider = p.provider /\ r.provided = Lookup(p.requires[i])}
             IN  Cardinality(links) = 1 /\ \A r \in links : r.apis # {} /\ r.apis \subseteq p.provider.supported
  <2>. DEFINE links == {r \in required : r.provider = p.provider /\ r.provided = Lookup(p.requires[i])}
  <2>1. Provides(p)
    <3>1. /\ \A k \in 1..Featured(document) : Provides(document.features[k])
          /\ \A k \in 1..Extended(document) : Provides(document.extensions[k])
      BY <1>1 DEF RegistryInv, ProvidersIn, Counted
    <3>2. \/ \E k \in 1..Featured(document) : p = document.features[k]
          \/ \E k \in 1..Extended(document) : p = document.extensions[k]
      <4>. DEFINE s == document.features
                  t == document.extensions
      <4>1. /\ IsSequence(s \o t) /\ Len(s \o t) = Len(s) + Len(t) /\ Len(s) \in Nat /\ Len(t) \in Nat
            /\ DOMAIN (s \o t) = 1..(Len(s) + Len(t))
            /\ \A k \in 1..(Len(s) + Len(t)) : (s \o t)[k] = IF k <= Len(s) THEN s[k] ELSE t[k - Len(s)]
        <5>1. IsSequence(s) /\ IsSequence(t)
          BY <1>1 DEF Shaped
        <5>. HIDE DEF s, t
        <5>2. /\ IsSequence(s \o t) /\ Len(s \o t) = Len(s) + Len(t) /\ Len(s) \in Nat
              /\ \A k \in 1..(Len(s) + Len(t)) : (s \o t)[k] = IF k <= Len(s) THEN s[k] ELSE t[k - Len(s)]
          BY <5>1, TwoInOrder
        <5>3. Len(t) \in Nat /\ DOMAIN (s \o t) = 1..Len(s \o t)
          BY <5>1, <5>2 DEF IsSequence
        <5>. QED  BY <5>2, <5>3
      <4>2. PICK k \in 1..(Len(s) + Len(t)) : p = IF k <= Len(s) THEN s[k] ELSE t[k - Len(s)]
        BY <4>1 DEF ToSet
      <4>3. Featured(document) = Len(s) /\ Extended(document) = Len(t)
        BY DEF Featured, Extended
      <4>. HIDE DEF s, t
      <4>4. CASE k <= Len(s)
        BY <4>1, <4>2, <4>3, <4>4 DEF s
      <4>5. CASE k > Len(s)
        <5>1. k - Len(s) \in 1..Len(t)
          BY <4>1, <4>5
        <5>. QED  BY <4>1, <4>2, <4>3, <4>5, <5>1 DEF t
      <4>. QED  BY <4>1, <4>4, <4>5
    <3>. QED  BY <3>1, <3>2
  <2>2. PICK q \in required : q.provider = p.provider /\ q.provided = Lookup(p.requires[i])
    BY <2>1 DEF Provides, LinkIn
  <2>3. links = {q}
    BY <2>2 DEF RegistryInv, NoTwoLinks
  <2>4. Cardinality({q}) = 1
    BY FS_Singleton
  <2>5. \A r \in links : r.apis # {} /\ r.apis \subseteq p.provider.supported
    BY DEF RegistryInv, ApisFit
  <2>. QED  BY <2>3, <2>4, <2>5
<1>4. vendors = {x.provider.vendor : x \in ToSet(document.extensions)} \ {"None"}
  <2>1. DOMAIN document.extensions = 1..Extended(document) /\ Extended(document) \in Nat
    BY <1>1 DEF Shaped, Extended, IsSequence
  <2>2. {j \in 1..Extended(document) : j <= Extended(document)} = 1..Extended(document)
    BY <2>1
  <2>3. VendorsOf(document, Extended(document)) = {x.provider.vendor : x \in ToSet(document.extensions)}
    BY <2>1, <2>2 DEF VendorsOf, ToSet
  <2>. QED  BY <2>3 DEF RegistryInv, VendorsIn
<1>5. \A r \in required : r.provided \in added => r.provided \in classes[r.provided.name]
  BY ClassesOfInv DEF RegistryInv, AliasClasses
<1>. QED  BY <1>2, <1>3, <1>4, <1>5 DEF RegistryIsLinked

\* "Remove the GLES value to avoid redefinition collisions" (_repair_xml): of
\* every gl.xml that is parsed without an exception, each enum of a group is the
\* one the registry has under its name, each required element has one
\* requirement of its provider, the vendors are those of the extensions and a
\* required command is in its class of aliases.
THEOREM RegistryLinked == RegistrySpec => []RegistryIsLinked
<1>1. RegistryInit => RegistryInv
  BY RegistryInitInv
<1>2. RegistryInv /\ [RegistryNext]_parseVars => RegistryInv'
  BY RegistryNextInv
<1>3. RegistryInv => RegistryIsLinked
  BY LinkedOfInv
<1>. QED  BY <1>1, <1>2, <1>3, PTL DEF RegistrySpec
================================================================================
