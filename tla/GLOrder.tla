-------------------------------- MODULE GLOrder --------------------------------
(* registry/gl.py: the requirements of gl.xml link the features and extensions, *)
(* the providers, to the commands and enums they provide; the enums of one      *)
(* value are sorted by the vendor of the extensions that require them. A name   *)
(* is its place in the order of the strings.                                    *)
EXTENDS Integers, SequencesExt

CONSTANTS Provided, \* enums: [name, value, suffix], suffix a vendor or "None"
          Requires  \* <<provider, api or "all", enum>>, in any order, of the
                    \* providers [kind, gles, vendor, name, supported]

VARIABLES elementsLeft,     \* the <require> elements to parse
          required, \* the requirements: [provider, provided, apis]
          sorted    \* the list that is sorted by insertion
orderVars == <<elementsLeft, required, sorted>>

\* Names are places in an order; no enum and no provider of one kind is declared
\* twice.
ASSUME DeclaredOnce ==
    /\ \A x \in Provided : x.name \in Int /\ x.value \in Int
    /\ \A x, y \in Provided : x.value = y.value /\ x.name = y.name => x = y
    /\ \A e \in Requires : e[1].kind \in {"feature", "extension"} /\ e[1].gles \in BOOLEAN /\ e[1].name \in Int
    /\ \A d, e \in Requires : d[1].kind = e[1].kind /\ d[1].name = e[1].name => d[1] = e[1]

Ratified == {"KHR", "ARB", "OES"}

\* Feature.__lt__ and Extension.__lt__; features come before extensions.
ProviderLess(a, b) ==
    IF a.kind # b.kind THEN a.kind = "feature"
    ELSE IF a.kind = "feature" THEN IF a.gles # b.gles THEN b.gles ELSE a.name < b.name
    ELSE IF (a.vendor \in Ratified) # (b.vendor \in Ratified) THEN a.vendor \in Ratified
    ELSE IF (a.vendor = "EXT") # (b.vendor = "EXT") THEN a.vendor = "EXT"
    ELSE a.name < b.name

\* The vendor of an enum or a command: of an extension that requires it and
\* whose vendor its name ends with.
VendorNamespace(x) ==
    IF \E r \in required : r.provided = x /\ r.provider.kind = "extension" /\ r.provider.vendor = x.suffix
    THEN x.suffix ELSE "None"

\* Enum.__lt__
EnumLessCoreMixed(x, y) ==
    LET v == VendorNamespace(x)  w == VendorNamespace(y)
    IN  IF x.value # y.value THEN x.value < y.value
        ELSE IF (v \in Ratified) # (w \in Ratified) THEN v \in Ratified
        ELSE IF (v = "EXT") # (w = "EXT") THEN v = "EXT"
        ELSE x.name < y.name
EnumLess(x, y) ==
    LET v == VendorNamespace(x)  w == VendorNamespace(y)
    IN  IF x.value # y.value THEN x.value < y.value
        ELSE IF (v = "None") # (w = "None") THEN v = "None"
        ELSE IF (v \in Ratified) # (w \in Ratified) THEN v \in Ratified
        ELSE IF (v = "EXT") # (w = "EXT") THEN v = "EXT"
        ELSE x.name < y.name

\* __parse_requirements: without an api of its own, an element is for all of the
\* provider's; a requirement equal to one there was (of the same provider and
\* provided, whatever its apis) is not added.
WithRequirement(set, r) ==
    IF \E q \in set : q.provider = r[1] /\ q.provided = r[3] THEN set
    ELSE set \cup {[provider |-> r[1], provided |-> r[3], apis |-> IF r[2] = "all" THEN r[1].supported ELSE {r[2]}]}
Link(r) ==
    /\ r \in elementsLeft
    /\ elementsLeft' = elementsLeft \ {r}
    /\ required' = WithRequirement(required, r)
    /\ UNCHANGED sorted

\* One more enum is sorted into the list, as sorted() does: by halving, which
\* ends between one that is not greater and one that is, whatever lies beyond.
Between(x, k) == /\ \A i \in DOMAIN sorted : i = k - 1 => ~EnumLess(x, sorted[i])
                 /\ \A i \in DOMAIN sorted : i = k => EnumLess(x, sorted[i])
Insert(x) ==
    /\ elementsLeft = {} /\ x \notin ToSet(sorted)
    /\ \E k \in 1..(Len(sorted) + 1) : Between(x, k) /\ sorted' = InsertAt(sorted, k, x)
    /\ UNCHANGED <<elementsLeft, required>>

OrderInit == elementsLeft = Requires /\ required = {} /\ sorted = <<>>
OrderNext == (\E r \in elementsLeft : Link(r)) \/ (\E x \in Provided : Insert(x))
OrderSpec == OrderInit /\ [][OrderNext]_orderVars
--------------------------------------------------------------------------------
\* "This sort order ensures that names provided by core specifications precede
\* those provided by ratified extensions, which proceed those provided by
\* unratified extensions" (Enum.__lt__): whatever the order of the elements and
\* of the enums, the list of the enums is one, with the names of a value so.
\* And the providers have one order, the desktop features first.
EnumsSorted ==
    LET Rank(x) == LET v == VendorNamespace(x) IN IF v = "None" THEN 1 ELSE IF v \in Ratified THEN 2 ELSE IF v = "EXT" THEN 3 ELSE 4
    IN  /\ \A i, j \in DOMAIN sorted : LET x == sorted[i]  y == sorted[j] IN i < j =>
              \/ x.value < y.value
              \/ x.value = y.value /\ Rank(x) < Rank(y)
              \/ x.value = y.value /\ Rank(x) = Rank(y) /\ x.name < y.name
        /\ \A r, q \in required : r.provider # q.provider =>
              (ProviderLess(r.provider, q.provider) <=> ~ProviderLess(q.provider, r.provider))
================================================================================
