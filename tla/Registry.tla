-------------------------------- MODULE Registry --------------------------------
(* registry/gl.py, parse: what is made of gl.xml. First two of its errors are   *)
(* repaired; then the commands, the groups of enums, the features and the       *)
(* extensions are parsed, in this order, each element adding to the registry    *)
(* and linking a provider to what it requires. An exception ends it with no     *)
(* registry. The bounds of a group, compared as strings, are places in their    *)
(* order. Not modelled: the parameters and prototypes of commands.              *)
EXTENDS AliasMap, GLOrder

CONSTANTS Documents,    \* contents of gl.xml: see InOrder
          AllAttribBits, AllAttribValue, \* the name GL_ALL_ATTRIB_BITS and its right value
          ActiveProgram, BadValue, \* the name GL_ACTIVE_PROGRAM_EXT, and 0x8259
          Absent  \* None

IsAllAttribBits(e) == e.name = AllAttribBits
IsBadActiveProgram(e) == e.value = BadValue /\ e.name = ActiveProgram /\ e.api = "gles2"

\* gl.xml: its elements come in sequences, and a command is declared once; so is
\* an enum but for what _repair_xml is there for, the value of one name in GLES,
\* or within one group. So an enum of two groups, which would be two objects with
\* requirements of their own, needs no identity beside its name and value.
IsSequence(s) == s \in Seq(ToSet(s))
ASSUME DocumentsAssumption ==
    /\ AllAttribBits # ActiveProgram
    /\ \A d \in Documents :
          /\ {"commands", "enums", "features", "extensions"} \subseteq DOMAIN d
          /\ d.commands \in Seq(Commands) /\ \A i, j \in DOMAIN d.commands : d.commands[i] = d.commands[j] => i = j
          /\ IsSequence(d.enums) /\ IsSequence(d.features) /\ IsSequence(d.extensions)
          /\ \A g \in ToSet(d.enums) : "enums" \in DOMAIN g /\ IsSequence(g.enums)
          /\ \A i, j \in DOMAIN d.enums : \A a \in DOMAIN d.enums[i].enums, b \in DOMAIN d.enums[j].enums :
                LET x == d.enums[i].enums[a]  y == d.enums[j].enums[b] IN
                /\ {"name", "value"} \subseteq DOMAIN x
                /\ i # j /\ x.name = y.name => IsBadActiveProgram(x) \/ IsBadActiveProgram(y)
                /\ IsBadActiveProgram(x) /\ IsBadActiveProgram(y) => i = j /\ a = b
          /\ \A p \in ToSet(d.features) \cup ToSet(d.extensions) : IsSequence(p.requires) /\ p.provider.supported # {}

VARIABLES document,   \* the elements of gl.xml
          place,      \* how many of them are parsed
          outcome,    \* "read", "repaired", "parsed", "raised"
          groups,     \* registry.enum_groups
          enums,      \* registry.enums: from names to enums
          vendors     \* registry.vendor_namespaces
documentVars == <<document, place, outcome, groups, enums, vendors>>
parseVars == <<documentVars, added, classes, required>>

\* A document has a sequence of elements for each of the four loops: a command,
\* [group, type, vendor, start, end, enums], and the providers with what they
\* require, a sequence of [api, kind, name].
InOrder == document.commands \o document.enums \o document.features \o document.extensions
PartOf(k) == LET c == Len(document.commands)  e == c + Len(document.enums)  f == e + Len(document.features)
             IN IF k <= c THEN "command" ELSE IF k <= e THEN "enums" ELSE IF k <= f THEN "feature" ELSE "extension"

Raise == outcome' = "raised" /\ UNCHANGED <<document, place, groups, enums, vendors, added, classes, required>>

\* _repair_xml: each repair is made to the first group it is for, and what it
\* repairs must be there.
MaskGroups == {i \in DOMAIN document.enums : document.enums[i].group = "AttribMask"}
First(set) == CHOOSE i \in set : \A j \in set : i <= j
RangeGroups == {i \in DOMAIN document.enums : LET g == document.enums[i] IN
                   i # First(MaskGroups) /\ g.vendor = "ARB" /\ g.start # Absent /\ g.end # Absent /\ g.start <= BadValue /\ BadValue <= g.end}
MaskIn(s) == SelectInSeq(s, IsAllAttribBits)
BadIn(s) == SelectInSeq(s, IsBadActiveProgram)
Repairable ==
    /\ MaskGroups # {} /\ MaskIn(document.enums[First(MaskGroups)].enums) # 0
    /\ RangeGroups # {} /\ BadIn(document.enums[First(RangeGroups)].enums) # 0
WithMask(g) == [g EXCEPT !.enums[MaskIn(g.enums)].value = AllAttribValue]
WithoutBad(g) == [g EXCEPT !.enums = RemoveAt(@, BadIn(@))]
RepairedMaskOnly == [i \in DOMAIN document.enums |->
    LET g == document.enums[i] IN IF i = First(MaskGroups) THEN WithMask(g) ELSE g]
Repaired == [i \in DOMAIN document.enums |->
    LET g == document.enums[i]
    IN  IF i = First(MaskGroups) THEN WithMask(g) ELSE IF i = First(RangeGroups) THEN WithoutBad(g) ELSE g]
Repair ==
    /\ outcome = "read"
    /\ IF Repairable
       THEN /\ document' = [document EXCEPT !.enums = Repaired] /\ outcome' = "repaired"
            /\ UNCHANGED <<place, groups, enums, vendors, added, classes, required>>
       ELSE Raise

\* The next element of the loops.
Parses(part, x) ==
    /\ outcome = "repaired" /\ place < Len(InOrder)
    /\ PartOf(place + 1) = part /\ InOrder[place + 1] = x
Parsed == place' = place + 1 /\ UNCHANGED <<document, outcome>>

ParseCommand(c) ==
    /\ Parses("command", c)
    /\ AddCommand(c)
    /\ Parsed /\ UNCHANGED <<groups, enums, vendors, required>>

\* EnumGroup: without a name it has a range and gets a name and a type of its
\* own; a name without a type makes it a small index. The type "special" is for
\* a group that has no type and has been given one.
Types == {"default_namespace", "bitmask", "small_index", "special"}
InventedType(g) == IF g.group = Absent THEN "default_namespace" ELSE IF g.type = Absent THEN "small_index" ELSE g.type
GroupAccepted(g) ==
    /\ IF g.group = Absent THEN g.type = Absent /\ g.start # Absent /\ g.end # Absent
       ELSE g.type # Absent => g.group # "SpecialNumbers"
    /\ InventedType(g) \in Types

\* OrderedKeyedSet.add for each of a sequence: the last of a name.
LastNamed(seq) == {seq[i] : i \in {k \in DOMAIN seq : \A j \in DOMAIN seq : j > k => seq[j].name # seq[k].name}}
ParseEnums(g) ==
    /\ Parses("enums", g)
    /\ IF GroupAccepted(g)
       THEN LET new == LastNamed(g.enums)
            IN  /\ groups' = Append(groups, [type |-> InventedType(g), enums |-> new])
                /\ enums' = [n \in DOMAIN enums \cup {e.name : e \in new} |->
                       IF \E e \in new : e.name = n THEN CHOOSE e \in new : e.name = n ELSE enums[n]]
                /\ Parsed /\ UNCHANGED <<vendors, added, classes, required>>
       ELSE Raise

\* Feature and Extension: the required elements are looked up by name, and each
\* is linked: for the api of the feature, without a look at its own, or for its own
\* api, one of the extension's. A feature requires something.
ValidApis == {"gl", "glcore", "gles1", "gles2", "glsc2", "disabled"}
Lookup(r) == IF r.kind = "command" THEN CHOOSE c \in added : c.name = r.name ELSE enums[r.name]
Registered(r) == IF r.kind = "command" THEN \E c \in added : c.name = r.name ELSE r.name \in DOMAIN enums
ApiFor(p, r) == IF p.kind = "feature" THEN "all" ELSE r.api
Accepted(p, requires) ==
    /\ p.supported \subseteq ValidApis
    /\ \A i \in DOMAIN requires : /\ ApiFor(p, requires[i]) \in p.supported \cup {"all"}
                                  /\ Registered(requires[i])
LinkAll(p, requires) ==
    LET f[k \in 0..Len(requires)] ==
            IF k = 0 THEN required
            ELSE WithRequirement(f[k - 1], <<p, ApiFor(p, requires[k]), Lookup(requires[k])>>)
    IN  f[Len(requires)]
ParseFeature(f) ==
    /\ Parses("feature", f)
    /\ IF Accepted(f.provider, f.requires) /\ f.requires # <<>>
       THEN /\ required' = LinkAll(f.provider, f.requires)
            /\ Parsed /\ UNCHANGED <<groups, enums, vendors, added, classes>>
       ELSE Raise
ParseExtension(x) ==
    /\ Parses("extension", x)
    /\ IF Accepted(x.provider, x.requires)
       THEN /\ required' = LinkAll(x.provider, x.requires)
            /\ vendors' = vendors \cup {x.provider.vendor}
            /\ Parsed /\ UNCHANGED <<groups, enums, added, classes>>
       ELSE Raise

\* vendor_namespaces.remove(None): there is an extension of no vendor.
EndRegistry ==
    /\ outcome = "repaired" /\ place = Len(InOrder)
    /\ IF "None" \in vendors
       THEN /\ vendors' = vendors \ {"None"} /\ outcome' = "parsed"
            /\ UNCHANGED <<document, place, groups, enums, added, classes, required>>
       ELSE Raise

RegistryInit ==
    /\ document \in Documents /\ place = 0 /\ outcome = "read"
    /\ groups = <<>> /\ enums = <<>> /\ vendors = {} /\ added = {} /\ classes = <<>> /\ required = {}
RegistryNext ==
    \/ Repair \/ EndRegistry
    \/ \E x \in ToSet(InOrder) : ParseCommand(x) \/ ParseEnums(x) \/ ParseFeature(x) \/ ParseExtension(x)
RegistrySpec == RegistryInit /\ [][RegistryNext]_parseVars
--------------------------------------------------------------------------------
\* "Remove the GLES value to avoid redefinition collisions" (_repair_xml): every
\* enum of a group is the one that the registry has under its name, so that it
\* has the requirements of all providers that name it, each once and for apis
\* the provider supports; the vendors are those of the extensions; and a command
\* that is required is in a class of aliases.
RegistryIsLinked ==
    outcome = "parsed" =>
        /\ \A i \in DOMAIN groups : \A e \in groups[i].enums : enums[e.name] = e
        /\ \A p \in ToSet(document.features \o document.extensions) : \A i \in DOMAIN p.requires :
              LET links == {r \in required : r.provider = p.provider /\ r.provided = Lookup(p.requires[i])}
              IN  Cardinality(links) = 1 /\ \A r \in links : r.apis # {} /\ r.apis \subseteq p.provider.supported
        /\ vendors = {x.provider.vendor : x \in ToSet(document.extensions)} \ {"None"}
        /\ \A r \in required : r.provided \in added => r.provided \in classes[r.provided.name]
================================================================================
