-------------------------------- MODULE AliasMap --------------------------------
(* registry/gl.py, CommandAliasMap: the classes of GL commands that are aliases *)
(* of each other, each class a set the map gives for every name in it. Commands *)
(* are added one by one, in whatever order gl.xml has them; a command may name  *)
(* an alias that comes later or that is no command.                             *)
EXTENDS TLC

CONSTANTS Names, NoAlias,
          Commands \* records [name, alias]

\* gl.xml: a command is declared once, and no chain of aliases comes back, so
\* that without one of the aliases its two names have nothing to do with each other.
ASSUME CommandsAssumption ==
    /\ Commands \subseteq [name : Names, alias : Names \cup {NoAlias}]
    /\ NoAlias \notin Names
    /\ \A c, d \in Commands : c.name = d.name => c = d
    /\ \A c \in Commands : c.alias # NoAlias => \E set \in SUBSET Names :
          /\ c.name \in set /\ c.alias \notin set
          /\ \A d \in Commands \ {c} : d.alias # NoAlias => (d.name \in set <=> d.alias \in set)

VARIABLES added, \* the commands added
          classes    \* from names to sets of commands
aliasVars == <<added, classes>>

NoSet == {}
Get(n) == IF n \in DOMAIN classes THEN classes[n] ELSE NoSet
NamesOf(c) == {c.name, c.alias} \ {NoAlias}

\* add; a set of the map is never empty, so that an empty one stands for None.
JoinedByName(c) == {c} \cup Get(c.name)
Joined(c) == {c} \cup Get(c.name) \cup Get(c.alias)
NamesOfAll(set) == UNION {NamesOf(d) : d \in set}
UpdateMap(set) == [n \in DOMAIN classes \cup NamesOfAll(set) |-> IF n \in NamesOfAll(set) THEN set ELSE classes[n]]
AddCommand(c) ==
    /\ added' = added \cup {c}
    /\ classes' = IF Get(c.name) = Get(c.alias) /\ Get(c.name) # NoSet THEN classes ELSE UpdateMap(Joined(c))

AliasInit == added = {} /\ classes = <<>>
AliasNext == \E c \in Commands \ added : AddCommand(c)
AliasSpec == AliasInit /\ [][AliasNext]_aliasVars
--------------------------------------------------------------------------------
\* __is_set_mapping_complete, which add asserts of the sets it finds: every name
\* of the commands of a set is mapped to this very set.
MappingComplete ==
    \A n \in DOMAIN classes : \A c \in classes[n] : \A m \in NamesOf(c) : m \in DOMAIN classes /\ classes[m] = classes[n]

\* Two names are in one class when no set of names that holds the one and, with
\* each name of an added command, the other, leaves the other name out.
Closed(set) == \A c \in added : c.alias # NoAlias => (c.name \in set <=> c.alias \in set)
Related(n, m) == \A set \in SUBSET Names : Closed(set) => (n \in set <=> m \in set)

\* "a CommandAliasSet for each equivalence class of commands" (Registry): in
\* whatever order the commands were added, two names are mapped to one set if
\* and only if a chain of aliases leads from one to the other, and the set of a
\* command holds it.
AliasClasses ==
    /\ DOMAIN classes = NamesOfAll(added)
    /\ \A n, m \in DOMAIN classes : classes[n] = classes[m] <=> Related(n, m)
    /\ \A c \in added : c \in classes[c.name]
=================================================================================
