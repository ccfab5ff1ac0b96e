------------------------------ MODULE OrderedSet ------------------------------
(* What registry/gl.py says an OrderedKeyedSet is: elements retrievable by key, *)
(* in the order in which their keys were first inserted. "Replacement does not  *)
(* alter order."                                                                *)
EXTENDS SequencesExt

CONSTANTS Keys, Values
VARIABLE items \* a sequence of <<key, value>>

KeysOf == {items[i][1] : i \in DOMAIN items}
Add(k, v) ==
    items' = IF k \in KeysOf
             THEN [i \in DOMAIN items |-> IF items[i][1] = k THEN <<k, v>> ELSE items[i]]
             ELSE Append(items, <<k, v>>)
Pop(k) == \E i \in DOMAIN items : items[i][1] = k /\ items' = RemoveAt(items, i)
Clear == items' = <<>>

Init == items = <<>>
Next == Clear \/ \E k \in Keys : Pop(k) \/ \E v \in Values : Add(k, v)
Spec == Init /\ [][Next]_items
===============================================================================
