-------------------------- MODULE PathComponents ---------------------------
(***************************************************************************)
(* intrusive_json_path.hpp: the path to a value as a vector of components, *)
(* the root, then a key for each object and an index for each array.       *)
(***************************************************************************)
EXTENDS Naturals, Sequences

CONSTANTS Keys,      \* sequences of characters
          Indices, MaxLevel

VARIABLE components

Root == [kind |-> "root"]
Index(i) == [kind |-> "index", index |-> i]
Key(k) == [kind |-> "key", key |-> k]

Back == components[Len(components)]
SetBack(c) == components' = [components EXCEPT ![Len(components)] = c]
Push(c) == Len(components) <= MaxLevel /\ components' = Append(components, c)

Init == components = <<Root>>

push_index == \E i \in Indices : Push(Index(i))
back_index == \E i \in Indices : components # <<>> /\ Back.kind = "index" /\ SetBack(Index(i))
push_key == \E k \in Keys : Push(Key(k))
back_key == \E k \in Keys : components # <<>> /\ Back.kind = "key" /\ SetBack(Key(k))

\* the root may be popped
pop_component == components # <<>> /\ components' = SubSeq(components, 1, Len(components) - 1)
clear == components' = <<Root>>

Next == push_index \/ back_index \/ push_key \/ back_key \/ pop_component \/ clear

Spec == Init /\ [][Next]_components
=============================================================================
