----------------------------- MODULE ValueTree -----------------------------
(***************************************************************************)
(* What building a representation means: containers are opened inside each *)
(* other, an array collects values, an object collects keys and values in  *)
(* turn, and a container that is closed is a value of the one around it.   *)
(* The outermost one is the result.  Whatever is open may be abandoned.    *)
(***************************************************************************)
EXTENDS Naturals, Sequences

CONSTANTS Keys, Value, nil

VARIABLES
    open,    \* the open containers, innermost last, with their elements
    result,  \* the last complete representation
    unique   \* whether the keys of an object have to differ

vars == <<open, result, unique>>

Init == open = << >> /\ result = nil /\ unique \in BOOLEAN

Last(s) == s[Len(s)]
Even(s) == Len(s) % 2 = 0
ExpectsValue(c) == c.kind = "object" => ~Even(c.items)
Distinct(c) ==
    \A i, j \in 1..Len(c.items) :
        i # j /\ c.items[i] \in Keys => c.items[i] # c.items[j]
MayClose(c) == c.kind = "object" => Even(c.items) /\ (unique => Distinct(c))

With(containers, item) ==
    [containers EXCEPT ![Len(containers)].items = Append(@, item)]

Open(kind) ==
    /\ open # << >> => ExpectsValue(Last(open))
    /\ open' = Append(open, [kind |-> kind, items |-> << >>])
    /\ UNCHANGED <<result, unique>>

AddKey(k) ==
    /\ open # << >> /\ ~ExpectsValue(Last(open))
    /\ open' = With(open, k)
    /\ UNCHANGED <<result, unique>>

AddValue ==
    /\ open # << >> /\ ExpectsValue(Last(open))
    /\ open' = With(open, Value)
    /\ UNCHANGED <<result, unique>>

Close ==
    /\ Len(open) > 1 /\ MayClose(Last(open))
    /\ open' = With(SubSeq(open, 1, Len(open) - 1), Value)
    /\ UNCHANGED <<result, unique>>

CloseRoot ==
    /\ Len(open) = 1 /\ MayClose(Last(open))
    /\ open' = << >> /\ result' = Value
    /\ UNCHANGED unique

Abandon == open' = << >> /\ UNCHANGED <<result, unique>>
Forget == open = << >> /\ result' = nil /\ UNCHANGED <<open, unique>>

Next ==
    \/ \E kind \in {"array", "object"} : Open(kind)
    \/ \E k \in Keys : AddKey(k)
    \/ AddValue \/ Close \/ CloseRoot \/ Abandon \/ Forget

Spec == Init /\ [][Next]_vars
=============================================================================
