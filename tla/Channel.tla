------------------------------ MODULE Channel ------------------------------
(***************************************************************************)
(* What a client may rely on: a channel with at most one item in flight.   *)
(* An item is offered into an empty channel and leaves it exactly once,    *)
(* for the thread that took it, so nothing is lost, duplicated, overtaken  *)
(* or invented.  A thread may look at the item and commit it later.        *)
(***************************************************************************)
CONSTANTS Threads, Items, DefaultItem

VARIABLES
    slot,  \* the set of items in flight, at most one
    got    \* what each thread received last

vars == <<slot, got>>

Init == slot = {} /\ got = [t \in Threads |-> DefaultItem]

Offer(v) == slot = {} /\ slot' = {v} /\ UNCHANGED got

Look(t) ==
    /\ \E v \in slot : got' = [got EXCEPT ![t] = v]
    /\ UNCHANGED slot

Take(t) ==
    /\ \E v \in slot : got' = [got EXCEPT ![t] = v]
    /\ slot' = {}

\* Remove the item that was looked at.
Remove(t) == slot = {got[t]} /\ slot' = {} /\ UNCHANGED got

Miss(t) == got' = [got EXCEPT ![t] = DefaultItem] /\ UNCHANGED slot

Next ==
    \/ \E v \in Items : Offer(v)
    \/ \E t \in Threads : Look(t) \/ Take(t) \/ Remove(t) \/ Miss(t)

Spec == Init /\ [][Next]_vars
=============================================================================
