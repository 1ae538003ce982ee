------------------------------ MODULE Variant -------------------------------
(***************************************************************************)
(* utility/variant.hpp, the discriminated union inside json::value: copy   *)
(* and move assignment, assignment of an object, emplace and swap, as the  *)
(* statements they execute.  A copy of a string or a container may throw.  *)
(* An array has one element, a variant again, so that the source of an     *)
(* assignment may be a part of its target.                                 *)
(***************************************************************************)
EXTENDS Naturals, Sequences

CONSTANTS Vars,        \* the variants
          Data,        \* the values of a type
          Throwing,    \* the types whose copy constructor may throw
          Unspecified, \* the value of an object that was moved from
          Garbage      \* what is read where no object is

VARIABLES which,   \* which_, a type
          object,  \* what storage_ holds
          tmp,     \* the local variable of __reassign_nothrow and __swap
          todo,    \* the statements still to be executed
          call,    \* the call that is, or was last, executed
          before   \* the objects at its start

vars == <<which, object, tmp, todo, call, before>>

Obj(t, d) == [type |-> t, data |-> d]
Scalars == {Obj(t, d) : t \in {"boolean", "string"}, d \in Data}
Destroyed == Obj("none", Garbage)

\* what the proofs need: the two special values are not those of an object
VariantConstants ==
  /\ Throwing \subseteq {"boolean", "string", "array"}
  /\ Garbage \notin Data \cup {Unspecified}
  /\ {Unspecified, Garbage} \cap [type : {"boolean", "string"}, data : Data \cup {Unspecified}] = {}

\* what is left where an object was moved from
Moved(o) == IF o.type = "boolean" THEN o ELSE [o EXCEPT !.data = Unspecified]
HasElement(o) == o.type = "array" /\ o.data # Unspecified

Var(v) == <<"variable", v>>
ElementOf(v) == <<"element", v>>
Argument(o) == <<"argument", o>>
Tmp == <<"tmp", "tmp">>

\* an element goes with its array; its memory is read all the same
Read(place) ==
  CASE place[1] = "variable" -> object[place[2]]
    [] place[1] = "element" -> IF HasElement(object[place[2]]) THEN object[place[2]].data
                               ELSE Destroyed
    [] place[1] = "argument" -> place[2]
    [] OTHER -> tmp
-----------------------------------------------------------------------------
NoThrow(t, how) == how = "move" \/ t \notin Throwing

Set(v, t) == [do |-> "which", v |-> v, t |-> t]
Destroy(v) == [do |-> "destroy", v |-> v]
Construct(v, t, from, how) == [do |-> "construct", v |-> v, t |-> t, from |-> from, how |-> how]
Keep(t, from, how) == [do |-> "keep", t |-> t, from |-> from, how |-> how]

\* __reassign_nothrow: what may throw comes first, on the side
Reassign(v, t, from, how) ==
  IF NoThrow(t, how) THEN <<Destroy(v), Set(v, t), Construct(v, t, from, how)>>
  ELSE <<Keep(t, from, how), Destroy(v), Set(v, t), Construct(v, t, Tmp, "move")>>

\* copy_assignment_visitor, move_assignment_visitor, operator=(T&&)
Assignment(v, t, from, how) ==
  IF which[v] = t THEN <<[do |-> "assign", v |-> v, from |-> from, how |-> how]>>
  ELSE Reassign(v, t, from, how)

EmplaceOps(v, t, from) == <<Destroy(v), Construct(v, t, from, "copy"), Set(v, t)>>

SwapOps(v, w) ==
  IF which[v] = which[w] THEN <<[do |-> "swap", v |-> v, w |-> w], [do |-> "swapWhich", v |-> v, w |-> w]>>
  ELSE <<Keep(which[v], Var(v), "move"), Destroy(v), Construct(v, which[w], Var(w), "move"),
         Destroy(w), Construct(w, which[v], Tmp, "move"), [do |-> "swapWhich", v |-> v, w |-> w]>>
-----------------------------------------------------------------------------
Fits(v) == object[v].type = which[v] /\ object[v].data # Garbage

Init ==
  /\ object \in [Vars -> Scalars \cup {Obj("array", e) : e \in Scalars}]
  /\ which = [v \in Vars |-> object[v].type]
  /\ tmp = Destroyed /\ todo = <<>> /\ before = object
  /\ call = [do |-> "none", v |-> CHOOSE v \in Vars : TRUE, from |-> Tmp, how |-> "copy", t |-> "none", threw |-> FALSE]

Begins(v, what, t, from, how, ops) ==
  /\ todo = <<>> /\ \A w \in Vars : Fits(w)
  /\ todo' = ops /\ before' = object
  /\ call' = [do |-> what, v |-> v, t |-> t, from |-> from, how |-> how, threw |-> FALSE]
  /\ UNCHANGED <<which, object, tmp>>

Assign(v, from, how) ==
  Begins(v, "assign", Read(from).type, from, how, Assignment(v, Read(from).type, from, how))
Emplace(v, o) == Begins(v, "emplace", o.type, Argument(o), "copy", EmplaceOps(v, o.type, Argument(o)))
Swap(v, w) == Begins(v, "swap", which[w], Var(w), "move", SwapOps(v, w))

\* the operations of json::value, which hands them to its variant
Call == \E v \in Vars :
  \/ \E w \in Vars, how \in {"copy", "move"} :
       Assign(v, Var(w), how) \/ (HasElement(object[w]) /\ Assign(v, ElementOf(w), how))
  \/ \E o \in Scalars, how \in {"copy", "move"} : Assign(v, Argument(o), how)
  \/ \E o \in Scalars : Emplace(v, o)
  \/ \E w \in Vars : Swap(v, w)

Statement(what) == todo # <<>> /\ Head(todo).do = what
S == Head(todo)

\* the effect of a move on its source
MoveFrom(place, objects) ==
  CASE place[1] = "variable" -> [objects EXCEPT ![place[2]] = Moved(@)]
    [] place[1] = "element" /\ HasElement(objects[place[2]]) -> [objects EXCEPT ![place[2]].data = Moved(@)]
    [] OTHER -> objects
Source(objects) == IF S.how = "move" THEN MoveFrom(S.from, objects) ELSE objects

Proceeds == todo' = Tail(todo) /\ UNCHANGED <<call, before>>

KeepTmp ==
  /\ Statement("keep")
  /\ tmp' = Obj(S.t, Read(S.from).data) /\ object' = Source(object)
  /\ Proceeds /\ UNCHANGED which

\* the visitor destroys the object that which_ names
DestroyObject ==
  /\ Statement("destroy")
  /\ object' = [object EXCEPT ![S.v] = Destroyed]
  /\ Proceeds /\ UNCHANGED <<which, tmp>>

SetWhich ==
  /\ Statement("which")
  /\ which' = [which EXCEPT ![S.v] = S.t]
  /\ Proceeds /\ UNCHANGED <<object, tmp>>

ConstructObject ==
  /\ Statement("construct")
  /\ object' = [Source(object) EXCEPT ![S.v] = Obj(S.t, Read(S.from).data)]
  /\ Proceeds /\ UNCHANGED <<which, tmp>>

AssignObject ==
  /\ Statement("assign")
  /\ object' = IF S.how = "copy" THEN [object EXCEPT ![S.v] = Read(S.from)]
               ELSE IF S.from = Var(S.v) THEN Source(object)
               ELSE [Source(object) EXCEPT ![S.v] = Read(S.from)]
  /\ Proceeds /\ UNCHANGED <<which, tmp>>

SwapObjects ==
  /\ Statement("swap")
  /\ object' = [object EXCEPT ![S.v] = object[S.w], ![S.w] = object[S.v]]
  /\ Proceeds /\ UNCHANGED <<which, tmp>>

SwapWhich ==
  /\ Statement("swapWhich")
  /\ which' = [which EXCEPT ![S.v] = which[S.w], ![S.w] = which[S.v]]
  /\ Proceeds /\ UNCHANGED <<object, tmp>>

\* a copy throws: the call is left; an assignment may leave its target with any value of the type
Throw ==
  /\ todo # <<>> /\ S.do \in {"keep", "construct", "assign"} /\ S.how = "copy" /\ Read(S.from).type \in Throwing
  /\ todo' = <<>> /\ call' = [call EXCEPT !.threw = TRUE]
  /\ object' = IF S.do = "assign" THEN [object EXCEPT ![S.v].data = Unspecified] ELSE object
  /\ UNCHANGED <<which, tmp, before>>

Next == \/ Call \/ KeepTmp \/ DestroyObject \/ SetWhich \/ ConstructObject \/ AssignObject
        \/ SwapObjects \/ SwapWhich \/ Throw

Spec == Init /\ [][Next]_vars
-----------------------------------------------------------------------------
TypeOK ==
  /\ which \in [Vars -> {"boolean", "string", "array"}]
  /\ \A v \in Vars : object[v].type \in {"boolean", "string", "array", "none"}
  /\ Len(todo) <= 6 /\ call.threw \in BOOLEAN

\* the object that the last call was to give to its target
Wanted == CASE call.from[1] = "variable" -> before[call.from[2]]
            [] call.from[1] = "element" -> before[call.from[2]].data
            [] OTHER -> call.from[2]
\* the source dies with the target's old object before it is read
ReadsOwnElement == call.from = ElementOf(call.v) /\ NoThrow(call.t, call.how)

\* Between two calls every variant holds an object of the type it names, the
\* one it was to be given; an assignment of another type that throws has changed
\* nothing; a swap exchanges.  Exactly two calls leave a variant without its
\* object: an emplace that throws, and an assignment from an element of the
\* target itself that needs no copy on the side.
HoldsObject ==
  todo = <<>> /\ call.do # "none" =>
    LET v == call.v
        spoils == (call.do = "emplace" /\ call.threw) \/ ReadsOwnElement
    IN  /\ \A w \in Vars : Fits(w) <=> ~(w = v /\ spoils)
        /\ ~call.threw /\ ~spoils /\ ~(call.how = "move" /\ call.from = Var(v)) => object[v] = Wanted
        /\ call.do = "swap" => object[call.from[2]] = before[v]
        /\ call.threw /\ call.do = "assign" /\ call.t # before[v].type => object = before
        /\ \A w \in Vars \ {v} : call.how = "copy" => object[w] = before[w]
=============================================================================
