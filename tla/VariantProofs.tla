---------------------------- MODULE VariantProofs ----------------------------
(***************************************************************************)
(* Proofs about Variant: what every variant holds between two calls, for   *)
(* any number of variants, any values and any types whose copies throw.    *)
(*                                                                         *)
(* The invariant says, for every call and every statement of it that is    *)
(* still to be executed, what the variants hold there: what they held at   *)
(* its start (before), but for the target and the other operand of a swap. *)
(*                                                                         *)
(* And about JsonValue: that a value says what it holds, and holds what it *)
(* was given, for any policies.                                            *)
(***************************************************************************)
EXTENDS Variant, Integers, TLAPS

Types == {"boolean", "string", "array"}
Scalar == [type : {"boolean", "string"}, data : Data \cup {Unspecified}]
Values == Scalar \cup [type : {"array"}, data : Scalar \cup {Unspecified}]
Places == {Var(w) : w \in Vars} \cup {ElementOf(w) : w \in Vars} \cup {Argument(o) : o \in Scalars}

Target == call.v
Peer == call.from[2]          \* of a swap
Kinds == [w \in Vars |-> before[w].type]
Aside == ~NoThrow(call.t, call.how)

\* the statements of the call
D == Destroy(Target)
W == Set(Target, call.t)
C == Construct(Target, call.t, call.from, call.how)
K == Keep(call.t, call.from, call.how)
FromTmp == Construct(Target, call.t, Tmp, "move")
A == [do |-> "assign", v |-> Target, from |-> call.from, how |-> call.how]

Untouched == object = before /\ which = Kinds
Without == object = [before EXCEPT ![Target] = Destroyed]

Assigning ==
  /\ call.do = "assign" /\ before[Target].type = call.t
  /\ todo = <<A>> /\ Untouched

Reassigning ==
  /\ call.do = "assign" /\ before[Target].type # call.t /\ ~Aside
  /\ \/ todo = <<D, W, C>> /\ Untouched
     \/ todo = <<W, C>> /\ Without /\ which = Kinds
     \/ todo = <<C>> /\ Without /\ which = [Kinds EXCEPT ![Target] = call.t]

ReassigningAside ==
  /\ call.do = "assign" /\ before[Target].type # call.t /\ Aside
  /\ \/ todo = <<K, D, W, FromTmp>> /\ Untouched
     \/ todo = <<D, W, FromTmp>> /\ tmp = Wanted /\ Untouched
     \/ todo = <<W, FromTmp>> /\ tmp = Wanted /\ Without /\ which = Kinds
     \/ todo = <<FromTmp>> /\ tmp = Wanted /\ Without /\ which = [Kinds EXCEPT ![Target] = call.t]

Emplacing ==
  /\ call.do = "emplace" /\ which = Kinds
  /\ \/ todo = <<D, C, W>> /\ object = before
     \/ todo = <<C, W>> /\ Without
     \/ todo = <<W>> /\ object = [before EXCEPT ![Target] = Wanted]

\* the statements of a swap of objects of different types
KeepTarget == Keep(before[Target].type, Var(Target), "move")
TakePeer == Construct(Target, before[Peer].type, Var(Peer), "move")
TakeTmp == Construct(Peer, before[Target].type, Tmp, "move")
Exchange == [do |-> "swapWhich", v |-> Target, w |-> Peer]
Exchanged == [before EXCEPT ![Target] = before[Peer], ![Peer] = before[Target]]

SwappingSame ==
  /\ call.do = "swap" /\ before[Target].type = before[Peer].type /\ which = Kinds
  /\ \/ todo = <<[do |-> "swap", v |-> Target, w |-> Peer], Exchange>> /\ object = before
     \/ todo = <<Exchange>> /\ object = Exchanged

SwappingOther ==
  /\ call.do = "swap" /\ before[Target].type # before[Peer].type /\ which = Kinds
  /\ \/ todo = <<KeepTarget, D, TakePeer, Destroy(Peer), TakeTmp, Exchange>> /\ object = before
     \/ /\ todo = <<D, TakePeer, Destroy(Peer), TakeTmp, Exchange>> /\ tmp = before[Target]
        /\ object = [before EXCEPT ![Target] = Moved(before[Target])]
     \/ /\ todo = <<TakePeer, Destroy(Peer), TakeTmp, Exchange>> /\ tmp = before[Target]
        /\ Without
     \/ /\ todo = <<Destroy(Peer), TakeTmp, Exchange>> /\ tmp = before[Target]
        /\ object = [before EXCEPT ![Target] = before[Peer], ![Peer] = Moved(before[Peer])]
     \/ /\ todo = <<TakeTmp, Exchange>> /\ tmp = before[Target]
        /\ object = [before EXCEPT ![Target] = before[Peer], ![Peer] = Destroyed]
     \/ todo = <<Exchange>> /\ object = Exchanged

CallInv ==
  /\ call \in [do : {"assign", "emplace", "swap"}, v : Vars, t : Types, from : Places, how : {"copy", "move"},
               threw : {FALSE}]
  /\ before \in [Vars -> Values]
  /\ Wanted \in Values /\ call.t = Wanted.type
  /\ \A w \in Vars : call.from = ElementOf(w) => HasElement(before[w])
  /\ call.do = "emplace" => call.from[1] = "argument" /\ call.how = "copy"
  /\ call.do = "swap" => call.from[1] = "variable" /\ call.how = "move"

Busy == CallInv /\ (Assigning \/ Reassigning \/ ReassigningAside \/ Emplacing \/ SwappingSame \/ SwappingOther)

\* what lies where no object is
Remains == [type : Types \cup {"none"}, data : {Garbage}]

TypeInv ==
  /\ which \in [Vars -> Types]
  /\ object \in [Vars -> Values \cup Remains]
  /\ call.threw \in BOOLEAN

IInv == TypeInv /\ (IF todo = <<>> THEN HoldsObject ELSE Busy)
-----------------------------------------------------------------------------
\* Values: what fits, and what a move leaves.
LEMMA ValueFacts ==
  ASSUME VariantConstants, NEW o \in Values
  PROVE  /\ o.type \in Types /\ o.data # Garbage /\ o = Obj(o.type, o.data)
         /\ Moved(o) \in Values /\ Moved(o).type = o.type
         /\ HasElement(o) => o.data \in Scalar /\ o.data \in Values /\ o.data.type # "array"
                             /\ [o EXCEPT !.data = Moved(@)] \in Values
                             /\ [o EXCEPT !.data = Moved(@)].type = o.type
         /\ Obj(o.type, Unspecified) \in Values
<1>1. CASE o \in Scalar
  <2>1. o.type \in {"boolean", "string"} /\ o.data \in Data \cup {Unspecified} /\ o = [type |-> o.type, data |-> o.data]
    BY <1>1 DEF Scalar
  <2>2. o.data # Garbage /\ ~HasElement(o)
    BY <2>1 DEF VariantConstants, HasElement
  <2>3. Moved(o) \in Scalar /\ Moved(o).type = o.type
    BY <2>1 DEF Moved, Scalar
  <2>4. Obj(o.type, Unspecified) \in Scalar
    BY <2>1 DEF Obj, Scalar
  <2> QED BY <2>1, <2>2, <2>3, <2>4 DEF Values, Types, Obj
<1>2. CASE o \in [type : {"array"}, data : Scalar \cup {Unspecified}]
  <2>1. o.type = "array" /\ o.data \in Scalar \cup {Unspecified} /\ o = [type |-> "array", data |-> o.data]
    BY <1>2
  <2>2. Garbage \notin Scalar /\ Unspecified \notin Scalar /\ Garbage # Unspecified
    BY DEF VariantConstants, Scalar
  <2>3. Moved(o) = [type |-> "array", data |-> Unspecified]
    BY <2>1 DEF Moved
  <2>4. ASSUME HasElement(o)
        PROVE  o.data \in Scalar /\ o.data.type # "array" /\ [o EXCEPT !.data = Moved(@)] \in Values
               /\ [o EXCEPT !.data = Moved(@)].type = o.type
    <3>1. o.data \in Scalar
      BY <2>1, <2>4 DEF HasElement
    <3>2. o.data.type \in {"boolean", "string"}
      BY <3>1 DEF Scalar
    <3>3. Moved(o.data) \in Scalar
      BY <3>1, <3>2 DEF Moved, Scalar
    <3>4. [o EXCEPT !.data = Moved(@)] = [type |-> "array", data |-> Moved(o.data)]
      BY <2>1
    <3> QED BY <2>1, <3>1, <3>2, <3>3, <3>4 DEF Values
  <2> QED BY <2>1, <2>2, <2>3, <2>4 DEF Values, Types, Obj
<1> QED BY <1>1, <1>2 DEF Values

LEMMA ScalarsAreValues == ASSUME NEW o \in Scalars PROVE o \in Values /\ o.type \in {"boolean", "string"}
BY DEF Scalars, Obj, Values, Scalar
-----------------------------------------------------------------------------
\* A statement that ran, and the throw of a copy.
Runs == todo' = Tail(todo) /\ UNCHANGED <<call, before>>
Throws ==
  /\ Head(todo).how = "copy" /\ Read(Head(todo).from).type \in Throwing
  /\ todo' = <<>> /\ call' = [call EXCEPT !.threw = TRUE] /\ UNCHANGED <<which, tmp, before>>

\* One statement is executed at a time: the first of those that are left.
LEMMA Busiest == ASSUME todo # <<>>, Next PROVE ~Call
BY DEF Call, Assign, Emplace, Swap, Begins

LEMMA Destroys ==
  ASSUME todo # <<>>, Head(todo).do = "destroy", Next
  PROVE  Runs /\ object' = [object EXCEPT ![Head(todo).v] = Destroyed] /\ UNCHANGED <<which, tmp>>
BY Busiest DEF Next, KeepTmp, DestroyObject, SetWhich, ConstructObject, AssignObject, SwapObjects, SwapWhich, Throw,
   Statement, S, Proceeds, Runs

LEMMA Sets ==
  ASSUME todo # <<>>, Head(todo).do = "which", Next
  PROVE  Runs /\ which' = [which EXCEPT ![Head(todo).v] = Head(todo).t] /\ UNCHANGED <<object, tmp>>
BY Busiest DEF Next, KeepTmp, DestroyObject, SetWhich, ConstructObject, AssignObject, SwapObjects, SwapWhich, Throw,
   Statement, S, Proceeds, Runs

LEMMA SwapsObjects ==
  ASSUME todo # <<>>, Head(todo).do = "swap", Next
  PROVE  /\ Runs /\ UNCHANGED <<which, tmp>>
         /\ object' = [object EXCEPT ![Head(todo).v] = object[Head(todo).w], ![Head(todo).w] = object[Head(todo).v]]
BY Busiest DEF Next, KeepTmp, DestroyObject, SetWhich, ConstructObject, AssignObject, SwapObjects, SwapWhich, Throw,
   Statement, S, Proceeds, Runs

LEMMA SwapsWhich ==
  ASSUME todo # <<>>, Head(todo).do = "swapWhich", Next
  PROVE  /\ Runs /\ UNCHANGED <<object, tmp>>
         /\ which' = [which EXCEPT ![Head(todo).v] = which[Head(todo).w], ![Head(todo).w] = which[Head(todo).v]]
BY Busiest DEF Next, KeepTmp, DestroyObject, SetWhich, ConstructObject, AssignObject, SwapObjects, SwapWhich, Throw,
   Statement, S, Proceeds, Runs

LEMMA Keeps ==
  ASSUME todo # <<>>, Head(todo).do = "keep", Next
  PROVE  \/ /\ Runs /\ tmp' = Obj(Head(todo).t, Read(Head(todo).from).data) /\ object' = Source(object)
            /\ which' = which
         \/ Throws /\ object' = object
BY Busiest DEF Next, KeepTmp, DestroyObject, SetWhich, ConstructObject, AssignObject, SwapObjects, SwapWhich, Throw,
   Statement, S, Proceeds, Runs, Throws

LEMMA Constructs ==
  ASSUME todo # <<>>, Head(todo).do = "construct", Next
  PROVE  \/ /\ Runs /\ UNCHANGED <<which, tmp>>
            /\ object' = [Source(object) EXCEPT ![Head(todo).v] = Obj(Head(todo).t, Read(Head(todo).from).data)]
         \/ Throws /\ object' = object
BY Busiest DEF Next, KeepTmp, DestroyObject, SetWhich, ConstructObject, AssignObject, SwapObjects, SwapWhich, Throw,
   Statement, S, Proceeds, Runs, Throws

LEMMA Assigns ==
  ASSUME todo # <<>>, Head(todo).do = "assign", Next
  PROVE  \/ /\ Runs /\ UNCHANGED <<which, tmp>>
            /\ object' = IF Head(todo).how = "copy" THEN [object EXCEPT ![Head(todo).v] = Read(Head(todo).from)]
                         ELSE IF Head(todo).from = Var(Head(todo).v) THEN Source(object)
                         ELSE [Source(object) EXCEPT ![Head(todo).v] = Read(Head(todo).from)]
         \/ Throws /\ object' = [object EXCEPT ![Head(todo).v].data = Unspecified]
BY Busiest DEF Next, KeepTmp, DestroyObject, SetWhich, ConstructObject, AssignObject, SwapObjects, SwapWhich, Throw,
   Statement, S, Proceeds, Runs, Throws

\* What is left of the statements.
LEMMA Tails ==
  ASSUME NEW a, NEW b, NEW c, NEW d, NEW e, NEW f
  PROVE  /\ Tail(<<a>>) = <<>> /\ Tail(<<a, b>>) = <<b>> /\ Tail(<<a, b, c>>) = <<b, c>>
         /\ Tail(<<a, b, c, d>>) = <<b, c, d>> /\ Tail(<<a, b, c, d, e>>) = <<b, c, d, e>>
         /\ Tail(<<a, b, c, d, e, f>>) = <<b, c, d, e, f>>
OBVIOUS
LEMMA Heads ==
  ASSUME NEW a, NEW b, NEW c, NEW d, NEW e, NEW f
  PROVE  /\ Head(<<a>>) = a /\ Head(<<a, b>>) = a /\ Head(<<a, b, c>>) = a /\ Head(<<a, b, c, d>>) = a
         /\ Head(<<a, b, c, d, e>>) = a /\ Head(<<a, b, c, d, e, f>>) = a
         /\ <<a>> # <<>> /\ <<a, b>> # <<>> /\ <<a, b, c>> # <<>> /\ <<a, b, c, d>> # <<>>
         /\ <<a, b, c, d, e>> # <<>> /\ <<a, b, c, d, e, f>> # <<>>
OBVIOUS
LEMMA Lengths ==
  ASSUME NEW a, NEW b, NEW c, NEW d, NEW e, NEW f
  PROVE  /\ Len(<<a>>) <= 6 /\ Len(<<a, b>>) <= 6 /\ Len(<<a, b, c>>) <= 6 /\ Len(<<a, b, c, d>>) <= 6
         /\ Len(<<a, b, c, d, e>>) <= 6 /\ Len(<<a, b, c, d, e, f>>) <= 6
OBVIOUS
-----------------------------------------------------------------------------
\* Where the object that the call is to give comes from.
LEMMA FromCases ==
  ASSUME CallInv
  PROVE  \/ \E w \in Vars : call.from = Var(w) /\ Wanted = before[w]
         \/ \E w \in Vars : call.from = ElementOf(w) /\ HasElement(before[w]) /\ Wanted = before[w].data
         \/ \E o \in Scalars : call.from = Argument(o) /\ Wanted = o
<1>1. call.from \in Places
  BY DEF CallInv
<1>2. ASSUME NEW w \in Vars, call.from = Var(w) PROVE Wanted = before[w]
  BY <1>2 DEF Wanted, Var
<1>3. ASSUME NEW w \in Vars, call.from = ElementOf(w) PROVE HasElement(before[w]) /\ Wanted = before[w].data
  BY <1>3 DEF Wanted, ElementOf, CallInv
<1>4. ASSUME NEW o \in Scalars, call.from = Argument(o) PROVE Wanted = o
  BY <1>4 DEF Wanted, Argument
<1> QED BY <1>1, <1>2, <1>3, <1>4 DEF Places

\* What is read where.
LEMMA ReadVar == ASSUME NEW w PROVE Read(Var(w)) = object[w]
BY DEF Read, Var
LEMMA ReadElement == ASSUME NEW w PROVE Read(ElementOf(w)) = IF HasElement(object[w]) THEN object[w].data ELSE Destroyed
BY DEF Read, ElementOf
LEMMA ReadArgument == ASSUME NEW o PROVE Read(Argument(o)) = o
BY DEF Read, Argument
LEMMA ReadTmp == Read(Tmp) = tmp
BY DEF Read, Tmp

\* The places differ.
LEMMA PlacesDiffer ==
  ASSUME NEW w, NEW x, NEW o
  PROVE  /\ Var(w) # ElementOf(x) /\ Var(w) # Argument(o) /\ ElementOf(w) # Argument(o) /\ Var(w) # Tmp
         /\ ElementOf(w) # Tmp /\ Argument(o) # Tmp
         /\ (Var(w) = Var(x) => w = x) /\ (ElementOf(w) = ElementOf(x) => w = x)
         /\ Var(w)[1] = "variable" /\ ElementOf(w)[1] = "element" /\ Argument(o)[1] = "argument" /\ Var(w)[2] = w
BY DEF Var, ElementOf, Argument, Tmp

\* What is read is what is wanted, as long as the source is untouched.
LEMMA ReadsWanted ==
  ASSUME CallInv,
         \A w \in Vars : call.from \in {Var(w), ElementOf(w)} => object[w] = before[w]
  PROVE  Read(call.from) = Wanted
<1>1. CASE \E w \in Vars : call.from = Var(w) /\ Wanted = before[w]
  BY <1>1, ReadVar
<1>2. CASE \E w \in Vars : call.from = ElementOf(w) /\ HasElement(before[w]) /\ Wanted = before[w].data
  BY <1>2, ReadElement
<1>3. CASE \E o \in Scalars : call.from = Argument(o) /\ Wanted = o
  BY <1>3, ReadArgument
<1> QED BY <1>1, <1>2, <1>3, FromCases

\* What a move does to its source.
LEMMA MovesFrom ==
  ASSUME NEW w, NEW o, NEW objects
  PROVE  /\ MoveFrom(Var(w), objects) = [objects EXCEPT ![w] = Moved(@)]
         /\ MoveFrom(ElementOf(w), objects) = IF HasElement(objects[w]) THEN [objects EXCEPT ![w].data = Moved(@)] ELSE objects
         /\ MoveFrom(Argument(o), objects) = objects /\ MoveFrom(Tmp, objects) = objects
BY DEF MoveFrom, Var, ElementOf, Argument, Tmp

\* The source of a call stays an object of its type, and nothing else changes.
LEMMA SourceKeepsType ==
  ASSUME VariantConstants, CallInv, NEW objects \in [Vars -> Values \cup Remains],
         \A w \in Vars : call.from \in {Var(w), ElementOf(w)} => objects[w] = before[w]
  PROVE  /\ MoveFrom(call.from, objects) \in [Vars -> Values \cup Remains]
         /\ \A w \in Vars : IF call.from \in {Var(w), ElementOf(w)}
                            THEN MoveFrom(call.from, objects)[w] \in Values
                                 /\ MoveFrom(call.from, objects)[w].type = before[w].type
                            ELSE MoveFrom(call.from, objects)[w] = objects[w]
<1> DEFINE moved == MoveFrom(call.from, objects)
<1>1. before \in [Vars -> Values]
  BY DEF CallInv
<1>2. ASSUME NEW w \in Vars, call.from = Var(w)
      PROVE  /\ moved \in [Vars -> Values \cup Remains] /\ moved[w] \in Values /\ moved[w].type = before[w].type
             /\ \A x \in Vars \ {w} : moved[x] = objects[x]
  <2>1. moved = [objects EXCEPT ![w] = Moved(before[w])]
    BY <1>2, MovesFrom
  <2>2. Moved(before[w]) \in Values /\ Moved(before[w]).type = before[w].type
    BY <1>1, ValueFacts
  <2> HIDE DEF moved
  <2> QED BY <2>1, <2>2
<1>3. ASSUME NEW w \in Vars, call.from = ElementOf(w), HasElement(before[w])
      PROVE  /\ moved \in [Vars -> Values \cup Remains] /\ moved[w] \in Values /\ moved[w].type = before[w].type
             /\ \A x \in Vars \ {w} : moved[x] = objects[x]
  <2> DEFINE o == [before[w] EXCEPT !.data = Moved(@)]
  <2>1. objects[w] = before[w]
    BY <1>3
  <2>2. moved = [objects EXCEPT ![w] = o]
    <3>1. MoveFrom(ElementOf(w), objects) = IF HasElement(objects[w]) THEN [objects EXCEPT ![w].data = Moved(@)] ELSE objects
      BY MovesFrom
    <3>2. moved = [objects EXCEPT ![w].data = Moved(@)]
      BY <1>3, <2>1, <3>1
    <3> QED BY <2>1, <3>2
  <2>3. o \in Values /\ o.type = before[w].type
    BY <1>1, <1>3, ValueFacts
  <2> HIDE DEF moved, o
  <2> QED BY <2>2, <2>3
<1>4. ASSUME NEW o \in Scalars, call.from = Argument(o) PROVE moved = objects
  <2>1. MoveFrom(Argument(o), objects) = objects
    BY MovesFrom
  <2> QED BY <1>4, <2>1
<1>5. \A w \in Vars, x \in Vars : (Var(w) = Var(x) => w = x) /\ (ElementOf(w) = ElementOf(x) => w = x) /\ Var(w) # ElementOf(x)
  BY PlacesDiffer
<1>6. \A w \in Vars, o \in Scalars : Argument(o) # Var(w) /\ Argument(o) # ElementOf(w)
  BY PlacesDiffer
<1> HIDE DEF moved
<1>7. CASE \E w \in Vars : call.from = Var(w) /\ Wanted = before[w]
  <2>1. PICK w \in Vars : call.from = Var(w)
    BY <1>7
  <2>2. \A x \in Vars : call.from \in {Var(x), ElementOf(x)} <=> x = w
    BY <1>5, <2>1
  <2> QED BY <1>2, <2>1, <2>2 DEF moved
<1>8. CASE \E w \in Vars : call.from = ElementOf(w) /\ HasElement(before[w]) /\ Wanted = before[w].data
  <2>1. PICK w \in Vars : call.from = ElementOf(w) /\ HasElement(before[w])
    BY <1>8
  <2>2. \A x \in Vars : call.from \in {Var(x), ElementOf(x)} <=> x = w
    BY <1>5, <2>1
  <2> QED BY <1>3, <2>1, <2>2 DEF moved
<1>9. CASE \E o \in Scalars : call.from = Argument(o) /\ Wanted = o
  <2>1. \A x \in Vars : call.from \notin {Var(x), ElementOf(x)}
    BY <1>6, <1>9
  <2> QED BY <1>4, <1>9, <2>1 DEF moved
<1> QED BY <1>7, <1>8, <1>9, FromCases

\* HoldsObject of a call, of the objects and the types it ends with and began with.
WantedOf(c, start) == CASE c.from[1] = "variable" -> start[c.from[2]]
                        [] c.from[1] = "element" -> start[c.from[2]].data
                        [] OTHER -> c.from[2]
Spoils(c) == (c.do = "emplace" /\ c.threw) \/ (c.from = ElementOf(c.v) /\ NoThrow(c.t, c.how))
Whole(o, t) == o.type = t /\ o.data # Garbage
Holds(c, end, types, start) ==
  /\ \A w \in Vars : Whole(end[w], types[w]) <=> ~(w = c.v /\ Spoils(c))
  /\ ~c.threw /\ ~Spoils(c) /\ ~(c.how = "move" /\ c.from = Var(c.v)) => end[c.v] = WantedOf(c, start)
  /\ c.do = "swap" => end[c.from[2]] = start[c.v]
  /\ c.threw /\ c.do = "assign" /\ c.t # start[c.v].type => end = start
  /\ \A w \in Vars \ {c.v} : c.how = "copy" => end[w] = start[w]

LEMMA HoldsIs == HoldsObject <=> (todo = <<>> /\ call.do # "none" => Holds(call, object, which, before))
<1>1. Wanted = WantedOf(call, before)
  BY DEF Wanted, WantedOf
<1>2. \A w : Fits(w) <=> Whole(object[w], which[w])
  BY DEF Fits, Whole
<1>3. ((call.do = "emplace" /\ call.threw) \/ ReadsOwnElement) <=> Spoils(call)
  BY DEF Spoils, ReadsOwnElement
<1> QED BY Zenon, <1>1, <1>2, <1>3 DEF HoldsObject, Holds

LEMMA EndHolds == Holds(call, object, which, before)' => HoldsObject'
BY HoldsIs, PTL

\* What a call is left with: after its last statement, when the source died with
\* the target's old object, and when a copy threw.
LEMMA EndsWell ==
  ASSUME VariantConstants, NEW c, NEW end, NEW types, NEW start,
         ~c.threw, c.v \in Vars, ~(c.from = ElementOf(c.v) /\ NoThrow(c.t, c.how)),
         \A w \in Vars : end[w] \in Values /\ end[w].type = types[w],
         ~(c.how = "move" /\ c.from = Var(c.v)) => end[c.v] = WantedOf(c, start),
         c.do = "swap" => end[c.from[2]] = start[c.v],
         c.how = "copy" => \A w \in Vars \ {c.v} : end[w] = start[w]
  PROVE  Holds(c, end, types, start)
<1>1. \A w \in Vars : Whole(end[w], types[w])
  BY ValueFacts DEF Whole
<1>2. ~Spoils(c)
  BY Zenon DEF Spoils
<1> QED BY Zenon, <1>1, <1>2 DEF Holds

LEMMA EndsSpoiled ==
  ASSUME VariantConstants, NEW c, NEW end, NEW types, NEW start \in [Vars -> Values],
         ~c.threw, c.do = "assign", c.v \in Vars, c.from = ElementOf(c.v), NoThrow(c.t, c.how),
         end[c.v].data = Garbage,
         \A w \in Vars \ {c.v} : end[w] = start[w] /\ types[w] = start[w].type
  PROVE  Holds(c, end, types, start)
<1>1. \A w \in Vars : start[w].data # Garbage
  BY ValueFacts
<1>2. \A w \in Vars : Whole(end[w], types[w]) <=> ~(w = c.v)
  BY <1>1 DEF Whole
<1>3. Spoils(c)
  BY Zenon DEF Spoils
<1>4. c.do # "swap"
  OBVIOUS
<1> QED BY Zenon, <1>2, <1>3, <1>4 DEF Holds

LEMMA EndsThrown ==
  ASSUME VariantConstants, NEW c, NEW end, NEW types, NEW start \in [Vars -> Values],
         c.threw, c.do \in {"assign", "emplace"}, c.v \in Vars, ~(c.from = ElementOf(c.v) /\ NoThrow(c.t, c.how)),
         c.do = "emplace" => end[c.v].data = Garbage,
         c.do = "assign" => end[c.v] \in Values /\ end[c.v].type = types[c.v],
         \A w \in Vars \ {c.v} : end[w] = start[w] /\ types[w] = start[w].type,
         c.do = "assign" /\ c.t # start[c.v].type => end = start
  PROVE  Holds(c, end, types, start)
<1>1. \A w \in Vars : start[w].data # Garbage
  BY ValueFacts
<1>2. \A w \in Vars \ {c.v} : Whole(end[w], types[w])
  BY <1>1 DEF Whole
<1>3. Whole(end[c.v], types[c.v]) <=> c.do # "emplace"
  BY ValueFacts DEF Whole
<1>4. Spoils(c) <=> c.do = "emplace"
  BY Zenon DEF Spoils
<1>5. c.do # "swap"
  OBVIOUS
<1> QED BY Zenon, <1>2, <1>3, <1>4, <1>5 DEF Holds
-----------------------------------------------------------------------------
\* A call goes on, or ends.
LEMMA Same ==
  ASSUME call' = call, before' = before
  PROVE  /\ D' = D /\ W' = W /\ C' = C /\ K' = K /\ FromTmp' = FromTmp /\ A' = A
         /\ KeepTarget' = KeepTarget /\ TakePeer' = TakePeer /\ TakeTmp' = TakeTmp /\ Exchange' = Exchange
         /\ Target' = Target /\ Peer' = Peer /\ Kinds' = Kinds /\ Exchanged' = Exchanged /\ Wanted' = Wanted
         /\ Aside' = Aside
BY DEF D, W, C, K, FromTmp, A, KeepTarget, TakePeer, TakeTmp, Exchange, Target, Peer, Kinds, Exchanged, Wanted, Aside,
   Destroy, Set, Construct, Keep, NoThrow

LEMMA CallGoesOn == ASSUME CallInv, call' = call, before' = before PROVE CallInv'
BY Same DEF CallInv

LEMMA CallFacts ==
  ASSUME CallInv
  PROVE  /\ Target \in Vars /\ before[Target] \in Values /\ call.t \in Types /\ ~call.threw
         /\ Wanted \in Values /\ Wanted = Obj(call.t, Wanted.data)
         /\ WantedOf(call, before) = Wanted /\ call.v = Target
         /\ before = [w \in Vars |-> before[w]] /\ before \in [Vars -> Values]
         /\ Destroyed \in Remains /\ Obj(call.t, Garbage) \in Remains
         /\ Destroyed.data = Garbage /\ Destroyed.type = "none"
         /\ [before EXCEPT ![Target] = Destroyed] \in [Vars -> Values \cup Remains]
<1>1. Target \in Vars /\ before \in [Vars -> Values] /\ call.t \in Types /\ ~call.threw
  BY DEF CallInv, Target
<1>2. Destroyed \in Remains /\ Obj(call.t, Garbage) \in Remains /\ Destroyed.data = Garbage /\ Destroyed.type = "none"
  BY <1>1 DEF Destroyed, Remains, Obj
<1>3. WantedOf(call, before) = Wanted
  BY DEF Wanted, WantedOf
<1>4. Wanted \in Values /\ Wanted = Obj(call.t, Wanted.data)
  <2>1. Wanted \in Values /\ call.t = Wanted.type
    BY DEF CallInv
  <2> QED BY <2>1 DEF Values, Scalar, Obj
<1>5. [before EXCEPT ![Target] = Destroyed] \in [Vars -> Values \cup Remains]
  BY <1>1, <1>2
<1> QED BY <1>1, <1>2, <1>3, <1>4, <1>5 DEF Target

LEMMA Thrown ==
  ASSUME CallInv, NEW c, c = [call EXCEPT !.threw = TRUE]
  PROVE  /\ c.threw /\ c.do = call.do /\ c.v = Target /\ c.from = call.from /\ c.how = call.how /\ c.t = call.t
         /\ c.threw \in BOOLEAN
BY DEF CallInv, Target

LEMMA Returns ==
  ASSUME call' = call, before' = before, Holds(call, object', which', before)
  PROVE  HoldsObject'
BY EndHolds
LEMMA Leaves ==
  ASSUME before' = before, Holds(call', object', which', before)
  PROVE  HoldsObject'
BY EndHolds
-----------------------------------------------------------------------------
\* The stages of a call: what each statement leads to.
LEMMA AssigningStep ==
  ASSUME VariantConstants, TypeInv, CallInv, Assigning, Next PROVE IInv'
<1>1. todo = <<A>> /\ todo # <<>> /\ Head(todo) = A /\ Tail(todo) = <<>> /\ A.do = "assign" /\ A.v = Target
      /\ A.from = call.from /\ A.how = call.how
  BY Heads, Tails DEF Assigning, A
<1>2. object = before /\ which = Kinds /\ call.do = "assign" /\ before[Target].type = call.t
  BY DEF Assigning, Untouched
<1>3. Read(call.from) = Wanted
  BY <1>2, ReadsWanted
<1>4. before[Target].type \in Types /\ [before[Target] EXCEPT !.data = Unspecified] \in Values
      /\ [before[Target] EXCEPT !.data = Unspecified].type = before[Target].type
  <2>1. before[Target] = Obj(before[Target].type, before[Target].data) /\ Obj(before[Target].type, Unspecified) \in Values
        /\ before[Target].type \in Types
    BY CallFacts, ValueFacts
  <2> QED BY <2>1 DEF Obj
<1>5. call.from # ElementOf(Target)
  <2> SUFFICES ASSUME call.from = ElementOf(Target) PROVE FALSE
    OBVIOUS
  <2>1. HasElement(before[Target]) /\ Wanted = before[Target].data
    BY CallFacts, FromCases, PlacesDiffer
  <2>2. before[Target].data.type # "array"
    BY <2>1, CallFacts, ValueFacts
  <2>3. before[Target].type = "array"
    BY <2>1 DEF HasElement
  <2>4. call.t = Wanted.type
    BY DEF CallInv
  <2> QED BY <1>2, <2>1, <2>2, <2>3, <2>4
<1>6. \A w \in Vars : Kinds[w] = before[w].type
  BY DEF Kinds
<1>7. CASE /\ Runs /\ UNCHANGED <<which, tmp>>
           /\ object' = IF A.how = "copy" THEN [object EXCEPT ![A.v] = Read(A.from)]
                        ELSE IF A.from = Var(A.v) THEN Source(object)
                        ELSE [Source(object) EXCEPT ![A.v] = Read(A.from)]
  <2>1. call' = call /\ before' = before /\ todo' = <<>> /\ which' = Kinds
    BY <1>1, <1>2, <1>7 DEF Runs
  <2> DEFINE moved == MoveFrom(call.from, before)
  <2>2. moved \in [Vars -> Values \cup Remains] /\ \A w \in Vars : moved[w] \in Values /\ moved[w].type = before[w].type
    <3>1. before \in [Vars -> Values \cup Remains]
      BY CallFacts
    <3> QED BY <1>2, <3>1, CallFacts, SourceKeepsType
  <2>3. object' = IF call.how = "copy" THEN [before EXCEPT ![Target] = Wanted]
                  ELSE IF call.from = Var(Target) THEN moved ELSE [moved EXCEPT ![Target] = Wanted]
    <3>1. call.how # "copy" => Source(object) = moved
      BY <1>1, <1>2 DEF Source, S, CallInv
    <3> QED BY <1>1, <1>2, <1>3, <1>7, <3>1
  <2> HIDE DEF moved
  <2>4. Wanted \in Values /\ Wanted.type = call.t /\ before \in [Vars -> Values] /\ Target \in Vars
    BY CallFacts DEF CallInv
  <2>5. object' \in [Vars -> Values \cup Remains]
    BY <2>2, <2>3, <2>4
  <2>6. \A w \in Vars : object'[w] \in Values /\ object'[w].type = which'[w]
    BY <1>2, <1>6, <2>1, <2>2, <2>3, <2>4
  <2>7. ~(call.how = "move" /\ call.from = Var(Target)) => object'[Target] = Wanted
    <3>1. call.how \in {"copy", "move"}
      BY DEF CallInv
    <3> QED BY <2>2, <2>3, <2>4, <3>1
  <2>8. call.how = "copy" => \A w \in Vars \ {Target} : object'[w] = before[w]
    BY <2>3, <2>4
  <2>9. Holds(call, object', which', before)
    BY <1>2, <1>5, <2>6, <2>7, <2>8, CallFacts, EndsWell
  <2>10. TypeInv'
    BY <1>2, <2>1, <2>5 DEF TypeInv
  <2> QED BY <2>1, <2>9, <2>10, Returns DEF IInv
<1>8. CASE Throws /\ object' = [object EXCEPT ![A.v].data = Unspecified]
  <2>1. call' = [call EXCEPT !.threw = TRUE] /\ before' = before /\ todo' = <<>> /\ which' = Kinds
    BY <1>2, <1>8 DEF Throws
  <2>2. object' = [before EXCEPT ![Target] = [before[Target] EXCEPT !.data = Unspecified]]
    BY <1>1, <1>2, <1>8
  <2>3. before \in [Vars -> Values] /\ Target \in Vars
    BY CallFacts
  <2>4. object' \in [Vars -> Values \cup Remains] /\ object'[Target] \in Values
        /\ object'[Target].type = which'[Target] /\ \A w \in Vars \ {Target} : object'[w] = before[w]
    BY <1>4, <1>6, <2>1, <2>2, <2>3
  <2>5. \A w \in Vars \ {Target} : object'[w] = before[w] /\ which'[w] = before[w].type
    BY <1>6, <2>1, <2>4
  <2>6. PICK c : c = call'
    OBVIOUS
  <2>7. Holds(c, object', which', before)
    BY <1>2, <1>5, <2>1, <2>3, <2>4, <2>5, <2>6, Thrown, EndsThrown
  <2>8. TypeInv'
    BY <1>2, <2>1, <2>4, <2>6, Thrown DEF TypeInv
  <2> QED BY <2>1, <2>6, <2>7, <2>8, Leaves DEF IInv
<1> QED BY <1>1, <1>7, <1>8, Assigns

\* The target's old object is destroyed first.
LEMMA DestroyStep ==
  ASSUME VariantConstants, TypeInv, CallInv, object = before, which = Kinds, todo # <<>>, Head(todo) = D, Next
  PROVE  /\ todo' = Tail(todo) /\ call' = call /\ before' = before /\ which' = Kinds /\ tmp' = tmp
         /\ object' = [before EXCEPT ![Target] = Destroyed] /\ CallInv' /\ TypeInv'
<1>1. D.do = "destroy" /\ D.v = Target
  BY DEF D, Destroy
<1>2. Runs /\ object' = [object EXCEPT ![D.v] = Destroyed] /\ UNCHANGED <<which, tmp>>
  BY <1>1, Destroys
<1>3. todo' = Tail(todo) /\ call' = call /\ before' = before /\ which' = which /\ tmp' = tmp
  BY <1>2 DEF Runs
<1>4. object' = [before EXCEPT ![Target] = Destroyed]
  BY <1>1, <1>2
<1>5. TypeInv'
  BY <1>3, <1>4, CallFacts DEF TypeInv
<1> QED BY <1>3, <1>4, <1>5, CallGoesOn

LEMMA SetStep ==
  ASSUME VariantConstants, TypeInv, CallInv, which = Kinds, todo # <<>>, Head(todo) = W, Next
  PROVE  /\ todo' = Tail(todo) /\ call' = call /\ before' = before /\ object' = object /\ tmp' = tmp
         /\ which' = [Kinds EXCEPT ![Target] = call.t] /\ CallInv' /\ TypeInv'
<1>1. W.do = "which" /\ W.v = Target /\ W.t = call.t
  BY DEF W, Set
<1>2. Runs /\ which' = [which EXCEPT ![W.v] = W.t] /\ UNCHANGED <<object, tmp>>
  BY <1>1, Sets
<1>3. todo' = Tail(todo) /\ call' = call /\ before' = before /\ object' = object /\ tmp' = tmp
  BY <1>2 DEF Runs
<1>4. which' = [which EXCEPT ![Target] = call.t]
  BY <1>1, <1>2
<1>5. TypeInv'
  BY <1>3, <1>4, CallFacts DEF TypeInv
<1> QED BY <1>3, <1>4, <1>5, CallGoesOn

\* The types after which_ was set.
LEMMA KindFacts ==
  ASSUME CallInv
  PROVE  /\ \A w \in Vars : Kinds[w] = before[w].type
         /\ [Kinds EXCEPT ![Target] = call.t][Target] = call.t
         /\ \A w \in Vars \ {Target} : [Kinds EXCEPT ![Target] = call.t][w] = before[w].type
BY CallFacts DEF Kinds

LEMMA ReassigningStep ==
  ASSUME VariantConstants, TypeInv, CallInv, Reassigning, Next PROVE IInv'
<1>1. call.do = "assign" /\ before[Target].type # call.t /\ ~Aside
  BY DEF Reassigning
<1>2. CASE todo = <<D, W, C>> /\ Untouched
  <2>1. todo # <<>> /\ Head(todo) = D /\ Tail(todo) = <<W, C>> /\ <<W, C>> # <<>>
    BY <1>2, Heads, Tails
  <2>2. object = before /\ which = Kinds
    BY <1>2 DEF Untouched
  <2>3. /\ todo' = <<W, C>> /\ call' = call /\ before' = before /\ which' = Kinds
        /\ object' = [before EXCEPT ![Target] = Destroyed] /\ CallInv' /\ TypeInv'
    BY <2>1, <2>2, DestroyStep
  <2>4. Reassigning'
    BY <1>1, <2>3, Same DEF Reassigning, Without
  <2> QED BY <2>1, <2>3, <2>4 DEF IInv, Busy
<1>3. CASE todo = <<W, C>> /\ Without /\ which = Kinds
  <2>1. todo # <<>> /\ Head(todo) = W /\ Tail(todo) = <<C>> /\ <<C>> # <<>>
    BY <1>3, Heads, Tails
  <2>2. /\ todo' = <<C>> /\ call' = call /\ before' = before /\ object' = object
        /\ which' = [Kinds EXCEPT ![Target] = call.t] /\ CallInv' /\ TypeInv'
    BY <1>3, <2>1, SetStep
  <2>3. Reassigning'
    BY <1>1, <1>3, <2>2, Same DEF Reassigning, Without
  <2> QED BY <2>1, <2>2, <2>3 DEF IInv, Busy
<1>4. CASE todo = <<C>> /\ Without /\ which = [Kinds EXCEPT ![Target] = call.t]
  <2>1. todo # <<>> /\ Head(todo) = C /\ Tail(todo) = <<>>
    BY <1>4, Heads, Tails
  <2>2. C.do = "construct" /\ C.v = Target /\ C.t = call.t /\ C.from = call.from /\ C.how = call.how
    BY DEF C, Construct
  <2> DEFINE gap == [before EXCEPT ![Target] = Destroyed]
  <2>3. object = gap /\ gap \in [Vars -> Values \cup Remains] /\ gap[Target] = Destroyed
        /\ \A w \in Vars \ {Target} : gap[w] = before[w]
    BY <1>4, CallFacts DEF Without
  <2> HIDE DEF gap
  <2>4. Source(object) = IF call.how = "move" THEN MoveFrom(call.from, gap) ELSE gap
    BY <2>1, <2>2, <2>3 DEF Source, S
  <2>5. call.t \notin Throwing \/ call.how = "move"
    BY <1>1 DEF Aside, NoThrow
  <2>6. call.from # Var(Target)
    <3> SUFFICES ASSUME call.from = Var(Target) PROVE FALSE
      OBVIOUS
    <3>1. Wanted = before[Target]
      BY CallFacts, FromCases, PlacesDiffer
    <3> QED BY <1>1, <3>1 DEF CallInv
  <2>7. call.how \in {"copy", "move"}
    BY DEF CallInv
  <2>8. CASE call.from = ElementOf(Target)
    <3>1. ~HasElement(gap[Target]) /\ Read(call.from) = Destroyed
      BY <2>3, <2>8, CallFacts, ReadElement DEF HasElement
    <3>2. MoveFrom(call.from, gap) = gap
      <4>1. MoveFrom(ElementOf(Target), gap) = IF HasElement(gap[Target]) THEN [gap EXCEPT ![Target].data = Moved(@)] ELSE gap
        BY MovesFrom
      <4> QED BY <2>8, <3>1, <4>1
    <3>3. ~Throws
      <4>1. Throws => call.how = "copy" /\ Read(call.from).type \in Throwing
        BY <2>1, <2>2 DEF Throws
      <4>2. "none" \notin Throwing
        BY DEF VariantConstants
      <4> QED BY <3>1, <4>1, <4>2, CallFacts
    <3>4. /\ Runs /\ UNCHANGED <<which, tmp>>
          /\ object' = [Source(object) EXCEPT ![C.v] = Obj(C.t, Read(C.from).data)]
      BY <2>1, <2>2, <3>3, Constructs
    <3>5. object' = [gap EXCEPT ![Target] = Obj(call.t, Garbage)]
      BY <2>2, <2>4, <3>1, <3>2, <3>4, CallFacts
    <3>6. call' = call /\ before' = before /\ todo' = <<>> /\ which' = which
      BY <2>1, <3>4 DEF Runs
    <3>7. object' \in [Vars -> Values \cup Remains] /\ object'[Target] = Obj(call.t, Garbage)
          /\ \A w \in Vars \ {Target} : object'[w] = before[w]
      BY <2>3, <3>5, CallFacts
    <3>8. object'[Target].data = Garbage
      BY <3>7 DEF Obj
    <3>9. \A w \in Vars \ {Target} : object'[w] = before[w] /\ which'[w] = before[w].type
      BY <1>4, <3>6, <3>7, KindFacts
    <3>10. NoThrow(call.t, call.how)
      BY <1>1 DEF Aside
    <3>11. Holds(call, object', which', before)
      BY <1>1, <2>8, <3>8, <3>9, <3>10, CallFacts, EndsSpoiled
    <3>12. TypeInv'
      BY <3>6, <3>7 DEF TypeInv
    <3> QED BY <3>6, <3>11, <3>12, Returns DEF IInv
  <2>9. CASE call.from # ElementOf(Target)
    <3>1. \A w \in Vars : call.from \in {Var(w), ElementOf(w)} => gap[w] = before[w]
      BY <2>3, <2>6, <2>9
    <3>2. Read(call.from) = Wanted
      BY <2>3, <3>1, ReadsWanted
    <3>3. ~Throws
      <4>1. Throws => call.how = "copy" /\ Read(call.from).type \in Throwing
        BY <2>1, <2>2 DEF Throws
      <4> QED BY <2>5, <3>2, <4>1 DEF CallInv
    <3>4. /\ Runs /\ UNCHANGED <<which, tmp>>
          /\ object' = [Source(object) EXCEPT ![C.v] = Obj(C.t, Read(C.from).data)]
      BY <2>1, <2>2, <3>3, Constructs
    <3>5. object' = [Source(object) EXCEPT ![Target] = Wanted]
      BY <2>2, <3>2, <3>4, CallFacts
    <3>6. call' = call /\ before' = before /\ todo' = <<>> /\ which' = which
      BY <2>1, <3>4 DEF Runs
    <3>7. /\ Source(object) \in [Vars -> Values \cup Remains]
          /\ \A w \in Vars \ {Target} : Source(object)[w] \in Values /\ Source(object)[w].type = before[w].type
          /\ call.how = "copy" => Source(object) = gap
      BY <2>3, <2>4, <3>1, CallFacts, SourceKeepsType
    <3>8. Wanted \in Values /\ Wanted.type = call.t /\ Target \in Vars
      BY CallFacts DEF CallInv
    <3>9. object' \in [Vars -> Values \cup Remains] /\ object'[Target] = Wanted
          /\ \A w \in Vars \ {Target} : object'[w] = Source(object)[w]
      BY <3>5, <3>7, <3>8
    <3>10. \A w \in Vars : object'[w] \in Values /\ object'[w].type = which'[w]
      BY <1>4, <3>6, <3>7, <3>8, <3>9, KindFacts
    <3>11. call.how = "copy" => \A w \in Vars \ {Target} : object'[w] = before[w]
      BY <2>3, <3>7, <3>9
    <3>12. Holds(call, object', which', before)
      BY <1>1, <2>9, <3>9, <3>10, <3>11, CallFacts, EndsWell
    <3>13. TypeInv'
      BY <3>6, <3>9 DEF TypeInv
    <3> QED BY <3>6, <3>12, <3>13, Returns DEF IInv
  <2> QED BY <2>8, <2>9
<1> QED BY <1>2, <1>3, <1>4 DEF Reassigning

LEMMA ReassigningAsideStep ==
  ASSUME VariantConstants, TypeInv, CallInv, ReassigningAside, Next PROVE IInv'
<1>1. call.do = "assign" /\ before[Target].type # call.t /\ Aside
  BY DEF ReassigningAside
<1>2. call.how = "copy" /\ ~NoThrow(call.t, call.how)
  BY <1>1 DEF Aside, NoThrow, CallInv
<1>3. CASE todo = <<K, D, W, FromTmp>> /\ Untouched
  <2>1. todo # <<>> /\ Head(todo) = K /\ Tail(todo) = <<D, W, FromTmp>> /\ <<D, W, FromTmp>> # <<>>
    BY <1>3, Heads, Tails
  <2>2. K.do = "keep" /\ K.t = call.t /\ K.from = call.from /\ K.how = call.how
    BY DEF K, Keep
  <2>3. object = before /\ which = Kinds
    BY <1>3 DEF Untouched
  <2>4. Read(call.from) = Wanted
    BY <2>3, ReadsWanted
  <2>5. Source(object) = object
    BY <1>2, <2>1, <2>2 DEF Source, S
  <2>6. CASE Runs /\ tmp' = Obj(K.t, Read(K.from).data) /\ object' = Source(object) /\ which' = which
    <3>1. /\ todo' = <<D, W, FromTmp>> /\ call' = call /\ before' = before /\ which' = Kinds /\ object' = before
          /\ which' = which /\ object' = object
      BY <2>1, <2>3, <2>5, <2>6 DEF Runs
    <3>2. tmp' = Wanted
      BY <2>2, <2>4, <2>6, CallFacts
    <3>3. CallInv' /\ TypeInv'
      BY <3>1, CallGoesOn DEF TypeInv
    <3>4. ReassigningAside'
      BY <1>1, <3>1, <3>2, Same DEF ReassigningAside, Untouched
    <3> QED BY <2>1, <3>1, <3>3, <3>4 DEF IInv, Busy
  <2>7. CASE Throws /\ object' = object
    <3>1. call' = [call EXCEPT !.threw = TRUE] /\ before' = before /\ todo' = <<>> /\ which' = which
      BY <2>7 DEF Throws
    <3>2. before \in [Vars -> Values] /\ Target \in Vars
      BY CallFacts
    <3>3. \A w \in Vars : object'[w] = before[w] /\ which'[w] = before[w].type
      BY <2>3, <2>7, <3>1, KindFacts
    <3>4. object'[Target] \in Values /\ object'[Target].type = which'[Target] /\ object' = before
      BY <2>3, <2>7, <3>2, <3>3
    <3>5. PICK c : c = call'
      OBVIOUS
    <3>6. Holds(c, object', which', before)
      BY <1>1, <1>2, <3>1, <3>2, <3>3, <3>4, <3>5, Thrown, EndsThrown
    <3>7. TypeInv'
      BY <2>7, <3>1, <3>5, Thrown DEF TypeInv
    <3> QED BY <3>1, <3>5, <3>6, <3>7, Leaves DEF IInv
  <2> QED BY <2>1, <2>2, <2>6, <2>7, Keeps
<1>4. CASE todo = <<D, W, FromTmp>> /\ tmp = Wanted /\ Untouched
  <2>1. todo # <<>> /\ Head(todo) = D /\ Tail(todo) = <<W, FromTmp>> /\ <<W, FromTmp>> # <<>>
    BY <1>4, Heads, Tails
  <2>2. object = before /\ which = Kinds
    BY <1>4 DEF Untouched
  <2>3. /\ todo' = <<W, FromTmp>> /\ call' = call /\ before' = before /\ which' = Kinds /\ tmp' = tmp
        /\ object' = [before EXCEPT ![Target] = Destroyed] /\ CallInv' /\ TypeInv'
    BY <2>1, <2>2, DestroyStep
  <2>4. ReassigningAside'
    BY <1>1, <1>4, <2>3, Same DEF ReassigningAside, Without
  <2> QED BY <2>1, <2>3, <2>4 DEF IInv, Busy
<1>5. CASE todo = <<W, FromTmp>> /\ tmp = Wanted /\ Without /\ which = Kinds
  <2>1. todo # <<>> /\ Head(todo) = W /\ Tail(todo) = <<FromTmp>> /\ <<FromTmp>> # <<>>
    BY <1>5, Heads, Tails
  <2>2. /\ todo' = <<FromTmp>> /\ call' = call /\ before' = before /\ object' = object /\ tmp' = tmp
        /\ which' = [Kinds EXCEPT ![Target] = call.t] /\ CallInv' /\ TypeInv'
    BY <1>5, <2>1, SetStep
  <2>3. ReassigningAside'
    BY <1>1, <1>5, <2>2, Same DEF ReassigningAside, Without
  <2> QED BY <2>1, <2>2, <2>3 DEF IInv, Busy
<1>6. CASE todo = <<FromTmp>> /\ tmp = Wanted /\ Without /\ which = [Kinds EXCEPT ![Target] = call.t]
  <2>1. todo # <<>> /\ Head(todo) = FromTmp /\ Tail(todo) = <<>>
    BY <1>6, Heads, Tails
  <2>2. FromTmp.do = "construct" /\ FromTmp.v = Target /\ FromTmp.t = call.t /\ FromTmp.from = Tmp /\ FromTmp.how = "move"
    BY DEF FromTmp, Construct
  <2>3. ~Throws
    BY <2>1, <2>2 DEF Throws
  <2>4. /\ Runs /\ UNCHANGED <<which, tmp>>
        /\ object' = [Source(object) EXCEPT ![FromTmp.v] = Obj(FromTmp.t, Read(FromTmp.from).data)]
    BY <2>1, <2>2, <2>3, Constructs
  <2>5. Source(object) = object
    BY <2>1, <2>2, MovesFrom DEF Source, S
  <2>6. object' = [before EXCEPT ![Target] = Wanted]
    <3>1. Obj(call.t, Read(Tmp).data) = Wanted
      BY <1>6, CallFacts, ReadTmp
    <3>2. object' = [object EXCEPT ![Target] = Wanted]
      BY <2>2, <2>4, <2>5, <3>1
    <3> QED BY <1>6, <3>2, CallFacts DEF Without
  <2>7. call' = call /\ before' = before /\ todo' = <<>> /\ which' = which
    BY <2>1, <2>4 DEF Runs
  <2>8. Wanted \in Values /\ Wanted.type = call.t /\ Target \in Vars /\ before \in [Vars -> Values]
    BY CallFacts DEF CallInv
  <2>9. object' \in [Vars -> Values \cup Remains] /\ object'[Target] = Wanted
        /\ \A w \in Vars \ {Target} : object'[w] = before[w]
    BY <2>6, <2>8
  <2>10. \A w \in Vars : object'[w] \in Values /\ object'[w].type = which'[w]
    BY <1>6, <2>7, <2>8, <2>9, KindFacts
  <2>11. Holds(call, object', which', before)
    BY <1>1, <1>2, <2>9, <2>10, CallFacts, EndsWell
  <2>12. TypeInv'
    BY <2>7, <2>9 DEF TypeInv
  <2> QED BY <2>7, <2>11, <2>12, Returns DEF IInv
<1> QED BY <1>3, <1>4, <1>5, <1>6 DEF ReassigningAside

LEMMA EmplacingStep ==
  ASSUME VariantConstants, TypeInv, CallInv, Emplacing, Next PROVE IInv'
<1>1. call.do = "emplace" /\ which = Kinds
  BY DEF Emplacing
<1>2. call.from[1] = "argument" /\ call.how = "copy" /\ \A w : call.from # ElementOf(w) /\ call.from # Var(w)
  BY <1>1, PlacesDiffer DEF CallInv
<1>3. CASE todo = <<D, C, W>> /\ object = before
  <2>1. todo # <<>> /\ Head(todo) = D /\ Tail(todo) = <<C, W>> /\ <<C, W>> # <<>>
    BY <1>3, Heads, Tails
  <2>2. /\ todo' = <<C, W>> /\ call' = call /\ before' = before /\ which' = Kinds
        /\ object' = [before EXCEPT ![Target] = Destroyed] /\ CallInv' /\ TypeInv'
    BY <1>1, <1>3, <2>1, DestroyStep
  <2>3. Emplacing'
    BY <1>1, <2>2, Same DEF Emplacing, Without
  <2> QED BY <2>1, <2>2, <2>3 DEF IInv, Busy
<1>4. CASE todo = <<C, W>> /\ Without
  <2>1. todo # <<>> /\ Head(todo) = C /\ Tail(todo) = <<W>> /\ <<W>> # <<>>
    BY <1>4, Heads, Tails
  <2>2. C.do = "construct" /\ C.v = Target /\ C.t = call.t /\ C.from = call.from /\ C.how = call.how
    BY DEF C, Construct
  <2>3. Read(call.from) = Wanted
    BY <1>2, ReadsWanted
  <2>4. Source(object) = object
    BY <1>2, <2>1, <2>2 DEF Source, S
  <2>5. object = [before EXCEPT ![Target] = Destroyed]
    BY <1>4 DEF Without
  <2>6. CASE /\ Runs /\ UNCHANGED <<which, tmp>>
             /\ object' = [Source(object) EXCEPT ![C.v] = Obj(C.t, Read(C.from).data)]
    <3>1. todo' = <<W>> /\ call' = call /\ before' = before /\ which' = which
      BY <2>1, <2>6 DEF Runs
    <3>2. object' = [object EXCEPT ![Target] = Wanted]
      BY <2>2, <2>3, <2>4, <2>6, CallFacts
    <3>3. object' = [before EXCEPT ![Target] = Wanted]
      BY <2>5, <3>2, CallFacts
    <3>4. object' \in [Vars -> Values \cup Remains]
      BY <3>3, CallFacts
    <3>5. CallInv' /\ TypeInv'
      BY <3>1, <3>4, CallGoesOn DEF TypeInv
    <3>6. Emplacing'
      BY <1>1, <3>1, <3>3, Same DEF Emplacing
    <3> QED BY <2>1, <3>1, <3>5, <3>6 DEF IInv, Busy
  <2>7. CASE Throws /\ object' = object
    <3>1. call' = [call EXCEPT !.threw = TRUE] /\ before' = before /\ todo' = <<>> /\ which' = which
      BY <2>7 DEF Throws
    <3>2. object'[Target].data = Garbage /\ \A w \in Vars \ {Target} : object'[w] = before[w]
      BY <2>5, <2>7, CallFacts
    <3>3. \A w \in Vars \ {Target} : object'[w] = before[w] /\ which'[w] = before[w].type
      BY <1>1, <3>1, <3>2, KindFacts
    <3>4. PICK c : c = call'
      OBVIOUS
    <3>5. Holds(c, object', which', before)
      <4>1. c.do = "emplace" /\ c.threw /\ c.v = Target /\ c.from # ElementOf(c.v)
        BY <1>1, <1>2, <3>1, <3>4, Thrown
      <4> QED BY <3>2, <3>3, <4>1, CallFacts, EndsThrown
    <3>6. TypeInv'
      BY <2>7, <3>1, <3>4, Thrown DEF TypeInv
    <3> QED BY <3>1, <3>4, <3>5, <3>6, Leaves DEF IInv
  <2> QED BY <2>1, <2>2, <2>6, <2>7, Constructs
<1>5. CASE todo = <<W>> /\ object = [before EXCEPT ![Target] = Wanted]
  <2>1. todo # <<>> /\ Head(todo) = W /\ Tail(todo) = <<>>
    BY <1>5, Heads, Tails
  <2>2. /\ todo' = <<>> /\ call' = call /\ before' = before /\ object' = object
        /\ which' = [Kinds EXCEPT ![Target] = call.t] /\ TypeInv'
    BY <1>1, <2>1, SetStep
  <2>3. Wanted \in Values /\ Wanted.type = call.t /\ Target \in Vars /\ before \in [Vars -> Values]
    BY CallFacts DEF CallInv
  <2>4. object'[Target] = Wanted /\ \A w \in Vars \ {Target} : object'[w] = before[w]
    BY <1>5, <2>2, <2>3
  <2>5. \A w \in Vars : object'[w] \in Values /\ object'[w].type = which'[w]
    BY <2>2, <2>3, <2>4, KindFacts
  <2>6. Holds(call, object', which', before)
    BY <1>1, <1>2, <2>4, <2>5, CallFacts, EndsWell
  <2> QED BY <2>2, <2>6, Returns DEF IInv
<1> QED BY <1>3, <1>4, <1>5 DEF Emplacing

\* A swap moves: no statement of it throws, and its source is the other variant.
LEMMA SwapFacts ==
  ASSUME CallInv, call.do = "swap"
  PROVE  /\ Peer \in Vars /\ before[Peer] \in Values /\ call.from = Var(Peer) /\ call.from[2] = Peer /\ Wanted = before[Peer]
         /\ call.how = "move" /\ call.from # ElementOf(Target) /\ (Peer = Target <=> call.from = Var(Target))
<1>1. call.from[1] = "variable" /\ call.how = "move" /\ call.from \in Places
  BY DEF CallInv
<1>2. \A w, o : ElementOf(w)[1] # "variable" /\ Argument(o)[1] # "variable"
  BY DEF ElementOf, Argument
<1>3. PICK w \in Vars : call.from = Var(w)
  BY <1>1, <1>2 DEF Places
<1>4. Peer = w
  BY <1>3, PlacesDiffer DEF Peer
<1>5. Wanted = before[Peer] /\ before[Peer] \in Values
  BY <1>1, <1>4 DEF Wanted, Peer, CallInv
<1> QED BY <1>1, <1>2, <1>3, <1>4, <1>5, PlacesDiffer DEF Peer

\* Where the objects were exchanged, so are the types.
LEMMA ExchangeEnds ==
  ASSUME VariantConstants, TypeInv, CallInv, call.do = "swap", todo = <<Exchange>>, object = Exchanged, which = Kinds, Next
  PROVE  IInv'
<1>1. todo # <<>> /\ Head(todo) = Exchange /\ Tail(todo) = <<>>
  BY Heads, Tails
<1>2. Exchange.do = "swapWhich" /\ Exchange.v = Target /\ Exchange.w = Peer
  BY DEF Exchange
<1>3. Runs /\ UNCHANGED <<object, tmp>> /\ which' = [which EXCEPT ![Target] = which[Peer], ![Peer] = which[Target]]
  BY <1>1, <1>2, SwapsWhich
<1>4. call' = call /\ before' = before /\ todo' = <<>> /\ object' = object
  BY <1>1, <1>3 DEF Runs
<1>5. Peer \in Vars /\ Target \in Vars /\ before \in [Vars -> Values]
  BY CallFacts, SwapFacts
<1>6. object' = [before EXCEPT ![Target] = before[Peer], ![Peer] = before[Target]]
  BY <1>4 DEF Exchanged
<1>7. /\ object'[Peer] = before[Target] /\ object'[Target] = before[Peer]
      /\ \A w \in Vars \ {Target, Peer} : object'[w] = before[w]
  BY <1>5, <1>6
<1>8. which \in [Vars -> Types] /\ \A w \in Vars : which[w] = before[w].type
  BY KindFacts DEF TypeInv
<1>9. /\ which' \in [Vars -> Types]
      /\ which'[Peer] = which[Target] /\ which'[Target] = which[Peer]
      /\ \A w \in Vars \ {Target, Peer} : which'[w] = which[w]
  BY <1>3, <1>5, <1>8
<1>10. \A w \in Vars : object'[w] \in Values /\ object'[w].type = which'[w]
  BY <1>5, <1>7, <1>8, <1>9
<1>11. Holds(call, object', which', before)
  <2>1. object'[Target] = WantedOf(call, before)
    BY <1>7, CallFacts, SwapFacts
  <2>2. call.how # "copy" /\ object'[call.from[2]] = before[call.v]
    BY <1>7, CallFacts, SwapFacts
  <2> QED BY <1>10, <2>1, <2>2, CallFacts, SwapFacts, EndsWell
<1>12. TypeInv'
  BY <1>4, <1>9 DEF TypeInv
<1> QED BY <1>4, <1>11, <1>12, Returns DEF IInv

LEMMA SwappingSameStep ==
  ASSUME VariantConstants, TypeInv, CallInv, SwappingSame, Next PROVE IInv'
<1>1. call.do = "swap" /\ before[Target].type = before[Peer].type /\ which = Kinds
  BY DEF SwappingSame
<1> DEFINE statement == [do |-> "swap", v |-> Target, w |-> Peer]
<1>2. CASE todo = <<statement, Exchange>> /\ object = before
  <2>1. todo # <<>> /\ Head(todo) = statement /\ Tail(todo) = <<Exchange>> /\ <<Exchange>> # <<>>
    BY <1>2, Heads, Tails
  <2>2. Head(todo).do = "swap" /\ Head(todo).v = Target /\ Head(todo).w = Peer
    BY <2>1
  <2> HIDE DEF statement
  <2>3. Runs /\ UNCHANGED <<which, tmp>> /\ object' = [object EXCEPT ![Target] = object[Peer], ![Peer] = object[Target]]
    BY <2>1, <2>2, SwapsObjects
  <2>4. todo' = <<Exchange>> /\ call' = call /\ before' = before /\ which' = which
    BY <2>1, <2>3 DEF Runs
  <2>5. object' = Exchanged
    BY <1>2, <2>3 DEF Exchanged
  <2>6. object' \in [Vars -> Values \cup Remains]
    BY <2>5, CallFacts, SwapFacts, <1>1 DEF Exchanged
  <2>7. CallInv' /\ TypeInv'
    BY <2>4, <2>6, CallGoesOn DEF TypeInv
  <2>8. SwappingSame'
    BY <1>1, <2>4, <2>5, Same DEF SwappingSame
  <2> QED BY <2>1, <2>4, <2>7, <2>8 DEF IInv, Busy
<1>3. CASE todo = <<Exchange>> /\ object = Exchanged
  BY <1>1, <1>3, ExchangeEnds
<1> QED BY <1>2, <1>3 DEF SwappingSame

\* One statement of a swap of two types; what it does to the objects is its own.
LEMMA SwapStepKeeps ==
  ASSUME TypeInv, CallInv, Runs, which' = which, object' \in [Vars -> Values \cup Remains]
  PROVE  CallInv' /\ TypeInv' /\ todo' = Tail(todo) /\ call' = call /\ before' = before
BY CallGoesOn DEF Runs, TypeInv

LEMMA SwappingOtherStep ==
  ASSUME VariantConstants, TypeInv, CallInv, SwappingOther, Next PROVE IInv'
<1>1. call.do = "swap" /\ before[Target].type # before[Peer].type /\ which = Kinds
  BY DEF SwappingOther
<1>2. /\ Target \in Vars /\ Peer \in Vars /\ Target # Peer /\ before \in [Vars -> Values]
      /\ before[Target] \in Values /\ before[Peer] \in Values
      /\ Moved(before[Target]) \in Values /\ Moved(before[Peer]) \in Values /\ Destroyed \in Remains
      /\ before[Target] = Obj(before[Target].type, before[Target].data)
      /\ before[Peer] = Obj(before[Peer].type, before[Peer].data)
  BY <1>1, CallFacts, SwapFacts, ValueFacts
<1>3. CASE todo = <<KeepTarget, D, TakePeer, Destroy(Peer), TakeTmp, Exchange>> /\ object = before
  <2> DEFINE rest == <<D, TakePeer, Destroy(Peer), TakeTmp, Exchange>>
  <2>1. todo # <<>> /\ Head(todo) = KeepTarget /\ Tail(todo) = rest /\ rest # <<>>
    BY <1>3, Heads, Tails
  <2>2. /\ KeepTarget.do = "keep" /\ KeepTarget.t = before[Target].type /\ KeepTarget.from = Var(Target)
        /\ KeepTarget.how = "move"
    BY DEF KeepTarget, Keep
  <2> HIDE DEF rest
  <2>3. ~Throws
    BY <2>1, <2>2 DEF Throws
  <2>4. /\ Runs /\ tmp' = Obj(KeepTarget.t, Read(KeepTarget.from).data) /\ object' = Source(object) /\ which' = which
    BY <2>1, <2>2, <2>3, Keeps
  <2>5. tmp' = before[Target]
    BY <1>2, <1>3, <2>2, <2>4, ReadVar
  <2>6. object' = [before EXCEPT ![Target] = Moved(before[Target])]
    <3>1. Source(object) = MoveFrom(Var(Target), before)
      BY <1>3, <2>1, <2>2 DEF Source, S
    <3> QED BY <2>4, <3>1, MovesFrom
  <2>7. object' \in [Vars -> Values \cup Remains]
    BY <1>2, <2>6
  <2>8. CallInv' /\ TypeInv' /\ todo' = rest /\ call' = call /\ before' = before
    BY <2>1, <2>4, <2>7, SwapStepKeeps
  <2>9. SwappingOther'
    BY <1>1, <2>4, <2>5, <2>6, <2>8, Same DEF SwappingOther, Destroy, rest
  <2> QED BY <2>1, <2>8, <2>9 DEF IInv, Busy
<1>4. CASE /\ todo = <<D, TakePeer, Destroy(Peer), TakeTmp, Exchange>> /\ tmp = before[Target]
           /\ object = [before EXCEPT ![Target] = Moved(before[Target])]
  <2> DEFINE rest == <<TakePeer, Destroy(Peer), TakeTmp, Exchange>>
  <2>1. todo # <<>> /\ Head(todo) = D /\ Tail(todo) = rest /\ rest # <<>>
    BY <1>4, Heads, Tails
  <2>2. D.do = "destroy" /\ D.v = Target
    BY DEF D, Destroy
  <2> HIDE DEF rest
  <2>3. Runs /\ object' = [object EXCEPT ![Target] = Destroyed] /\ which' = which /\ tmp' = tmp
    BY <2>1, <2>2, Destroys
  <2>4. object' = [before EXCEPT ![Target] = Destroyed]
    BY <1>2, <1>4, <2>3
  <2>5. object' \in [Vars -> Values \cup Remains]
    BY <2>4, CallFacts
  <2>6. CallInv' /\ TypeInv' /\ todo' = rest /\ call' = call /\ before' = before
    BY <2>1, <2>3, <2>5, SwapStepKeeps
  <2>7. SwappingOther'
    BY <1>1, <1>4, <2>3, <2>4, <2>6, Same DEF SwappingOther, Without, Destroy, rest
  <2> QED BY <2>1, <2>6, <2>7 DEF IInv, Busy
<1>5. CASE todo = <<TakePeer, Destroy(Peer), TakeTmp, Exchange>> /\ tmp = before[Target] /\ Without
  <2> DEFINE rest == <<Destroy(Peer), TakeTmp, Exchange>>
  <2>1. todo # <<>> /\ Head(todo) = TakePeer /\ Tail(todo) = rest /\ rest # <<>>
    BY <1>5, Heads, Tails
  <2>2. /\ TakePeer.do = "construct" /\ TakePeer.v = Target /\ TakePeer.t = before[Peer].type
        /\ TakePeer.from = Var(Peer) /\ TakePeer.how = "move"
    BY DEF TakePeer, Construct
  <2> HIDE DEF rest
  <2>3. ~Throws
    BY <2>1, <2>2 DEF Throws
  <2>4. /\ Runs /\ which' = which /\ tmp' = tmp
        /\ object' = [Source(object) EXCEPT ![TakePeer.v] = Obj(TakePeer.t, Read(TakePeer.from).data)]
    BY <2>1, <2>2, <2>3, Constructs
  <2>5. object[Peer] = before[Peer] /\ object = [before EXCEPT ![Target] = Destroyed]
    BY <1>2, <1>5 DEF Without
  <2>6. Obj(TakePeer.t, Read(TakePeer.from).data) = before[Peer]
    BY <1>2, <2>2, <2>5, ReadVar
  <2>7. Source(object) = [object EXCEPT ![Peer] = Moved(before[Peer])]
    <3>1. Source(object) = MoveFrom(Var(Peer), object)
      BY <2>1, <2>2 DEF Source, S
    <3>2. MoveFrom(Var(Peer), object) = [object EXCEPT ![Peer] = Moved(@)]
      BY MovesFrom
    <3> QED BY <2>5, <3>1, <3>2
  <2>8. object' = [before EXCEPT ![Target] = before[Peer], ![Peer] = Moved(before[Peer])]
    <3>1. object' = [[object EXCEPT ![Peer] = Moved(before[Peer])] EXCEPT ![Target] = before[Peer]]
      BY <2>2, <2>4, <2>6, <2>7
    <3> QED BY <1>2, <2>5, <3>1
  <2>9. object' \in [Vars -> Values \cup Remains]
    BY <1>2, <2>8
  <2>10. CallInv' /\ TypeInv' /\ todo' = rest /\ call' = call /\ before' = before
    BY <2>1, <2>4, <2>9, SwapStepKeeps
  <2>11. SwappingOther'
    BY <1>1, <1>5, <2>4, <2>8, <2>10, Same DEF SwappingOther, Destroy, rest
  <2> QED BY <2>1, <2>10, <2>11 DEF IInv, Busy
<1>6. CASE /\ todo = <<Destroy(Peer), TakeTmp, Exchange>> /\ tmp = before[Target]
           /\ object = [before EXCEPT ![Target] = before[Peer], ![Peer] = Moved(before[Peer])]
  <2> DEFINE rest == <<TakeTmp, Exchange>>
  <2>1. todo # <<>> /\ Head(todo) = Destroy(Peer) /\ Tail(todo) = rest /\ rest # <<>>
    BY <1>6, Heads, Tails
  <2>2. Destroy(Peer).do = "destroy" /\ Destroy(Peer).v = Peer
    BY DEF Destroy
  <2> HIDE DEF rest
  <2>3. Runs /\ object' = [object EXCEPT ![Peer] = Destroyed] /\ which' = which /\ tmp' = tmp
    BY <2>1, <2>2, Destroys
  <2>4. object' = [before EXCEPT ![Target] = before[Peer], ![Peer] = Destroyed]
    BY <1>2, <1>6, <2>3
  <2>5. object' \in [Vars -> Values \cup Remains]
    BY <1>2, <2>4
  <2>6. CallInv' /\ TypeInv' /\ todo' = rest /\ call' = call /\ before' = before
    BY <2>1, <2>3, <2>5, SwapStepKeeps
  <2>7. SwappingOther'
    BY <1>1, <1>6, <2>3, <2>4, <2>6, Same DEF SwappingOther, rest
  <2> QED BY <2>1, <2>6, <2>7 DEF IInv, Busy
<1>7. CASE /\ todo = <<TakeTmp, Exchange>> /\ tmp = before[Target]
           /\ object = [before EXCEPT ![Target] = before[Peer], ![Peer] = Destroyed]
  <2> DEFINE rest == <<Exchange>>
  <2>1. todo # <<>> /\ Head(todo) = TakeTmp /\ Tail(todo) = rest /\ rest # <<>>
    BY <1>7, Heads, Tails
  <2>2. /\ TakeTmp.do = "construct" /\ TakeTmp.v = Peer /\ TakeTmp.t = before[Target].type
        /\ TakeTmp.from = Tmp /\ TakeTmp.how = "move"
    BY DEF TakeTmp, Construct
  <2> HIDE DEF rest
  <2>3. ~Throws
    BY <2>1, <2>2 DEF Throws
  <2>4. /\ Runs /\ which' = which /\ tmp' = tmp
        /\ object' = [Source(object) EXCEPT ![TakeTmp.v] = Obj(TakeTmp.t, Read(TakeTmp.from).data)]
    BY <2>1, <2>2, <2>3, Constructs
  <2>5. Obj(TakeTmp.t, Read(TakeTmp.from).data) = before[Target]
    BY <1>2, <1>7, <2>2, ReadTmp
  <2>6. Source(object) = object
    BY <2>1, <2>2, MovesFrom DEF Source, S
  <2>7. object' = Exchanged
    <3>1. object' = [object EXCEPT ![Peer] = before[Target]]
      BY <2>2, <2>4, <2>5, <2>6
    <3> QED BY <1>2, <1>7, <3>1 DEF Exchanged
  <2>8. object' \in [Vars -> Values \cup Remains]
    BY <1>2, <2>7 DEF Exchanged
  <2>9. CallInv' /\ TypeInv' /\ todo' = rest /\ call' = call /\ before' = before
    BY <2>1, <2>4, <2>8, SwapStepKeeps
  <2>10. SwappingOther'
    BY <1>1, <2>4, <2>7, <2>9, Same DEF SwappingOther, rest
  <2> QED BY <2>1, <2>9, <2>10 DEF IInv, Busy
<1>8. CASE todo = <<Exchange>> /\ object = Exchanged
  BY <1>1, <1>8, ExchangeEnds
<1> QED BY <1>3, <1>4, <1>5, <1>6, <1>7, <1>8 DEF SwappingOther
-----------------------------------------------------------------------------
\* A call begins: every variant holds an object, and the statements are those of a stage.
LEMMA AtRest ==
  ASSUME TypeInv, \A w \in Vars : Fits(w)
  PROVE  object \in [Vars -> Values] /\ which = [w \in Vars |-> object[w].type]
<1>1. \A w \in Vars : object[w] \in Values
  BY DEF TypeInv, Fits, Remains
<1> QED BY <1>1 DEF TypeInv, Fits

\* An element of an array is where one is read.
HasSource(from, objects) == \A w \in Vars : from = ElementOf(w) => HasElement(objects[w])

\* A call as it begins.
Request(what, v, t, from, how) == [do |-> what, v |-> v, t |-> t, from |-> from, how |-> how, threw |-> FALSE]

\* What every call has in common.
LEMMA Started ==
  ASSUME VariantConstants, TypeInv, NEW v \in Vars, NEW what \in {"assign", "emplace", "swap"}, NEW t, NEW from \in Places,
         NEW how \in {"copy", "move"}, NEW ops, Begins(v, what, t, from, how, ops),
         WantedOf(Request(what, v, t, from, how), object) \in Values,
         WantedOf(Request(what, v, t, from, how), object).type = t,
         HasSource(from, object),
         what = "emplace" => from[1] = "argument" /\ how = "copy",
         what = "swap" => from[1] = "variable" /\ how = "move"
  PROVE  /\ CallInv' /\ TypeInv' /\ Untouched' /\ todo' = ops /\ before' = object /\ object' = object /\ which' = which
         /\ call'.do = what /\ Target' = v /\ call'.t = t /\ call'.from = from /\ call'.how = how
         /\ \A w \in Vars : which[w] = object[w].type
<1> DEFINE c == Request(what, v, t, from, how)
<1>1. call' = c /\ before' = object /\ object' = object /\ which' = which /\ todo' = ops /\ \A w \in Vars : Fits(w)
  BY DEF Begins, Request
<1>2. c.do = what /\ c.v = v /\ c.t = t /\ c.from = from /\ c.how = how /\ c.threw = FALSE
  BY DEF Request
<1>3. object \in [Vars -> Values] /\ which = [w \in Vars |-> object[w].type]
  BY <1>1, AtRest
<1>4. WantedOf(c, object) \in Values /\ WantedOf(c, object).type = t
  OBVIOUS
<1>5. t \in Types
  BY <1>4, ValueFacts
<1>6. c \in [do : {"assign", "emplace", "swap"}, v : Vars, t : Types, from : Places, how : {"copy", "move"}, threw : {FALSE}]
  BY <1>5 DEF Request
<1> HIDE DEF c
<1>7. Wanted' = WantedOf(c, object)
  BY <1>1 DEF Wanted, WantedOf
<1>8. CallInv'
  BY <1>1, <1>2, <1>3, <1>4, <1>6, <1>7 DEF CallInv, HasSource
<1>9. TypeInv'
  BY <1>1, <1>2 DEF TypeInv
<1>10. Untouched'
  BY <1>1, <1>3 DEF Untouched, Kinds
<1> QED BY <1>1, <1>2, <1>3, <1>8, <1>9, <1>10 DEF Target

\* The statements of an assignment are those of one of its stages.
LEMMA AssignBegins ==
  ASSUME VariantConstants, TypeInv, NEW v \in Vars, NEW from \in Places, NEW how \in {"copy", "move"},
         Assign(v, from, how), Read(from) \in Values,
         WantedOf(Request("assign", v, Read(from).type, from, how), object)
           = Read(from),
         HasSource(from, object)
  PROVE  IInv'
<1> DEFINE t == Read(from).type
           ops == Assignment(v, t, from, how)
<1>1. Begins(v, "assign", t, from, how, ops)
  BY DEF Assign
<1>2. PICK kind : kind = t
  OBVIOUS
<1>3. /\ CallInv' /\ TypeInv' /\ Untouched' /\ todo' = ops /\ before' = object
      /\ call'.do = "assign" /\ Target' = v /\ call'.t = kind /\ call'.from = from /\ call'.how = how
      /\ \A w \in Vars : which[w] = object[w].type
  <2>1. ops = Assignment(v, kind, from, how) /\ Read(from).type = kind
    BY <1>2
  <2> DEFINE c == Request("assign", v, kind, from, how)
  <2>2. Begins(v, "assign", kind, from, how, ops)
    BY <1>1, <1>2
  <2> HIDE DEF ops, t
  <2>3. WantedOf(Request("assign", v, kind, from, how), object) = Read(from)
    BY <2>1
  <2>4. Read(from) \in Values /\ HasSource(from, object)
    OBVIOUS
  <2>5. WantedOf(c, object) \in Values /\ WantedOf(c, object).type = kind
    BY <2>1, <2>3, <2>4
  <2>6. /\ "assign" \in {"assign", "emplace", "swap"}
        /\ "assign" = "emplace" => from[1] = "argument" /\ how = "copy"
        /\ "assign" = "swap" => from[1] = "variable" /\ how = "move"
    OBVIOUS
  <2> QED BY <2>2, <2>4, <2>5, <2>6, Started
<1>4. ops = IF which[v] = kind THEN <<[do |-> "assign", v |-> v, from |-> from, how |-> how]>> ELSE Reassign(v, kind, from, how)
  BY <1>2 DEF Assignment
<1> HIDE DEF ops, t
<1>5. /\ A' = [do |-> "assign", v |-> v, from |-> from, how |-> how] /\ D' = Destroy(v) /\ W' = Set(v, kind)
      /\ C' = Construct(v, kind, from, how) /\ K' = Keep(kind, from, how) /\ FromTmp' = Construct(v, kind, Tmp, "move")
      /\ (Aside' <=> ~NoThrow(kind, how)) /\ before'[Target'].type = which[v]
  BY <1>3 DEF A, D, W, C, K, FromTmp, Aside
<1>6. CASE which[v] = kind
  <2>1. todo' = <<A'>> /\ todo' # <<>>
    BY <1>3, <1>4, <1>5, <1>6
  <2>2. Assigning'
    BY <1>3, <1>5, <1>6, <2>1 DEF Assigning
  <2> QED BY <1>3, <2>1, <2>2 DEF IInv, Busy
<1>7. CASE which[v] # kind /\ NoThrow(kind, how)
  <2>1. todo' = <<D', W', C'>> /\ todo' # <<>>
    BY <1>3, <1>4, <1>5, <1>7 DEF Reassign
  <2>2. Reassigning'
    BY <1>3, <1>5, <1>7, <2>1 DEF Reassigning
  <2> QED BY <1>3, <2>1, <2>2 DEF IInv, Busy
<1>8. CASE which[v] # kind /\ ~NoThrow(kind, how)
  <2>1. todo' = <<K', D', W', FromTmp'>> /\ todo' # <<>>
    BY <1>3, <1>4, <1>5, <1>8 DEF Reassign
  <2>2. ReassigningAside'
    BY <1>3, <1>5, <1>8, <2>1 DEF ReassigningAside
  <2> QED BY <1>3, <2>1, <2>2 DEF IInv, Busy
<1> QED BY <1>6, <1>7, <1>8

LEMMA CallStep ==
  ASSUME VariantConstants, TypeInv, Call PROVE IInv'
<1>1. PICK v \in Vars :
        \/ \E w \in Vars, how \in {"copy", "move"} :
             Assign(v, Var(w), how) \/ (HasElement(object[w]) /\ Assign(v, ElementOf(w), how))
        \/ \E o \in Scalars, how \in {"copy", "move"} : Assign(v, Argument(o), how)
        \/ \E o \in Scalars : Emplace(v, o)
        \/ \E w \in Vars : Swap(v, w)
  BY DEF Call
<1>2. object \in [Vars -> Values] /\ which = [w \in Vars |-> object[w].type]
  <2>1. \A w \in Vars : Fits(w)
    BY <1>1 DEF Assign, Emplace, Swap, Begins
  <2> QED BY <2>1, AtRest
<1>3. ASSUME NEW w \in Vars, NEW how \in {"copy", "move"}, Assign(v, Var(w), how) PROVE IInv'
  <2>1. Read(Var(w)) = object[w] /\ Var(w) \in Places /\ HasSource(Var(w), object)
    BY ReadVar, PlacesDiffer DEF Places, HasSource
  <2>2. WantedOf(Request("assign", v, Read(Var(w)).type, Var(w), how), object)
          = object[w]
    BY DEF WantedOf, Var, Request
  <2> QED BY <1>2, <1>3, <2>1, <2>2, AssignBegins
<1>4. ASSUME NEW w \in Vars, NEW how \in {"copy", "move"}, HasElement(object[w]), Assign(v, ElementOf(w), how) PROVE IInv'
  <2>1. Read(ElementOf(w)) = object[w].data /\ ElementOf(w) \in Places
        /\ HasSource(ElementOf(w), object)
    BY <1>4, ReadElement, PlacesDiffer DEF Places, HasSource
  <2>2. WantedOf(Request("assign", v, Read(ElementOf(w)).type, ElementOf(w), how), object) = object[w].data
    BY DEF WantedOf, ElementOf, Request
  <2>3. object[w].data \in Values
    BY <1>2, <1>4, ValueFacts
  <2> QED BY <1>4, <2>1, <2>2, <2>3, AssignBegins
<1>5. ASSUME NEW o \in Scalars, NEW how \in {"copy", "move"}, Assign(v, Argument(o), how) PROVE IInv'
  <2>1. Read(Argument(o)) = o /\ Argument(o) \in Places /\ HasSource(Argument(o), object)
    BY ReadArgument, PlacesDiffer DEF Places, HasSource
  <2>2. WantedOf(Request("assign", v, Read(Argument(o)).type, Argument(o), how), object) = o
    BY DEF WantedOf, Argument, Request
  <2>3. o \in Values
    BY ScalarsAreValues
  <2> QED BY <1>5, <2>1, <2>2, <2>3, AssignBegins
<1>6. ASSUME NEW o \in Scalars, Emplace(v, o) PROVE IInv'
  <2>1. Argument(o) \in Places /\ Argument(o)[1] = "argument" /\ HasSource(Argument(o), object)
    BY PlacesDiffer DEF Places, HasSource
  <2>2. WantedOf(Request("emplace", v, o.type, Argument(o), "copy"), object) = o
    BY DEF WantedOf, Argument, Request
  <2>3. PICK t : t = o.type
    OBVIOUS
  <2>4. Begins(v, "emplace", t, Argument(o), "copy", EmplaceOps(v, t, Argument(o)))
    BY <1>6, <2>3 DEF Emplace
  <2>5. /\ CallInv' /\ TypeInv' /\ Untouched' /\ todo' = EmplaceOps(v, t, Argument(o))
        /\ call'.do = "emplace" /\ Target' = v /\ call'.t = t /\ call'.from = Argument(o) /\ call'.how = "copy"
    BY <2>1, <2>2, <2>3, <2>4, ScalarsAreValues, Started
  <2>6. D' = Destroy(v) /\ W' = Set(v, t) /\ C' = Construct(v, t, Argument(o), "copy")
    BY <2>5 DEF D, W, C
  <2>7. todo' = <<D', C', W'>> /\ todo' # <<>>
    BY <2>5, <2>6 DEF EmplaceOps
  <2>8. Emplacing'
    BY <2>5, <2>7 DEF Emplacing, Untouched
  <2> QED BY <2>5, <2>7, <2>8 DEF IInv, Busy
<1>7. ASSUME NEW w \in Vars, Swap(v, w) PROVE IInv'
  <2>1. Var(w) \in Places /\ Var(w)[1] = "variable" /\ Var(w)[2] = w /\ HasSource(Var(w), object)
    BY PlacesDiffer DEF Places, HasSource
  <2>2. PICK t : t = which[w]
    OBVIOUS
  <2>3. WantedOf(Request("swap", v, t, Var(w), "move"), object) = object[w]
    BY DEF WantedOf, Var, Request
  <2>4. object[w] \in Values /\ object[w].type = t /\ which[v] = object[v].type
    BY <1>2, <2>2
  <2>5. Begins(v, "swap", t, Var(w), "move", SwapOps(v, w))
    BY <1>7, <2>2 DEF Swap
  <2>6. /\ CallInv' /\ TypeInv' /\ Untouched' /\ todo' = SwapOps(v, w) /\ before' = object
        /\ call'.do = "swap" /\ Target' = v /\ call'.from = Var(w)
    BY <2>1, <2>3, <2>4, <2>5, Started
  <2>7. Peer' = w
    BY <2>1, <2>6 DEF Peer
  <2>8. before'[Target'].type = which[v] /\ before'[Peer'].type = which[w]
    BY <2>2, <2>4, <2>6, <2>7
  <2>9. /\ KeepTarget' = Keep(which[v], Var(v), "move") /\ D' = Destroy(v) /\ Destroy(Peer)' = Destroy(w)
        /\ TakePeer' = Construct(v, which[w], Var(w), "move")
        /\ TakeTmp' = Construct(w, which[v], Tmp, "move") /\ Exchange' = [do |-> "swapWhich", v |-> v, w |-> w]
    BY <2>6, <2>7, <2>8 DEF KeepTarget, D, TakePeer, TakeTmp, Exchange
  <2>10. CASE which[v] = which[w]
    <3>1. todo' = <<[do |-> "swap", v |-> Target, w |-> Peer], Exchange>>' /\ todo' # <<>>
      BY <2>6, <2>7, <2>9, <2>10 DEF SwapOps
    <3>2. SwappingSame'
      BY <2>6, <2>8, <2>10, <3>1 DEF SwappingSame, Untouched
    <3> QED BY <2>6, <3>1, <3>2 DEF IInv, Busy
  <2>11. CASE which[v] # which[w]
    <3>1. todo' = <<KeepTarget, D, TakePeer, Destroy(Peer), TakeTmp, Exchange>>' /\ todo' # <<>>
      BY <2>6, <2>9, <2>11 DEF SwapOps
    <3>2. SwappingOther'
      BY <2>6, <2>8, <2>11, <3>1 DEF SwappingOther, Untouched
    <3> QED BY <2>6, <3>1, <3>2 DEF IInv, Busy
  <2> QED BY <2>10, <2>11
<1> QED BY <1>1, <1>3, <1>4, <1>5, <1>6, <1>7
-----------------------------------------------------------------------------
LEMMA InitIsInvariant == ASSUME Init PROVE IInv
<1>1. \A o \in Scalars \cup {Obj("array", e) : e \in Scalars} : o \in Values /\ o.type \in Types
  BY DEF Scalars, Obj, Values, Scalar, Types
<1>2. which \in [Vars -> Types] /\ object \in [Vars -> Values \cup Remains] /\ todo = <<>> /\ call.do = "none"
      /\ call.threw \in BOOLEAN
  BY <1>1 DEF Init
<1> QED BY <1>2 DEF IInv, TypeInv, HoldsObject

LEMMA InvIsInductive == ASSUME VariantConstants, IInv, [Next]_vars PROVE IInv'
<1>1. TypeInv
  BY DEF IInv
<1>2. CASE UNCHANGED vars
  <2>1. which' = which /\ object' = object /\ tmp' = tmp /\ todo' = todo /\ call' = call /\ before' = before
    BY <1>2 DEF vars
  <2>2. TypeInv'
    BY <1>1, <2>1 DEF TypeInv
  <2>3. CASE todo = <<>>
    <3>1. HoldsObject
      BY <2>3 DEF IInv
    <3>2. CASE call.do = "none"
      BY <2>1, <2>2, <2>3, <3>2 DEF IInv, HoldsObject
    <3>3. CASE call.do # "none"
      BY <2>1, <2>2, <2>3, <3>1, <3>3, HoldsIs, Returns DEF IInv
    <3> QED BY <3>2, <3>3
  <2>4. CASE todo # <<>>
    <3>1. Busy
      BY <2>4 DEF IInv
    <3>2. CallInv'
      BY <2>1, <3>1, CallGoesOn DEF Busy
    <3>3. Destroy(Peer)' = Destroy(Peer) /\ (Untouched' <=> Untouched) /\ (Without' <=> Without)
      BY <2>1, Same DEF Destroy, Untouched, Without
    <3>4. /\ Assigning' <=> Assigning
          /\ Reassigning' <=> Reassigning
          /\ ReassigningAside' <=> ReassigningAside
          /\ Emplacing' <=> Emplacing
          /\ SwappingSame' <=> SwappingSame
      BY <2>1, <3>3, Same DEF Assigning, Reassigning, ReassigningAside, Emplacing, SwappingSame
    <3>5. SwappingOther' <=> SwappingOther
      BY <2>1, <3>3, Same DEF SwappingOther
    <3> QED BY <2>1, <2>2, <2>4, <3>1, <3>2, <3>4, <3>5 DEF IInv, Busy
  <2> QED BY <2>3, <2>4
<1>3. CASE Next /\ todo = <<>>
  <2>1. Call
    BY <1>3 DEF Next, KeepTmp, DestroyObject, SetWhich, ConstructObject, AssignObject, SwapObjects, SwapWhich, Throw, Statement
  <2> QED BY <1>1, <2>1, CallStep
<1>4. CASE Next /\ todo # <<>>
  <2>1. Busy
    BY <1>4 DEF IInv
  <2> QED BY <1>1, <1>4, <2>1, AssigningStep, ReassigningStep, ReassigningAsideStep, EmplacingStep, SwappingSameStep,
         SwappingOtherStep DEF Busy
<1> QED BY <1>2, <1>3, <1>4

LEMMA Invariant == ASSUME VariantConstants PROVE Spec => []IInv
<1>1. Init => IInv
  BY InitIsInvariant
<1>2. IInv /\ [Next]_vars => IInv'
  BY InvIsInductive
<1> QED BY <1>1, <1>2, PTL DEF Spec

\* which_ names a type, and what is left to execute is at most the six statements of a swap.
THEOREM TypeCorrect == ASSUME VariantConstants PROVE Spec => []TypeOK
<1>1. IInv => TypeOK
  <2> SUFFICES ASSUME IInv PROVE TypeOK
    OBVIOUS
  <2>1. which \in [Vars -> Types] /\ object \in [Vars -> Values \cup Remains] /\ call.threw \in BOOLEAN
    BY DEF IInv, TypeInv
  <2>2. \A o \in Values \cup Remains : o.type \in {"boolean", "string", "array", "none"}
    BY DEF Values, Scalar, Remains, Types
  <2>3. Len(todo) <= 6
    <3>1. CASE todo = <<>>
      BY <3>1
    <3>2. CASE todo # <<>>
      <4>1. Busy
        BY <3>2 DEF IInv
      <4>2. CASE Assigning \/ Reassigning \/ ReassigningAside
        BY <4>2, Lengths DEF Assigning, Reassigning, ReassigningAside
      <4>3. CASE Emplacing \/ SwappingSame
        BY <4>3, Lengths DEF Emplacing, SwappingSame
      <4>4. CASE SwappingOther
        BY <4>4, Lengths DEF SwappingOther
      <4> QED BY <4>1, <4>2, <4>3, <4>4 DEF Busy
    <3> QED BY <3>1, <3>2
  <2> QED BY <2>1, <2>2, <2>3 DEF TypeOK, Types
<1> QED BY <1>1, Invariant, PTL

\* For any number of variants, any values and any types whose copies throw: between
\* two calls every variant holds an object of the type it names, the one it was to
\* be given; a swap exchanges; an assignment of another type that throws has changed
\* nothing; and only two calls leave a variant without its object, an emplace that
\* throws and an assignment from an element of the target.
THEOREM ObjectIsHeld == ASSUME VariantConstants PROVE Spec => []HoldsObject
<1>1. IInv => HoldsObject
  BY DEF IInv, HoldsObject
<1> QED BY <1>1, Invariant, PTL
-----------------------------------------------------------------------------
\* json::value, over the same variables
CONSTANTS void, PolicyLists, Arguments, Elements, Bits, Keys, NaN
VARIABLES types, values, meant, answer
Val == INSTANCE JsonValue

\* What a value holds of a type that is no container.
Plainly(ts, x, m) ==
  \/ x.which = 0 /\ m.kind = "null" /\ m.exact = TRUE /\ x.data = void /\ m.data = void
  \/ x.which = 1 /\ m.kind = "boolean" /\ m.exact = TRUE /\ x.data = m.data /\ m.data # NaN
  \/ x.which = 2 /\ m.kind = "number" /\ m.exact = FALSE /\ x.data = m.data
  \/ /\ x.which = 3 /\ m.kind = "number" /\ m.exact = TRUE /\ m.data # NaN
     /\ \E type \in Val!SignedTypes : Val!Stored[type] = ts[4] /\ x.data = Val!Wrapped(m.data, type)
  \/ /\ x.which = 4 /\ m.kind = "string" /\ m.exact = TRUE /\ x.data = m.data
     /\ m.data # NaN \/ m.data = Unspecified
\* A container holds what its elements hold, until it is moved from.
Contains(ts, x, m) ==
  /\ x.which \in {5, 6} /\ m.kind = (IF x.which = 5 THEN "object" ELSE "array") /\ m.exact = TRUE
  /\ \/ x.data = Unspecified /\ m.data = Unspecified
     \/ DOMAIN x.data = DOMAIN m.data /\ \A i \in DOMAIN m.data : Plainly(ts, x.data[i], m.data[i])
Given(ts, x, m) ==
  /\ DOMAIN x = {"which", "data"} /\ DOMAIN m = {"kind", "data", "exact"}
  /\ Plainly(ts, x, m) \/ Contains(ts, x, m)

\* What the algorithms on lists do for the seven types.
Slots(ts) ==
  /\ DOMAIN ts = 1..7
  /\ ts[1] = "Null" /\ ts[2] = "Boolean"
  /\ \A n \in 1..7 : Val!index_of(ts[n], ts) = n - 1
  /\ \A m, n \in 1..7 : ts[m] = ts[n] => m = n
  /\ \A n \in 1..7 : (\E type \in Val!SignedTypes : Val!Stored[type] = ts[n]) <=> n = 4
  /\ \A n \in 2..7 : ts[n] \notin Val!ArgumentTypes

LEMMA TagsAre ==
  /\ Val!Tags[1] = "null" /\ Val!Tags[2] = "boolean" /\ Val!Tags[3] = "float_number" /\ Val!Tags[4] = "integral_number"
  /\ Val!Tags[5] = "string" /\ Val!Tags[6] = "object" /\ Val!Tags[7] = "array"
BY DEF Val!Tags

\* The place of each tag.
Slot == [null |-> 1, boolean |-> 2, float_number |-> 3, integral_number |-> 4, string |-> 5, object |-> 6, array |-> 7]
TagNames == {"null", "boolean", "float_number", "integral_number", "string", "object", "array"}

LEMMA SlotsOfTags ==
  ASSUME Val!JsonConstants, NEW tag \in TagNames
  PROVE  Slot[tag] \in 1..7 /\ Val!Tags[Slot[tag]] = tag /\ Val!TypeOf(tag) = types[Slot[tag]]
<1>1. Slot[tag] \in 1..7 /\ Val!Tags[Slot[tag]] = tag
  BY TagsAre DEF Slot, TagNames
<1>2. Val!index_of(tag, Val!Tags) = Slot[tag] - 1
  BY <1>1 DEF Val!JsonConstants
<1>3. (Slot[tag] - 1) + 1 = Slot[tag]
  BY <1>1
<1> QED BY <1>1, <1>2, <1>3 DEF Val!TypeOf

LEMMA TagsOfSlots ==
  ASSUME Val!JsonConstants, NEW n \in 0..6
  PROVE  Val!TagAt(n) = Val!Tags[n + 1] /\ Val!at(n, Val!type_name) = Val!type_name[n + 1]
<1>1. n + 1 \in 1..7 /\ (n + 1) - 1 = n
  OBVIOUS
<1> QED BY <1>1 DEF Val!TagAt, Val!JsonConstants

LEMMA ToSetTags == \A tag : tag \in Val!ToSet(Val!Tags) <=> tag \in TagNames
<1>1. DOMAIN Val!Tags = 1..7
  BY DEF Val!Tags
<1>2. Val!ToSet(Val!Tags) = {Val!Tags[i] : i \in 1..7}
  BY <1>1 DEF Val!ToSet
<1>3. \A i \in 1..7 : i = 1 \/ i = 2 \/ i = 3 \/ i = 4 \/ i = 5 \/ i = 6 \/ i = 7
  OBVIOUS
<1>4. 1 \in 1..7 /\ 2 \in 1..7 /\ 3 \in 1..7 /\ 4 \in 1..7 /\ 5 \in 1..7 /\ 6 \in 1..7 /\ 7 \in 1..7
  OBVIOUS
<1>5. ASSUME NEW tag, tag \in Val!ToSet(Val!Tags) PROVE tag \in TagNames
  BY <1>2, <1>3, <1>5, TagsAre DEF TagNames
<1>6. ASSUME NEW tag \in TagNames PROVE tag \in Val!ToSet(Val!Tags)
  BY <1>2, <1>4, TagsAre DEF TagNames
<1> QED BY <1>5, <1>6

\* An object of a type of the list.
LEMMA ObjectIs ==
  ASSUME Val!JsonConstants, Slots(types), NEW n \in 1..7, NEW data
  PROVE  LET x == Val!Object(types[n], data)
         IN  /\ DOMAIN x = {"which", "data"} /\ x.which = n - 1
             /\ n # 4 => x.data = data
             /\ n = 4 => \E type \in Val!SignedTypes : Val!Stored[type] = types[4] /\ x.data = Val!Wrapped(data, type)
<1> DEFINE x == Val!Object(types[n], data)
           held == \E type \in Val!SignedTypes : Val!Stored[type] = types[n]
           kept == CHOOSE type \in Val!SignedTypes : Val!Stored[type] = types[n]
<1>1. x = [which |-> Val!IndexOf(types[n]), data |-> IF held THEN Val!Wrapped(data, kept) ELSE data]
  BY DEF Val!Object
<1>2. Val!IndexOf(types[n]) = n - 1
  BY DEF Val!IndexOf, Slots
<1>3. held <=> n = 4
  BY DEF Slots
<1>4. held => kept \in Val!SignedTypes /\ Val!Stored[kept] = types[n]
  OBVIOUS
<1> HIDE DEF held, kept, x
<1>5. /\ DOMAIN x = {"which", "data"} /\ x.which = n - 1
      /\ x.data = IF held THEN Val!Wrapped(data, kept) ELSE data
  BY <1>1, <1>2
<1> QED BY <1>3, <1>4, <1>5 DEF x

LEMMA VariantTypes ==
  ASSUME Val!JsonConstants, NEW policies \in PolicyLists
  PROVE  Slots(Val!variant_type(policies))
<1> DEFINE ts == Val!variant_type(policies)
<1>1. DOMAIN ts = 1..7 /\ ts[1] = "Null" /\ ts[2] = "Boolean"
  BY DEF Val!variant_type
<1>2. /\ \A n \in 1..7 : Val!index_of(ts[n], ts) = n - 1
      /\ \A n \in 1..7 : (\E type \in Val!SignedTypes : Val!Stored[type] = ts[n]) <=> n = 4
      /\ \A n \in 2..7 : ts[n] \notin Val!ArgumentTypes
  BY DEF Val!JsonConstants
<1> HIDE DEF ts
<1>3. \A m, n \in 1..7 : ts[m] = ts[n] => m = n
  <2> SUFFICES ASSUME NEW m \in 1..7, NEW n \in 1..7, ts[m] = ts[n] PROVE m = n
    OBVIOUS
  <2>1. m - 1 = n - 1
    BY <1>2
  <2> QED BY <2>1
<1> QED BY <1>1, <1>2, <1>3 DEF Slots, ts

\* Overload resolution chooses one type for every argument that has one.
LEMMA ConvertsTo ==
  ASSUME Val!JsonConstants, Slots(types), NEW n \in 1..7, NEW type \in Val!ArgumentTypes
  PROVE  Val!Converts(type, types[n]) <=>
           \/ n = 1 /\ type = "Null"
           \/ n = 2 /\ type = "bool"
           \/ n = 3 /\ type \in Val!Floating
           \/ n = 4 /\ type \in Val!Integral
           \/ n = 5 /\ type = "chars"
<1>1. /\ Val!TypeOf("float_number") = types[3] /\ Val!TypeOf("integral_number") = types[4]
      /\ Val!TypeOf("string") = types[5]
  BY SlotsOfTags DEF Slot, TagNames
<1>2. type = types[n] <=> n = 1 /\ type = "Null"
  <2>1. n = 1 \/ n \in 2..7
    OBVIOUS
  <2> QED BY <2>1 DEF Slots
<1>3. /\ types[n] = types[3] <=> n = 3
      /\ types[n] = types[4] <=> n = 4
      /\ types[n] = types[5] <=> n = 5
      /\ types[n] = "Boolean" <=> n = 2
  BY DEF Slots
<1> QED BY <1>1, <1>2, <1>3 DEF Val!Converts

LEMMA TypesInList ==
  ASSUME Slots(types)
  PROVE  \A T : T \in Val!ToSet(types) <=> \E n \in 1..7 : T = types[n]
BY DEF Val!ToSet, Slots

\* The place of the type that an argument is converted to.
SlotOf(type) == IF type = "Null" THEN 1 ELSE IF type = "bool" THEN 2 ELSE IF type \in Val!Floating THEN 3
                ELSE IF type \in Val!Integral THEN 4 ELSE 5
LEMMA ArgumentKinds ==
  ASSUME NEW type \in Val!ArgumentTypes
  PROVE  /\ \/ type = "Null" \/ type = "bool" \/ type \in Val!Floating \/ type \in Val!Integral
            \/ type = "chars" \/ type = "char"
         /\ type = "Null" => type # "bool" /\ type \notin Val!Floating /\ type \notin Val!Integral /\ type # "chars"
         /\ type = "bool" => type \notin Val!Floating /\ type \notin Val!Integral /\ type # "chars"
         /\ type \in Val!Floating => type \notin Val!Integral /\ type # "chars"
         /\ type \in Val!Integral => type # "chars"
         /\ type = "char" => type \notin Val!Floating /\ type \notin Val!Integral
BY DEF Val!ArgumentTypes, Val!Floating, Val!Integral, Val!SignedTypes

LEMMA SelectIs ==
  ASSUME Val!JsonConstants, Slots(types), NEW type \in Val!ArgumentTypes, Val!IsViable(type)
  PROVE  SlotOf(type) \in 1..5 /\ Val!Select(type) = types[SlotOf(type)] /\ type # "char"
         /\ (SlotOf(type) = 5 <=> type = "chars")
<1>1. SlotOf(type) \in 1..5
  BY DEF SlotOf
<1>2. \A n \in 1..7 : Val!Converts(type, types[n]) <=> n = SlotOf(type) /\ type # "char"
  <2> TAKE n \in 1..7
  <2>1. Val!Converts(type, types[n]) <=>
          \/ n = 1 /\ type = "Null"
          \/ n = 2 /\ type = "bool"
          \/ n = 3 /\ type \in Val!Floating
          \/ n = 4 /\ type \in Val!Integral
          \/ n = 5 /\ type = "chars"
    BY ConvertsTo
  <2> QED BY <2>1, ArgumentKinds DEF SlotOf
<1>3. \A T : T \in Val!Selected(type) <=> \E n \in 1..7 : T = types[n] /\ n = SlotOf(type) /\ type # "char"
  BY <1>2, TypesInList DEF Val!Selected
<1>4. type # "char"
  <2>1. ASSUME type = "char" PROVE FALSE
    <3>1. Val!Selected(type) = {}
      BY <1>3, <2>1
    <3>2. PICK T : Val!Selected(type) = {T}
      BY DEF Val!IsViable
    <3> QED BY <3>1, <3>2
  <2> QED BY <2>1
<1>5. Val!Selected(type) = {types[SlotOf(type)]}
  BY <1>1, <1>3, <1>4
<1>6. SlotOf(type) = 5 <=> type = "chars"
  BY <1>4, ArgumentKinds DEF SlotOf
<1> QED BY <1>1, <1>4, <1>5, <1>6 DEF Val!Select

\* An argument becomes an object of the type that holds it.
LEMMA ArgumentIs ==
  ASSUME Val!JsonConstants, Slots(types), NEW a \in Arguments \cup Elements,
         NEW n \in 1..5, n = SlotOf(a.type), a.type # "char"
  PROVE  LET x == Val!Object(types[n], a.data)
         IN  /\ Plainly(types, x, Val!Meaning(a))
             /\ DOMAIN x = {"which", "data"} /\ DOMAIN Val!Meaning(a) = {"kind", "data", "exact"}
<1> DEFINE x == Val!Object(types[n], a.data)
           m == Val!Meaning(a)
           kind == CASE a.type \in Val!Integral \cup Val!Floating -> "number" [] a.type = "bool" -> "boolean"
                     [] a.type = "Null" -> "null" [] OTHER -> "string"
<1>1. /\ DOMAIN x = {"which", "data"} /\ x.which = n - 1
      /\ n # 4 => x.data = a.data
      /\ n = 4 => \E type \in Val!SignedTypes : Val!Stored[type] = types[4] /\ x.data = Val!Wrapped(a.data, type)
  BY ObjectIs
<1>2. m = [kind |-> kind, data |-> a.data, exact |-> a.type \notin Val!Floating]
  BY DEF Val!Meaning
<1>3. /\ a.type \in Val!ArgumentTypes
      /\ a.type \notin Val!Floating => a.data # NaN
      /\ a.type = "Null" => a.data = void
  BY DEF Val!JsonConstants
<1>4. /\ n = 1 => a.type = "Null" /\ kind = "null"
      /\ n = 2 => a.type = "bool" /\ kind = "boolean"
      /\ n = 3 => a.type \in Val!Floating /\ kind = "number"
      /\ n = 4 => a.type \in Val!Integral /\ kind = "number"
      /\ n = 5 => a.type = "chars" /\ kind = "string"
  BY <1>3, ArgumentKinds DEF SlotOf
<1>5. (a.type \notin Val!Floating) = (n # 3)
  BY <1>3, ArgumentKinds DEF SlotOf
<1> HIDE DEF x, m, kind
<1>6. /\ DOMAIN m = {"kind", "data", "exact"} /\ m.kind = kind /\ m.data = a.data
      /\ n # 3 => m.exact = TRUE
      /\ n = 3 => m.exact = FALSE
  BY <1>2, <1>5
<1>7. n = 1 \/ n = 2 \/ n = 3 \/ n = 4 \/ n = 5
  OBVIOUS
<1>8. n # 3 => a.data # NaN
  BY <1>3, <1>5
<1>9. Plainly(types, x, m)
  <2>1. CASE n = 1
    BY <2>1, <1>1, <1>3, <1>4, <1>6 DEF Plainly
  <2>2. CASE n = 2
    BY <2>2, <1>1, <1>4, <1>6, <1>8 DEF Plainly
  <2>3. CASE n = 3
    BY <2>3, <1>1, <1>4, <1>6 DEF Plainly
  <2>4. CASE n = 4
    BY <2>4, <1>1, <1>4, <1>6, <1>8 DEF Plainly
  <2>5. CASE n = 5
    BY <2>5, <1>1, <1>4, <1>6, <1>8 DEF Plainly
  <2> QED BY <1>7, <2>1, <2>2, <2>3, <2>4, <2>5
<1> QED BY <1>1, <1>6, <1>9 DEF x, m

LEMMA ConvertedIs ==
  ASSUME Val!JsonConstants, Slots(types), NEW a \in Arguments \cup Elements, Val!IsViable(a.type)
  PROVE  /\ Plainly(types, Val!Converted(a), Val!Meaning(a))
         /\ DOMAIN Val!Converted(a) = {"which", "data"} /\ DOMAIN Val!Meaning(a) = {"kind", "data", "exact"}
<1>1. a.type \in Val!ArgumentTypes
  BY DEF Val!JsonConstants
<1>2. SlotOf(a.type) \in 1..5 /\ Val!Select(a.type) = types[SlotOf(a.type)] /\ a.type # "char"
  BY <1>1, SelectIs
<1> QED BY <1>2, ArgumentIs DEF Val!Converted

LEMMA NullIs ==
  ASSUME Val!JsonConstants, Slots(types)
  PROVE  /\ Plainly(types, Val!Null, Val!NullMeant)
         /\ DOMAIN Val!Null = {"which", "data"} /\ DOMAIN Val!NullMeant = {"kind", "data", "exact"}
<1>1. types[1] = "Null"
  BY DEF Slots
<1>2. DOMAIN Val!Null = {"which", "data"} /\ Val!Null.which = 0 /\ Val!Null.data = void
  <2>1. Val!Null = Val!Object(types[1], void)
    BY <1>1 DEF Val!Null
  <2>2. 1 \in 1..7 /\ 1 - 1 = 0
    OBVIOUS
  <2> QED BY <2>1, <2>2, ObjectIs
<1>3. Val!NullMeant = [kind |-> "null", data |-> void, exact |-> TRUE]
  BY DEF Val!NullMeant, Val!Meant
<1> QED BY <1>2, <1>3 DEF Plainly

LEMMA EmplacedIs ==
  ASSUME Val!JsonConstants, Slots(types), NEW a \in Arguments, NEW tag \in TagNames, Val!IsConstructible(tag, a)
  PROVE  Given(types, Val!Emplaced(tag, a),
               IF tag = "array" THEN Val!Meant("array", [n \in 1..a.data |-> Val!NullMeant]) ELSE Val!Meaning(a))
<1> DEFINE n == Slot[tag]
<1>1. n \in 1..7 /\ Val!TypeOf(tag) = types[n] /\ Val!Tags[n] = tag
  BY SlotsOfTags
<1>2. a.type \in Val!ArgumentTypes
  BY DEF Val!JsonConstants
<1>3. (tag = "array" <=> n = 7)
  BY DEF Slot, TagNames
<1> HIDE DEF n
<1>4. Val!Converts(a.type, types[n]) <=>
           \/ n = 1 /\ a.type = "Null"
           \/ n = 2 /\ a.type = "bool"
           \/ n = 3 /\ a.type \in Val!Floating
           \/ n = 4 /\ a.type \in Val!Integral
           \/ n = 5 /\ a.type = "chars"
  BY <1>1, <1>2, ConvertsTo
<1>5. CASE Val!Converts(a.type, types[n])
  <2>1. n \in 1..5 /\ n = SlotOf(a.type) /\ a.type # "char"
    BY <1>1, <1>2, <1>4, <1>5, ArgumentKinds DEF SlotOf
  <2>2. tag # "array"
    BY <1>3, <2>1
  <2>3. Val!Emplaced(tag, a) = Val!Object(types[n], a.data)
    BY <1>1, <1>5 DEF Val!Emplaced
  <2>4. /\ Plainly(types, Val!Object(types[n], a.data), Val!Meaning(a))
        /\ DOMAIN Val!Object(types[n], a.data) = {"which", "data"}
        /\ DOMAIN Val!Meaning(a) = {"kind", "data", "exact"}
    BY <2>1, ArgumentIs
  <2> QED BY <2>2, <2>3, <2>4 DEF Given
<1>6. CASE ~Val!Converts(a.type, types[n])
  <2>1. tag = "array" /\ n = 7
    BY <1>1, <1>3, <1>6 DEF Val!IsConstructible
  <2> DEFINE nulls == [i \in 1..a.data |-> Val!Null]
             x == Val!Object(types[7], nulls)
             given == [i \in 1..a.data |-> Val!NullMeant]
             m == Val!Meant("array", given)
  <2>2. Val!Emplaced(tag, a) = x
    BY <1>1, <1>6, <2>1 DEF Val!Emplaced
  <2>3. m = [kind |-> "array", data |-> given, exact |-> TRUE]
    BY DEF Val!Meant
  <2>4. DOMAIN nulls = DOMAIN given /\ \A i \in DOMAIN given : Plainly(types, nulls[i], given[i])
    BY NullIs
  <2> HIDE DEF nulls, given
  <2>5. DOMAIN x = {"which", "data"} /\ x.which = 6 /\ x.data = nulls
    <3>1. 7 \in 1..7 /\ 7 - 1 = 6 /\ 7 # 4
      OBVIOUS
    <3> QED BY <3>1, ObjectIs
  <2> HIDE DEF x, m
  <2>6. Given(types, x, m)
    BY <2>3, <2>4, <2>5 DEF Given, Contains
  <2> QED BY <2>1, <2>2, <2>6 DEF x, m, given
<1> QED BY <1>5, <1>6

LEMMA DefaultIs ==
  ASSUME Val!JsonConstants, Slots(types), NEW tag \in TagNames
  PROVE  Given(types, Val!Object(Val!TypeOf(tag), Val!Defaulted[tag]),
               [Val!Meant(Val!KindOf(tag), Val!Zero[Val!KindOf(tag)]) EXCEPT !.exact = tag # "float_number"])
<1> DEFINE n == Slot[tag]
           x == Val!Object(types[n], Val!Defaulted[tag])
           kind == Val!KindOf(tag)
           zero == Val!Zero[kind]
           m == [Val!Meant(kind, zero) EXCEPT !.exact = tag # "float_number"]
<1>1. n \in 1..7 /\ Val!TypeOf(tag) = types[n]
  BY SlotsOfTags
<1>2. /\ DOMAIN x = {"which", "data"} /\ x.which = n - 1
      /\ n # 4 => x.data = Val!Defaulted[tag]
      /\ n = 4 => \E type \in Val!SignedTypes : Val!Stored[type] = types[4] /\ x.data = Val!Wrapped(Val!Defaulted[tag], type)
  BY <1>1, ObjectIs
<1>3. m = [kind |-> kind, data |-> zero, exact |-> tag # "float_number"]
  BY DEF Val!Meant
<1> HIDE DEF x, m
<1>12. /\ DOMAIN m = {"kind", "data", "exact"} /\ m.kind = kind /\ m.data = zero
       /\ tag # "float_number" => m.exact = TRUE
       /\ tag = "float_number" => m.exact = FALSE
  BY <1>3
<1>4. NaN # FALSE /\ NaN # 0 /\ NaN # <<>>
  BY DEF Val!JsonConstants
<1>5. ASSUME tag = "null" PROVE Given(types, x, m)
  <2>1. n = 1 /\ kind = "null" /\ zero = void /\ Val!Defaulted[tag] = void
    BY <1>5 DEF Slot, Val!KindOf, Val!Zero, Val!Defaulted
  <2> HIDE DEF n, kind, zero
  <2> QED BY <1>1, <1>2, <1>12, <1>5, <2>1 DEF Given, Plainly
<1>6. ASSUME tag = "boolean" PROVE Given(types, x, m)
  <2>1. n = 2 /\ kind = "boolean"
    BY <1>6 DEF Slot, Val!KindOf
  <2>2. zero = FALSE /\ Val!Defaulted[tag] = FALSE
    BY <1>6, <2>1 DEF Val!Zero, Val!Defaulted
  <2> HIDE DEF n, kind, zero
  <2>3. Val!Defaulted[tag] = zero /\ zero # NaN
    BY <2>2, <1>4
  <2> QED BY <1>1, <1>2, <1>12, <1>6, <2>1, <2>3 DEF Given, Plainly
<1>7. ASSUME tag = "float_number" PROVE Given(types, x, m)
  <2>1. n = 3 /\ kind = "number" /\ zero = 0 /\ Val!Defaulted[tag] = 0
    BY <1>7 DEF Slot, Val!KindOf, Val!Zero, Val!Defaulted
  <2> HIDE DEF n, kind, zero
  <2> QED BY <1>1, <1>2, <1>12, <1>4, <1>7, <2>1 DEF Given, Plainly
<1>8. ASSUME tag = "integral_number" PROVE Given(types, x, m)
  <2>1. n = 4 /\ kind = "number" /\ zero = 0 /\ Val!Defaulted[tag] = 0
    BY <1>8 DEF Slot, Val!KindOf, Val!Zero, Val!Defaulted
  <2> HIDE DEF n, kind, zero
  <2> QED BY <1>1, <1>2, <1>12, <1>4, <1>8, <2>1 DEF Given, Plainly
<1>9. ASSUME tag = "string" PROVE Given(types, x, m)
  <2>1. n = 5 /\ kind = "string" /\ zero = <<>> /\ Val!Defaulted[tag] = <<>>
    BY <1>9 DEF Slot, Val!KindOf, Val!Zero, Val!Defaulted
  <2> HIDE DEF n, kind, zero
  <2> QED BY <1>1, <1>2, <1>12, <1>4, <1>9, <2>1 DEF Given, Plainly
<1>10. ASSUME tag = "object" PROVE Given(types, x, m)
  <2>1. n = 6 /\ kind = "object" /\ zero = <<>> /\ Val!Defaulted[tag] = <<>>
    BY <1>10 DEF Slot, Val!KindOf, Val!Zero, Val!Defaulted
  <2> HIDE DEF n, kind, zero
  <2> QED BY <1>1, <1>2, <1>12, <1>10, <2>1 DEF Given, Contains
<1>11. ASSUME tag = "array" PROVE Given(types, x, m)
  <2>1. n = 7 /\ kind = "array" /\ zero = <<>> /\ Val!Defaulted[tag] = <<>>
    BY <1>11 DEF Slot, Val!KindOf, Val!Zero, Val!Defaulted
  <2> HIDE DEF n, kind, zero
  <2> QED BY <1>1, <1>2, <1>12, <1>11, <2>1 DEF Given, Contains
<1> QED BY <1>1, <1>5, <1>6, <1>7, <1>8, <1>9, <1>10, <1>11 DEF TagNames, x, m

LEMMA PlainlyHolds ==
  ASSUME Val!JsonConstants, NEW x, NEW m, Plainly(types, x, m)
  PROVE  Val!Holds(x, m) /\ x.which \in 0..4 /\ m.kind \in {"null", "boolean", "number", "string"}
<1>1. x.which \in 0..4 /\ m.kind \in {"null", "boolean", "number", "string"}
  BY DEF Plainly
<1>2. Val!TagAt(x.which) = Val!Tags[x.which + 1]
  BY <1>1, TagsOfSlots
<1>3. Val!TypeOf("integral_number") = types[4]
  BY SlotsOfTags DEF Slot, TagNames
<1>4. /\ Val!KindOf("null") = "null" /\ Val!KindOf("boolean") = "boolean" /\ Val!KindOf("float_number") = "number"
      /\ Val!KindOf("integral_number") = "number" /\ Val!KindOf("string") = "string"
  BY DEF Val!KindOf
<1>5. /\ x.which = 0 => Val!TagAt(x.which) = "null"
      /\ x.which = 1 => Val!TagAt(x.which) = "boolean"
      /\ x.which = 2 => Val!TagAt(x.which) = "float_number"
      /\ x.which = 3 => Val!TagAt(x.which) = "integral_number"
      /\ x.which = 4 => Val!TagAt(x.which) = "string"
  BY <1>2, TagsAre
<1>6. Val!Holds(x, m)
  <2>1. CASE x.which = 0
    BY <2>1, <1>4, <1>5 DEF Plainly, Val!Holds
  <2>2. CASE x.which = 1
    BY <2>2, <1>4, <1>5 DEF Plainly, Val!Holds
  <2>3. CASE x.which = 2
    BY <2>3, <1>4, <1>5 DEF Plainly, Val!Holds
  <2>4. CASE x.which = 3
    BY <2>4, <1>3, <1>4, <1>5 DEF Plainly, Val!Holds
  <2>5. CASE x.which = 4
    BY <2>5, <1>4, <1>5 DEF Plainly, Val!Holds
  <2> QED BY <1>1, <2>1, <2>2, <2>3, <2>4, <2>5
<1> QED BY <1>1, <1>6

LEMMA GivenHolds ==
  ASSUME Val!JsonConstants, NEW x, NEW m, Given(types, x, m)
  PROVE  /\ Val!HoldsAll(x, m) /\ x.which \in 0..6
         /\ m.kind \in {"null", "boolean", "number", "string", "object", "array"}
         /\ Val!KindOf(Val!TagAt(x.which)) = m.kind
<1>1. CASE Plainly(types, x, m)
  BY <1>1, PlainlyHolds DEF Val!HoldsAll, Val!Holds
<1>2. CASE Contains(types, x, m)
  <2>1. x.which \in 0..6 /\ m.kind \in {"object", "array"} /\ m.kind = (IF x.which = 5 THEN "object" ELSE "array")
    BY <1>2 DEF Contains
  <2>2. Val!TagAt(x.which) = Val!Tags[x.which + 1]
    BY <2>1, TagsOfSlots
  <2>3. Val!KindOf("object") = "object" /\ Val!KindOf("array") = "array"
    BY DEF Val!KindOf
  <2>4. Val!KindOf(Val!TagAt(x.which)) = m.kind
    BY <1>2, <2>1, <2>2, <2>3, TagsAre DEF Contains
  <2>5. CASE m.data = Unspecified
    BY <2>1, <2>4, <2>5 DEF Val!HoldsAll, Val!Holds
  <2>6. CASE m.data # Unspecified
    <3>1. DOMAIN x.data = DOMAIN m.data /\ \A i \in DOMAIN m.data : Plainly(types, x.data[i], m.data[i])
      BY <1>2, <2>6 DEF Contains
    <3>2. \A i \in DOMAIN m.data : Val!Holds(x.data[i], m.data[i])
      BY <3>1, PlainlyHolds
    <3> QED BY <2>1, <2>4, <2>6, <3>1, <3>2 DEF Val!HoldsAll
  <2> QED BY <2>1, <2>4, <2>5, <2>6
<1> QED BY <1>1, <1>2 DEF Given

\* The invariant.
ValuesInv ==
  /\ DOMAIN values = Vars /\ DOMAIN meant = Vars
  /\ \A v \in Vars : IF values[v].which = -1 THEN meant[v].kind = "dead" ELSE Given(types, values[v], meant[v])
ListInv == \E policies \in PolicyLists : types = Val!variant_type(policies)
Questions == {"nothing", "undefined", "type", "as", "as arithmetic", "equal", "equal to"}
AnswerInv ==
  answer.to \in Questions /\ Val!SaysItsType /\ Val!ReadsItsNumber /\ Val!ReadsItsKind /\ Val!ComparesAsGiven
JsonInv == ListInv /\ ValuesInv /\ AnswerInv

LEMMA ListIs == ASSUME Val!JsonConstants, ListInv PROVE Slots(types)
BY VariantTypes DEF ListInv

LEMMA NoQuestion ==
  ASSUME \/ answer' = Val!NoAnswer
         \/ answer' = [Val!NoAnswer EXCEPT !.to = "undefined"]
  PROVE  AnswerInv'
<1>1. answer'.to \in {"nothing", "undefined"}
  BY DEF Val!NoAnswer
<1> QED BY <1>1 DEF AnswerInv, Questions, Val!SaysItsType, Val!ReadsItsNumber, Val!ReadsItsKind, Val!ComparesAsGiven

\* One variable gets an object and a meaning, or two of them do.
LEMMA BecomesStep ==
  ASSUME Val!JsonConstants, ListInv, ValuesInv, NEW v \in Vars, NEW x, NEW m, Val!Becomes(v, x, m),
         Given(types, x, m) \/ (x.which = -1 /\ m.kind = "dead")
  PROVE  JsonInv'
<1>1. /\ values' = [values EXCEPT ![v] = x] /\ meant' = [meant EXCEPT ![v] = m]
      /\ answer' = Val!NoAnswer /\ types' = types
  BY DEF Val!Becomes
<1>2. AnswerInv'
  BY <1>1, NoQuestion
<1>3. ListInv'
  BY <1>1 DEF ListInv
<1>4. Given(types, x, m) => x.which # -1
  <2>1. Given(types, x, m) => x.which \in 0..6
    BY DEF Given, Plainly, Contains
  <2> QED BY <2>1
<1>5. ValuesInv'
  <2>1. DOMAIN values' = Vars /\ DOMAIN meant' = Vars
    BY <1>1 DEF ValuesInv
  <2>2. ASSUME NEW w \in Vars
        PROVE  IF values'[w].which = -1 THEN meant'[w].kind = "dead" ELSE Given(types, values'[w], meant'[w])
    <3>1. CASE w = v
      <4>1. values'[w] = x /\ meant'[w] = m
        BY <1>1, <3>1 DEF ValuesInv
      <4> QED BY <4>1, <1>4
    <3>2. CASE w # v
      <4>1. values'[w] = values[w] /\ meant'[w] = meant[w]
        BY <1>1, <3>2 DEF ValuesInv
      <4> QED BY <4>1 DEF ValuesInv
    <3> QED BY <3>1, <3>2
  <2> QED BY <1>1, <2>1, <2>2 DEF ValuesInv
<1> QED BY <1>2, <1>3, <1>5 DEF JsonInv

LEMMA MovedIs ==
  ASSUME Val!JsonConstants, NEW x, NEW m, Given(types, x, m), x.data # Unspecified
  PROVE  LET y == Val!Moved(x)
             n == IF Val!Moved(x) = x THEN m ELSE [m EXCEPT !.data = Unspecified]
         IN Given(types, y, n)
<1> DEFINE y == Val!Moved(x)
           n == IF Val!Moved(x) = x THEN m ELSE [m EXCEPT !.data = Unspecified]
<1>1. x.which \in 0..6
  BY GivenHolds
<1>2. Val!TagAt(x.which) = Val!Tags[x.which + 1]
  BY <1>1, TagsOfSlots
<1>3. CASE x.which \in 4..6
  <2>1. Val!TagAt(x.which) \in {"string", "object", "array"}
    BY <1>2, <1>3, TagsAre
  <2>2. y = [x EXCEPT !.data = Unspecified]
    BY <2>1 DEF Val!Moved
  <2>3. DOMAIN y = {"which", "data"} /\ y.which = x.which /\ y.data = Unspecified
    BY <2>2 DEF Given
  <2>4. y # x
    BY <2>3
  <2>5. n = [m EXCEPT !.data = Unspecified]
    BY <2>4
  <2>6. DOMAIN n = {"kind", "data", "exact"} /\ n.kind = m.kind /\ n.exact = m.exact /\ n.data = Unspecified
    BY <2>5 DEF Given
  <2> HIDE DEF y, n
  <2>7. Given(types, y, n)
    BY <1>3, <2>3, <2>6 DEF Given, Plainly, Contains
  <2> QED BY <2>7 DEF y, n
<1>4. CASE x.which \in 0..3
  <2>1. Val!TagAt(x.which) \notin {"string", "object", "array"}
    BY <1>2, <1>4, TagsAre
  <2>2. y = x
    BY <2>1 DEF Val!Moved
  <2> QED BY <2>2
<1> QED BY <1>1, <1>3, <1>4

LEMMA TakesStep ==
  ASSUME Val!JsonConstants, ListInv, ValuesInv, NEW v \in Vars, NEW w \in Vars, v # w, Val!Readable(w), Val!Takes(v, w)
  PROVE  JsonInv'
<1> DEFINE x == values[w]
           m == meant[w]
           y == Val!Moved(x)
           n == IF y = x THEN m ELSE [m EXCEPT !.data = Unspecified]
<1>1. /\ values' = [values EXCEPT ![w] = y, ![v] = x]
      /\ meant' = [meant EXCEPT ![w] = n, ![v] = m]
      /\ answer' = Val!NoAnswer /\ types' = types
  BY DEF Val!Takes
<1>2. Given(types, x, m) /\ x.data # Unspecified
  BY DEF ValuesInv, Val!Readable, Val!Live
<1>3. Given(types, y, n)
  BY <1>2, MovedIs
<1> HIDE DEF x, m, y, n
<1>4. \A o, p : Given(types, o, p) => o.which # -1
  <2>1. \A o, p : Given(types, o, p) => o.which \in 0..6
    BY DEF Given, Plainly, Contains
  <2> QED BY <2>1
<1>5. AnswerInv'
  BY <1>1, NoQuestion
<1>6. ListInv'
  BY <1>1 DEF ListInv
<1>7. ValuesInv'
  <2>1. DOMAIN values' = Vars /\ DOMAIN meant' = Vars
    BY <1>1 DEF ValuesInv
  <2>2. ASSUME NEW u \in Vars
        PROVE  IF values'[u].which = -1 THEN meant'[u].kind = "dead" ELSE Given(types, values'[u], meant'[u])
    <3>1. CASE u = v
      <4>1. values'[u] = x /\ meant'[u] = m
        BY <1>1, <3>1 DEF ValuesInv
      <4> QED BY <4>1, <1>2, <1>4
    <3>2. CASE u = w
      <4>1. values'[u] = y /\ meant'[u] = n
        BY <1>1, <3>2 DEF ValuesInv
      <4> QED BY <4>1, <1>3, <1>4
    <3>3. CASE u # v /\ u # w
      <4>1. values'[u] = values[u] /\ meant'[u] = meant[u]
        BY <1>1, <3>3 DEF ValuesInv
      <4> QED BY <4>1 DEF ValuesInv
    <3> QED BY <3>1, <3>2, <3>3
  <2> QED BY <1>1, <2>1, <2>2 DEF ValuesInv
<1> QED BY <1>5, <1>6, <1>7 DEF JsonInv

LEMMA SwapStep ==
  ASSUME Val!JsonConstants, ListInv, ValuesInv, NEW v \in Vars, NEW w \in Vars, Val!Swap(v, w)
  PROVE  JsonInv'
<1>1. /\ values' = [values EXCEPT ![v] = values[w], ![w] = values[v]]
      /\ meant' = [meant EXCEPT ![v] = meant[w], ![w] = meant[v]]
      /\ answer' = Val!NoAnswer /\ types' = types
  BY DEF Val!Swap
<1>2. AnswerInv'
  BY <1>1, NoQuestion
<1>3. ListInv'
  BY <1>1 DEF ListInv
<1>4. ValuesInv'
  <2>1. DOMAIN values' = Vars /\ DOMAIN meant' = Vars
    BY <1>1 DEF ValuesInv
  <2>2. ASSUME NEW u \in Vars
        PROVE  IF values'[u].which = -1 THEN meant'[u].kind = "dead" ELSE Given(types, values'[u], meant'[u])
    <3>1. PICK o \in Vars : values'[u] = values[o] /\ meant'[u] = meant[o]
      BY <1>1 DEF ValuesInv
    <3> QED BY <3>1 DEF ValuesInv
  <2> QED BY <1>1, <2>1, <2>2 DEF ValuesInv
<1> QED BY <1>2, <1>3, <1>4 DEF JsonInv

LEMMA ReadableIs ==
  ASSUME ValuesInv, NEW w \in Vars, Val!Readable(w)
  PROVE  Given(types, values[w], meant[w]) /\ values[w].data # Unspecified
BY DEF ValuesInv, Val!Readable, Val!Live

LEMMA ConstructStep ==
  ASSUME Val!JsonConstants, JsonInv, NEW v \in Vars, Val!Construct(v)
  PROVE  JsonInv'
<1>1. ListInv /\ ValuesInv /\ Slots(types)
  BY ListIs DEF JsonInv
<1>2. CASE Val!Default(v)
  <2>1. Given(types, Val!Null, Val!NullMeant)
    BY <1>1, NullIs DEF Given
  <2> QED BY <1>1, <1>2, <2>1, BecomesStep DEF Val!Default
<1>3. ASSUME NEW w \in Vars, Val!Copy(v, w) PROVE JsonInv'
  <2>1. Given(types, values[w], meant[w])
    BY <1>1, <1>3, ReadableIs DEF Val!Copy
  <2> QED BY <1>1, <1>3, <2>1, BecomesStep DEF Val!Copy
<1>4. ASSUME NEW w \in Vars, Val!Move(v, w) PROVE JsonInv'
  <2>1. v # w
    BY <1>4 DEF Val!Move, Val!Readable
  <2> QED BY <1>1, <1>4, <2>1, TakesStep DEF Val!Move
<1>5. ASSUME NEW a \in Arguments, Val!Forward(v, a) PROVE JsonInv'
  <2>1. Given(types, Val!Converted(a), Val!Meaning(a))
    BY <1>1, <1>5, ConvertedIs DEF Val!Forward, Given
  <2> QED BY <1>1, <1>5, <2>1, BecomesStep DEF Val!Forward
<1>6. ASSUME NEW a \in Arguments, NEW t \in Val!ToSet(Val!Tags), Val!Emplace(v, t, a) PROVE JsonInv'
  <2>1. t \in TagNames /\ Val!IsConstructible(t, a)
    BY <1>6, ToSetTags DEF Val!Emplace
  <2>2. Given(types, Val!Emplaced(t, a),
              IF t = "array" THEN Val!Meant("array", [n \in 1..a.data |-> Val!NullMeant]) ELSE Val!Meaning(a))
    BY <1>1, <2>1, EmplacedIs
  <2> QED BY <1>1, <1>6, <2>2, BecomesStep DEF Val!Emplace
<1>7. ASSUME NEW t \in Val!ToSet(Val!Tags), Val!EmplaceDefault(v, t) PROVE JsonInv'
  <2>1. t \in TagNames
    BY ToSetTags
  <2>2. Given(types, Val!Object(Val!TypeOf(t), Val!Defaulted[t]),
              [Val!Meant(Val!KindOf(t), Val!Zero[Val!KindOf(t)]) EXCEPT !.exact = t # "float_number"])
    BY <1>1, <2>1, DefaultIs
  <2> QED BY <1>1, <1>7, <2>2, BecomesStep DEF Val!EmplaceDefault
<1> QED BY <1>2, <1>3, <1>4, <1>5, <1>6, <1>7 DEF Val!Construct

\* An element of a container, which holds what its other elements hold.
LEMMA ContainerIs ==
  ASSUME Val!JsonConstants, ValuesInv, ListInv, NEW v \in Vars, NEW tag \in {"array", "object"}, Val!Is(v, tag)
  PROVE  LET x == values[v]
             m == meant[v]
         IN  /\ Given(types, x, m) /\ Contains(types, x, m)
             /\ DOMAIN x.data = DOMAIN m.data
             /\ \A i \in DOMAIN m.data : Plainly(types, x.data[i], m.data[i])
<1>1. Given(types, values[v], meant[v]) /\ values[v].data # Unspecified
  BY ReadableIs DEF Val!Is
<1>2. Slot[tag] \in {6, 7} /\ Val!TypeOf(tag) = types[Slot[tag]]
  <2>1. tag \in TagNames
    BY DEF TagNames
  <2> QED BY <2>1, SlotsOfTags DEF Slot
<1>3. values[v].which \in {5, 6}
  <2>1. Slots(types)
    BY ListIs
  <2>2. Val!IndexOf(types[Slot[tag]]) = Slot[tag] - 1
    BY <1>2, <2>1 DEF Slots, Val!IndexOf
  <2> QED BY <1>2, <2>2 DEF Val!Is
<1>4. ~Plainly(types, values[v], meant[v])
  BY <1>3 DEF Plainly
<1>5. Contains(types, values[v], meant[v])
  BY <1>1, <1>4 DEF Given
<1>6. /\ DOMAIN values[v].data = DOMAIN meant[v].data
      /\ \A i \in DOMAIN meant[v].data : Plainly(types, values[v].data[i], meant[v].data[i])
  BY <1>1, <1>5 DEF Contains
<1> QED BY <1>1, <1>5, <1>6

LEMMA ElementSet ==
  ASSUME NEW ts, NEW x, NEW m, Given(ts, x, m), Contains(ts, x, m), NEW d, NEW e,
         DOMAIN d = DOMAIN e, \A i \in DOMAIN e : Plainly(ts, d[i], e[i])
  PROVE  Given(ts, [x EXCEPT !.data = d], [m EXCEPT !.data = e])
<1> DEFINE y == [x EXCEPT !.data = d]
           n == [m EXCEPT !.data = e]
<1>1. DOMAIN y = {"which", "data"} /\ y.which = x.which /\ y.data = d
  BY DEF Given
<1>2. DOMAIN n = {"kind", "data", "exact"} /\ n.kind = m.kind /\ n.exact = m.exact /\ n.data = e
  BY DEF Given
<1> HIDE DEF y, n
<1>3. Given(ts, y, n)
  BY <1>1, <1>2 DEF Given, Contains
<1> QED BY <1>3 DEF y, n

LEMMA WithElement ==
  ASSUME NEW ts, NEW x, NEW m, Given(ts, x, m), Contains(ts, x, m),
         DOMAIN x.data = DOMAIN m.data, \A i \in DOMAIN m.data : Plainly(ts, x.data[i], m.data[i]),
         NEW key, NEW y, NEW n, Plainly(ts, y, n)
  PROVE  Given(ts, [x EXCEPT !.data = Val!With(@, key, y)], [m EXCEPT !.data = Val!With(@, key, n)])
<1> DEFINE d == Val!With(x.data, key, y)
           e == Val!With(m.data, key, n)
<1>1. DOMAIN d = DOMAIN e /\ \A i \in DOMAIN e : Plainly(ts, d[i], e[i])
  <2>1. /\ DOMAIN d = DOMAIN x.data \cup {key} /\ DOMAIN e = DOMAIN m.data \cup {key}
        /\ \A i \in DOMAIN e : d[i] = (IF i = key THEN y ELSE x.data[i]) /\ e[i] = (IF i = key THEN n ELSE m.data[i])
    BY DEF Val!With
  <2> HIDE DEF d, e
  <2> QED BY <2>1
<1>2. /\ [x EXCEPT !.data = Val!With(@, key, y)] = [x EXCEPT !.data = d]
      /\ [m EXCEPT !.data = Val!With(@, key, n)] = [m EXCEPT !.data = e]
  BY DEF Given
<1> HIDE DEF d, e
<1> QED BY <1>1, <1>2, ElementSet

LEMMA ChangeStep ==
  ASSUME Val!JsonConstants, JsonInv, NEW v \in Vars, Val!Change(v)
  PROVE  JsonInv'
<1>1. ListInv /\ ValuesInv /\ Slots(types)
  BY ListIs DEF JsonInv
<1>2. ASSUME NEW w \in Vars, Val!CopyAssign(v, w) PROVE JsonInv'
  <2>1. Given(types, values[w], meant[w])
    BY <1>1, <1>2, ReadableIs DEF Val!CopyAssign
  <2> QED BY <1>1, <1>2, <2>1, BecomesStep DEF Val!CopyAssign
<1>3. ASSUME NEW w \in Vars, Val!MoveAssign(v, w) PROVE JsonInv'
  BY <1>1, <1>3, TakesStep DEF Val!MoveAssign
<1>4. ASSUME NEW w \in Vars, Val!Swap(v, w) PROVE JsonInv'
  BY <1>1, <1>4, SwapStep
<1>5. ASSUME NEW a \in Arguments, Val!Assign(v, a) PROVE JsonInv'
  <2>1. Given(types, Val!Converted(a), Val!Meaning(a))
    BY <1>1, <1>5, ConvertedIs DEF Val!Assign, Given
  <2> QED BY <1>1, <1>5, <2>1, BecomesStep DEF Val!Assign
<1>6. ASSUME NEW a \in Elements, NEW n \in 1..2, Val!Index(v, n, a) PROVE JsonInv'
  <2> DEFINE x == values[v]
             m == meant[v]
             d == [x.data EXCEPT ![n] = Val!Converted(a)]
             e == [m.data EXCEPT ![n] = Val!Meaning(a)]
  <2>1. /\ Given(types, x, m) /\ Contains(types, x, m)
        /\ DOMAIN x.data = DOMAIN m.data
        /\ \A i \in DOMAIN m.data : Plainly(types, x.data[i], m.data[i])
    BY <1>1, <1>6, ContainerIs DEF Val!Index
  <2>2. Plainly(types, Val!Converted(a), Val!Meaning(a))
    BY <1>1, <1>6, ConvertedIs DEF Val!Index
  <2>3. DOMAIN d = DOMAIN e /\ \A i \in DOMAIN e : Plainly(types, d[i], e[i])
    BY <2>1, <2>2
  <2>4. /\ [x EXCEPT !.data[n] = Val!Converted(a)] = [x EXCEPT !.data = d]
        /\ [m EXCEPT !.data[n] = Val!Meaning(a)] = [m EXCEPT !.data = e]
    BY <2>1 DEF Given
  <2>5. Val!Becomes(v, [x EXCEPT !.data[n] = Val!Converted(a)], [m EXCEPT !.data[n] = Val!Meaning(a)])
    BY <1>6 DEF Val!Index
  <2> HIDE DEF d, e, x, m
  <2>6. Given(types, [x EXCEPT !.data = d], [m EXCEPT !.data = e])
    BY <2>1, <2>3, ElementSet
  <2> QED BY <1>1, <2>4, <2>5, <2>6, BecomesStep
<1>7. ASSUME NEW a \in Elements, NEW key \in Keys, Val!Member(v, key, a) PROVE JsonInv'
  <2>1. LET x == values[v]
            m == meant[v]
        IN  /\ Given(types, x, m) /\ Contains(types, x, m)
            /\ DOMAIN x.data = DOMAIN m.data
            /\ \A i \in DOMAIN m.data : Plainly(types, x.data[i], m.data[i])
    BY <1>1, <1>7, ContainerIs DEF Val!Member
  <2>2. Plainly(types, Val!Converted(a), Val!Meaning(a))
    BY <1>1, <1>7, ConvertedIs DEF Val!Member
  <2>3. Given(types, [values[v] EXCEPT !.data = Val!With(@, key, Val!Converted(a))],
              [meant[v] EXCEPT !.data = Val!With(@, key, Val!Meaning(a))])
    BY <2>1, <2>2, WithElement
  <2> QED BY <1>1, <1>7, <2>3, BecomesStep DEF Val!Member
<1>8. ASSUME NEW key \in Keys, Val!Lookup(v, key) PROVE JsonInv'
  <2>1. LET x == values[v]
            m == meant[v]
        IN  /\ Given(types, x, m) /\ Contains(types, x, m)
            /\ DOMAIN x.data = DOMAIN m.data
            /\ \A i \in DOMAIN m.data : Plainly(types, x.data[i], m.data[i])
    BY <1>1, <1>8, ContainerIs DEF Val!Lookup
  <2>2. Plainly(types, Val!Null, Val!NullMeant)
    BY <1>1, NullIs
  <2>3. Given(types, [values[v] EXCEPT !.data = Val!With(@, key, Val!Null)],
              [meant[v] EXCEPT !.data = Val!With(@, key, Val!NullMeant)])
    BY <2>1, <2>2, WithElement
  <2> QED BY <1>1, <1>8, <2>3, BecomesStep DEF Val!Lookup
<1> QED BY <1>2, <1>3, <1>4, <1>5, <1>6, <1>7, <1>8 DEF Val!Change

LEMMA DestroyValueStep ==
  ASSUME Val!JsonConstants, JsonInv, NEW v \in Vars, Val!Destroy(v)
  PROVE  JsonInv'
<1>1. Val!dead.which = -1 /\ Val!Nothing.kind = "dead"
  BY DEF Val!dead, Val!Nothing, Val!Meant
<1> QED BY <1>1, BecomesStep DEF Val!Destroy, JsonInv

LEMMA MisusedStep ==
  ASSUME Val!JsonConstants, JsonInv, NEW v \in Vars, Val!Misused(v)
  PROVE  JsonInv'
<1>1. /\ values' = [w \in Vars |-> Val!dead] /\ meant' = [w \in Vars |-> Val!Nothing]
      /\ answer' = [Val!NoAnswer EXCEPT !.to = "undefined"] /\ types' = types
  BY DEF Val!Misused
<1>2. Val!dead.which = -1 /\ Val!Nothing.kind = "dead"
  BY DEF Val!dead, Val!Nothing, Val!Meant
<1>3. ValuesInv'
  BY <1>1, <1>2 DEF ValuesInv
<1> QED BY <1>1, <1>3, NoQuestion DEF JsonInv, ListInv

\* What is true of an answer.
TypeTrue(m, said) ==
  /\ m.kind \in said.is /\ said.name = Val!Name(m.kind)
  /\ said.is \ {m.kind} = (IF m.kind # "number" THEN {} ELSE {IF m.exact THEN "integral_number" ELSE "float_number"})
NumberTrue(m, type, said) ==
  m.kind = "number" =>
    IF m.exact # (type \in Val!Integral) THEN said = void
    ELSE (Val!Fits(m) /\ Val!Wrapped(m.data, type) = m.data) \/ ~m.exact => said = m.data
KindTrue(m, tag, said) == said # void => Val!KindOf(tag) = m.kind
EqualTrue(m, other, said) == Val!Plain(m) /\ Val!Plain(other) => (said <=> Val!Agrees(m, other))

LEMMA SaysStep ==
  ASSUME JsonInv, NEW question \in Questions, NEW of, NEW said, Val!Says(question, of, said),
         question = "type" => TypeTrue(meant[of[1]], said),
         question = "as arithmetic" => NumberTrue(meant[of[1]], of[2], said),
         question = "as" => KindTrue(meant[of[1]], of[2], said),
         question = "equal" => EqualTrue(meant[of[1]], meant[of[2]], said),
         question = "equal to" => EqualTrue(meant[of[1]], Val!Meaning(of[2]), said)
  PROVE  JsonInv'
<1>1. answer' = [to |-> question, of |-> of, said |-> said] /\ types' = types /\ values' = values /\ meant' = meant
  BY DEF Val!Says
<1>2. answer'.to = question /\ answer'.of = of /\ answer'.said = said
  BY <1>1
<1>3. ListInv' /\ ValuesInv'
  BY <1>1 DEF JsonInv, ListInv, ValuesInv
<1>4. /\ \A m : Val!Fits(m)' <=> Val!Fits(m)
      /\ \A m : Val!Plain(m)' <=> Val!Plain(m)
  BY <1>1 DEF Val!Fits, Val!Plain, Val!TypeOf
<1>5. Val!SaysItsType'
  BY <1>1, <1>2 DEF Val!SaysItsType, TypeTrue
<1>6. Val!ReadsItsNumber'
  BY <1>1, <1>2, <1>4 DEF Val!ReadsItsNumber, NumberTrue
<1>7. Val!ReadsItsKind'
  BY <1>1, <1>2 DEF Val!ReadsItsKind, KindTrue
<1>8. Val!ComparesAsGiven'
  BY <1>1, <1>2, <1>4 DEF Val!ComparesAsGiven, EqualTrue
<1> QED BY <1>2, <1>3, <1>5, <1>6, <1>7, <1>8 DEF JsonInv, AnswerInv

LEMMA IsTypeIs ==
  ASSUME Val!JsonConstants, Slots(types), NEW v, NEW tag \in TagNames
  PROVE  Val!is_type(v, Val!TypeOf(tag)) <=> values[v].which = Slot[tag] - 1
<1>1. Slot[tag] \in 1..7 /\ Val!TypeOf(tag) = types[Slot[tag]]
  BY SlotsOfTags
<1>2. Val!IndexOf(types[Slot[tag]]) = Slot[tag] - 1
  BY <1>1 DEF Slots, Val!IndexOf
<1> QED BY <1>1, <1>2 DEF Val!is_type

LEMMA KindsAre ==
  /\ Val!KindOf("null") = "null" /\ Val!KindOf("boolean") = "boolean" /\ Val!KindOf("float_number") = "number"
  /\ Val!KindOf("integral_number") = "number" /\ Val!KindOf("string") = "string"
  /\ Val!KindOf("object") = "object" /\ Val!KindOf("array") = "array"
BY DEF Val!KindOf

LEMMA NameIs ==
  ASSUME NEW n \in 1..7
  PROVE  Val!Name(Val!KindOf(Val!Tags[n])) = Val!type_name[n]
<1> DEFINE kind == Val!KindOf(Val!Tags[n])
           c == CHOOSE k \in 1..7 : Val!KindOf(Val!Tags[k]) = kind
<1>1. c \in 1..7 /\ Val!KindOf(Val!Tags[c]) = kind
  OBVIOUS
<1>2. Val!Name(kind) = Val!type_name[c]
  BY DEF Val!Name
<1>3. Val!type_name[3] = Val!type_name[4]
  BY DEF Val!type_name
<1> HIDE DEF c
<1>4. \A k \in 1..7 : k = 1 \/ k = 2 \/ k = 3 \/ k = 4 \/ k = 5 \/ k = 6 \/ k = 7
  OBVIOUS
<1>5. c = n \/ (c \in {3, 4} /\ n \in {3, 4})
  BY <1>1, <1>4, TagsAre, KindsAre
<1> QED BY <1>2, <1>3, <1>5

LEMMA ObserveStep ==
  ASSUME Val!JsonConstants, JsonInv, NEW v \in Vars, Val!Observe(v)
  PROVE  JsonInv'
<1> DEFINE x == values[v]
           m == meant[v]
           is == {o \in DOMAIN Val!Observers : \E tag \in Val!Observers[o] : Val!is_type(v, Val!TypeOf(tag))}
           name == Val!at(x.which, Val!type_name)
           said == [is |-> is, name |-> name]
<1>1. Slots(types) /\ Given(types, x, m)
  BY ListIs DEF JsonInv, ValuesInv, Val!Observe, Val!Live
<1>2. /\ x.which \in 0..6 /\ Val!KindOf(Val!TagAt(x.which)) = m.kind
      /\ Val!TagAt(x.which) = Val!Tags[x.which + 1] /\ name = Val!type_name[x.which + 1]
  BY <1>1, GivenHolds, TagsOfSlots
<1>3. name = Val!Name(m.kind)
  <2>1. x.which + 1 \in 1..7
    BY <1>2
  <2> QED BY <1>2, <2>1, NameIs
<1>4. DOMAIN Val!Observers = TagNames \cup {"number"}
  BY DEF Val!Observers, TagNames
<1>5. /\ \A o \in TagNames : Val!Observers[o] = {o}
      /\ Val!Observers["number"] = {"integral_number", "float_number"}
  BY DEF Val!Observers, TagNames
<1>6. \A tag \in TagNames : Val!is_type(v, Val!TypeOf(tag)) <=> x.which = Slot[tag] - 1
  BY <1>1, IsTypeIs
<1>7. \A o : o \in is <=> \/ o \in TagNames /\ x.which = Slot[o] - 1
                          \/ o = "number" /\ x.which \in {2, 3}
  <2>1. "integral_number" \in TagNames /\ "float_number" \in TagNames /\ "number" \notin TagNames
    BY DEF TagNames
  <2>2. Slot["integral_number"] - 1 = 3 /\ Slot["float_number"] - 1 = 2
    BY DEF Slot
  <2>3. \A o : o \in is <=> o \in DOMAIN Val!Observers /\ \E tag \in Val!Observers[o] : Val!is_type(v, Val!TypeOf(tag))
    OBVIOUS
  <2> HIDE DEF is, x
  <2>4. \A o \in TagNames : o \in is <=> x.which = Slot[o] - 1
    BY <1>4, <1>5, <1>6, <2>3
  <2>5. "number" \in is <=> x.which \in {2, 3}
    BY <1>4, <1>5, <1>6, <2>1, <2>2, <2>3
  <2>6. \A o : o \in is => o \in TagNames \/ o = "number"
    BY <1>4, <2>3
  <2> QED BY <2>1, <2>4, <2>5, <2>6
<1>8. /\ Slot["null"] = 1 /\ Slot["boolean"] = 2 /\ Slot["float_number"] = 3 /\ Slot["integral_number"] = 4
      /\ Slot["string"] = 5 /\ Slot["object"] = 6 /\ Slot["array"] = 7
  BY DEF Slot
<1>9. x.which = 2 => m.exact = FALSE
  BY <1>1 DEF Given, Plainly, Contains
<1>10. x.which = 3 => m.exact = TRUE
  BY <1>1 DEF Given, Plainly, Contains
<1> HIDE DEF is, x, m, name
<1>11. m.kind \in is /\ is \ {m.kind} = (IF m.kind # "number" THEN {} ELSE {IF m.exact THEN "integral_number" ELSE "float_number"})
  <2>1. \A o : o \in is <=> \/ o = "null" /\ x.which = 0
                            \/ o = "boolean" /\ x.which = 1
                            \/ o = "float_number" /\ x.which = 2
                            \/ o = "integral_number" /\ x.which = 3
                            \/ o = "string" /\ x.which = 4
                            \/ o = "object" /\ x.which = 5
                            \/ o = "array" /\ x.which = 6
                            \/ o = "number" /\ x.which \in {2, 3}
    BY <1>7, <1>8 DEF TagNames
  <2>2. /\ x.which = 0 => m.kind = "null"
        /\ x.which = 1 => m.kind = "boolean"
        /\ x.which = 2 => m.kind = "number"
        /\ x.which = 3 => m.kind = "number"
        /\ x.which = 4 => m.kind = "string"
        /\ x.which = 5 => m.kind = "object"
        /\ x.which = 6 => m.kind = "array"
    BY <1>2, TagsAre, KindsAre
  <2>3. CASE x.which = 2
    <3>1. is = {"number", "float_number"}
      BY <2>1, <2>3
    <3> QED BY <3>1, <2>2, <2>3, <1>9
  <2>4. CASE x.which = 3
    <3>1. is = {"number", "integral_number"}
      BY <2>1, <2>4
    <3> QED BY <3>1, <2>2, <2>4, <1>10
  <2>5. CASE x.which # 2 /\ x.which # 3
    <3>1. is = {m.kind} /\ m.kind # "number"
      BY <2>1, <2>2, <2>5, <1>2
    <3> QED BY <3>1
  <2> QED BY <2>3, <2>4, <2>5
<1>12. TypeTrue(m, said)
  BY <1>3, <1>11 DEF TypeTrue
<1>13. Val!Says("type", <<v>>, said)
  BY DEF Val!Observe, is, name, x
<1> HIDE DEF said
<1>14. "type" \in Questions /\ <<v>>[1] = v
  BY DEF Questions
<1> QED BY <1>12, <1>13, <1>14, SaysStep DEF m

LEMMA AsStep ==
  ASSUME Val!JsonConstants, JsonInv, NEW v \in Vars, NEW tag \in Val!ToSet(Val!Tags), Val!As(v, tag)
  PROVE  JsonInv'
<1> DEFINE said == Val!Accessed(v, tag)
<1>1. Slots(types) /\ Given(types, values[v], meant[v]) /\ tag \in TagNames
  BY ListIs, ReadableIs, ToSetTags DEF JsonInv, Val!As
<1>2. said # void => values[v].which = Slot[tag] - 1
  BY <1>1, IsTypeIs DEF Val!Accessed
<1>3. Val!KindOf(Val!TagAt(values[v].which)) = meant[v].kind /\ values[v].which \in 0..6
  BY <1>1, GivenHolds
<1>4. said # void => Val!TagAt(values[v].which) = tag
  <2>1. Slot[tag] \in 1..7 /\ Val!Tags[Slot[tag]] = tag
    BY <1>1, SlotsOfTags
  <2>2. Val!TagAt(values[v].which) = Val!Tags[values[v].which + 1]
    BY <1>3, TagsOfSlots
  <2> HIDE DEF said
  <2>3. said # void => values[v].which + 1 = Slot[tag]
    BY <1>2, <2>1
  <2> QED BY <2>1, <2>2, <2>3
<1>5. KindTrue(meant[v], tag, said)
  BY <1>3, <1>4 DEF KindTrue
<1>6. Val!Says("as", <<v, tag>>, said)
  BY DEF Val!As
<1> HIDE DEF said
<1>7. "as" \in Questions /\ <<v, tag>>[1] = v /\ <<v, tag>>[2] = tag
  BY DEF Questions
<1> QED BY <1>5, <1>6, <1>7, SaysStep

LEMMA AsArithmeticStep ==
  ASSUME Val!JsonConstants, JsonInv, NEW v \in Vars, NEW type \in Val!Integral \cup Val!Floating,
         Val!AsArithmetic(v, type)
  PROVE  JsonInv'
<1> DEFINE x == values[v]
           m == meant[v]
           tag == IF type \in Val!Integral THEN "integral_number" ELSE "float_number"
           asked == Val!is_type(v, Val!TypeOf(tag))
           said == IF asked /\ type \in Val!Integral THEN Val!Wrapped(x.data, type) ELSE Val!Accessed(v, tag)
<1>1. Slots(types) /\ Given(types, x, m)
  BY ListIs, ReadableIs DEF JsonInv, Val!AsArithmetic
<1>2. asked <=> x.which = (IF type \in Val!Integral THEN 3 ELSE 2)
  <2>1. tag \in TagNames /\ Slot[tag] - 1 = (IF type \in Val!Integral THEN 3 ELSE 2)
    BY DEF TagNames, Slot
  <2> HIDE DEF tag
  <2> QED BY <1>1, <2>1, IsTypeIs
<1>3. Val!Accessed(v, tag) = IF asked THEN x.data ELSE void
  BY DEF Val!Accessed
<1>4. said = IF asked THEN (IF type \in Val!Integral THEN Val!Wrapped(x.data, type) ELSE x.data) ELSE void
  BY <1>3
<1>5. Val!TypeOf("integral_number") = types[4]
  BY SlotsOfTags DEF Slot, TagNames
<1>6. \A t, u \in Val!SignedTypes : Val!Stored[t] = Val!Stored[u] => t = u
  BY DEF Val!JsonConstants
<1>7. Val!Says("as arithmetic", <<v, type>>, said)
  BY DEF Val!AsArithmetic
<1> HIDE DEF x, m, said, asked
<1>8. m.kind = "number" => \/ x.which = 2 /\ m.exact = FALSE /\ x.data = m.data
                           \/ /\ x.which = 3 /\ m.exact = TRUE
                              /\ \E t \in Val!SignedTypes : Val!Stored[t] = types[4] /\ x.data = Val!Wrapped(m.data, t)
  BY <1>1 DEF Given, Plainly, Contains
<1>9. m.kind = "number" /\ Val!Fits(m) => x.data = m.data
  <2> SUFFICES ASSUME m.kind = "number", Val!Fits(m) PROVE x.data = m.data
    OBVIOUS
  <2>1. PICK t \in Val!SignedTypes : Val!Stored[t] = types[4] /\ Val!Wrapped(m.data, t) = m.data
    BY <1>5 DEF Val!Fits
  <2> QED BY <1>6, <1>8, <2>1
<1>10. NumberTrue(m, type, said)
  <2> SUFFICES ASSUME m.kind = "number"
               PROVE  IF m.exact # (type \in Val!Integral) THEN said = void
                      ELSE (Val!Fits(m) /\ Val!Wrapped(m.data, type) = m.data) \/ ~m.exact => said = m.data
    BY DEF NumberTrue
  <2>1. CASE x.which = 2 /\ type \in Val!Integral
    <3>1. said = void
      BY <1>2, <1>4, <2>1
    <3>2. m.exact = FALSE
      BY <1>8, <2>1
    <3> QED BY <2>1, <3>1, <3>2
  <2>2. CASE x.which = 2 /\ type \notin Val!Integral
    <3>1. said = x.data
      BY <1>2, <1>4, <2>2
    <3>2. m.exact = FALSE /\ x.data = m.data
      BY <1>8, <2>2
    <3>3. (type \in Val!Integral) = FALSE
      BY <2>2
    <3>4. m.exact = (type \in Val!Integral)
      BY <3>2, <3>3, Zenon
    <3> QED BY <3>1, <3>2, <3>4
  <2>3. CASE x.which = 3 /\ type \notin Val!Integral
    <3>1. said = void
      BY <1>2, <1>4, <2>3
    <3>2. m.exact = TRUE
      BY <1>8, <2>3
    <3> QED BY <2>3, <3>1, <3>2
  <2>4. CASE x.which = 3 /\ type \in Val!Integral
    <3>1. said = Val!Wrapped(x.data, type)
      BY <1>2, <1>4, <2>4
    <3>2. m.exact = TRUE
      BY <1>8, <2>4
    <3>3. Val!Fits(m) => x.data = m.data
      BY <1>9
    <3> QED BY <2>4, <3>1, <3>2, <3>3
  <2> QED BY <1>8, <2>1, <2>2, <2>3, <2>4
<1>11. "as arithmetic" \in Questions /\ <<v, type>>[1] = v /\ <<v, type>>[2] = type
  BY DEF Questions
<1> QED BY <1>7, <1>10, <1>11, SaysStep DEF m

\* A value that is plain is held as it was given.
LEMMA PlainIs ==
  ASSUME Val!JsonConstants, NEW x, NEW m, Given(types, x, m), Val!Plain(m)
  PROVE  \/ x.which = 0 /\ m.kind = "null" /\ m.exact = TRUE /\ m.data = void
         \/ x.which = 1 /\ m.kind = "boolean" /\ m.exact = TRUE /\ x.data = m.data /\ m.data # NaN
         \/ x.which = 2 /\ m.kind = "number" /\ m.exact = FALSE /\ x.data = m.data /\ m.data # NaN
         \/ x.which = 3 /\ m.kind = "number" /\ m.exact = TRUE /\ x.data = m.data /\ m.data # NaN
         \/ /\ x.which = 4 /\ m.kind = "string" /\ m.exact = TRUE /\ x.data = m.data
            /\ m.data # NaN \/ m.data = Unspecified
<1>1. Plainly(types, x, m)
  BY DEF Given, Contains, Val!Plain
<1>2. Val!TypeOf("integral_number") = types[4]
  BY SlotsOfTags DEF Slot, TagNames
<1>3. \A t, u \in Val!SignedTypes : Val!Stored[t] = Val!Stored[u] => t = u
  BY DEF Val!JsonConstants
<1>4. CASE x.which = 3
  <2>1. m.kind = "number" /\ m.exact = TRUE /\ m.data # NaN
    BY <1>1, <1>4 DEF Plainly
  <2>2. PICK t \in Val!SignedTypes : Val!Stored[t] = types[4] /\ x.data = Val!Wrapped(m.data, t)
    BY <1>1, <1>4 DEF Plainly
  <2>3. Val!Fits(m)
    BY <2>1 DEF Val!Plain
  <2>4. PICK u \in Val!SignedTypes : Val!Stored[u] = types[4] /\ Val!Wrapped(m.data, u) = m.data
    BY <1>2, <2>3 DEF Val!Fits
  <2> QED BY <1>3, <1>4, <2>1, <2>2, <2>4
<1>5. CASE x.which = 2
  <2>1. m.kind = "number" /\ m.exact = FALSE /\ x.data = m.data
    BY <1>1, <1>5 DEF Plainly
  <2>2. m.data # NaN
    BY <2>1 DEF Val!Plain
  <2> QED BY <1>5, <2>1, <2>2
<1>6. CASE x.which # 2 /\ x.which # 3
  BY <1>1, <1>6 DEF Plainly
<1> QED BY <1>4, <1>5, <1>6

LEMMA EqualIs ==
  ASSUME Val!JsonConstants, NEW x, NEW m, Given(types, x, m), NEW y, NEW o, Given(types, y, o), x.data # Unspecified
  PROVE  EqualTrue(m, o, Val!IsEqual(x, y))
<1> SUFFICES ASSUME Val!Plain(m), Val!Plain(o) PROVE Val!IsEqual(x, y) <=> Val!Agrees(m, o)
  BY DEF EqualTrue
<1>1. /\ \/ x.which = 0 /\ m.kind = "null" /\ m.exact = TRUE /\ m.data = void
         \/ x.which = 1 /\ m.kind = "boolean" /\ m.exact = TRUE /\ x.data = m.data /\ m.data # NaN
         \/ x.which = 2 /\ m.kind = "number" /\ m.exact = FALSE /\ x.data = m.data /\ m.data # NaN
         \/ x.which = 3 /\ m.kind = "number" /\ m.exact = TRUE /\ x.data = m.data /\ m.data # NaN
         \/ x.which = 4 /\ m.kind = "string" /\ m.exact = TRUE /\ x.data = m.data /\ m.data # NaN
  BY PlainIs
<1>2. \/ y.which = 0 /\ o.kind = "null" /\ o.exact = TRUE /\ o.data = void
      \/ y.which = 1 /\ o.kind = "boolean" /\ o.exact = TRUE /\ y.data = o.data
      \/ y.which = 2 /\ o.kind = "number" /\ o.exact = FALSE /\ y.data = o.data
      \/ y.which = 3 /\ o.kind = "number" /\ o.exact = TRUE /\ y.data = o.data
      \/ y.which = 4 /\ o.kind = "string" /\ o.exact = TRUE /\ y.data = o.data
  BY PlainIs
<1>3. x.which \in 0..4
  BY <1>1
<1>4. Val!TagAt(x.which) = Val!Tags[x.which + 1]
  BY <1>3, TagsOfSlots
<1>5. Val!TagAt(x.which) \notin {"array", "object"} /\ (Val!TagAt(x.which) = "null" <=> x.which = 0)
  BY <1>3, <1>4, TagsAre
<1>6. Val!IsEqual(x, y) <=> x.which = y.which /\ (x.which = 0 \/ (x.data = y.data /\ x.data # NaN))
  BY <1>5 DEF Val!IsEqual, Val!Same
<1>7. Val!Agrees(m, o) <=> m.kind = o.kind /\ m.exact = o.exact /\ m.data = o.data
  BY DEF Val!Agrees
<1>8. x.which = y.which <=> m.kind = o.kind /\ m.exact = o.exact
  <2>1. /\ x.which = 2 => m.exact = FALSE
        /\ x.which # 2 => m.exact = TRUE
    BY <1>1
  <2>2. /\ y.which = 2 => o.exact = FALSE
        /\ y.which # 2 => o.exact = TRUE
    BY <1>2
  <2>3. m.exact = o.exact <=> (x.which = 2 <=> y.which = 2)
    BY <2>1, <2>2, Zenon
  <2>4. x.which = y.which <=> m.kind = o.kind /\ (x.which = 2 <=> y.which = 2)
    BY <1>1, <1>2
  <2> QED BY <2>3, <2>4, Zenon
<1>9. CASE x.which = 0
  <2>1. x.which = y.which => m.data = o.data
    BY <1>1, <1>2, <1>9
  <2> QED BY <1>6, <1>7, <1>8, <1>9, <2>1
<1>10. CASE x.which # 0
  <2>1. x.data = m.data /\ x.data # NaN
    BY <1>1, <1>10
  <2>2. x.which = y.which => y.data = o.data
    BY <1>2, <1>10
  <2> QED BY <1>6, <1>7, <1>8, <1>10, <2>1, <2>2
<1> QED BY <1>9, <1>10

LEMMA CompareStep ==
  ASSUME Val!JsonConstants, JsonInv, NEW v \in Vars, NEW w \in Vars, Val!Compare(v, w)
  PROVE  JsonInv'
<1> DEFINE said == Val!IsEqual(values[v], values[w])
<1>1. Given(types, values[v], meant[v]) /\ values[v].data # Unspecified /\ Given(types, values[w], meant[w])
  BY ReadableIs DEF JsonInv, Val!Compare
<1>2. EqualTrue(meant[v], meant[w], said)
  BY <1>1, EqualIs
<1>3. Val!Says("equal", <<v, w>>, said)
  BY DEF Val!Compare
<1> HIDE DEF said
<1>4. "equal" \in Questions /\ <<v, w>>[1] = v /\ <<v, w>>[2] = w
  BY DEF Questions
<1> QED BY <1>2, <1>3, <1>4, SaysStep

LEMMA CompareToStep ==
  ASSUME Val!JsonConstants, JsonInv, NEW v \in Vars, NEW a \in Arguments, Val!CompareTo(v, a)
  PROVE  JsonInv'
<1> DEFINE said == Val!IsEqual(values[v], Val!Converted(a))
<1>1. Given(types, values[v], meant[v]) /\ values[v].data # Unspecified
  BY ReadableIs DEF JsonInv, Val!CompareTo
<1>2. Given(types, Val!Converted(a), Val!Meaning(a))
  BY ListIs, ConvertedIs DEF JsonInv, Val!CompareTo, Given
<1>3. EqualTrue(meant[v], Val!Meaning(a), said)
  BY <1>1, <1>2, EqualIs
<1>4. Val!Says("equal to", <<v, a>>, said)
  BY DEF Val!CompareTo
<1> HIDE DEF said
<1>5. "equal to" \in Questions /\ <<v, a>>[1] = v /\ <<v, a>>[2] = a
  BY DEF Questions
<1> QED BY <1>3, <1>4, <1>5, SaysStep

LEMMA AskStep == ASSUME Val!JsonConstants, JsonInv, NEW v \in Vars, Val!Ask(v) PROVE JsonInv'
<1>1. CASE Val!Observe(v)
  BY <1>1, ObserveStep
<1>2. CASE \E t \in Val!ToSet(Val!Tags) : Val!As(v, t)
  BY <1>2, AsStep
<1>3. CASE \E type \in Val!Integral \cup Val!Floating : Val!AsArithmetic(v, type)
  BY <1>3, AsArithmeticStep
<1>4. CASE \E w \in Vars : Val!Compare(v, w)
  BY <1>4, CompareStep
<1>5. CASE \E a \in Arguments : Val!CompareTo(v, a)
  BY <1>5, CompareToStep
<1> QED BY <1>1, <1>2, <1>3, <1>4, <1>5 DEF Val!Ask

LEMMA JsonInit == ASSUME Val!JsonConstants, Val!Init PROVE JsonInv
<1>1. ListInv
  BY DEF Val!Init, ListInv
<1>2. Val!dead.which = -1 /\ Val!Nothing.kind = "dead"
  BY DEF Val!dead, Val!Nothing, Val!Meant
<1>3. ValuesInv
  BY <1>2 DEF Val!Init, ValuesInv
<1>4. answer.to = "nothing"
  BY DEF Val!Init, Val!NoAnswer
<1>5. AnswerInv
  BY <1>4 DEF AnswerInv, Questions, Val!SaysItsType, Val!ReadsItsNumber, Val!ReadsItsKind, Val!ComparesAsGiven
<1> QED BY <1>1, <1>3, <1>5 DEF JsonInv

LEMMA JsonStep == ASSUME Val!JsonConstants, JsonInv, [Val!Next]_(Val!vars) PROVE JsonInv'
<1>1. ASSUME NEW v \in Vars, Val!Construct(v) PROVE JsonInv'
  BY <1>1, ConstructStep
<1>2. ASSUME NEW v \in Vars, Val!Destroy(v) PROVE JsonInv'
  BY <1>2, DestroyValueStep
<1>3. ASSUME NEW v \in Vars, Val!Change(v) PROVE JsonInv'
  BY <1>3, ChangeStep
<1>4. ASSUME NEW v \in Vars, Val!Misused(v) PROVE JsonInv'
  BY <1>4, MisusedStep
<1>5. ASSUME NEW v \in Vars, Val!Ask(v) PROVE JsonInv'
  BY <1>5, AskStep
<1>6. CASE Val!GoOn
  <2>1. answer' = Val!NoAnswer /\ types' = types /\ values' = values /\ meant' = meant
    BY <1>6 DEF Val!GoOn
  <2>2. ListInv' /\ ValuesInv'
    BY <2>1 DEF JsonInv, ListInv, ValuesInv
  <2> QED BY <2>1, <2>2, NoQuestion DEF JsonInv
<1>7. CASE UNCHANGED Val!vars
  <2>1. answer' = answer /\ types' = types /\ values' = values /\ meant' = meant
    BY <1>7 DEF Val!vars
  <2>2. ListInv' /\ ValuesInv'
    BY <2>1 DEF JsonInv, ListInv, ValuesInv
  <2>3. /\ \A m : Val!Fits(m)' <=> Val!Fits(m)
        /\ \A m : Val!Plain(m)' <=> Val!Plain(m)
    BY <2>1 DEF Val!Fits, Val!Plain, Val!TypeOf
  <2>4. AnswerInv'
    BY <2>1, <2>3 DEF JsonInv, AnswerInv, Val!SaysItsType, Val!ReadsItsNumber, Val!ReadsItsKind, Val!ComparesAsGiven
  <2> QED BY <2>2, <2>4 DEF JsonInv
<1> QED BY <1>1, <1>2, <1>3, <1>4, <1>5, <1>6, <1>7 DEF Val!Next

LEMMA JsonHolds == ASSUME Val!JsonConstants, JsonInv PROVE Val!TypeOK /\ Val!SaysWhatItHolds
<1>1. \A v \in Vars : Val!Live(v) => Given(types, values[v], meant[v])
  BY DEF JsonInv, ValuesInv, Val!Live
<1>2. Val!HoldsItsValue
  BY <1>1, GivenHolds DEF Val!HoldsItsValue
<1>3. Slots(types)
  BY ListIs DEF JsonInv
<1>4. Len(types) = 7
  <2>1. PICK policies \in PolicyLists : types = Val!variant_type(policies)
    BY DEF JsonInv, ListInv
  <2> DEFINE e(n) == IF n = 1 THEN "Null" ELSE IF n = 2 THEN "Boolean" ELSE Val!policy(policies, Val!Tags[n])
  <2>2. types = [n \in 1..7 |-> e(n)]
    BY <2>1 DEF Val!variant_type
  <2> HIDE DEF e
  <2>3. Len([n \in 1..7 |-> e(n)]) = 7
    OBVIOUS
  <2> QED BY <2>2, <2>3
<1>5. Val!IsInjective(types)
  BY <1>3 DEF Slots, Val!IsInjective
<1>6. ASSUME NEW v \in Vars
      PROVE  values[v].which \in -1..6 /\ (Val!Live(v) <=> meant[v].kind # "dead")
  <2>1. CASE values[v].which = -1
    BY <2>1 DEF JsonInv, ValuesInv, Val!Live
  <2>2. CASE values[v].which # -1
    BY <2>2, <1>1, GivenHolds DEF Val!Live
  <2> QED BY <2>1, <2>2
<1>7. answer.to \in {"nothing", "undefined", "type", "as", "as arithmetic", "equal", "equal to"}
  BY DEF JsonInv, AnswerInv, Questions
<1>8. Val!TypeOK
  BY <1>4, <1>5, <1>6, <1>7 DEF Val!TypeOK
<1> QED BY <1>2, <1>8 DEF JsonInv, AnswerInv, Val!SaysWhatItHolds

\* A json::value says what it holds, and holds what it was given, for any policies
\* whose seven types differ, any arguments and any number of variables, whatever
\* sequence of its constructors, assignments, swaps and accesses to elements.
THEOREM ValueSaysWhatItHolds == ASSUME Val!JsonConstants PROVE Val!Spec => [](Val!TypeOK /\ Val!SaysWhatItHolds)
<1>1. Val!Init => JsonInv
  BY JsonInit
<1>2. JsonInv /\ [Val!Next]_(Val!vars) => JsonInv'
  BY JsonStep
<1>3. JsonInv => Val!TypeOK /\ Val!SaysWhatItHolds
  BY JsonHolds
<1> QED BY <1>1, <1>2, <1>3, PTL DEF Val!Spec
=============================================================================
