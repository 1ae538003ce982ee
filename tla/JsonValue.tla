------------------------------ MODULE JsonValue -----------------------------
(***************************************************************************)
(* value/value.hpp: json::value, the variant over the seven types that its *)
(* policies choose: its constructors, assignments, observers, accessors    *)
(* and comparisons, as overload resolution on the types (TypeLists) makes  *)
(* them.  Assignment in the steps it takes is the module Variant; here it  *)
(* is one step.  A container has scalars for elements; allocators are left *)
(* out.                                                                    *)
(***************************************************************************)
EXTENDS TypeLists

CONSTANTS Vars,         \* the variables of type value
          PolicyLists,  \* the lists of Policies, records of a tag and a type
          Arguments,    \* what a client constructs and assigns from: a C++ type and its data
          Elements,     \* those of them that it assigns to an element
          Bits,         \* the width of the integral types
          Keys,         \* of objects
          NaN, Unspecified

VARIABLES types,     \* the list of variant_type, which the policies choose
          values,    \* of each variable: which_ and what storage_ holds; dead has no object
          meant,     \* of each variable: the JSON value that the client gave it
          answer     \* the last question to a value and what it said

vars == <<types, values, meant, answer>>

SignedTypes == {"short", "int", "long"}
Integral == SignedTypes \cup {"unsigned"}
Floating == {"float", "double"}

\* static_cast to an integral type
Wrapped(n, type) ==
  IF type \in SignedTypes THEN ((n + 2^(Bits[type] - 1)) % (2^Bits[type])) - 2^(Bits[type] - 1)
  ELSE n % (2^Bits[type])
-----------------------------------------------------------------------------
Defaults == {[tag |-> "array", type |-> "vector"], [tag |-> "object", type |-> "map"],
             [tag |-> "string", type |-> "string"], [tag |-> "float_number", type |-> "float_number<double>"],
             [tag |-> "integral_number", type |-> "integral_number<long>"]}

\* find_first<IsPolicy, Policies..., default policy>
policy(policies, tag) ==
  LET list == policies \o SetToSeq({p \in Defaults : p.tag = tag})
  IN  find_first({p \in ToSet(list) : p.tag = tag}, list).type
type_name == <<"Null", "Boolean", "Number", "Number", "String", "Object", "Array">>
Tags == <<"null", "boolean", "float_number", "integral_number", "string", "object", "array">>
variant_type(policies) ==
  [n \in 1..7 |-> IF n = 1 THEN "Null" ELSE IF n = 2 THEN "Boolean" ELSE policy(policies, Tags[n])]
IndexOf(T) == index_of(T, types)
TagAt(which) == at(which, Tags)
TypeOf(tag) == types[index_of(tag, Tags) + 1]

\* the implicit conversions of the implementation types: Boolean from bool only, the
\* numbers from those that is_numeric has, which are neither bool nor characters
Converts(type, T) ==
  \/ type = T
  \/ T = "Boolean" /\ type = "bool"
  \/ T = TypeOf("float_number") /\ type \in Floating
  \/ T = TypeOf("integral_number") /\ type \in Integral
  \/ T = TypeOf("string") /\ type = "chars"
\* overload resolution among __select(T const&): none or an ambiguous one is an error at compile time
Selected(type) == {T \in ToSet(types) : Converts(type, T)}
IsViable(type) == \E T \in ToSet(types) : Selected(type) = {T}
Select(type) == CHOOSE T \in Selected(type) : TRUE

Stored == [type \in SignedTypes |-> "integral_number<" \o type \o ">"]
Object(T, data) ==
  [which |-> IndexOf(T),
   data |-> IF \E type \in SignedTypes : Stored[type] = T
            THEN Wrapped(data, CHOOSE type \in SignedTypes : Stored[type] = T) ELSE data]
Null == Object("Null", void)
dead == [which |-> -1, data |-> void]
Converted(a) == Object(Select(a.type), a.data)

\* emplace_t: by a constructor of the type, an explicit one too; a vector from a number has so many nulls
Defaulted == [null |-> void, boolean |-> FALSE, float_number |-> 0, integral_number |-> 0,
              string |-> <<>>, object |-> <<>>, array |-> <<>>]
IsConstructible(tag, a) == Converts(a.type, TypeOf(tag)) \/ (tag = "array" /\ a.type = "unsigned")
Emplaced(tag, a) == IF Converts(a.type, TypeOf(tag)) THEN Object(TypeOf(tag), a.data)
                    ELSE Object(TypeOf(tag), [n \in 1..a.data |-> Null])

\* what a move leaves: the characters and elements are gone, a number is still there
Moved(x) == IF TagAt(x.which) \in {"string", "object", "array"} THEN [x EXCEPT !.data = Unspecified] ELSE x
Live(v) == values[v].which # -1
Readable(v) == Live(v) /\ values[v].data # Unspecified
Is(v, tag) == Readable(v) /\ values[v].which = IndexOf(TypeOf(tag))

\* the C++ types of arguments
ArgumentTypes == Integral \cup Floating \cup {"bool", "char", "chars", "Null"}

\* The lists of types have one integral type, and no type twice: their algorithms find each at its place.
JsonConstants ==
  /\ \A policies \in PolicyLists :
       LET list == variant_type(policies)
       IN  /\ \A n \in 1..7 : index_of(list[n], list) = n - 1
           /\ \A n \in 1..7 : (\E type \in SignedTypes : Stored[type] = list[n]) <=> n = 4
           /\ \A n \in 2..7 : list[n] \notin ArgumentTypes
  /\ \A n \in 1..7 : index_of(Tags[n], Tags) = n - 1 /\ at(n - 1, Tags) = Tags[n] /\ at(n - 1, type_name) = type_name[n]
  /\ \A type, other \in SignedTypes : Stored[type] = Stored[other] => type = other
  /\ \A a \in Arguments \cup Elements :
       /\ a.type \in ArgumentTypes
       /\ a.type \notin Floating => a.data # NaN
       /\ a.type = "Null" => a.data = void
  /\ NaN # FALSE /\ NaN # 0 /\ NaN # <<>>
-----------------------------------------------------------------------------
\* The JSON value that an argument stands for, whatever the types that hold it.
Meaning(a) ==
  [kind |-> CASE a.type \in Integral \cup Floating -> "number" [] a.type = "bool" -> "boolean"
              [] a.type = "Null" -> "null" [] OTHER -> "string",
   data |-> a.data, exact |-> a.type \notin Floating]
Zero == [null |-> void, boolean |-> FALSE, number |-> 0, string |-> <<>>, object |-> <<>>, array |-> <<>>]
KindOf(tag) == IF tag \in {"float_number", "integral_number"} THEN "number" ELSE tag
Meant(kind, data) == [kind |-> kind, data |-> data, exact |-> TRUE]
Nothing == Meant("dead", void)
NullMeant == Meant("null", void)

NoAnswer == [to |-> "nothing", of |-> <<>>, said |-> void]
Init ==
  /\ \E policies \in PolicyLists : types = variant_type(policies)
  /\ values = [v \in Vars |-> dead] /\ meant = [v \in Vars |-> Nothing] /\ answer = NoAnswer

Becomes(v, x, m) ==
  /\ values' = [values EXCEPT ![v] = x] /\ meant' = [meant EXCEPT ![v] = m]
  /\ answer' = NoAnswer /\ UNCHANGED types
\* x and m for v, what a move leaves for w
Takes(v, w) ==
  /\ values' = [values EXCEPT ![w] = Moved(values[w]), ![v] = values[w]]
  /\ meant' = [meant EXCEPT ![w] = IF Moved(values[w]) = values[w] THEN @ ELSE [@ EXCEPT !.data = Unspecified],
                            ![v] = meant[w]]
  /\ answer' = NoAnswer /\ UNCHANGED types

Default(v) == ~Live(v) /\ Becomes(v, Null, NullMeant)
Copy(v, w) == ~Live(v) /\ Readable(w) /\ Becomes(v, values[w], meant[w])
Move(v, w) == ~Live(v) /\ Readable(w) /\ Takes(v, w)
Forward(v, a) == ~Live(v) /\ IsViable(a.type) /\ Becomes(v, Converted(a), Meaning(a))
EmplaceDefault(v, tag) ==
  /\ ~Live(v)
  /\ Becomes(v, Object(TypeOf(tag), Defaulted[tag]),
             [Meant(KindOf(tag), Zero[KindOf(tag)]) EXCEPT !.exact = tag # "float_number"])
Emplace(v, tag, a) ==
  /\ ~Live(v) /\ IsConstructible(tag, a)
  /\ Becomes(v, Emplaced(tag, a), IF tag = "array" THEN Meant("array", [n \in 1..a.data |-> NullMeant]) ELSE Meaning(a))
Destroy(v) == Live(v) /\ Becomes(v, dead, Nothing)

CopyAssign(v, w) == Live(v) /\ Readable(w) /\ Becomes(v, values[w], meant[w])
MoveAssign(v, w) == v # w /\ Live(v) /\ Readable(w) /\ Takes(v, w)
Assign(v, a) == Live(v) /\ IsViable(a.type) /\ Becomes(v, Converted(a), Meaning(a))
Swap(v, w) ==
  /\ Live(v) /\ Live(w)
  /\ values' = [values EXCEPT ![v] = values[w], ![w] = values[v]]
  /\ meant' = [meant EXCEPT ![v] = meant[w], ![w] = meant[v]]
  /\ answer' = NoAnswer /\ UNCHANGED types

\* operator[]: of a value that is an array with that element, or an object; it looks at
\* neither.  A reference to a member makes the member, null at first.
Index(v, n, a) ==
  /\ Is(v, "array") /\ n \in DOMAIN values[v].data /\ IsViable(a.type)
  /\ Becomes(v, [values[v] EXCEPT !.data[n] = Converted(a)], [meant[v] EXCEPT !.data[n] = Meaning(a)])
With(f, key, x) == [k \in DOMAIN f \cup {key} |-> IF k = key THEN x ELSE f[k]]
Lookup(v, key) ==
  /\ Is(v, "object") /\ key \notin DOMAIN values[v].data
  /\ Becomes(v, [values[v] EXCEPT !.data = With(@, key, Null)], [meant[v] EXCEPT !.data = With(@, key, NullMeant)])
Member(v, key, a) ==
  /\ Is(v, "object") /\ IsViable(a.type)
  /\ Becomes(v, [values[v] EXCEPT !.data = With(@, key, Converted(a))],
             [meant[v] EXCEPT !.data = With(@, key, Meaning(a))])
\* of any other value it goes through a null pointer
Misused(v) ==
  /\ Live(v) /\ \/ values[v].which # IndexOf(TypeOf("array")) /\ values[v].which # IndexOf(TypeOf("object"))
                \/ Is(v, "array") /\ values[v].data = <<>>
  /\ values' = [w \in Vars |-> dead] /\ meant' = [w \in Vars |-> Nothing]
  /\ answer' = [NoAnswer EXCEPT !.to = "undefined"] /\ UNCHANGED types
-----------------------------------------------------------------------------
Says(question, of, said) ==
  answer' = [to |-> question, of |-> of, said |-> said] /\ UNCHANGED <<types, values, meant>>

is_type(v, T) == values[v].which = IndexOf(T)
Observers == [null |-> {"null"}, boolean |-> {"boolean"}, string |-> {"string"}, object |-> {"object"}, array |-> {"array"},
              number |-> {"integral_number", "float_number"},
              integral_number |-> {"integral_number"}, float_number |-> {"float_number"}]
\* is_null() to is_float_number(), and type_name()
Observe(v) ==
  Live(v) /\ Says("type", <<v>>, [is |-> {o \in DOMAIN Observers : \E tag \in Observers[o] : is_type(v, TypeOf(tag))},
                                  name |-> at(values[v].which, type_name)])

\* as<T>() throws where as<T*>() is a null pointer; as<an arithmetic type>() converts
\* the number of the one type that it asks for
Accessed(v, tag) == IF is_type(v, TypeOf(tag)) THEN values[v].data ELSE void
As(v, tag) == Readable(v) /\ Says("as", <<v, tag>>, Accessed(v, tag))
AsArithmetic(v, type) ==
  LET tag == IF type \in Integral THEN "integral_number" ELSE "float_number"
  IN  /\ Readable(v)
      /\ Says("as arithmetic", <<v, type>>,
              IF is_type(v, TypeOf(tag)) /\ type \in Integral THEN Wrapped(values[v].data, type) ELSE Accessed(v, tag))

\* is_equal_visitor: objects of the same type, compared by its operator==
Same(x, y) == x.which = y.which /\ (TagAt(x.which) = "null" \/ (x.data = y.data /\ x.data # NaN))
IsEqual(x, y) ==
  IF TagAt(x.which) \in {"array", "object"} /\ x.which = y.which
  THEN DOMAIN x.data = DOMAIN y.data /\ \A i \in DOMAIN x.data : Same(x.data[i], y.data[i])
  ELSE Same(x, y)
Compare(v, w) == Readable(v) /\ Readable(w) /\ Says("equal", <<v, w>>, IsEqual(values[v], values[w]))
\* operator== with an object of one of the types
CompareTo(v, a) == Readable(v) /\ IsViable(a.type) /\ Says("equal to", <<v, a>>, IsEqual(values[v], Converted(a)))

Construct(v) == \/ Default(v) \/ \E w \in Vars : Copy(v, w) \/ Move(v, w)
                \/ \E a \in Arguments : Forward(v, a) \/ \E t \in ToSet(Tags) : Emplace(v, t, a)
                \/ \E t \in ToSet(Tags) : EmplaceDefault(v, t)
Change(v) == \/ \E w \in Vars : CopyAssign(v, w) \/ MoveAssign(v, w) \/ Swap(v, w)
             \/ \E a \in Arguments : Assign(v, a)
             \/ \E a \in Elements : \/ \E n \in 1..2 : Index(v, n, a)
                                    \/ \E key \in Keys : Member(v, key, a)
             \/ \E key \in Keys : Lookup(v, key)
Ask(v) == \/ Observe(v) \/ \E t \in ToSet(Tags) : As(v, t) \/ \E type \in Integral \cup Floating : AsArithmetic(v, type)
          \/ \E w \in Vars : Compare(v, w) \/ \E a \in Arguments : CompareTo(v, a)
\* an answer changes nothing; the client goes on
GoOn == answer.to \notin {"nothing", "undefined"} /\ answer' = NoAnswer /\ UNCHANGED <<types, values, meant>>
Next == \/ answer = NoAnswer /\ \E v \in Vars : Construct(v) \/ Destroy(v) \/ Change(v) \/ Misused(v) \/ Ask(v)
        \/ GoOn

Spec == Init /\ [][Next]_vars
-----------------------------------------------------------------------------
TypeOK ==
  /\ Len(types) = 7 /\ IsInjective(types)
  /\ \A v \in Vars : values[v].which \in -1..6 /\ (Live(v) <=> meant[v].kind # "dead")
  /\ answer.to \in {"nothing", "undefined", "type", "as", "as arithmetic", "equal", "equal to"}

\* x holds what is meant: in a type of its kind, and the same, a number modulo its type
Holds(x, m) ==
  /\ KindOf(TagAt(x.which)) = m.kind
  /\ m.kind = "number" => (TagAt(x.which) = "integral_number" <=> m.exact)
  /\ m.kind = "number" /\ m.exact =>
       \E type \in SignedTypes : TypeOf("integral_number") = Stored[type] /\ x.data = Wrapped(m.data, type)
  /\ m.kind \in {"null", "boolean", "string"} \/ (m.kind = "number" /\ ~m.exact) => x.data = m.data
HoldsAll(x, m) ==
  IF m.kind \in {"array", "object"} /\ m.data # Unspecified
  THEN /\ KindOf(TagAt(x.which)) = m.kind /\ DOMAIN x.data = DOMAIN m.data
       /\ \A i \in DOMAIN m.data : Holds(x.data[i], m.data[i])
  ELSE Holds(x, m)

Fits(m) == m.exact /\ \E type \in SignedTypes : Stored[type] = TypeOf("integral_number") /\ Wrapped(m.data, type) = m.data
\* no container, and no number that is not held or not equal to itself
Plain(m) == m.kind \notin {"array", "object"} /\ (m.kind = "number" => IF m.exact THEN Fits(m) ELSE m.data # NaN)
\* a double is equal to no integer
Agrees(m, other) == m.kind = other.kind /\ m.exact = other.exact /\ m.data = other.data
Name(kind) == type_name[CHOOSE n \in 1..7 : KindOf(Tags[n]) = kind]

HoldsItsValue == \A v \in Vars : Live(v) => HoldsAll(values[v], meant[v])
SaysItsType ==
  answer.to = "type" =>
    LET m == meant[answer.of[1]]
    IN  /\ m.kind \in answer.said.is /\ answer.said.name = Name(m.kind)
        /\ answer.said.is \ {m.kind} = (IF m.kind # "number" THEN {}
                                        ELSE {IF m.exact THEN "integral_number" ELSE "float_number"})
ReadsItsNumber ==
  answer.to = "as arithmetic" /\ meant[answer.of[1]].kind = "number" =>
    LET m == meant[answer.of[1]]
        type == answer.of[2]
    IN  IF m.exact # (type \in Integral) THEN answer.said = void
        ELSE (Fits(m) /\ Wrapped(m.data, type) = m.data) \/ ~m.exact => answer.said = m.data
ReadsItsKind == answer.to = "as" => (answer.said # void => KindOf(answer.of[2]) = meant[answer.of[1]].kind)
ComparesAsGiven ==
  answer.to \in {"equal", "equal to"} =>
    LET m == meant[answer.of[1]]
        other == IF answer.to = "equal" THEN meant[answer.of[2]] ELSE Meaning(answer.of[2])
    IN  Plain(m) /\ Plain(other) => (answer.said <=> Agrees(m, other))

\* A value holds what it was given, in the type of its kind, whatever its policies
\* and however it was constructed, assigned, moved or swapped; it says so when it
\* is asked for its type; what an accessor reads is what was given, and values are
\* equal that were given the same.  A number is held modulo its integral type, and it
\* is read only in the class of types, integral or floating, that it was given in.
SaysWhatItHolds == HoldsItsValue /\ SaysItsType /\ ReadsItsNumber /\ ReadsItsKind /\ ComparesAsGiven
=============================================================================
