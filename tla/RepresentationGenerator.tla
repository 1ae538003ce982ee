---------------------- MODULE RepresentationGenerator ----------------------
(***************************************************************************)
(* The semantic actions of JPRepresentationGenerator: the handlers of the  *)
(* parser's events, as functions of the record                             *)
(*   stack    the keys and values that wait for their container's end,     *)
(*   markers  for every open container, the size of stack at its begin,    *)
(*   tmp      tmp_data_str_, the units of a string whose end is missing,   *)
(*   result   the last complete representation,                            *)
(*   error    error_, and canceled canceled_ of the base class.            *)
(* A key is a model value, every other element of the stack is Value: what *)
(* a value is made of does not influence any handler.                      *)
(***************************************************************************)
EXTENDS Naturals, Sequences

CONSTANTS Keys, Value, nil

ASSUME ItemsAssumption == Value \notin Keys /\ nil \notin Keys \cup {Value}

Items == Keys \cup {Value}

NewGenerator ==
    [stack |-> << >>, markers |-> << >>, tmp |-> 0,
     result |-> nil, error |-> "none", canceled |-> FALSE]

\* Mutant: the error of the last run is kept.
OnParseBegin_keepsError(g) == [g EXCEPT !.tmp = 0]

\* parse_begin: the stack and the markers are left as they are.
OnParseBegin(g) == [g EXCEPT !.error = "none", !.tmp = 0]

\* What parse_end demands; otherwise it throws a logic error.
Complete(g) == Len(g.stack) = 1 /\ g.markers = << >>

OnParseEnd(g) == [g EXCEPT !.result = g.stack[1], !.stack = << >>]

\* clear, which also takes back a cancel.
OnClear(g) ==
    [g EXCEPT !.stack = << >>, !.markers = << >>, !.result = nil,
              !.error = "none", !.canceled = FALSE]

\* error: a canceled run reports nothing else.
OnError(g, code) == [g EXCEPT !.error = IF g.canceled THEN "canceled" ELSE code]

Push(g, item) == [g EXCEPT !.stack = Append(@, item)]

\* begin_key_value_pair, and the handlers of true, false and null.
OnKey(g, k) == Push(g, k)
OnLiteral(g) == Push(g, Value)

OnBegin(g) == [g EXCEPT !.markers = Append(@, Len(g.stack))]

Marker(g) == g.markers[Len(g.markers)]
Inserted(g) == SubSeq(g.stack, Marker(g) + 1, Len(g.stack))

\* Mutant: the marker of the container stays.
OnEnd_keepsMarker(g) == [g EXCEPT !.stack = Append(SubSeq(@, 1, Marker(g)), Value)]

\* The elements above the marker become one element, the container.
OnEnd(g) ==
    [g EXCEPT !.stack = Append(SubSeq(@, 1, Marker(g)), Value),
              !.markers = SubSeq(@, 1, Len(@) - 1)]

\* end_object: every other element is a key, and two equal keys make the
\* dictionary smaller than the number of its elements.
HasDuplicates(g) ==
    \E i, j \in 1..(Len(Inserted(g)) \div 2) :
        i # j /\ Inserted(g)[2 * i - 1] = Inserted(g)[2 * j - 1]

\* The actions after a string was pushed, and how many units it has.
Pushed(g, units) == [actions |-> Push(g, Value), units |-> units]

\* Mutant: the last chunk of a string is pushed without the ones before it.
OnValueString_lastOnly(g, units, hasMore, cached) ==
    IF hasMore THEN [actions |-> g, units |-> 0] ELSE Pushed(g, units)

\* value_string: chunks are collected until the last one arrives.  With
\* cacheDataStrings the last one is looked up in the cache by itself, and the
\* chunks before it stay behind in tmp_data_str_.
OnValueString(g, units, hasMore, cached) ==
    IF hasMore THEN [actions |-> [g EXCEPT !.tmp = @ + units], units |-> 0]
    ELSE IF cached THEN Pushed(g, units)
    ELSE Pushed([g EXCEPT !.tmp = 0], g.tmp + units)

\* value_number: with NumberGeneratorGenerateString the digits go through the
\* collected chunks; the other options push a number object.
OnValueNumber(g, digits, asString) ==
    IF asString THEN OnValueString(g, digits, FALSE, FALSE) ELSE Pushed(g, digits)
=============================================================================
