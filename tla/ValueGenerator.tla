--------------------------- MODULE ValueGenerator ---------------------------
(***************************************************************************)
(* parser/value_generator.hpp: the semantic actions that build a           *)
(* json::value from the parser's events, on one stack of values and one of *)
(* markers.  The events come in any order a text can have; the parser may  *)
(* stop with an error between any two and be run again.                    *)
(***************************************************************************)
EXTENDS Naturals, SequencesExt

CONSTANTS Keys, Chunks,    \* Chunks: the parts in which strings are delivered, sequences of characters
          MaxDepth, MaxElements, MaxChunks,   \* of a text, one element less at each depth
          Behind           \* what is behind a chunk in the parser's buffer

VARIABLES stack_, markers_, tmp_buffer_, result_, error_,
          pc,     \* "idle", "parsing", "stopped": end_object returned false; "threw"
          open,   \* the text so far: for each open container its items, first the text itself
          parts,  \* the chunks of the string being delivered
          stale   \* how many values the stack had at parse_begin

vars == <<stack_, markers_, tmp_buffer_, result_, error_, pc, open, parts, stale>>

Null == [kind |-> "null"]
String(s) == [kind |-> "string", units |-> s]
Array(items) == [kind |-> "array", items |-> items]
Object(members) == [kind |-> "object", members |-> members]   \* a function from keys
EmptyObject == Object([k \in {} |-> Null])
-----------------------------------------------------------------------------
Init ==
  /\ stack_ = <<>> /\ markers_ = <<>> /\ tmp_buffer_ = <<>> /\ result_ = Null /\ error_ = FALSE
  /\ pc = "idle" /\ open = <<>> /\ parts = <<>> /\ stale = 0

Top == open[Len(open)]
Limit == IF stale = 0 THEN MaxElements + 2 - Len(open) ELSE 1
AtValue == /\ pc = "parsing" /\ parts = <<>>
           /\ CASE Top.kind = "object" -> Len(Top.items) % 2 = 1
                [] Top.kind = "array" -> Len(Top.items) < Limit
                [] OTHER -> Top.items = <<>>
Adds(item) == open' = [open EXCEPT ![Len(open)].items = Append(@, item)]

parse_begin ==
  /\ pc # "parsing"
  /\ stale = 0 /\ result_ = Null     \* a bound: at most one failed run before this one
  /\ error_' = FALSE /\ pc' = "parsing" /\ stale' = Len(stack_)
  /\ open' = <<[kind |-> "text", items |-> <<>>]>> /\ parts' = <<>>
  /\ UNCHANGED <<stack_, markers_, tmp_buffer_, result_>>

\* throws a logic_error unless there is exactly one value
parse_end ==
  /\ pc = "parsing" /\ Len(open) = 1 /\ Len(Top.items) = 1
  /\ IF Len(stack_) # 1 THEN pc' = "threw" /\ UNCHANGED <<stack_, result_>>
     ELSE pc' = "idle" /\ result_' = stack_[1] /\ stack_' = <<>>
  /\ UNCHANGED <<markers_, tmp_buffer_, error_, open, parts, stale>>

Begin(kind, value) ==
  /\ AtValue /\ Len(open) <= (IF stale = 0 THEN MaxDepth ELSE 1)
  /\ stack_' = Append(stack_, value) /\ markers_' = Append(markers_, Len(stack_) + 1)
  /\ open' = Append(open, [kind |-> kind, items |-> <<>>])
  /\ UNCHANGED <<tmp_buffer_, result_, error_, pc, parts, stale>>
begin_array == Begin("array", Array(<<>>))
begin_object == Begin("object", EmptyObject)

First == markers_[Len(markers_)]    \* the index of the container on the stack
Elements == SubSeq(stack_, First + 1, Len(stack_))
Ends(kind) == pc = "parsing" /\ parts = <<>> /\ Len(open) > 1 /\ Top.kind = kind
Closed(text) == [SubSeq(open, 1, Len(open) - 1) EXCEPT ![Len(open) - 1].items = Append(@, text)]

\* Mutant: the marker stays
end_array_keepsMarker ==
  /\ Ends("array")
  /\ stack_' = Append(SubSeq(stack_, 1, First - 1), Array(Elements))
  /\ open' = Closed([kind |-> "array", items |-> Top.items])
  /\ UNCHANGED <<markers_, tmp_buffer_, result_, error_, pc, parts, stale>>

end_array ==
  /\ Ends("array")
  /\ stack_' = Append(SubSeq(stack_, 1, First - 1), Array(Elements))
  /\ markers_' = Front(markers_)
  /\ open' = Closed([kind |-> "array", items |-> Top.items])
  /\ UNCHANGED <<tmp_buffer_, result_, error_, pc, parts, stale>>

\* the pairs before the first key that is there already
Inserted(pairs) ==
  LET key(i) == pairs[2 * i - 1].units
      n == Len(pairs) \div 2
      fresh == {i \in 1..n : \A j \in 1..i, l \in 1..i : key(j) = key(l) => j = l}
  IN  Object([k \in {key(i) : i \in fresh} |-> pairs[2 * (CHOOSE i \in fresh : key(i) = k)]])
HasDuplicate(pairs) == \E i, j \in 1..(Len(pairs) \div 2) : i # j /\ pairs[2 * i - 1] = pairs[2 * j - 1]

\* when it returns false the parser reports the error and stops
end_object ==
  /\ Ends("object") /\ Len(Top.items) % 2 = 0
  /\ stack_' = Append(SubSeq(stack_, 1, First - 1), Inserted(Elements))
  /\ markers_' = Front(markers_)
  /\ IF HasDuplicate(Elements) THEN pc' = "stopped" /\ error_' = TRUE ELSE UNCHANGED <<pc, error_>>
  /\ open' = Closed([kind |-> "object", items |-> Top.items])
  /\ UNCHANGED <<tmp_buffer_, result_, parts, stale>>

begin_key_value_pair(k) ==
  /\ pc = "parsing" /\ parts = <<>> /\ Top.kind = "object"
  /\ Len(Top.items) % 2 = 0 /\ Len(Top.items) < 2 * Limit
  /\ stack_' = Append(stack_, String(k)) /\ Adds([kind |-> "key", key |-> k])
  /\ UNCHANGED <<markers_, tmp_buffer_, result_, error_, pc, parts, stale>>

Scalar ==  \* numbers, booleans and null
  /\ AtValue /\ Len(open) > 1
  /\ stack_' = Append(stack_, Null) /\ Adds(Null)
  /\ UNCHANGED <<markers_, tmp_buffer_, result_, error_, pc, parts, stale>>

Buffered(chunk) == tmp_buffer_ \o chunk
\* emplace_string(buffer.first, tmp_buffer_.size()): as many characters, but from the last chunk on
LastChunk(chunk) ==
  IF tmp_buffer_ = <<>> THEN chunk
  ELSE [i \in DOMAIN Buffered(chunk) |-> IF i <= Len(chunk) THEN chunk[i] ELSE Behind]

value_string(chunk, hasMore) ==
  /\ parts # <<>> \/ (AtValue /\ Len(open) > 1)
  /\ hasMore => Len(parts) + 1 < MaxChunks
  /\ IF hasMore THEN /\ tmp_buffer_' = Buffered(chunk) /\ parts' = Append(parts, chunk)
                     /\ UNCHANGED <<stack_, open>>
     ELSE /\ stack_' = Append(stack_, String(LastChunk(chunk)))
          /\ tmp_buffer_' = <<>>
          /\ parts' = <<>> /\ Adds([kind |-> "string", parts |-> Append(parts, chunk)])
  /\ pc = "parsing"
  /\ UNCHANGED <<markers_, result_, error_, pc, stale>>

\* the parser stops at an error of the text
error ==
  /\ pc = "parsing" /\ Len(open) > 1
  /\ pc' = "stopped" /\ error_' = TRUE
  /\ UNCHANGED <<stack_, markers_, tmp_buffer_, result_, open, parts, stale>>

clear ==
  /\ pc # "parsing"
  /\ stack_' = <<>> /\ result_' = Null /\ error_' = FALSE /\ markers_' = <<>> /\ tmp_buffer_' = <<>>
  /\ pc' = "idle" /\ open' = <<>> /\ parts' = <<>> /\ stale' = 0

Next == \/ parse_begin \/ parse_end \/ begin_array \/ end_array \/ begin_object \/ end_object
        \/ \E k \in Keys : begin_key_value_pair(k)
        \/ Scalar \/ error \/ clear
        \/ \E chunk \in Chunks, hasMore \in BOOLEAN : value_string(chunk, hasMore)

Spec == Init /\ [][Next]_vars
-----------------------------------------------------------------------------
TypeOK ==
  /\ pc \in {"idle", "parsing", "stopped", "threw"} /\ error_ \in BOOLEAN
  /\ Len(markers_) <= Len(stack_)
  /\ \A i \in DOMAIN markers_ : stack_[markers_[i]].kind \in {"array", "object"}
  /\ Len(parts) < MaxChunks

RECURSIVE Represents(_, _)
Represents(value, text) ==
  CASE text.kind = "null" -> value = Null
    [] text.kind = "key" -> value = String(text.key)
    [] text.kind = "string" -> IF Len(text.parts) = 1 THEN value = String(text.parts[1])
                               ELSE value.kind = "string" /\ Len(value.units) = Len(FlattenSeq(text.parts))
    [] text.kind = "array" ->
         /\ value.kind = "array" /\ Len(value.items) = Len(text.items)
         /\ \A i \in DOMAIN text.items : Represents(value.items[i], text.items[i])
    [] text.kind = "object" ->
         LET keys == {i \in DOMAIN text.items : i % 2 = 1}
         IN  /\ value.kind = "object" /\ DOMAIN value.members = {text.items[i].key : i \in keys}
             /\ \A i \in keys : Represents(value.members[text.items[i].key], text.items[i + 1])

\* The stack and the markers are at all times the open containers of the text,
\* each with its items, and what parse_end stores is the value of the text, and
\* it throws for no text.  Nothing is said of the characters of a string that is
\* delivered in several parts, nor of a run behind a failed one that nobody
\* cleared: what the code does there, a comment and two asserts of the source say
\* otherwise (value_generator.hpp:351, 197-198).
BuildsValue ==
  /\ pc = "parsing" /\ stale = 0 =>
       LET empty(kind) == [kind |-> kind, items |-> <<>>]
           flat == FlattenSeq([d \in DOMAIN open |->
                     IF d = 1 THEN open[d].items ELSE <<empty(open[d].kind)>> \o open[d].items])
           begins(d) == 1 + Len(FlattenSeq([e \in 1..(d - 1) |-> <<e>> \o open[e].items])) - 1
       IN  /\ Len(stack_) = Len(flat)
           /\ \A i \in DOMAIN flat : Represents(stack_[i], flat[i])
           /\ markers_ = [d \in 1..(Len(open) - 1) |-> begins(d + 1)]
  /\ pc = "idle" /\ open # <<>> /\ stale = 0 => Represents(result_, open[1].items[1])
  /\ pc = "threw" => stale > 0
=============================================================================
