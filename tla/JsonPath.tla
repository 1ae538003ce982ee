----------------------------- MODULE JsonPath ------------------------------
(***************************************************************************)
(* json_path.hpp: the same path with its components flattened into one     *)
(* vector of cells, an index in one cell, a key as its length and cells of *)
(* its characters, and the position of each.                               *)
(***************************************************************************)
EXTENDS Naturals, Sequences

CONSTANTS Keys, Indices, MaxLevel,
          CellChars     \* characters of a cell

VARIABLES storage_, positions_,
          broken        \* "none", "thrown", or "freed" when characters of freed cells were copied

vars == <<storage_, positions_, broken>>

\* what the proofs need
IsSequence(s) == Len(s) \in Nat /\ s = [i \in 1..Len(s) |-> s[i]]
PathConstants == CellChars \in Nat \ {0} /\ \A k \in Keys : IsSequence(k)

BackAt == positions_[Len(positions_)]
Resized(n) == [c \in 1..n |-> IF c <= Len(storage_) THEN storage_[c] ELSE 0]

\* cells of a key's characters, and of a key
CharCells(n) == (n + CellChars - 1) \div CellChars
Cells(n) == 1 + CharCells(n)

\* characters of a key's n-th cell
CharsIn(n, length) == IF n * CellChars <= length THEN CellChars ELSE length - (n - 1) * CellChars

Put(cells, at, k) ==
  [c \in 1..Len(cells) |->
     IF c = at THEN Len(k)
     ELSE IF c > at /\ c <= at + CharCells(Len(k))
          THEN [j \in 1..CharsIn(c - at, Len(k)) |-> k[(c - at - 1) * CellChars + j]] ELSE cells[c]]

\* a key's j-th character
CharAt(at, j) == storage_[at + 1 + ((j - 1) \div CellChars)][1 + ((j - 1) % CellChars)]

component_at(i) ==
  LET p == positions_[i] IN
  CASE p.kind = "root" -> [kind |-> "root"]
    [] p.kind = "index" -> [kind |-> "index", index |-> storage_[p.at]]
    [] p.kind = "key" ->
         [kind |-> "key",
          key |-> [j \in 1..storage_[p.at] |-> CharAt(p.at, j)]]

Path == INSTANCE PathComponents WITH components <- [i \in 1..Len(positions_) |-> component_at(i)]

\* the last key's cells become as many as the new key needs
Assigned(k) == Resized(BackAt.at - 1 + Cells(Len(k)))

\* A key may be given as the range component_at returned, in this very
\* storage, which resize may free before it is copied.
Copied(k) ==
  \/ broken' = "none"
  \/ /\ Len(storage_') > Len(storage_)
     /\ \E i \in 1..Len(positions_) : component_at(i) = [kind |-> "key", key |-> k]
     /\ k # <<>> /\ broken' = "freed"
-----------------------------------------------------------------------------
Init == storage_ = <<>> /\ positions_ = <<[kind |-> "root", at |-> 0]>> /\ broken = "none"

push_index == \E i \in Indices :
  /\ broken = "none" /\ Len(positions_) <= MaxLevel
  /\ positions_' = Append(positions_, [kind |-> "index", at |-> Len(storage_) + 1])
  /\ storage_' = Append(storage_, i)
  /\ UNCHANGED broken

back_index == \E i \in Indices :
  /\ broken = "none" /\ BackAt.kind = "index"
  /\ storage_' = [storage_ EXCEPT ![BackAt.at] = i]
  /\ UNCHANGED <<positions_, broken>>

push_key == \E k \in Keys :
  /\ broken = "none" /\ Len(positions_) <= MaxLevel /\ k # <<>>
  /\ positions_' = Append(positions_, [kind |-> "key", at |-> Len(storage_) + 1])
  /\ storage_' = Put(Resized(Len(storage_) + Cells(Len(k))), Len(storage_) + 1, k)
  /\ Copied(k)

back_key_assign == \E k \in Keys :
  /\ broken = "none" /\ BackAt.kind = "key"
  /\ storage_' = Put(Assigned(k), BackAt.at, k)
  /\ Copied(k) /\ UNCHANGED positions_

\* the root's position is -1, a size no vector has
pop_component ==
  /\ broken = "none"
  /\ IF BackAt.kind = "root" THEN broken' = "thrown" /\ UNCHANGED <<storage_, positions_>>
     ELSE /\ storage_' = SubSeq(storage_, 1, BackAt.at - 1)
          /\ positions_' = SubSeq(positions_, 1, Len(positions_) - 1)
          /\ UNCHANGED broken

\* one cell is left, of whatever it held
clear ==
  /\ broken = "none"
  /\ storage_' = Resized(1) /\ positions_' = SubSeq(positions_, 1, 1)
  /\ UNCHANGED broken

Next == push_index \/ back_index \/ push_key \/ back_key_assign \/ pop_component \/ clear

Spec == Init /\ [][Next]_vars
-----------------------------------------------------------------------------
TypeOK ==
  /\ positions_[1].kind = "root" /\ broken \in {"none", "thrown", "freed"}
  /\ \A i \in 2..Len(positions_) : positions_[i].at \in 1..Len(storage_)

\* Until it throws or copies freed characters, the flattened path is the vector
\* of its components, whatever they are replaced by.
RefinesPath == [][broken' = "none" => Path!Next]_vars
=============================================================================
