--------------------------- MODULE JsonPathProofs ---------------------------
(***************************************************************************)
(* Proofs about JsonPath: the flattened path refines the vector of its     *)
(* components, for any keys and indices, any number of characters in a     *)
(* cell and paths of any depth.                                            *)
(***************************************************************************)
EXTENDS JsonPath, Integers, TLAPS

Positions == [kind : {"root", "index", "key"}, at : Nat]
Levels == 2..Len(positions_)

\* the last cell of the i-th component
Last(i) == IF positions_[i].kind = "key" THEN positions_[i].at + CharCells(storage_[positions_[i].at])
           ELSE positions_[i].at

TypeInv ==
  /\ IsSequence(storage_)
  /\ positions_ \in Seq(Positions) /\ Len(positions_) >= 1
  /\ broken \in {"none", "thrown", "freed"}

\* The root is the first component and has no cells; every other one has its
\* own, behind those of the components before it, and a key's first says how
\* many it has.
LayoutInv ==
  /\ positions_[1].kind = "root"
  /\ \A i \in Levels :
       /\ positions_[i].kind # "root" /\ positions_[i].at >= 1
       /\ positions_[i].kind = "key" => storage_[positions_[i].at] \in Nat
       /\ Last(i) \in Nat /\ positions_[i].at <= Last(i) /\ Last(i) <= Len(storage_)
  /\ \A i, j \in Levels : i < j => Last(i) < positions_[j].at

IInv == TypeInv /\ LayoutInv

\* A step leaves the cells of the i-th component alone.
Kept(i) == \A c \in positions_[i].at..Last(i) : storage_'[c] = storage_[c]

\* The cells from at on are those of the key k.
KeyAt(cells, at, k) ==
  /\ cells[at] = Len(k)
  /\ \A j \in 1..Len(k) : cells[at + 1 + ((j - 1) \div CellChars)][1 + ((j - 1) % CellChars)] = k[j]
-----------------------------------------------------------------------------
\* Quotients of natural numbers.
LEMMA Division ==
  ASSUME NEW n \in Nat, NEW d \in Nat \ {0}
  PROVE  /\ n \div d \in Nat /\ n % d \in Nat /\ n % d < d
         /\ n = (n \div d) * d + (n % d)
OBVIOUS

LEMMA Quotient ==
  ASSUME NEW n \in Nat, NEW d \in Nat \ {0}, NEW q \in Nat, q * d <= n
  PROVE  q <= n \div d
<1> DEFINE p == n \div d
           r == n % d
<1>1. p \in Nat /\ r \in Nat /\ r < d /\ n = p * d + r
  BY Division
<1> HIDE DEF p, r
<1>2. ASSUME q > p PROVE FALSE
  <2>1. q >= p + 1
    BY <1>1, <1>2
  <2>2. q * d >= (p + 1) * d
    BY <2>1, <1>1
  <2>3. (p + 1) * d = p * d + d
    BY <1>1
  <2> QED BY <1>1, <2>2, <2>3
<1>3. q <= p
  BY <1>1, <1>2
<1> QED BY <1>3 DEF p

\* Where the characters of a key of n characters are: the j-th in one of its
\* cells, at a place that the cell has.
LEMMA CharPlace ==
  ASSUME PathConstants, NEW n \in Nat, NEW j \in 1..n
  PROVE  /\ (j - 1) \div CellChars \in Nat /\ (j - 1) % CellChars \in Nat
         /\ 1 + ((j - 1) \div CellChars) <= CharCells(n)
         /\ 1 + ((j - 1) % CellChars) \in 1..CharsIn(1 + ((j - 1) \div CellChars), n)
         /\ ((j - 1) \div CellChars) * CellChars + (1 + ((j - 1) % CellChars)) = j
<1> DEFINE d == CellChars
           q == (j - 1) \div d
           r == (j - 1) % d
<1>1. d \in Nat \ {0} /\ j - 1 \in Nat /\ n + d - 1 \in Nat
  BY DEF PathConstants
<1>2. q \in Nat /\ r \in Nat /\ r < d /\ j - 1 = q * d + r
  BY <1>1, Division
<1> HIDE DEF d, q, r
<1>3. (q + 1) * d = q * d + d
  BY <1>1, <1>2
<1>4. q * d \in Nat
  BY <1>1, <1>2
<1>5. (q + 1) * d <= n + d - 1
  BY <1>1, <1>2, <1>3, <1>4
<1>6. q + 1 <= (n + d - 1) \div d
  BY <1>1, <1>2, <1>5, Quotient
<1>7. 1 + q = q + 1 /\ 1 + q <= CharCells(n)
  BY <1>2, <1>6 DEF CharCells, d
<1>8. 1 + r <= (IF (1 + q) * d <= n THEN d ELSE n - q * d)
  BY <1>1, <1>2, <1>4
<1>9. 1 + r \in 1..CharsIn(1 + q, n)
  <2>1. CharsIn(1 + q, n) = IF (1 + q) * d <= n THEN d ELSE n - q * d
    BY <1>2 DEF CharsIn, d
  <2>2. d \in Int /\ n - q * d \in Int
    BY <1>1, <1>4
  <2> QED BY <1>2, <1>8, <2>1, <2>2
<1>10. q * d + (1 + r) = j
  BY <1>1, <1>2, <1>4
<1> QED BY <1>2, <1>7, <1>9, <1>10 DEF d, q, r

LEMMA CharCellsType == ASSUME PathConstants, NEW n \in Nat PROVE CharCells(n) \in Nat
<1>1. n + CellChars - 1 \in Nat /\ CellChars \in Nat \ {0}
  BY DEF PathConstants
<1> QED BY <1>1, Division DEF CharCells

\* Sequences.
LEMMA SequenceIs == ASSUME NEW s, IsSequence(s) PROVE s \in Seq({s[i] : i \in 1..Len(s)})
<1> DEFINE n == Len(s)
           S == {s[i] : i \in 1..n}
<1>1. n \in Nat /\ s = [i \in 1..n |-> s[i]]
  BY DEF IsSequence
<1> HIDE DEF n
<1>2. s \in [1..n -> S]
  BY <1>1
<1>3. s \in Seq(S)
  BY <1>1, <1>2
<1> QED BY <1>3 DEF n

LEMMA IsASequence == ASSUME NEW n \in Nat, NEW f PROVE IsSequence([i \in 1..n |-> f[i]]) /\ Len([i \in 1..n |-> f[i]]) = n
BY DEF IsSequence

\* A component is what its own cells say.
LEMMA Frame ==
  ASSUME PathConstants, IInv, NEW i \in 1..Len(positions_), NEW l \in 1..Len(positions_'),
         positions_'[l] = positions_[i],
         i # 1 => Kept(i)
  PROVE  component_at(l)' = component_at(i)
<1> DEFINE p == positions_[i]
<1>1. p \in Positions /\ positions_'[l] = p
  BY DEF IInv, TypeInv
<1>2. CASE p.kind = "root"
  BY <1>1, <1>2 DEF component_at
<1>3. CASE p.kind # "root"
  <2>1. i \in Levels /\ i # 1
    BY <1>3 DEF IInv, LayoutInv, TypeInv, Levels
  <2>2. p.at \in Nat /\ Last(i) \in Nat /\ p.at <= Last(i)
    BY <1>1, <2>1 DEF IInv, LayoutInv, Positions
  <2>3. storage_'[p.at] = storage_[p.at]
    BY <2>1, <2>2 DEF Kept
  <2>4. CASE p.kind = "index"
    BY <1>1, <2>3, <2>4 DEF component_at
  <2>5. CASE p.kind = "key"
    <3> DEFINE n == storage_[p.at]
    <3>1. n \in Nat /\ Last(i) = p.at + CharCells(n) /\ CharCells(n) \in Nat
      BY <2>1, <2>5, CharCellsType DEF IInv, LayoutInv, Last
    <3> DEFINE now(j) == storage_'[p.at + 1 + ((j - 1) \div CellChars)][1 + ((j - 1) % CellChars)]
    <3>2. ASSUME NEW j \in 1..n PROVE now(j) = CharAt(p.at, j)
      <4> DEFINE q == (j - 1) \div CellChars
      <4>1. q \in Nat /\ 1 + q <= CharCells(n)
        BY <3>1, CharPlace
      <4> HIDE DEF q
      <4>2. p.at + 1 + q \in p.at..Last(i)
        BY <4>1, <3>1, <2>2
      <4>3. storage_'[p.at + 1 + q] = storage_[p.at + 1 + q]
        BY <2>1, <4>2 DEF Kept
      <4> QED BY <4>3 DEF CharAt, q
    <3>3. component_at(i) = [kind |-> "key", key |-> [j \in 1..n |-> CharAt(p.at, j)]]
      BY <2>5 DEF component_at
    <3>4. component_at(l)' = [kind |-> "key", key |-> [j \in 1..n |-> now(j)]]
      BY <2>3, <2>5, <1>1 DEF component_at, CharAt
    <3> QED BY <3>2, <3>3, <3>4
  <2> QED BY <1>1, <1>3, <2>4, <2>5 DEF Positions
<1> QED BY <1>2, <1>3

\* What the invariant says of a level, and of two.
LEMMA LevelFacts ==
  ASSUME IInv, NEW i \in Levels
  PROVE  /\ i \in 1..Len(positions_) /\ positions_[i] \in Positions /\ positions_[i].at \in Nat
         /\ positions_[i].kind # "root" /\ positions_[i].at >= 1
         /\ positions_[i].kind = "key" => storage_[positions_[i].at] \in Nat
         /\ Last(i) \in Nat /\ positions_[i].at <= Last(i) /\ Last(i) <= Len(storage_) /\ Len(storage_) \in Nat
<1>1. positions_ \in Seq(Positions) /\ Len(positions_) \in Nat /\ Len(storage_) \in Nat
  BY DEF IInv, TypeInv, IsSequence
<1>2. i \in 1..Len(positions_)
  BY <1>1 DEF Levels
<1>3. positions_[i] \in Positions
  BY <1>1, <1>2
<1>4. positions_[i].at \in Nat
  BY <1>3 DEF Positions
<1> QED BY <1>1, <1>2, <1>3, <1>4 DEF IInv, LayoutInv

LEMMA LevelsInOrder ==
  ASSUME IInv, NEW i \in Levels, NEW j \in Levels, i < j
  PROVE  Last(i) < positions_[j].at
BY DEF IInv, LayoutInv

\* A level that a step leaves alone.
LEMMA KeptLevel ==
  ASSUME PathConstants, IInv, NEW i \in Levels, positions_'[i] = positions_[i], i \in 1..Len(positions_'),
         Kept(i)
  PROVE  Last(i)' = Last(i) /\ storage_'[positions_[i].at] = storage_[positions_[i].at]
<1>1. positions_[i].at \in Nat /\ Last(i) \in Nat /\ positions_[i].at <= Last(i)
  BY LevelFacts
<1>2. storage_'[positions_[i].at] = storage_[positions_[i].at]
  BY <1>1 DEF Kept
<1> QED BY <1>2 DEF Last

\* A step that writes the cells of the last component, a new one or not, and
\* none in front of them.
LEMMA LastChanges ==
  ASSUME PathConstants, IInv, NEW n \in Nat \ {0, 1}, NEW p \in Positions,
         positions_' \in Seq(Positions), Len(positions_') = n, n - 1 <= Len(positions_), positions_'[n] = p,
         \A i \in 1..n - 1 : positions_'[i] = positions_[i],
         \A i \in 2..n - 1 : Last(i) < p.at,
         p.kind # "root", p.at >= 1, p.kind = "key" => storage_'[p.at] \in Nat,
         Last(n)' \in Nat, p.at <= Last(n)', Last(n)' <= Len(storage_'),
         IsSequence(storage_'), \A c \in 1..p.at - 1 : storage_'[c] = storage_[c],
         broken' \in {"none", "thrown", "freed"}
  PROVE  IInv' /\ \A i \in 1..n - 1 : component_at(i)' = component_at(i)
<1>1. positions_ \in Seq(Positions) /\ Len(positions_) \in Nat /\ p.at \in Nat
  BY DEF IInv, TypeInv, Positions
<1>2. ASSUME NEW i \in 2..n - 1
      PROVE  /\ i \in Levels /\ i \in 1..Len(positions_') /\ positions_'[i] = positions_[i]
             /\ Kept(i)
             /\ Last(i)' = Last(i) /\ storage_'[positions_[i].at] = storage_[positions_[i].at]
  <2>1. i \in Levels /\ i \in 1..Len(positions_') /\ i \in 1..n - 1
    BY <1>1 DEF Levels
  <2>2. positions_'[i] = positions_[i] /\ Last(i) < p.at
    BY <2>1
  <2>3. positions_[i].at \in Nat /\ positions_[i].at >= 1 /\ Last(i) \in Nat
    BY <2>1, LevelFacts
  <2>4. Kept(i)
    <3> SUFFICES ASSUME NEW c \in positions_[i].at..Last(i) PROVE storage_'[c] = storage_[c]
      BY DEF Kept
    <3>1. c \in 1..p.at - 1
      BY <1>1, <2>2, <2>3
    <3> QED BY <3>1
  <2> QED BY <2>1, <2>2, <2>4, KeptLevel
<1>3. \A i \in 1..n - 1 : component_at(i)' = component_at(i)
  <2> SUFFICES ASSUME NEW i \in 1..n - 1 PROVE component_at(i)' = component_at(i)
    OBVIOUS
  <2>1. i \in 1..Len(positions_) /\ i \in 1..Len(positions_') /\ positions_'[i] = positions_[i]
    BY <1>1
  <2>2. i # 1 => Kept(i)
    <3>1. i # 1 => i \in 2..n - 1
      OBVIOUS
    <3> QED BY <1>2, <3>1
  <2> QED BY <2>1, <2>2, Frame
<1>4. positions_'[1].kind = "root"
  BY DEF IInv, LayoutInv
<1>5. ASSUME NEW i \in 2..n
      PROVE  /\ positions_'[i].kind # "root" /\ positions_'[i].at >= 1
             /\ positions_'[i].kind = "key" => storage_'[positions_'[i].at] \in Nat
             /\ Last(i)' \in Nat /\ positions_'[i].at <= Last(i)' /\ Last(i)' <= Len(storage_')
  <2>1. CASE i = n
    BY <2>1
  <2>2. CASE i # n
    <3>1. i \in 2..n - 1
      BY <2>2
    <3>2. i \in Levels /\ positions_'[i] = positions_[i] /\ Last(i)' = Last(i)
          /\ storage_'[positions_[i].at] = storage_[positions_[i].at]
      BY <1>2, <3>1
    <3>3. /\ positions_[i].kind # "root" /\ positions_[i].at >= 1
          /\ positions_[i].kind = "key" => storage_[positions_[i].at] \in Nat
          /\ Last(i) \in Nat /\ positions_[i].at <= Last(i)
      BY <3>2 DEF IInv, LayoutInv
    <3>4. Last(i) < p.at
      BY <3>1
    <3>5. Len(storage_') \in Nat
      BY DEF IsSequence
    <3>6. Last(i) <= Len(storage_')
      BY <1>1, <3>3, <3>4, <3>5
    <3> QED BY <3>2, <3>3, <3>6
  <2> QED BY <2>1, <2>2
<1>6. ASSUME NEW i \in 2..n, NEW j \in 2..n, i < j PROVE Last(i)' < positions_'[j].at
  <2>1. i \in 2..n - 1
    <3>1. i \in Int /\ 2 <= i /\ j \in Int /\ j <= n /\ n \in Int
      OBVIOUS
    <3>2. i <= n - 1
      BY <1>6, <3>1
    <3> QED BY <3>1, <3>2
  <2>2. Last(i)' = Last(i) /\ i \in Levels
    BY <1>2, <2>1
  <2>3. CASE j = n
    BY <2>1, <2>2, <2>3
  <2>4. CASE j # n
    <3>1. j \in 2..n - 1
      BY <2>4
    <3>2. j \in Levels /\ positions_'[j] = positions_[j]
      BY <1>2, <3>1
    <3>3. Last(i) < positions_[j].at
      BY <1>6, <2>2, <3>2, LevelsInOrder
    <3> QED BY <2>2, <3>2, <3>3
  <2> QED BY <2>3, <2>4
<1>7. LayoutInv'
  BY <1>4, <1>5, <1>6 DEF LayoutInv, Levels
<1>8. TypeInv'
  BY DEF TypeInv
<1> QED BY <1>3, <1>7, <1>8 DEF IInv

\* A step that removes components from the end, and no cell of those that stay.
LEMMA Shrinks ==
  ASSUME PathConstants, IInv, NEW n \in 1..Len(positions_), positions_' = SubSeq(positions_, 1, n),
         IsSequence(storage_'), \A i \in 2..n : Last(i) <= Len(storage_'),
         \A c \in 1..Len(storage_') : c <= Len(storage_) => storage_'[c] = storage_[c],
         broken' \in {"none", "thrown", "freed"}
  PROVE  /\ IInv' /\ Len(positions_') = n
         /\ \A i \in 1..n : component_at(i)' = component_at(i)
<1>1. positions_ \in Seq(Positions) /\ Len(positions_) \in Nat /\ n \in Nat /\ n >= 1
  BY DEF IInv, TypeInv
<1>2. positions_' \in Seq(Positions) /\ Len(positions_') = n /\ \A i \in 1..n : positions_'[i] = positions_[i]
  BY <1>1
<1>3. ASSUME NEW i \in 2..n
      PROVE  /\ i \in Levels /\ i \in 1..Len(positions_') /\ positions_'[i] = positions_[i]
             /\ Kept(i)
             /\ Last(i)' = Last(i) /\ storage_'[positions_[i].at] = storage_[positions_[i].at]
  <2>1. i \in Levels /\ i \in 1..Len(positions_') /\ positions_'[i] = positions_[i]
    BY <1>1, <1>2 DEF Levels
  <2>2. /\ positions_[i].at \in Nat /\ positions_[i].at >= 1
        /\ Last(i) \in Nat /\ Last(i) <= Len(storage_) /\ Last(i) <= Len(storage_')
    BY <2>1, LevelFacts
  <2>3. Len(storage_) \in Nat /\ Len(storage_') \in Nat
    BY DEF IInv, TypeInv, IsSequence
  <2>4. Kept(i)
    BY <2>2, <2>3 DEF Kept
  <2> QED BY <2>1, <2>4, KeptLevel
<1>4. \A i \in 1..n : component_at(i)' = component_at(i)
  <2> SUFFICES ASSUME NEW i \in 1..n PROVE component_at(i)' = component_at(i)
    OBVIOUS
  <2>1. i \in 1..Len(positions_) /\ i \in 1..Len(positions_') /\ positions_'[i] = positions_[i]
    BY <1>1, <1>2
  <2>2. i # 1 => Kept(i)
    <3>1. i # 1 => i \in 2..n
      BY <1>1
    <3> QED BY <1>3, <3>1
  <2> QED BY <2>1, <2>2, Frame
<1>5. LayoutInv'
  <2>1. positions_'[1].kind = "root"
    BY <1>1, <1>2 DEF IInv, LayoutInv
  <2>2. ASSUME NEW i \in 2..n
        PROVE  /\ positions_'[i].kind # "root" /\ positions_'[i].at >= 1
               /\ positions_'[i].kind = "key" => storage_'[positions_'[i].at] \in Nat
               /\ Last(i)' \in Nat /\ positions_'[i].at <= Last(i)' /\ Last(i)' <= Len(storage_')
    BY <1>3 DEF IInv, LayoutInv
  <2>3. ASSUME NEW i \in 2..n, NEW j \in 2..n, i < j PROVE Last(i)' < positions_'[j].at
    <3>1. i \in Levels /\ j \in Levels /\ Last(i)' = Last(i) /\ positions_'[j] = positions_[j]
      BY <1>3
    <3>2. Last(i) < positions_[j].at
      BY <2>3, <3>1, LevelsInOrder
    <3> QED BY <3>1, <3>2
  <2> QED BY <1>2, <2>1, <2>2, <2>3 DEF LayoutInv, Levels
<1>6. TypeInv'
  BY <1>1, <1>2 DEF TypeInv
<1> QED BY <1>2, <1>4, <1>5, <1>6 DEF IInv
-----------------------------------------------------------------------------
Components == [i \in 1..Len(positions_) |-> component_at(i)]

\* What a key's cells hold behind the copy of its characters.
LEMMA KeyIsPut ==
  ASSUME PathConstants, NEW k, IsSequence(k), NEW at \in Nat \ {0}, NEW cells, IsSequence(cells),
         at + CharCells(Len(k)) <= Len(cells)
  PROVE  /\ IsSequence(Put(cells, at, k)) /\ Len(Put(cells, at, k)) = Len(cells)
         /\ KeyAt(Put(cells, at, k), at, k)
         /\ \A c \in 1..at - 1 : Put(cells, at, k)[c] = cells[c]
<1> DEFINE n == Len(k)
           m == Len(cells)
           made(c) == IF c = at THEN n
                      ELSE IF c > at /\ c <= at + CharCells(n)
                           THEN [j \in 1..CharsIn(c - at, n) |-> k[(c - at - 1) * CellChars + j]] ELSE cells[c]
           put == [c \in 1..m |-> made(c)]
<1>1. n \in Nat /\ m \in Nat /\ CharCells(n) \in Nat
  BY CharCellsType DEF IsSequence
<1>2. Put(cells, at, k) = put
  BY DEF Put
<1>3. IsSequence(put) /\ Len(put) = m
  BY <1>1 DEF IsSequence
<1>4. at \in 1..m
  BY <1>1
<1>5. put[at] = n
  BY <1>4
<1>6. ASSUME NEW c \in 1..at - 1 PROVE put[c] = cells[c]
  BY <1>1, <1>4
<1>7. ASSUME NEW j \in 1..n
      PROVE  put[at + 1 + ((j - 1) \div CellChars)][1 + ((j - 1) % CellChars)] = k[j]
  <2> DEFINE q == (j - 1) \div CellChars
             r == (j - 1) % CellChars
             c == at + 1 + q
  <2>1. /\ q \in Nat /\ r \in Nat /\ 1 + q <= CharCells(n) /\ 1 + r \in 1..CharsIn(1 + q, n)
        /\ q * CellChars + (1 + r) = j
    BY <1>1, CharPlace
  <2> HIDE DEF q, r
  <2>2. c \in 1..m /\ c # at /\ c > at /\ c <= at + CharCells(n) /\ c - at = 1 + q /\ c - at - 1 = q
    BY <1>1, <2>1
  <2> HIDE DEF c
  <2>3. put[c] = [i \in 1..CharsIn(1 + q, n) |-> k[q * CellChars + i]]
    BY <2>2
  <2>4. put[c][1 + r] = k[j]
    BY <2>1, <2>3
  <2> QED BY <2>4 DEF c, q, r
<1> HIDE DEF put
<1>8. KeyAt(put, at, k)
  BY <1>5, <1>7 DEF KeyAt
<1> QED BY <1>2, <1>3, <1>6, <1>8

LEMMA ResizedIs ==
  ASSUME NEW n \in Nat
  PROVE  /\ IsSequence(Resized(n)) /\ Len(Resized(n)) = n
         /\ \A c \in 1..n : c <= Len(storage_) => Resized(n)[c] = storage_[c]
BY DEF Resized, IsSequence

\* The component whose key was put there is the key.
LEMMA KeyIsRead ==
  ASSUME PathConstants, NEW k, IsSequence(k), NEW n \in 1..Len(positions_'), positions_'[n].kind = "key",
         KeyAt(storage_', positions_'[n].at, k)
  PROVE  component_at(n)' = [kind |-> "key", key |-> k]
<1>1. component_at(n)' = [kind |-> "key", key |-> [j \in 1..Len(k) |->
           storage_'[positions_'[n].at + 1 + ((j - 1) \div CellChars)][1 + ((j - 1) % CellChars)]]]
  BY DEF component_at, CharAt, KeyAt
<1>2. [j \in 1..Len(k) |-> storage_'[positions_'[n].at + 1 + ((j - 1) \div CellChars)][1 + ((j - 1) % CellChars)]]
        = [j \in 1..Len(k) |-> k[j]]
  BY DEF KeyAt
<1> QED BY <1>1, <1>2 DEF IsSequence

\* Components pushed, and the last one replaced.
LEMMA Pushed ==
  ASSUME NEW n \in Nat, Len(positions_) = n, Len(positions_') = n + 1, NEW c, component_at(n + 1)' = c,
         \A i \in 1..n : component_at(i)' = component_at(i)
  PROVE  Components' = Append(Components, c) /\ Len(Components) = n
<1>1. Components' = [i \in 1..n + 1 |-> component_at(i)']
  BY DEF Components
<1>2. Components = [i \in 1..n |-> component_at(i)]
  BY DEF Components
<1> DEFINE old(i) == component_at(i)
           new(i) == component_at(i)'
<1>3. \A i \in 1..n : new(i) = old(i)
  OBVIOUS
<1>4. new(n + 1) = c
  OBVIOUS
<1> HIDE DEF old, new
<1>5. [i \in 1..n + 1 |-> new(i)] = Append([i \in 1..n |-> old(i)], c)
  BY <1>3, <1>4
<1> QED BY <1>1, <1>2, <1>5 DEF old, new

LEMMA Replaced ==
  ASSUME NEW n \in Nat \ {0}, Len(positions_) = n, Len(positions_') = n, NEW c, component_at(n)' = c,
         \A i \in 1..n - 1 : component_at(i)' = component_at(i)
  PROVE  Components' = [Components EXCEPT ![Len(Components)] = c] /\ Len(Components) = n
<1>1. Components' = [i \in 1..n |-> component_at(i)']
  BY DEF Components
<1>2. Components = [i \in 1..n |-> component_at(i)]
  BY DEF Components
<1> DEFINE old(i) == component_at(i)
           new(i) == component_at(i)'
<1>3. \A i \in 1..n - 1 : new(i) = old(i)
  OBVIOUS
<1>4. new(n) = c
  OBVIOUS
<1> HIDE DEF old, new
<1>5. [i \in 1..n |-> new(i)] = [[i \in 1..n |-> old(i)] EXCEPT ![n] = c]
  <2>1. \A i \in 1..n : i # n => i \in 1..n - 1
    OBVIOUS
  <2>2. \A i \in 1..n : new(i) = IF i = n THEN c ELSE old(i)
    BY <1>3, <1>4, <2>1
  <2> QED BY <2>2
<1>6. Len([i \in 1..n |-> old(i)]) = n
  OBVIOUS
<1> QED BY <1>1, <1>2, <1>5, <1>6 DEF old, new
-----------------------------------------------------------------------------
\* Every step keeps the layout, and is one of the vector's unless it breaks the path.
Stepped == IInv' /\ (broken' = "none" => Path!Next)

LEMMA InitInv == ASSUME Init PROVE IInv
<1>1. TypeInv
  BY DEF Init, TypeInv, IsSequence, Positions
<1>2. LayoutInv
  BY DEF Init, LayoutInv, Levels
<1> QED BY <1>1, <1>2 DEF IInv

LEMMA Lengths ==
  ASSUME IInv
  PROVE  /\ positions_ \in Seq(Positions) /\ Len(positions_) \in Nat \ {0} /\ Len(storage_) \in Nat /\ IsSequence(storage_)
         /\ \A i \in Levels : Last(i) <= Len(storage_)
BY LevelFacts DEF IInv, TypeInv, IsSequence

\* One cell more.
LEMMA Appended ==
  ASSUME NEW s, IsSequence(s), NEW x
  PROVE  /\ IsSequence(Append(s, x)) /\ Len(Append(s, x)) = Len(s) + 1 /\ Append(s, x)[Len(s) + 1] = x
         /\ \A c \in 1..Len(s) : Append(s, x)[c] = s[c]
<1>1. \A S : \A t \in Seq(S) : /\ Len(Append(t, x)) = Len(t) + 1 /\ Append(t, x)[Len(t) + 1] = x
                                /\ \A c \in 1..Len(t) : Append(t, x)[c] = t[c]
                                /\ Append(t, x) \in Seq(S \cup {x})
  OBVIOUS
<1>2. \A S : \A t \in Seq(S) : Len(t) \in Nat /\ t = [c \in 1..Len(t) |-> t[c]]
  OBVIOUS
<1>3. s \in Seq({s[c] : c \in 1..Len(s)})
  BY SequenceIs
<1>4. Append(s, x) \in Seq({s[c] : c \in 1..Len(s)} \cup {x})
  BY <1>1, <1>3
<1>5. IsSequence(Append(s, x))
  BY <1>2, <1>4 DEF IsSequence
<1> QED BY <1>1, <1>3, <1>5

LEMMA PushIndexStep == ASSUME PathConstants, IInv, push_index PROVE Stepped
<1> DEFINE m == Len(storage_)
           p == [kind |-> "index", at |-> m + 1]
<1>1. PICK n \in Nat \ {0, 1} : n - 1 = Len(positions_)
  <2>1. Len(positions_) + 1 \in Nat \ {0, 1} /\ (Len(positions_) + 1) - 1 = Len(positions_)
    BY Lengths
  <2> QED BY <2>1
<1>2. PICK i \in Indices : /\ broken = "none" /\ Len(positions_) <= MaxLevel /\ positions_' = Append(positions_, p)
                           /\ storage_' = Append(storage_, i) /\ broken' = broken
  BY DEF push_index
<1>3. /\ positions_ \in Seq(Positions) /\ Len(positions_) \in Nat \ {0} /\ m \in Nat /\ p \in Positions
      /\ p.kind = "index" /\ p.at = m + 1
  BY Lengths DEF Positions
<1>4. /\ IsSequence(storage_') /\ Len(storage_') = m + 1 /\ storage_'[m + 1] = i
      /\ \A c \in 1..m : storage_'[c] = storage_[c]
  <2>1. IsSequence(storage_)
    BY Lengths
  <2> QED BY <1>2, <2>1, Appended
<1>5. /\ positions_' \in Seq(Positions) /\ Len(positions_') = n /\ positions_'[n] = p
      /\ \A j \in 1..n - 1 : positions_'[j] = positions_[j]
  BY <1>1, <1>2, <1>3
<1> HIDE DEF m, p
<1>6. Last(n)' = p.at
  BY <1>3, <1>5 DEF Last
<1>7. component_at(n)' = [kind |-> "index", index |-> i]
  BY <1>3, <1>4, <1>5 DEF component_at
<1>8. \A j \in 2..n - 1 : Last(j) < p.at
  <2> SUFFICES ASSUME NEW j \in 2..n - 1 PROVE Last(j) < p.at
    OBVIOUS
  <2>1. j \in Levels
    BY <1>1 DEF Levels
  <2>2. Last(j) \in Nat /\ Last(j) <= m
    BY <2>1, LevelFacts DEF m
  <2> QED BY <1>3, <2>2
<1>9. /\ p.kind # "root" /\ p.kind # "key" /\ p.at >= 1 /\ p.at - 1 = m /\ n - 1 <= Len(positions_)
      /\ Last(n)' \in Nat /\ p.at <= Last(n)' /\ Last(n)' <= Len(storage_')
      /\ broken' \in {"none", "thrown", "freed"}
  BY <1>1, <1>2, <1>3, <1>4, <1>6
<1>10. \A c \in 1..p.at - 1 : storage_'[c] = storage_[c]
  BY <1>4, <1>9
<1>11. IInv' /\ \A j \in 1..n - 1 : component_at(j)' = component_at(j)
  BY <1>3, <1>4, <1>5, <1>8, <1>9, <1>10, LastChanges
<1>12. Components' = Append(Components, [kind |-> "index", index |-> i]) /\ Len(Components) = Len(positions_)
  BY <1>1, <1>3, <1>5, <1>7, <1>11, Pushed
<1>13. Path!push_index
  BY <1>2, <1>12 DEF Path!push_index, Path!Push, Path!Index, Components
<1> QED BY <1>11, <1>13 DEF Stepped, Path!Next

LEMMA BackIndexStep == ASSUME PathConstants, IInv, back_index PROVE Stepped
<1>1. PICK n \in Nat \ {0} : n = Len(positions_)
  BY Lengths
<1> DEFINE p == positions_[n]
           m == Len(storage_)
<1>2. PICK i \in Indices : /\ broken = "none" /\ p.kind = "index" /\ positions_' = positions_
                           /\ storage_' = [storage_ EXCEPT ![p.at] = i] /\ broken' = broken
  BY <1>1 DEF back_index, BackAt
<1>3. n \in Nat \ {0, 1} /\ n \in Levels
  <2>1. n # 1
    BY <1>2 DEF IInv, LayoutInv
  <2> QED BY <1>1, <2>1 DEF Levels
<1>4. /\ positions_ \in Seq(Positions) /\ m \in Nat /\ p \in Positions /\ p.at \in Nat /\ p.at >= 1
      /\ p.kind # "root" /\ p.kind # "key" /\ p.at <= m /\ IsSequence(storage_)
  BY <1>2, <1>3, Lengths, LevelFacts DEF Last
<1>5. /\ IsSequence(storage_') /\ Len(storage_') = m /\ storage_'[p.at] = i
      /\ \A c \in 1..p.at - 1 : storage_'[c] = storage_[c]
  <2>1. storage_ \in Seq({storage_[c] : c \in 1..m})
    BY <1>4, SequenceIs
  <2>2. \A S : \A s \in Seq(S) : \A q \in 1..Len(s) :
          /\ [s EXCEPT ![q] = i] \in Seq(S \cup {i}) /\ Len([s EXCEPT ![q] = i]) = Len(s)
          /\ [s EXCEPT ![q] = i][q] = i /\ \A c \in 1..q - 1 : [s EXCEPT ![q] = i][c] = s[c]
    OBVIOUS
  <2>3. \A S : \A s \in Seq(S) : Len(s) \in Nat /\ s = [c \in 1..Len(s) |-> s[c]]
    OBVIOUS
  <2>4. p.at \in 1..m
    BY <1>4
  <2> HIDE DEF p, m
  <2>5. /\ storage_' \in Seq({storage_[c] : c \in 1..m} \cup {i}) /\ Len(storage_') = m /\ storage_'[p.at] = i
        /\ \A c \in 1..p.at - 1 : storage_'[c] = storage_[c]
    BY <1>2, <2>1, <2>2, <2>4 DEF m
  <2> QED BY <2>3, <2>5 DEF IsSequence
<1>6. /\ positions_' \in Seq(Positions) /\ Len(positions_') = n /\ positions_'[n] = p
      /\ \A j \in 1..n - 1 : positions_'[j] = positions_[j]
  BY <1>1, <1>2, <1>4
<1> HIDE DEF m, p
<1>7. Last(n)' = p.at
  BY <1>4, <1>6 DEF Last
<1>8. component_at(n)' = [kind |-> "index", index |-> i]
  BY <1>2, <1>5, <1>6 DEF component_at
<1>9. \A j \in 2..n - 1 : Last(j) < p.at
  <2> SUFFICES ASSUME NEW j \in 2..n - 1 PROVE Last(j) < p.at
    OBVIOUS
  <2>1. j \in Levels /\ j < n
    BY <1>1 DEF Levels
  <2> QED BY <1>3, <2>1, LevelsInOrder DEF p
<1>10. /\ n - 1 <= Len(positions_) /\ Last(n)' \in Nat /\ p.at <= Last(n)' /\ Last(n)' <= Len(storage_')
       /\ broken' \in {"none", "thrown", "freed"}
  BY <1>1, <1>2, <1>4, <1>5, <1>7
<1>11. IInv' /\ \A j \in 1..n - 1 : component_at(j)' = component_at(j)
  BY <1>3, <1>4, <1>5, <1>6, <1>9, <1>10, LastChanges
<1>12. Components' = [Components EXCEPT ![Len(Components)] = [kind |-> "index", index |-> i]] /\ Len(Components) = n
  BY <1>1, <1>6, <1>8, <1>11, Replaced
<1>13. Components[Len(Components)].kind = "index" /\ Components # <<>>
  <2>1. Components[n] = component_at(n) /\ component_at(n).kind = "index"
    BY <1>1, <1>2 DEF Components, component_at, p
  <2> QED BY <1>1, <1>12, <2>1
<1>14. Path!back_index
  BY <1>12, <1>13 DEF Path!back_index, Path!Back, Path!SetBack, Path!Index, Components
<1> QED BY <1>11, <1>14 DEF Stepped, Path!Next

\* The cells of a key, of the last component.
LEMMA KeyStep ==
  ASSUME PathConstants, IInv, NEW k \in Keys, NEW n \in Nat \ {0, 1}, NEW p \in Positions,
         positions_' \in Seq(Positions), Len(positions_') = n, n - 1 <= Len(positions_), positions_'[n] = p,
         \A i \in 1..n - 1 : positions_'[i] = positions_[i],
         \A i \in 2..n - 1 : Last(i) < p.at,
         p.kind = "key", p.at >= 1, p.at - 1 <= Len(storage_),
         storage_' = Put(Resized(p.at - 1 + Cells(Len(k))), p.at, k),
         broken' \in {"none", "thrown", "freed"}
  PROVE  /\ IInv' /\ \A i \in 1..n - 1 : component_at(i)' = component_at(i)
         /\ component_at(n)' = [kind |-> "key", key |-> k]
<1> DEFINE cells == Resized(p.at - 1 + Cells(Len(k)))
<1>1. IsSequence(k) /\ Len(k) \in Nat /\ CharCells(Len(k)) \in Nat /\ p.at \in Nat \ {0} /\ Len(storage_) \in Nat
  BY Lengths, CharCellsType DEF PathConstants, IsSequence, Positions
<1>2. p.at - 1 + Cells(Len(k)) \in Nat /\ p.at - 1 + Cells(Len(k)) = p.at + CharCells(Len(k))
  BY <1>1 DEF Cells
<1>3. /\ IsSequence(cells) /\ Len(cells) = p.at + CharCells(Len(k))
      /\ \A c \in 1..p.at - 1 : cells[c] = storage_[c]
  <2>1. /\ IsSequence(cells) /\ Len(cells) = p.at + CharCells(Len(k))
        /\ \A c \in 1..p.at + CharCells(Len(k)) : c <= Len(storage_) => cells[c] = storage_[c]
    BY <1>2, ResizedIs
  <2>2. \A c \in 1..p.at - 1 : c \in 1..p.at + CharCells(Len(k)) /\ c <= Len(storage_)
    BY <1>1
  <2> QED BY <2>1, <2>2
<1> HIDE DEF cells
<1>4. storage_' = Put(cells, p.at, k) /\ p.at + CharCells(Len(k)) <= Len(cells)
  BY <1>1, <1>3 DEF cells
<1>5. /\ IsSequence(storage_') /\ Len(storage_') = Len(cells) /\ KeyAt(storage_', p.at, k)
      /\ \A c \in 1..p.at - 1 : storage_'[c] = cells[c]
  <2> DEFINE at == p.at
  <2>1. IsSequence(k) /\ at \in Nat \ {0} /\ IsSequence(cells) /\ at + CharCells(Len(k)) <= Len(cells)
    BY <1>1, <1>3, <1>4
  <2>2. storage_' = Put(cells, at, k)
    BY <1>4
  <2> HIDE DEF at
  <2>3. /\ IsSequence(Put(cells, at, k)) /\ Len(Put(cells, at, k)) = Len(cells) /\ KeyAt(Put(cells, at, k), at, k)
        /\ \A c \in 1..at - 1 : Put(cells, at, k)[c] = cells[c]
    BY <2>1, KeyIsPut
  <2> QED BY <2>2, <2>3 DEF at
<1>6. component_at(n)' = [kind |-> "key", key |-> k]
  <2>1. n \in 1..Len(positions_')
    OBVIOUS
  <2> QED BY <1>1, <1>5, <2>1, KeyIsRead
<1>7. storage_'[p.at] = Len(k) /\ Last(n)' = p.at + CharCells(Len(k))
  BY <1>5 DEF Last, KeyAt
<1>8. /\ p.kind # "root" /\ storage_'[p.at] \in Nat /\ Last(n)' \in Nat /\ p.at <= Last(n)' /\ Last(n)' <= Len(storage_')
  <2>1. p.kind # "root" /\ storage_'[p.at] \in Nat
    BY <1>1, <1>7
  <2>2. p.at \in Nat /\ CharCells(Len(k)) \in Nat /\ Last(n)' = p.at + CharCells(Len(k))
        /\ Len(storage_') = p.at + CharCells(Len(k))
    BY <1>1, <1>3, <1>5, <1>7
  <2>3. Last(n)' \in Nat /\ p.at <= Last(n)' /\ Last(n)' <= Len(storage_')
    BY <2>2
  <2> QED BY <2>1, <2>3
<1>9. \A c \in 1..p.at - 1 : storage_'[c] = storage_[c]
  BY <1>3, <1>5
<1>10. IInv' /\ \A i \in 1..n - 1 : component_at(i)' = component_at(i)
  BY <1>5, <1>8, <1>9, LastChanges
<1> QED BY <1>6, <1>10

LEMMA CopiedLeaves == ASSUME NEW k, Copied(k) PROVE broken' \in {"none", "thrown", "freed"}
BY DEF Copied

LEMMA PushKeyStep == ASSUME PathConstants, IInv, push_key PROVE Stepped
<1> DEFINE m == Len(storage_)
           p == [kind |-> "key", at |-> m + 1]
<1>1. PICK n \in Nat \ {0, 1} : n - 1 = Len(positions_)
  <2>1. Len(positions_) + 1 \in Nat \ {0, 1} /\ (Len(positions_) + 1) - 1 = Len(positions_)
    BY Lengths
  <2> QED BY <2>1
<1>2. PICK k \in Keys : /\ Len(positions_) <= MaxLevel /\ positions_' = Append(positions_, p) /\ Copied(k)
                        /\ storage_' = Put(Resized(m + Cells(Len(k))), m + 1, k)
  BY DEF push_key
<1>3. /\ positions_ \in Seq(Positions) /\ Len(positions_) \in Nat \ {0} /\ m \in Nat /\ p \in Positions
      /\ p.kind = "key" /\ p.at = m + 1
  BY Lengths DEF Positions
<1>4. /\ positions_' \in Seq(Positions) /\ Len(positions_') = n /\ positions_'[n] = p
      /\ \A j \in 1..n - 1 : positions_'[j] = positions_[j]
  BY <1>1, <1>2, <1>3
<1> HIDE DEF p
<1>5. \A j \in 2..n - 1 : Last(j) < p.at
  <2> SUFFICES ASSUME NEW j \in 2..n - 1 PROVE Last(j) < p.at
    OBVIOUS
  <2>1. j \in Levels
    BY <1>1 DEF Levels
  <2>2. Last(j) \in Nat /\ Last(j) <= m
    BY <2>1, LevelFacts
  <2> QED BY <1>3, <2>2
<1> HIDE DEF m
<1>6. p.at >= 1 /\ p.at - 1 = m /\ n - 1 <= Len(positions_)
  BY <1>1, <1>3
<1>7. p.at - 1 <= Len(storage_) /\ storage_' = Put(Resized(p.at - 1 + Cells(Len(k))), p.at, k)
  BY <1>2, <1>3, <1>6 DEF m
<1>8. broken' \in {"none", "thrown", "freed"}
  BY <1>2, CopiedLeaves
<1>9. /\ IInv' /\ \A j \in 1..n - 1 : component_at(j)' = component_at(j)
      /\ component_at(n)' = [kind |-> "key", key |-> k]
  BY <1>3, <1>4, <1>5, <1>6, <1>7, <1>8, KeyStep
<1>10. Components' = Append(Components, [kind |-> "key", key |-> k]) /\ Len(Components) = Len(positions_)
  BY <1>1, <1>3, <1>4, <1>9, Pushed
<1>11. Path!push_key
  BY <1>2, <1>10 DEF Path!push_key, Path!Push, Path!Key, Components
<1> QED BY <1>9, <1>11 DEF Stepped, Path!Next

LEMMA BackKeyStep == ASSUME PathConstants, IInv, back_key_assign PROVE Stepped
<1>1. PICK n \in Nat \ {0} : n = Len(positions_)
  BY Lengths
<1> DEFINE p == positions_[n]
<1>2. PICK k \in Keys : /\ p.kind = "key" /\ positions_' = positions_ /\ Copied(k)
                        /\ storage_' = Put(Resized(p.at - 1 + Cells(Len(k))), p.at, k)
  BY <1>1 DEF back_key_assign, BackAt, Assigned
<1>3. n \in Nat \ {0, 1} /\ n \in Levels
  <2>1. n # 1
    BY <1>2 DEF IInv, LayoutInv
  <2> QED BY <1>1, <2>1 DEF Levels
<1>4. /\ positions_ \in Seq(Positions) /\ p \in Positions /\ p.at \in Nat /\ p.at >= 1 /\ p.at - 1 <= Len(storage_)
  <2>1. p \in Positions /\ p.at \in Nat /\ p.at >= 1 /\ p.at <= Last(n) /\ Last(n) <= Len(storage_)
        /\ Last(n) \in Nat /\ Len(storage_) \in Nat
    BY <1>3, LevelFacts
  <2> QED BY <2>1, Lengths
<1>5. /\ positions_' \in Seq(Positions) /\ Len(positions_') = n /\ positions_'[n] = p /\ n - 1 <= Len(positions_)
      /\ \A j \in 1..n - 1 : positions_'[j] = positions_[j]
  BY <1>1, <1>2, <1>4
<1> HIDE DEF p
<1>6. \A j \in 2..n - 1 : Last(j) < p.at
  <2> SUFFICES ASSUME NEW j \in 2..n - 1 PROVE Last(j) < p.at
    OBVIOUS
  <2>1. j \in Levels /\ j < n
    BY <1>1 DEF Levels
  <2> QED BY <1>3, <2>1, LevelsInOrder DEF p
<1>7. broken' \in {"none", "thrown", "freed"}
  BY <1>2, CopiedLeaves
<1>8. /\ IInv' /\ \A j \in 1..n - 1 : component_at(j)' = component_at(j)
      /\ component_at(n)' = [kind |-> "key", key |-> k]
  BY <1>2, <1>3, <1>4, <1>5, <1>6, <1>7, KeyStep
<1>9. Components' = [Components EXCEPT ![Len(Components)] = [kind |-> "key", key |-> k]] /\ Len(Components) = n
  BY <1>1, <1>5, <1>8, Replaced
<1>10. Components[Len(Components)].kind = "key" /\ Components # <<>>
  <2>1. Components[n] = component_at(n) /\ component_at(n).kind = "key"
    <3>1. component_at(n) = [kind |-> "key", key |-> [j \in 1..storage_[p.at] |-> CharAt(p.at, j)]]
      BY <1>2 DEF component_at, p
    <3>2. component_at(n).kind = "key"
      BY <3>1
    <3>3. Components[n] = component_at(n)
      BY <1>1 DEF Components
    <3> QED BY <3>2, <3>3
  <2> QED BY <1>1, <1>9, <2>1
<1>11. Path!back_key
  BY <1>9, <1>10 DEF Path!back_key, Path!Back, Path!SetBack, Path!Key, Components
<1> QED BY <1>8, <1>11 DEF Stepped, Path!Next

\* Components removed from the end.
LEMMA Removed ==
  ASSUME NEW n \in Nat, Len(positions_') = n, NEW l \in Nat, Len(positions_) = l, n <= l,
         \A i \in 1..n : component_at(i)' = component_at(i)
  PROVE  Components' = SubSeq(Components, 1, n) /\ Len(Components) = l
<1> DEFINE old(i) == component_at(i)
           new(i) == component_at(i)'
<1>1. Components' = [i \in 1..n |-> new(i)] /\ Components = [i \in 1..l |-> old(i)]
  BY DEF Components
<1>2. \A i \in 1..n : new(i) = old(i)
  OBVIOUS
<1> HIDE DEF old, new
<1>3. [i \in 1..n |-> new(i)] = SubSeq([i \in 1..l |-> old(i)], 1, n) /\ Len([i \in 1..l |-> old(i)]) = l
  BY <1>2
<1> QED BY <1>1, <1>3

LEMMA PopStep == ASSUME PathConstants, IInv, pop_component PROVE Stepped
<1>1. PICK l \in Nat \ {0} : l = Len(positions_)
  BY Lengths
<1> DEFINE p == positions_[l]
<1>2. CASE broken' = "thrown" /\ UNCHANGED <<storage_, positions_>>
  <2>1. TypeInv'
    BY <1>2 DEF IInv, TypeInv
  <2>2. LayoutInv'
    BY <1>2 DEF IInv, LayoutInv, Levels, Last
  <2> QED BY <1>2, <2>1, <2>2 DEF IInv, Stepped
<1>3. CASE /\ p.kind # "root" /\ storage_' = SubSeq(storage_, 1, p.at - 1)
           /\ positions_' = SubSeq(positions_, 1, l - 1) /\ broken' = broken
  <2>1. l \in Levels /\ l - 1 \in 1..Len(positions_)
    <3>1. l # 1
      BY <1>3 DEF IInv, LayoutInv
    <3> QED BY <1>1, <3>1 DEF Levels
  <2>2. p.at \in Nat /\ p.at >= 1 /\ p.at - 1 <= Len(storage_) /\ Len(storage_) \in Nat
    <3>1. p.at \in Nat /\ p.at >= 1 /\ p.at <= Last(l) /\ Last(l) \in Nat /\ Last(l) <= Len(storage_) /\ Len(storage_) \in Nat
      BY <2>1, LevelFacts
    <3> QED BY <3>1
  <2>3. PICK m \in Nat : m = p.at - 1
    BY <2>2
  <2>4. /\ IsSequence(storage_') /\ Len(storage_') = m
        /\ \A c \in 1..m : storage_'[c] = storage_[c]
    <3>1. storage_ \in Seq({storage_[c] : c \in 1..Len(storage_)})
      BY Lengths, SequenceIs
    <3>2. m <= Len(storage_) /\ storage_' = SubSeq(storage_, 1, m)
      BY <1>3, <2>2, <2>3
    <3>3. \A S : \A s \in Seq(S) : \A n \in 0..Len(s) :
            /\ SubSeq(s, 1, n) = [c \in 1..n |-> s[c]] /\ Len(SubSeq(s, 1, n)) = n
      OBVIOUS
    <3>4. m \in 0..Len(storage_)
      BY <2>2, <3>2
    <3>5. storage_' = [c \in 1..m |-> storage_[c]] /\ Len(storage_') = m
      BY <3>1, <3>2, <3>3, <3>4
    <3> QED BY <3>5 DEF IsSequence
  <2> HIDE DEF p
  <2>5. \A i \in 2..l - 1 : Last(i) <= Len(storage_')
    <3> SUFFICES ASSUME NEW i \in 2..l - 1 PROVE Last(i) <= Len(storage_')
      OBVIOUS
    <3>1. i \in Levels /\ i < l
      BY <1>1 DEF Levels
    <3>2. Last(i) < p.at /\ Last(i) \in Nat
      BY <2>1, <3>1, LevelsInOrder, LevelFacts DEF p
    <3> QED BY <2>2, <2>3, <2>4, <3>2
  <2>6. broken' \in {"none", "thrown", "freed"}
    BY <1>3 DEF IInv, TypeInv
  <2>7. \A c \in 1..Len(storage_') : c <= Len(storage_) => storage_'[c] = storage_[c]
    BY <2>4
  <2>8. IInv' /\ Len(positions_') = l - 1 /\ \A i \in 1..l - 1 : component_at(i)' = component_at(i)
    BY <1>3, <2>1, <2>4, <2>5, <2>6, <2>7, Shrinks
  <2>9. Components' = SubSeq(Components, 1, l - 1) /\ Len(Components) = l
    <3>1. l - 1 \in Nat /\ l - 1 <= l
      BY <1>1
    <3> QED BY <1>1, <2>8, <3>1, Removed
  <2>10. Components # <<>>
    BY <1>1, <2>9
  <2>11. Path!pop_component
    BY <2>9, <2>10 DEF Path!pop_component, Components
  <2> QED BY <2>8, <2>11 DEF Stepped, Path!Next
<1> QED BY <1>1, <1>2, <1>3 DEF pop_component, BackAt

LEMMA ClearStep == ASSUME PathConstants, IInv, clear PROVE Stepped
<1>1. storage_' = Resized(1) /\ positions_' = SubSeq(positions_, 1, 1) /\ broken' \in {"none", "thrown", "freed"}
  BY DEF clear
<1>2. /\ IsSequence(storage_') /\ Len(storage_') = 1
      /\ \A c \in 1..1 : c <= Len(storage_) => storage_'[c] = storage_[c]
  BY <1>1, ResizedIs
<1>3. 1 \in 1..Len(positions_) /\ Len(positions_) \in Nat
  BY Lengths
<1>4. IInv' /\ Len(positions_') = 1 /\ \A i \in 1..1 : component_at(i)' = component_at(i)
  BY <1>1, <1>2, <1>3, Shrinks
<1>5. component_at(1)' = [kind |-> "root"]
  <2>1. positions_'[1].kind = "root"
    BY <1>4 DEF IInv, LayoutInv
  <2>2. component_at(1)' = component_at(1) /\ positions_[1].kind = "root"
    BY <1>4 DEF IInv, LayoutInv
  <2> QED BY <2>2 DEF component_at
<1>6. Components' = <<[kind |-> "root"]>>
  <2> DEFINE new(i) == component_at(i)'
  <2>1. Components' = [i \in 1..1 |-> new(i)]
    BY <1>4 DEF Components
  <2>2. new(1) = [kind |-> "root"]
    BY <1>5
  <2> HIDE DEF new
  <2> QED BY <2>1, <2>2
<1>7. Path!clear
  BY <1>6 DEF Path!clear, Path!Root, Components
<1> QED BY <1>4, <1>7 DEF Stepped, Path!Next

LEMMA StepIs == ASSUME PathConstants, IInv, Next PROVE Stepped
BY PushIndexStep, BackIndexStep, PushKeyStep, BackKeyStep, PopStep, ClearStep DEF Next

LEMMA InvIsInductive == ASSUME PathConstants, IInv, [Next]_vars PROVE IInv'
<1>1. CASE UNCHANGED vars
  <2>1. TypeInv'
    BY <1>1 DEF vars, IInv, TypeInv
  <2>2. LayoutInv'
    BY <1>1 DEF vars, IInv, LayoutInv, Levels, Last
  <2> QED BY <2>1, <2>2 DEF IInv
<1>2. CASE Next
  BY <1>2, StepIs DEF Stepped
<1> QED BY <1>1, <1>2
-----------------------------------------------------------------------------
\* The first component is the root, and every other one begins at a cell that
\* the storage has, whatever was pushed, replaced, popped and cleared before.
THEOREM TypeCorrect == ASSUME PathConstants PROVE Spec => []TypeOK
<1>1. Init => IInv
  BY InitInv
<1>2. IInv /\ [Next]_vars => IInv'
  BY InvIsInductive
<1>3. IInv => TypeOK
  <2> SUFFICES ASSUME IInv PROVE TypeOK
    OBVIOUS
  <2>1. positions_[1].kind = "root" /\ broken \in {"none", "thrown", "freed"}
    BY DEF IInv, TypeInv, LayoutInv
  <2>2. ASSUME NEW i \in 2..Len(positions_) PROVE positions_[i].at \in 1..Len(storage_)
    BY LevelFacts DEF Levels
  <2> QED BY <2>1, <2>2 DEF TypeOK
<1> QED BY <1>1, <1>2, <1>3, PTL DEF Spec

\* json_path stores what intrusive_json_path would hold: until it throws or
\* copies characters that are gone, each of its operations changes the vector
\* of components that component_at shows as the same operation on a vector
\* does, for keys of any length and cells of any number of characters.
THEOREM PathIsFlattened == ASSUME PathConstants PROVE Spec => RefinesPath
<1>1. Init => IInv
  BY InitInv
<1>2. IInv /\ [Next]_vars => IInv'
  BY InvIsInductive
<1>3. IInv /\ [Next]_vars => [broken' = "none" => Path!Next]_vars
  BY StepIs DEF Stepped
<1> QED BY <1>1, <1>2, <1>3, PTL DEF Spec, RefinesPath

\* An empty path is the vector that has the root alone.
THEOREM PathBegins == Init => Path!Init
<1> SUFFICES ASSUME Init PROVE Path!Init
  OBVIOUS
<1>1. Len(positions_) = 1 /\ component_at(1) = [kind |-> "root"]
  BY DEF Init, component_at
<1>2. Components = <<[kind |-> "root"]>>
  BY <1>1 DEF Components
<1> QED BY <1>2 DEF Path!Init, Path!Root, Components
=============================================================================
