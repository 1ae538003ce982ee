--------------------------- MODULE UtilityProofs ---------------------------
(***************************************************************************)
(* Proofs about SharedBuffer, and behind them about LruCache, Logger,      *)
(* StringCache and Base64.                                                 *)
(*                                                                         *)
(* SharedBuffer: the retain count of a CFData is compared with a           *)
(* cardinality, the number of its holders; one lemma says how that number  *)
(* changes when one buffer changes what it holds, and every action changes *)
(* one or two.                                                             *)
(* LruCache: a call changes one key's time of use, which is then the       *)
(* latest, and puts its record last; what a record erased was is the       *)
(* least recently used.                                                    *)
(* Logger: a thread's pieces follow one another as its place in vflog      *)
(* says, whatever the other threads write between them.                    *)
(* StringCache: what was allocated before ends where the next allocation   *)
(* begins, or is in another block; so the characters of a new key are      *)
(* written over none.                                                      *)
(***************************************************************************)
EXTENDS SharedBuffer, FiniteSetTheorems, SequenceTheorems, TLAPS

\* the number of buffers that hold d, and 1 if the client does
Held(f, d) == Cardinality({b \in Buffers : f[b] = d})
Own(S, d) == IF d \in S THEN 1 ELSE 0
Is(x, y) == IF x = y THEN 1 ELSE 0

TypeInv ==
  /\ data_ \in [Buffers -> Datas \cup {nil, "dead"}]
  /\ buffer_ \in [Buffers -> Nat]
  /\ size_ \in [Buffers -> 0..15]
  /\ refs \in [Datas -> 0..MaxRefs]
  /\ client \subseteq Datas

CountInv == \A d \in Datas : IF d \in overwritten THEN refs[d] > Held(data_, d) + Own(client, d)
                             ELSE refs[d] = Held(data_, d) + Own(client, d)

ViewInv == \A b \in Buffers :
             /\ data_[b] = nil => size_[b] = 0
             /\ data_[b] \in Datas /\ b \notin sought => size_[b] = Size[data_[b]] - buffer_[b]

IInv == TypeInv /\ CountInv /\ ViewInv

\* A number of holders is a natural number, and not 0 when there is one.
LEMMA HeldIsNat ==
  ASSUME IsFiniteSet(Buffers), NEW f, NEW d
  PROVE  /\ Held(f, d) \in Nat
         /\ \A b \in Buffers : f[b] = d => Held(f, d) > 0
<1> DEFINE H == {b \in Buffers : f[b] = d}
<1>1. IsFiniteSet(H)
  BY FS_Subset
<1>2. Cardinality(H) \in Nat
  BY <1>1, FS_CardinalityType
<1>3. ASSUME NEW b \in Buffers, f[b] = d PROVE Cardinality(H) > 0
  <2>1. H # {}
    BY <1>3
  <2>2. Cardinality(H) # 0
    BY <1>1, <2>1, FS_EmptySet
  <2> QED BY <2>2, <1>2
<1> QED BY <1>2, <1>3 DEF Held

\* One buffer changes what it holds: one holder more of the new, one less of
\* the old.
LEMMA HeldChanges ==
  ASSUME IsFiniteSet(Buffers)
  PROVE  \A f, g, d : \A b \in Buffers :
           (\A c \in Buffers : c # b => g[c] = f[c])
             => Held(g, d) = Held(f, d) + Is(g[b], d) - Is(f[b], d)
<1> SUFFICES ASSUME NEW f, NEW g, NEW d, NEW b \in Buffers, \A c \in Buffers : c # b => g[c] = f[c]
             PROVE  Held(g, d) = Held(f, d) + Is(g[b], d) - Is(f[b], d)
  OBVIOUS
<1> DEFINE R == {c \in Buffers : c # b /\ f[c] = d}
<1>1. IsFiniteSet(R) /\ Cardinality(R) \in Nat
  BY FS_Subset, FS_CardinalityType
<1>2. b \notin R
  OBVIOUS
<1>3. Cardinality(R \cup {b}) = Cardinality(R) + 1
  BY <1>1, <1>2, FS_AddElement
<1>4. {c \in Buffers : f[c] = d} = IF f[b] = d THEN R \cup {b} ELSE R
  OBVIOUS
<1>5. {c \in Buffers : g[c] = d} = IF g[b] = d THEN R \cup {b} ELSE R
  OBVIOUS
<1>6. Held(f, d) = Cardinality(R) + Is(f[b], d)
  BY <1>1, <1>3, <1>4 DEF Held, Is
<1>7. Held(g, d) = Cardinality(R) + Is(g[b], d)
  <2> DEFINE G == {c \in Buffers : g[c] = d}
  <2>1. Held(g, d) = Cardinality(G)
    BY Zenon DEF Held
  <2> HIDE DEF G, R
  <2>2. CASE g[b] = d
    BY <1>1, <1>3, <1>5, <2>1, <2>2 DEF Is, G
  <2>3. CASE g[b] # d
    <3>1. G = R
      BY <1>5, <2>3 DEF G
    <3> QED BY <1>1, <2>1, <2>3, <3>1 DEF Is
  <2> QED BY <2>2, <2>3
<1> QED BY <1>1, <1>6, <1>7 DEF Is
\* The same for two buffers.
LEMMA HeldChangesTwice ==
  ASSUME IsFiniteSet(Buffers)
  PROVE  \A f, g, d : \A a, b \in Buffers :
           a # b /\ (\A c \in Buffers : c # a /\ c # b => g[c] = f[c])
             => Held(g, d) = Held(f, d) + (Is(g[a], d) - Is(f[a], d)) + (Is(g[b], d) - Is(f[b], d))
<1> TAKE f, g, d
<1> TAKE a \in Buffers, b \in Buffers
<1> HAVE a # b /\ (\A c \in Buffers : c # a /\ c # b => g[c] = f[c])
<1> DEFINE h == [c \in Buffers |-> IF c = a THEN g[a] ELSE f[c]]
<1>1. (\A c \in Buffers : c # a => h[c] = f[c]) /\ h[a] = g[a]
  OBVIOUS
<1>2. (\A c \in Buffers : c # b => g[c] = h[c]) /\ h[b] = f[b]
  OBVIOUS
<1> HIDE DEF h
<1>3. Held(h, d) = Held(f, d) + Is(h[a], d) - Is(f[a], d)
  BY <1>1, HeldChanges
<1>4. Held(g, d) = Held(h, d) + Is(g[b], d) - Is(h[b], d)
  BY <1>2, HeldChanges
<1>5. Held(f, d) \in Nat
  BY HeldIsNat
<1>6. Is(g[a], d) \in Nat /\ Is(f[a], d) \in Nat /\ Is(g[b], d) \in Nat /\ Is(f[b], d) \in Nat
  BY DEF Is
<1> QED BY <1>1, <1>2, <1>3, <1>4, <1>5, <1>6
-----------------------------------------------------------------------------
LEMMA WordSize == 2 ^ Bits = 16
BY DEF Bits

LEMMA MaxRefsIsNat == ASSUME IsFiniteSet(Buffers) PROVE MaxRefs \in Nat
BY FS_CardinalityType DEF MaxRefs

\* View, whatever it says of sought for b
ViewTo(b, v, at, size) ==
  /\ data_' = [data_ EXCEPT ![b] = v] /\ buffer_' = [buffer_ EXCEPT ![b] = at]
  /\ size_' = [size_ EXCEPT ![b] = size]
  /\ sought' \ {b} = sought \ {b}

\* Every buffer that is made, assigned to, moved or emptied gets a view of
\* this kind.
LEMMA ViewStep ==
  ASSUME SharedConstants, TypeInv, ViewInv, NEW b \in Buffers,
         NEW v \in Datas \cup {nil, "dead"}, NEW at \in Nat, NEW size \in 0..15,
         ViewTo(b, v, at, size),
         v = nil => size = 0,
         v \in Datas /\ b \notin sought' => size = Size[v] - at
  PROVE  /\ data_' \in [Buffers -> Datas \cup {nil, "dead"}]
         /\ buffer_' \in [Buffers -> Nat]
         /\ size_' \in [Buffers -> 0..15]
         /\ ViewInv'
         /\ \A d \in Datas : Held(data_', d) = Held(data_, d) + Is(v, d) - Is(data_[b], d)
<1>1. \A d \in Datas : Held(data_', d) = Held(data_, d) + Is(v, d) - Is(data_[b], d)
  <2> TAKE d \in Datas
  <2> DEFINE g == data_'
  <2>1. IsFiniteSet(Buffers)
    BY DEF SharedConstants
  <2>2. (\A c \in Buffers : c # b => g[c] = data_[c]) /\ g[b] = v
    BY DEF TypeInv, ViewTo
  <2> HIDE DEF g
  <2>3. (\A c \in Buffers : c # b => g[c] = data_[c])
          => Held(g, d) = Held(data_, d) + Is(g[b], d) - Is(data_[b], d)
    BY <2>1, HeldChanges
  <2> QED BY <2>2, <2>3 DEF g
<1>2. ViewInv'
  <2> SUFFICES ASSUME NEW c \in Buffers
               PROVE  /\ data_'[c] = nil => size_'[c] = 0
                      /\ data_'[c] \in Datas /\ c \notin sought' => size_'[c] = Size[data_'[c]] - buffer_'[c]
    BY DEF ViewInv
  <2>1. CASE c = b
    BY <2>1 DEF TypeInv, ViewTo
  <2>2. CASE c # b
    <3>1. data_'[c] = data_[c] /\ size_'[c] = size_[c] /\ buffer_'[c] = buffer_[c] /\ (c \in sought' <=> c \in sought)
      BY <2>2 DEF TypeInv, ViewTo
    <3> QED BY <3>1 DEF ViewInv
  <2> QED BY <2>1, <2>2
<1> QED BY <1>1, <1>2 DEF TypeInv, ViewTo

\* What a live buffer shows.
LEMMA ViewType ==
  ASSUME SharedConstants, TypeInv, ViewInv, NEW b \in Live
  PROVE  /\ data_[b] \in Datas \cup {nil} /\ data_[b] # "dead"
         /\ buffer_[b] \in Nat /\ size_[b] \in 0..15
         /\ data_[b] = nil => size_[b] = 0
         /\ data_[b] \in Datas /\ b \notin sought => size_[b] = Size[data_[b]] - buffer_[b]
BY DEF Live, TypeInv, ViewInv

LEMMA InitInv == ASSUME SharedConstants, Init PROVE IInv
<1>1. TypeInv
  BY MaxRefsIsNat, FS_CardinalityType DEF Init, TypeInv, SharedConstants, MaxRefs
<1>2. ViewInv
  BY DEF Init, ViewInv, SharedConstants
<1>3. CountInv
  <2> SUFFICES ASSUME NEW d \in Datas
               PROVE  refs[d] = Held(data_, d) + Own(client, d)
    BY DEF CountInv, Init
  <2>1. {b \in Buffers : data_[b] = d} = {}
    BY DEF Init, SharedConstants
  <2>2. Held(data_, d) = 0
    BY <2>1, FS_EmptySet DEF Held
  <2> QED BY <2>2 DEF Init, Own
<1> QED BY <1>1, <1>2, <1>3 DEF IInv
-----------------------------------------------------------------------------
\* One step lemma per operation: it keeps the type, the counts and the views.

LEMMA DefaultStep == ASSUME SharedConstants, IInv, NEW b \in Buffers, Default(b) PROVE IInv'
<1>1. /\ b \notin Live /\ View(b, nil, 0, 0, FALSE) /\ UNCHANGED <<refs, client, overwritten>>
  BY DEF Default
<1>2. /\ data_' \in [Buffers -> Datas \cup {nil, "dead"}] /\ buffer_' \in [Buffers -> Nat] /\ size_' \in [Buffers -> 0..15]
      /\ ViewInv'
      /\ \A d \in Datas : Held(data_', d) = Held(data_, d) + Is(nil, d) - Is(data_[b], d)
  <2>1. ViewTo(b, nil, 0, 0)
    BY <1>1 DEF View, ViewTo
  <2> QED BY <2>1, ViewStep DEF IInv, SharedConstants
<1>3. \A d \in Datas : Held(data_', d) = Held(data_, d)
  BY <1>1, <1>2, HeldIsNat DEF Live, SharedConstants, Is
<1> QED BY <1>1, <1>2, <1>3 DEF IInv, TypeInv, CountInv

LEMMA ConstructStep ==
  ASSUME SharedConstants, IInv, NEW b \in Buffers, NEW d \in Datas, Construct(b, d) PROVE IInv'
<1>1. /\ b \notin Live /\ d \in client /\ UNCHANGED <<client, overwritten>>
  BY DEF Construct
<1>2. CASE Size[d] = 0
  <2>1. View(b, nil, 0, 0, FALSE) /\ UNCHANGED refs
    BY <1>2 DEF Construct
  <2> QED BY <1>1, <2>1, DefaultStep DEF Default
<1>3. CASE Size[d] # 0
  <2>1. View(b, d, 0, Size[d], FALSE) /\ Retain(d)
    BY <1>3 DEF Construct
  <2>2. Size[d] \in 0..15
    BY WordSize DEF SharedConstants
  <2>3. /\ data_' \in [Buffers -> Datas \cup {nil, "dead"}] /\ buffer_' \in [Buffers -> Nat] /\ size_' \in [Buffers -> 0..15]
        /\ ViewInv'
        /\ \A c \in Datas : Held(data_', c) = Held(data_, c) + Is(d, c) - Is(data_[b], c)
    <3>1. ViewTo(b, d, 0, Size[d])
      BY <2>1 DEF View, ViewTo
    <3> QED BY <2>2, <3>1, ViewStep DEF IInv, SharedConstants
  <2>4. refs' = [refs EXCEPT ![d] = @ + 1] /\ refs[d] < MaxRefs
    BY <2>1 DEF Retain, SharedConstants
  <2>5. refs' \in [Datas -> 0..MaxRefs]
    BY <2>4, MaxRefsIsNat DEF IInv, TypeInv, SharedConstants
  <2>6. CountInv'
    <3> SUFFICES ASSUME NEW c \in Datas
                 PROVE  IF c \in overwritten THEN refs'[c] > Held(data_', c) + Own(client, c)
                        ELSE refs'[c] = Held(data_', c) + Own(client, c)
      BY <1>1 DEF CountInv
    <3>1. Held(data_', c) = Held(data_, c) + Is(d, c) /\ Held(data_, c) \in Nat
      BY <1>1, <2>3, HeldIsNat DEF Live, SharedConstants, Is
    <3>2. refs'[c] = refs[c] + Is(d, c) /\ refs[c] \in Nat
      BY <2>4, MaxRefsIsNat DEF IInv, TypeInv, Is, SharedConstants
    <3> QED BY <3>1, <3>2 DEF IInv, CountInv, Is, Own
  <2> QED BY <1>1, <2>3, <2>5, <2>6 DEF IInv, TypeInv
<1> QED BY <1>2, <1>3

LEMMA ConstructBytesStep ==
  ASSUME SharedConstants, IInv, NEW b \in Buffers, NEW d \in Datas, ConstructBytes(b, d) PROVE IInv'
<1>1. /\ b \notin Live /\ d \in client /\ refs[d] = 1 /\ Size[d] > 0
      /\ View(b, d, 0, Size[d], FALSE) /\ client' = client \ {d}
      /\ UNCHANGED <<refs, overwritten>>
  BY DEF ConstructBytes
<1>2. Size[d] \in 0..15
  BY WordSize DEF SharedConstants
<1>3. /\ data_' \in [Buffers -> Datas \cup {nil, "dead"}] /\ buffer_' \in [Buffers -> Nat] /\ size_' \in [Buffers -> 0..15]
      /\ ViewInv'
      /\ \A c \in Datas : Held(data_', c) = Held(data_, c) + Is(d, c) - Is(data_[b], c)
  <2>1. ViewTo(b, d, 0, Size[d])
    BY <1>1 DEF View, ViewTo
  <2> QED BY <1>2, <2>1, ViewStep DEF IInv, SharedConstants
<1>4. CountInv'
  <2> SUFFICES ASSUME NEW c \in Datas
               PROVE  IF c \in overwritten THEN refs[c] > Held(data_', c) + Own(client', c)
                      ELSE refs[c] = Held(data_', c) + Own(client', c)
    BY <1>1 DEF CountInv
  <2>1. Held(data_', c) = Held(data_, c) + Is(d, c) /\ Held(data_, c) \in Nat
    BY <1>1, <1>3, HeldIsNat DEF Live, SharedConstants, Is
  <2>2. Own(client', c) = Own(client, c) - Is(d, c)
    BY <1>1 DEF Own, Is
  <2>3. Own(client, c) \in Nat /\ Is(d, c) \in Nat
    BY DEF Own, Is
  <2> QED BY <2>1, <2>2, <2>3 DEF IInv, CountInv
<1> QED BY <1>1, <1>3, <1>4 DEF IInv, TypeInv

LEMMA CopyConstructStep ==
  ASSUME SharedConstants, IInv, NEW b \in Buffers, NEW other \in Buffers, CopyConstruct(b, other) PROVE IInv'
<1> DEFINE d == data_[other]
<1>1. /\ b \notin Live /\ other \in Live /\ Retain(d) /\ UNCHANGED <<client, overwritten>>
      /\ data_' = [data_ EXCEPT ![b] = data_[other]]
      /\ buffer_' = [buffer_ EXCEPT ![b] = buffer_[other]] /\ size_' = [size_ EXCEPT ![b] = size_[other]]
      /\ sought' = IF other \in sought THEN sought \cup {b} ELSE sought \ {b}
  BY DEF CopyConstruct, View
<1>2. /\ d \in Datas \cup {nil} /\ d # "dead" /\ buffer_[other] \in Nat /\ size_[other] \in 0..15
      /\ d = nil => size_[other] = 0
      /\ d \in Datas /\ other \notin sought => size_[other] = Size[d] - buffer_[other]
  BY <1>1, ViewType DEF IInv
<1>3. ViewTo(b, d, buffer_[other], size_[other])
  BY <1>1 DEF ViewTo
<1>4. b \notin sought' => other \notin sought
  BY <1>1
<1> HIDE DEF d
<1>5. /\ data_' \in [Buffers -> Datas \cup {nil, "dead"}] /\ buffer_' \in [Buffers -> Nat] /\ size_' \in [Buffers -> 0..15]
      /\ ViewInv'
      /\ \A c \in Datas : Held(data_', c) = Held(data_, c) + Is(d, c) - Is(data_[b], c)
  BY <1>2, <1>3, <1>4, ViewStep DEF IInv
<1>6. /\ refs' \in [Datas -> 0..MaxRefs]
      /\ \A c \in Datas : refs'[c] = refs[c] + Is(d, c) /\ refs[c] \in Nat
  <2>1. CASE d = nil
    BY <1>1, <2>1, MaxRefsIsNat DEF Retain, IInv, TypeInv, SharedConstants, Is
  <2>2. CASE d # nil
    BY <1>1, <1>2, <2>2, MaxRefsIsNat DEF Retain, IInv, TypeInv, SharedConstants, Is
  <2> QED BY <2>1, <2>2
<1>7. CountInv'
  <2> SUFFICES ASSUME NEW c \in Datas
               PROVE  IF c \in overwritten THEN refs'[c] > Held(data_', c) + Own(client, c)
                      ELSE refs'[c] = Held(data_', c) + Own(client, c)
    BY <1>1 DEF CountInv
  <2>1. data_[b] = "dead" /\ c # "dead" /\ Is(data_[b], c) = 0
    BY <1>1 DEF Live, SharedConstants, Is
  <2>2. Held(data_, c) \in Nat /\ Is(d, c) \in Nat
    BY HeldIsNat DEF SharedConstants, Is
  <2>3. Held(data_', c) = Held(data_, c) + Is(d, c)
    BY <2>1, <2>2, <1>5
  <2> QED BY <2>2, <2>3, <1>6 DEF IInv, CountInv, Own
<1> QED BY <1>1, <1>5, <1>6, <1>7 DEF IInv, TypeInv

LEMMA CopyAssignStep ==
  ASSUME SharedConstants, IInv, NEW b \in Buffers, NEW other \in Buffers, CopyAssign(b, other) PROVE IInv'
<1> DEFINE d == data_[other]
           e == data_[b]
<1>1. /\ b \in Live /\ other \in Live /\ Retain(d) /\ client' = client
      /\ overwritten' = overwritten \cup ({e} \ {nil})
      /\ data_' = [data_ EXCEPT ![b] = data_[other]]
      /\ buffer_' = [buffer_ EXCEPT ![b] = buffer_[other]] /\ size_' = [size_ EXCEPT ![b] = size_[other]]
      /\ sought' = IF other \in sought THEN sought \cup {b} ELSE sought \ {b}
  BY DEF CopyAssign, View
<1>2. /\ d \in Datas \cup {nil} /\ d # "dead" /\ buffer_[other] \in Nat /\ size_[other] \in 0..15
      /\ d = nil => size_[other] = 0
      /\ d \in Datas /\ other \notin sought => size_[other] = Size[d] - buffer_[other]
  BY <1>1, ViewType DEF IInv
<1>3. ViewTo(b, d, buffer_[other], size_[other])
  BY <1>1 DEF ViewTo
<1>4. b \notin sought' => other \notin sought
  BY <1>1
<1> HIDE DEF d, e
<1>5. /\ data_' \in [Buffers -> Datas \cup {nil, "dead"}] /\ buffer_' \in [Buffers -> Nat] /\ size_' \in [Buffers -> 0..15]
      /\ ViewInv'
      /\ \A c \in Datas : Held(data_', c) = Held(data_, c) + Is(d, c) - Is(e, c)
  BY <1>2, <1>3, <1>4, ViewStep DEF IInv, e
<1>6. /\ refs' \in [Datas -> 0..MaxRefs]
      /\ \A c \in Datas : refs'[c] = refs[c] + Is(d, c) /\ refs[c] \in Nat
  <2>1. CASE d = nil
    BY <1>1, <2>1, MaxRefsIsNat DEF Retain, IInv, TypeInv, SharedConstants, Is
  <2>2. CASE d # nil
    BY <1>1, <1>2, <2>2, MaxRefsIsNat DEF Retain, IInv, TypeInv, SharedConstants, Is
  <2> QED BY <2>1, <2>2
<1>7. CountInv'
  <2> SUFFICES ASSUME NEW c \in Datas
               PROVE  IF c \in overwritten' THEN refs'[c] > Held(data_', c) + Own(client, c)
                      ELSE refs'[c] = Held(data_', c) + Own(client, c)
    BY <1>1 DEF CountInv
  <2>1. Held(data_, c) \in Nat /\ Is(d, c) \in Nat /\ Own(client, c) \in Nat /\ refs[c] \in Nat
    BY <1>6, HeldIsNat DEF SharedConstants, Is, Own
  <2>2. Held(data_', c) = Held(data_, c) + Is(d, c) - Is(e, c) /\ refs'[c] = refs[c] + Is(d, c)
    BY <1>5, <1>6
  <2>3. IF c \in overwritten THEN refs[c] > Held(data_, c) + Own(client, c)
        ELSE refs[c] = Held(data_, c) + Own(client, c)
    BY DEF IInv, CountInv
  <2>4. CASE e = c
    <3>1. c \in overwritten' /\ Is(e, c) = 1
      BY <2>4, <1>1 DEF SharedConstants, Is
    <3> QED BY <3>1, <2>1, <2>2, <2>3
  <2>5. CASE e # c
    <3>1. (c \in overwritten' <=> c \in overwritten) /\ Is(e, c) = 0
      BY <2>5, <1>1 DEF Is
    <3> QED BY <3>1, <2>1, <2>2, <2>3
  <2> QED BY <2>4, <2>5
<1> QED BY <1>1, <1>5, <1>6, <1>7 DEF IInv, TypeInv

\* What taking over changes, for MoveConstruct and MoveAssign.
LEMMA TakesStep ==
  ASSUME SharedConstants, IInv, NEW b \in Buffers, NEW other \in Live, b # other, Takes(b, other)
  PROVE  TypeInv' /\ ViewInv' /\ \A c \in Datas : Held(data_', c) = Held(data_, c) - Is(data_[b], c)
<1> DEFINE d == data_[other]
<1>1. /\ data_' = [data_ EXCEPT ![b] = data_[other], ![other] = nil]
      /\ buffer_' = [buffer_ EXCEPT ![b] = buffer_[other], ![other] = 0]
      /\ size_' = [size_ EXCEPT ![b] = size_[other], ![other] = 0]
      /\ sought' = (sought \ {b, other}) \cup (IF other \in sought THEN {b} ELSE {})
      /\ refs' = refs /\ client' = client
  BY DEF Takes
<1>2. /\ d \in Datas \cup {nil} /\ d # "dead" /\ buffer_[other] \in Nat /\ size_[other] \in 0..15
      /\ d = nil => size_[other] = 0
      /\ d \in Datas /\ other \notin sought => size_[other] = Size[d] - buffer_[other]
      /\ other \in Buffers
  BY ViewType DEF IInv, Live
<1>3. /\ data_'[b] = data_[other] /\ data_'[other] = nil
      /\ buffer_'[b] = buffer_[other] /\ buffer_'[other] = 0
      /\ size_'[b] = size_[other] /\ size_'[other] = 0
      /\ \A c \in Buffers : c # b /\ c # other
            => data_'[c] = data_[c] /\ buffer_'[c] = buffer_[c] /\ size_'[c] = size_[c]
  BY <1>1, <1>2 DEF IInv, TypeInv
<1>4. TypeInv'
  BY <1>1, <1>2 DEF IInv, TypeInv
<1>5. ViewInv'
  <2> SUFFICES ASSUME NEW c \in Buffers
               PROVE  /\ data_'[c] = nil => size_'[c] = 0
                      /\ data_'[c] \in Datas /\ c \notin sought' => size_'[c] = Size[data_'[c]] - buffer_'[c]
    BY DEF ViewInv
  <2>1. CASE c = b
    BY <2>1, <1>1, <1>2, <1>3
  <2>2. CASE c = other
    BY <2>2, <1>3 DEF SharedConstants
  <2>3. CASE c # b /\ c # other
    <3>1. c \in sought' <=> c \in sought
      BY <2>3, <1>1
    <3> QED BY <2>3, <3>1, <1>3 DEF IInv, ViewInv
  <2> QED BY <2>1, <2>2, <2>3
<1>6. \A c \in Datas : Held(data_', c) = Held(data_, c) - Is(data_[b], c)
  <2> TAKE c \in Datas
  <2> DEFINE h == data_'
  <2>1. IsFiniteSet(Buffers)
    BY DEF SharedConstants
  <2>2. /\ \A x \in Buffers : x # b /\ x # other => h[x] = data_[x]
        /\ h[b] = data_[other] /\ h[other] = nil
    BY <1>3
  <2> HIDE DEF h
  <2>3. Held(h, c) = Held(data_, c) + (Is(h[b], c) - Is(data_[b], c)) + (Is(h[other], c) - Is(data_[other], c))
    BY <2>1, <2>2, <1>2, HeldChangesTwice
  <2>4. Held(data_, c) \in Nat /\ Is(data_[b], c) \in Nat /\ Is(data_[other], c) \in Nat /\ Is(h[other], c) = 0
    BY <2>1, <2>2, HeldIsNat DEF Is, SharedConstants
  <2> QED BY <2>2, <2>3, <2>4 DEF h
<1> QED BY <1>4, <1>5, <1>6

LEMMA MoveConstructStep ==
  ASSUME SharedConstants, IInv, NEW b \in Buffers, NEW other \in Buffers, MoveConstruct(b, other) PROVE IInv'
<1>1. b \notin Live /\ other \in Live /\ b # other /\ Takes(b, other) /\ overwritten' = overwritten
  BY DEF MoveConstruct
<1>2. TypeInv' /\ ViewInv' /\ \A c \in Datas : Held(data_', c) = Held(data_, c) - Is(data_[b], c)
  BY <1>1, TakesStep
<1>3. refs' = refs /\ client' = client
  BY <1>1 DEF Takes
<1>4. \A c \in Datas : Held(data_', c) = Held(data_, c)
  <2> TAKE c \in Datas
  <2>1. Is(data_[b], c) = 0 /\ Held(data_, c) \in Nat
    BY <1>1, HeldIsNat DEF Live, SharedConstants, Is
  <2> QED BY <2>1, <1>2
<1> QED BY <1>1, <1>2, <1>3, <1>4 DEF IInv, CountInv

LEMMA MoveAssignStep ==
  ASSUME SharedConstants, IInv, NEW b \in Buffers, NEW other \in Buffers, MoveAssign(b, other) PROVE IInv'
<1> DEFINE e == data_[b]
<1>1. b \in Live /\ other \in Live /\ b # other /\ Takes(b, other) /\ overwritten' = overwritten \cup ({e} \ {nil})
  BY DEF MoveAssign
<1> HIDE DEF e
<1>2. TypeInv' /\ ViewInv' /\ \A c \in Datas : Held(data_', c) = Held(data_, c) - Is(e, c)
  BY <1>1, TakesStep DEF e
<1>3. refs' = refs /\ client' = client
  BY <1>1 DEF Takes
<1>4. CountInv'
  <2> SUFFICES ASSUME NEW c \in Datas
               PROVE  IF c \in overwritten' THEN refs[c] > Held(data_', c) + Own(client, c)
                      ELSE refs[c] = Held(data_', c) + Own(client, c)
    BY <1>3 DEF CountInv
  <2>1. Held(data_, c) \in Nat /\ Own(client, c) \in Nat /\ refs[c] \in Nat
    BY HeldIsNat, MaxRefsIsNat DEF SharedConstants, Own, IInv, TypeInv
  <2>2. Held(data_', c) = Held(data_, c) - Is(e, c)
    BY <1>2
  <2>3. IF c \in overwritten THEN refs[c] > Held(data_, c) + Own(client, c)
        ELSE refs[c] = Held(data_, c) + Own(client, c)
    BY DEF IInv, CountInv
  <2>4. CASE e = c
    <3>1. c \in overwritten' /\ Is(e, c) = 1
      BY <2>4, <1>1 DEF SharedConstants, Is
    <3> QED BY <3>1, <2>1, <2>2, <2>3
  <2>5. CASE e # c
    <3>1. (c \in overwritten' <=> c \in overwritten) /\ Is(e, c) = 0
      BY <2>5, <1>1 DEF Is
    <3> QED BY <3>1, <2>1, <2>2, <2>3
  <2> QED BY <2>4, <2>5
<1> QED BY <1>2, <1>4 DEF IInv

\* What Destroy and release have in common: the buffer gives up what it has.
LEMMA GivesUp ==
  ASSUME SharedConstants, IInv, NEW b \in Live, NEW v \in {nil, "dead"}, ViewTo(b, v, 0, 0),
         refs' = Released(data_[b]), UNCHANGED <<client, overwritten>>
  PROVE  IInv'
<1> DEFINE e == data_[b]
<1>1. e \in Datas \cup {nil} /\ e # "dead" /\ b \in Buffers
  BY ViewType DEF IInv, Live
<1>2. refs' = IF e = nil THEN refs ELSE [refs EXCEPT ![e] = @ - 1]
  BY DEF Released
<1>3. e \in Datas => Held(data_, e) > 0
  BY <1>1, HeldIsNat DEF SharedConstants
<1> HIDE DEF e
<1>4. /\ data_' \in [Buffers -> Datas \cup {nil, "dead"}] /\ buffer_' \in [Buffers -> Nat] /\ size_' \in [Buffers -> 0..15]
      /\ ViewInv'
      /\ \A c \in Datas : Held(data_', c) = Held(data_, c) + Is(v, c) - Is(e, c)
  BY <1>1, ViewStep DEF IInv, e, SharedConstants
<1>5. \A c \in Datas : Held(data_', c) = Held(data_, c) - Is(e, c) /\ Held(data_, c) \in Nat
  <2> TAKE c \in Datas
  <2>1. Is(v, c) = 0 /\ Is(e, c) \in Nat /\ Held(data_, c) \in Nat
    BY HeldIsNat DEF SharedConstants, Is
  <2> QED BY <2>1, <1>4
<1>6. e \in Datas => refs[e] > 0
  <2> SUFFICES ASSUME e \in Datas PROVE refs[e] > 0
    OBVIOUS
  <2>1. Held(data_, e) \in Nat /\ Own(client, e) \in Nat /\ refs[e] \in Nat
    BY HeldIsNat, MaxRefsIsNat DEF SharedConstants, Own, IInv, TypeInv
  <2> QED BY <2>1, <1>3 DEF IInv, CountInv
<1>7. /\ refs' \in [Datas -> 0..MaxRefs]
      /\ \A c \in Datas : refs'[c] = refs[c] - Is(e, c) /\ refs[c] \in Nat
  BY <1>1, <1>2, <1>6, MaxRefsIsNat DEF IInv, TypeInv, SharedConstants, Is
<1>8. CountInv'
  <2> SUFFICES ASSUME NEW c \in Datas
               PROVE  IF c \in overwritten THEN refs'[c] > Held(data_', c) + Own(client, c)
                      ELSE refs'[c] = Held(data_', c) + Own(client, c)
    BY DEF CountInv
  <2>1. Own(client, c) \in Nat /\ Is(e, c) \in Nat
    BY DEF Own, Is
  <2> QED BY <2>1, <1>5, <1>7 DEF IInv, CountInv
<1> QED BY <1>4, <1>7, <1>8 DEF IInv, TypeInv

LEMMA DestroyStep == ASSUME SharedConstants, IInv, NEW b \in Buffers, Destroy(b) \/ release(b) PROVE IInv'
<1>1. CASE Destroy(b)
  <2>1. b \in Live /\ ViewTo(b, "dead", 0, 0) /\ refs' = Released(data_[b]) /\ UNCHANGED <<client, overwritten>>
    BY <1>1 DEF Destroy, View, ViewTo
  <2> QED BY <2>1, GivesUp
<1>2. CASE release(b)
  <2>1. b \in Live /\ ViewTo(b, nil, 0, 0) /\ refs' = Released(data_[b]) /\ UNCHANGED <<client, overwritten>>
    BY <1>2 DEF release, View, ViewTo
  <2> QED BY <2>1, GivesUp
<1> QED BY <1>1, <1>2

LEMMA ClientReleasesStep == ASSUME SharedConstants, IInv, NEW d \in Datas, ClientReleases(d) PROVE IInv'
<1>1. /\ d \in client /\ client' = client \ {d} /\ refs' = [refs EXCEPT ![d] = @ - 1]
      /\ UNCHANGED <<data_, buffer_, size_, overwritten, sought>>
  BY DEF ClientReleases, Released, SharedConstants
<1>2. \A c \in Datas : Held(data_, c) \in Nat /\ Own(client', c) = Own(client, c) - Is(d, c) /\ Own(client', c) \in Nat
  BY <1>1, HeldIsNat DEF SharedConstants, Own, Is
<1>3. refs[d] > 0 /\ \A c \in Datas : refs[c] \in Nat
  <2>1. Held(data_, d) \in Nat /\ Own(client, d) = 1
    BY <1>1, HeldIsNat DEF SharedConstants, Own
  <2>2. \A c \in Datas : refs[c] \in Nat
    BY MaxRefsIsNat DEF SharedConstants, IInv, TypeInv
  <2> QED BY <2>1, <2>2 DEF IInv, CountInv
<1>4. /\ refs' \in [Datas -> 0..MaxRefs]
      /\ \A c \in Datas : refs'[c] = refs[c] - Is(d, c)
  BY <1>1, <1>3, MaxRefsIsNat DEF IInv, TypeInv, SharedConstants, Is
<1>5. CountInv'
  <2> SUFFICES ASSUME NEW c \in Datas
               PROVE  IF c \in overwritten THEN refs'[c] > Held(data_, c) + Own(client', c)
                      ELSE refs'[c] = Held(data_, c) + Own(client', c)
    BY <1>1 DEF CountInv
  <2>1. Is(d, c) \in Nat /\ Own(client, c) \in Nat
    BY DEF Is, Own
  <2> QED BY <2>1, <1>2, <1>3, <1>4 DEF IInv, CountInv
<1>6. ViewInv'
  BY <1>1 DEF IInv, ViewInv
<1> QED BY <1>1, <1>4, <1>5, <1>6 DEF IInv, TypeInv

LEMMA SwapStep ==
  ASSUME SharedConstants, IInv, NEW b \in Buffers, NEW other \in Buffers, swap(b, other) PROVE IInv'
<1> DEFINE to(c) == IF c = b THEN other ELSE IF c = other THEN b ELSE c
<1>1. /\ data_' = [c \in Buffers |-> data_[to(c)]]
      /\ buffer_' = [c \in Buffers |-> buffer_[to(c)]]
      /\ size_' = [c \in Buffers |-> size_[to(c)]]
      /\ sought' = {to(c) : c \in sought}
      /\ UNCHANGED <<refs, client, overwritten>>
  BY DEF swap
<1>2. \A c \in Buffers : to(c) \in Buffers /\ to(to(c)) = c
  OBVIOUS
<1>3. \A c \in Buffers : data_'[c] = data_[to(c)] /\ buffer_'[c] = buffer_[to(c)] /\ size_'[c] = size_[to(c)]
  BY <1>1
<1>4. TypeInv'
  <2>1. /\ data_' \in [Buffers -> Datas \cup {nil, "dead"}] /\ buffer_' \in [Buffers -> Nat]
        /\ size_' \in [Buffers -> 0..15]
    <3> HIDE DEF to
    <3> QED BY <1>1, <1>2 DEF IInv, TypeInv
  <2> QED BY <2>1, <1>1 DEF IInv, TypeInv
<1>5. ViewInv'
  <2> SUFFICES ASSUME NEW c \in Buffers
               PROVE  /\ data_'[c] = nil => size_'[c] = 0
                      /\ data_'[c] \in Datas /\ c \notin sought' => size_'[c] = Size[data_'[c]] - buffer_'[c]
    BY DEF ViewInv
  <2>1. c \notin sought' => to(c) \notin sought
    BY <1>1, <1>2
  <2> HIDE DEF to
  <2> QED BY <2>1, <1>2, <1>3 DEF IInv, ViewInv
<1>6. \A d \in Datas : Held(data_', d) = Held(data_, d)
  <2> TAKE d \in Datas
  <2>1. CASE b = other
    <3>1. data_' = data_
      BY <2>1, <1>1 DEF IInv, TypeInv
    <3> QED BY <3>1
  <2>2. CASE b # other
    <3> DEFINE h == data_'
    <3>1. IsFiniteSet(Buffers)
      BY DEF SharedConstants
    <3>2. /\ \A x \in Buffers : x # b /\ x # other => h[x] = data_[x]
          /\ h[b] = data_[other] /\ h[other] = data_[b]
      BY <2>2, <1>3
    <3> HIDE DEF h, to
    <3>3. Held(h, d) = Held(data_, d) + (Is(h[b], d) - Is(data_[b], d)) + (Is(h[other], d) - Is(data_[other], d))
      BY <2>2, <3>1, <3>2, HeldChangesTwice
    <3>4. Held(data_, d) \in Nat /\ Is(data_[b], d) \in Nat /\ Is(data_[other], d) \in Nat
      BY <3>1, HeldIsNat DEF Is
    <3> QED BY <3>2, <3>3, <3>4 DEF h
  <2> QED BY <2>1, <2>2
<1>7. CountInv'
  BY <1>1, <1>6 DEF IInv, CountInv
<1> QED BY <1>4, <1>5, <1>7 DEF IInv

LEMMA SeekStep ==
  ASSUME SharedConstants, IInv, NEW b \in Buffers, NEW n \in 0..3, seek(b, n) PROVE IInv'
<1> DEFINE d == data_[b]
           pos == IF n < Size[d] THEN n ELSE Size[d]
           size == Word(size_[b] - pos)
<1>1. b \in Live /\ d # nil /\ UNCHANGED <<refs, client, overwritten>>
  BY DEF seek
<1>2. /\ data_' = [data_ EXCEPT ![b] = d] /\ buffer_' = [buffer_ EXCEPT ![b] = pos]
      /\ size_' = [size_ EXCEPT ![b] = size]
      /\ sought' = IF buffer_[b] > 0 \/ b \in sought THEN sought \cup {b} ELSE sought \ {b}
  BY Zenon DEF seek, View
<1>3. /\ d \in Datas /\ buffer_[b] \in Nat /\ size_[b] \in 0..15
      /\ b \notin sought => size_[b] = Size[d] - buffer_[b]
  BY <1>1, ViewType DEF IInv, SharedConstants
<1>4. Size[d] \in 0..15
  BY <1>3, WordSize DEF SharedConstants
<1>5. pos \in Nat /\ pos <= Size[d]
  BY <1>4
<1>6. size \in 0..15
  BY <1>3, <1>5, WordSize DEF Word
<1>7. b \notin sought' => size = Size[d] - pos
  <2> SUFFICES ASSUME b \notin sought' PROVE size = Size[d] - pos
    OBVIOUS
  <2>1. buffer_[b] = 0 /\ b \notin sought
    BY <1>2, <1>3
  <2>2. size_[b] = Size[d]
    BY <2>1, <1>3, <1>4
  <2>3. size_[b] - pos \in 0..15
    BY <2>2, <1>4, <1>5
  <2>4. \A i \in 0..15 : i % 16 = i
    OBVIOUS
  <2> HIDE DEF pos
  <2> QED BY <2>2, <2>3, <2>4, WordSize DEF Word
<1>8. ViewTo(b, d, pos, size)
  BY <1>2 DEF ViewTo
<1> HIDE DEF d, pos, size
<1>9. /\ data_' \in [Buffers -> Datas \cup {nil, "dead"}] /\ buffer_' \in [Buffers -> Nat] /\ size_' \in [Buffers -> 0..15]
      /\ ViewInv'
      /\ \A c \in Datas : Held(data_', c) = Held(data_, c) + Is(d, c) - Is(data_[b], c)
  BY <1>1, <1>3, <1>5, <1>6, <1>7, <1>8, ViewStep DEF IInv
<1>10. \A c \in Datas : Held(data_', c) = Held(data_, c)
  <2> TAKE c \in Datas
  <2>1. Held(data_, c) \in Nat /\ Is(d, c) \in Nat
    BY HeldIsNat DEF SharedConstants, Is
  <2> QED BY <2>1, <1>9 DEF d
<1> QED BY <1>1, <1>9, <1>10 DEF IInv, TypeInv, CountInv

LEMMA InvIsInductive == ASSUME SharedConstants, IInv, [Next]_vars PROVE IInv'
<1>1. CASE UNCHANGED vars
  BY <1>1 DEF vars, IInv, TypeInv, CountInv, ViewInv
<1>2. ASSUME NEW b \in Buffers, NEW other \in Buffers, CopyConstruct(b, other) PROVE IInv'
  BY <1>2, CopyConstructStep
<1>3. ASSUME NEW b \in Buffers, NEW other \in Buffers, MoveConstruct(b, other) PROVE IInv'
  BY <1>3, MoveConstructStep
<1>4. ASSUME NEW b \in Buffers, NEW other \in Buffers, CopyAssign(b, other) PROVE IInv'
  BY <1>4, CopyAssignStep
<1>5. ASSUME NEW b \in Buffers, NEW other \in Buffers, MoveAssign(b, other) PROVE IInv'
  BY <1>5, MoveAssignStep
<1>6. ASSUME NEW b \in Buffers, NEW other \in Buffers, swap(b, other) PROVE IInv'
  BY <1>6, SwapStep
<1>7. ASSUME NEW b \in Buffers, NEW d \in Datas, Construct(b, d) PROVE IInv'
  BY <1>7, ConstructStep
<1>8. ASSUME NEW b \in Buffers, NEW d \in Datas, ConstructBytes(b, d) PROVE IInv'
  BY <1>8, ConstructBytesStep
<1>9. ASSUME NEW b \in Buffers, Default(b) PROVE IInv'
  BY <1>9, DefaultStep
<1>10. ASSUME NEW b \in Buffers, Destroy(b) \/ release(b) PROVE IInv'
  BY <1>10, DestroyStep
<1>11. ASSUME NEW b \in Buffers, NEW n \in 0..3, seek(b, n) PROVE IInv'
  BY <1>11, SeekStep
<1>12. ASSUME NEW d \in Datas, ClientReleases(d) PROVE IInv'
  BY <1>12, ClientReleasesStep
<1> QED
  BY <1>1, <1>2, <1>3, <1>4, <1>5, <1>6, <1>7, <1>8, <1>9, <1>10, <1>11, <1>12 DEF Next
-----------------------------------------------------------------------------
\* The type invariant of the buffers: every buffer holds a CFData, nothing, or
\* is no object, its size is a word, and no retain count is negative.
THEOREM TypeCorrect == ASSUME SharedConstants PROVE Spec => []TypeOK
<1>1. Init => IInv
  BY InitInv
<1>2. IInv /\ [Next]_vars => IInv'
  BY InvIsInductive
<1>3. IInv => TypeOK
  BY WordSize DEF IInv, TypeInv, TypeOK
<1> QED BY <1>1, <1>2, <1>3, PTL DEF Spec

\* A CFData is retained at least as often as it is held by buffers and the client,
\* and exactly as often unless the assignment operator overwrote a buffer that held
\* it, and a buffer shows the rest of its data from its position on, unless it was
\* moved forward and then again: for any number of buffers and data.
THEOREM BuffersShare == ASSUME SharedConstants PROVE Spec => []Shares
<1>1. Init => IInv
  BY InitInv
<1>2. IInv /\ [Next]_vars => IInv'
  BY InvIsInductive
<1>3. IInv => Shares
  <2> SUFFICES ASSUME IInv PROVE Shares
    OBVIOUS
  <2>1. ASSUME NEW d \in Datas
        PROVE  refs[d] >= Holders(d) /\ (d \notin overwritten => refs[d] = Holders(d))
    <3>1. {b \in Live : data_[b] = d} = {b \in Buffers : data_[b] = d}
      BY DEF Live, SharedConstants
    <3>2. Cardinality(client \cap {d}) = Own(client, d)
      <4>1. CASE d \in client
        <5>1. client \cap {d} = {d}
          BY <4>1
        <5> QED BY <4>1, <5>1, FS_Singleton DEF Own
      <4>2. CASE d \notin client
        <5>1. client \cap {d} = {}
          BY <4>2
        <5> QED BY <4>2, <5>1, FS_EmptySet DEF Own
      <4> QED BY <4>1, <4>2
    <3>3. Holders(d) = Held(data_, d) + Own(client, d)
      BY <3>1, <3>2 DEF Holders, Held
    <3>4. Holders(d) \in Nat /\ refs[d] \in Nat
      BY <3>3, HeldIsNat, MaxRefsIsNat DEF SharedConstants, IInv, TypeInv, Own
    <3> QED BY <3>3, <3>4 DEF IInv, CountInv
  <2>2. ASSUME NEW b \in Live
        PROVE  /\ data_[b] = nil => size_[b] = 0
               /\ data_[b] # nil /\ b \notin sought => size_[b] = Size[data_[b]] - buffer_[b]
    BY ViewType DEF IInv
  <2> QED BY <2>1, <2>2 DEF Shares
<1> QED BY <1>1, <1>2, <1>3, PTL DEF Spec
-----------------------------------------------------------------------------
\* the cache of a function's results
CONSTANTS Keys, Values, capacity_, MaxDepth, MaxUses
VARIABLES cache_, running, used, clock, latest, got, doubled
L == INSTANCE LruCache

LruInv == L!TypeOK /\ L!Bounded /\ L!InOrder /\ L!Stamped /\ L!MostRecent /\ L!Current

\* Without its i-th record the cache is one shorter, and the others keep their order.
LEMMA ErasedIs ==
  ASSUME NEW S, NEW s \in Seq(S), NEW i \in 1..Len(s)
  PROVE  /\ L!Erased(s, i) \in Seq(S) /\ Len(L!Erased(s, i)) = Len(s) - 1
         /\ \A j \in 1..(Len(s) - 1) : L!Erased(s, i)[j] = IF j < i THEN s[j] ELSE s[j + 1]
BY DEF L!Erased

\* A call uses its key: the clock goes on, and only this key's time changes.
LEMMA UsesIs ==
  ASSUME L!TypeOK, L!Stamped, NEW k \in Keys, L!Uses(k)
  PROVE  /\ clock' = clock + 1 /\ used' \in [Keys -> Nat] /\ clock' \in Nat
         /\ \A j \in Keys : used'[j] = IF j = k THEN clock + 1 ELSE used[j]
         /\ \A j \in Keys : used'[j] <= clock'
         /\ \A j \in Keys : j # k => used'[j] < used'[k]
BY DEF L!TypeOK, L!Stamped, L!Uses

\* The key that a record has is a key, and no two records have the same.
LEMMA KeysDiffer ==
  ASSUME L!TypeOK, L!InOrder
  PROVE  /\ \A i \in 1..Len(cache_) : cache_[i] \in [key : Keys, info : Values] /\ cache_[i].key \in Keys
                                      /\ cache_[i].info \in Values
         /\ \A i, j \in 1..Len(cache_) : i # j => cache_[i].key # cache_[j].key
<1>1. \A i \in 1..Len(cache_) : cache_[i] \in [key : Keys, info : Values]
  <2> DEFINE R == [key : Keys, info : Values]
  <2>1. cache_ \in Seq(R)
    BY DEF L!TypeOK
  <2> HIDE DEF R
  <2>2. \A i \in 1..Len(cache_) : cache_[i] \in R
    BY <2>1, ElementOfSeq
  <2> QED BY <2>2 DEF R
<1>2. \A i, j \in 1..Len(cache_) : i < j => cache_[i].key # cache_[j].key
  BY <1>1 DEF L!TypeOK, L!InOrder
<1> QED BY <1>1, <1>2 DEF L!TypeOK

\* A call that finds its key gives what the cache has, and moves it to the end.
LEMMA LruHit ==
  ASSUME L!CacheConstants, LruInv, NEW k \in Keys, L!Hit(k)
  PROVE  LruInv'
<1> USE DEF LruInv
<1>1. PICK i \in 1..Len(cache_) :
        /\ cache_[i].key = k /\ cache_' = Append(L!Erased(cache_, i), cache_[i]) /\ got' = cache_[i]
        /\ L!Uses(k) /\ UNCHANGED <<running, latest, doubled>>
  BY DEF L!Hit, L!Places, L!TypeOK
<1> DEFINE n == Len(cache_)
           rest == L!Erased(cache_, i)
<1>2. /\ cache_ \in Seq([key : Keys, info : Values]) /\ n \in Nat
      /\ \A j \in 1..n : cache_[j] \in [key : Keys, info : Values] /\ cache_[j].key \in Keys
      /\ \A j, l \in 1..n : j # l => cache_[j].key # cache_[l].key
  BY KeysDiffer DEF L!TypeOK
<1>3. /\ rest \in Seq([key : Keys, info : Values]) /\ Len(rest) = n - 1
      /\ \A j \in 1..(n - 1) : rest[j] = IF j < i THEN cache_[j] ELSE cache_[j + 1]
  <2> DEFINE R == [key : Keys, info : Values]
  <2>1. cache_ \in Seq(R)
    BY <1>2
  <2> HIDE DEF R
  <2>2. /\ rest \in Seq(R) /\ Len(rest) = n - 1
        /\ \A j \in 1..(n - 1) : rest[j] = IF j < i THEN cache_[j] ELSE cache_[j + 1]
    BY <1>1, <2>1, ErasedIs
  <2> QED BY <2>2 DEF R
<1>4. /\ cache_' \in Seq([key : Keys, info : Values]) /\ Len(cache_') = n
      /\ cache_'[n] = cache_[i]
      /\ \A j \in 1..(n - 1) : cache_'[j] = IF j < i THEN cache_[j] ELSE cache_[j + 1]
  <2> DEFINE R == [key : Keys, info : Values]
  <2>1. rest \in Seq(R) /\ cache_[i] \in R /\ cache_' = Append(rest, cache_[i]) /\ Len(rest) = n - 1
    BY <1>1, <1>2, <1>3
  <2> HIDE DEF R, rest
  <2>2. /\ cache_' \in Seq(R) /\ Len(cache_') = n /\ cache_'[n] = cache_[i]
        /\ \A j \in 1..(n - 1) : cache_'[j] = rest[j]
    BY <2>1, <1>2, AppendProperties
  <2> QED BY <2>2, <1>3 DEF R
<1>5. /\ clock' = clock + 1 /\ used' \in [Keys -> Nat] /\ clock' \in Nat
      /\ \A j \in Keys : used'[j] = IF j = k THEN clock + 1 ELSE used[j]
      /\ \A j \in Keys : used'[j] <= clock'
      /\ \A j \in Keys : j # k => used'[j] < used'[k]
  BY <1>1, UsesIs
<1>6. L!TypeOK'
  BY <1>1, <1>2, <1>4, <1>5 DEF L!TypeOK
<1>7. L!Bounded'
  BY <1>4 DEF L!Bounded
<1>8. \A j \in 1..(n - 1) : cache_'[j].key # k /\ cache_'[j].key \in Keys
  <2> SUFFICES ASSUME NEW j \in 1..(n - 1) PROVE cache_'[j].key # k /\ cache_'[j].key \in Keys
    OBVIOUS
  <2> DEFINE x == IF j < i THEN j ELSE j + 1
  <2>1. x \in 1..n /\ x # i
    BY <1>2
  <2>2. cache_'[j] = cache_[x]
    BY <1>4
  <2>3. cache_[x].key # cache_[i].key /\ cache_[x].key \in Keys
    BY <1>2, <2>1
  <2> QED BY <1>1, <2>2, <2>3
<1>9. L!InOrder'
  <2> SUFFICES ASSUME NEW a \in 1..n, NEW b \in 1..n, a < b
               PROVE  used'[cache_'[a].key] < used'[cache_'[b].key]
    BY <1>4 DEF L!InOrder
  <2>1. CASE b = n
    <3>1. a \in 1..(n - 1)
      BY <2>1, <1>2
    <3>2. cache_'[a].key # k /\ cache_'[a].key \in Keys /\ cache_'[b].key = k
      BY <3>1, <2>1, <1>1, <1>4, <1>8
    <3> QED BY <3>2, <1>5
  <2>2. CASE b < n
    <3> DEFINE x == IF a < i THEN a ELSE a + 1
               y == IF b < i THEN b ELSE b + 1
    <3>1. x \in 1..n /\ y \in 1..n /\ x < y /\ cache_'[a] = cache_[x] /\ cache_'[b] = cache_[y]
      <4>1. n \in Nat
        BY <1>2
      <4>2. a \in 1..(n - 1) /\ b \in 1..(n - 1)
        <5> HIDE DEF n
        <5> QED BY <4>1, <2>2
      <4>3. x \in 1..n /\ y \in 1..n /\ x < y
        <5> HIDE DEF n
        <5> QED BY <4>1, <4>2
      <4> QED BY <1>4, <4>2, <4>3
    <3>2. used[cache_[x].key] < used[cache_[y].key]
      BY <3>1 DEF L!InOrder
    <3>3. used'[cache_'[a].key] = used[cache_[x].key] /\ used'[cache_'[b].key] = used[cache_[y].key]
      BY <1>5, <1>8, <2>2, <3>1
    <3> QED BY <3>2, <3>3
  <2> QED BY <2>1, <2>2, <1>2
<1>10. L!Stamped'
  <2>1. \A j \in 1..n : used'[cache_'[j].key] > 0
    <3> SUFFICES ASSUME NEW j \in 1..n PROVE used'[cache_'[j].key] > 0
      OBVIOUS
    <3>1. CASE j = n
      BY <1>1, <1>4, <1>5, <3>1 DEF L!TypeOK
    <3>2. CASE j < n
      <4> DEFINE x == IF j < i THEN j ELSE j + 1
      <4>1. x \in 1..n /\ cache_'[j] = cache_[x]
        BY <1>2, <1>4, <3>2
      <4>2. used[cache_[x].key] > 0
        BY <4>1 DEF L!Stamped
      <4> QED BY <4>1, <4>2, <1>5, <1>8, <3>2
    <3> QED BY <3>1, <3>2, <1>2
  <2> QED BY <2>1, <1>4, <1>5 DEF L!Stamped
<1>11. L!MostRecent'
  <2> SUFFICES ASSUME ~doubled, NEW l \in Keys, used'[l] > 0, \A j \in 1..n : cache_'[j].key # l
               PROVE  n = capacity_ /\ \A j \in 1..n : used'[l] < used'[cache_'[j].key]
    BY <1>1, <1>4 DEF L!MostRecent
  <2>1. \A x \in 1..n : \E j \in 1..n : cache_'[j] = cache_[x]
    <3> SUFFICES ASSUME NEW x \in 1..n PROVE \E j \in 1..n : cache_'[j] = cache_[x]
      OBVIOUS
    <3>1. CASE x = i
      BY <1>4, <3>1, <1>2
    <3>2. CASE x < i
      BY <1>4, <3>2, <1>2
    <3>3. CASE x > i
      <4>1. x - 1 \in 1..(n - 1) /\ ~(x - 1 < i) /\ (x - 1) + 1 = x
        BY <3>3, <1>2
      <4>2. cache_'[x - 1] = cache_[x] /\ x - 1 \in 1..n
        BY <4>1, <1>2, <1>4
      <4> QED BY <4>2
    <3> QED BY <3>1, <3>2, <3>3, <1>2
  <2>2. \A x \in 1..n : cache_[x].key # l
    BY <2>1
  <2>3. l # k /\ used'[l] = used[l]
    BY <1>1, <1>5, <2>2
  <2>4. n = capacity_ /\ \A x \in 1..n : used[l] < used[cache_[x].key]
    BY <2>2, <2>3 DEF L!MostRecent
  <2>5. ASSUME NEW j \in 1..n PROVE used'[l] < used'[cache_'[j].key]
    <3>1. CASE j = n
      BY <1>1, <1>4, <1>5, <2>3, <3>1
    <3>2. CASE j < n
      <4> DEFINE x == IF j < i THEN j ELSE j + 1
      <4>1. x \in 1..n /\ cache_'[j] = cache_[x]
        BY <1>2, <1>4, <3>2
      <4> QED BY <4>1, <2>4, <2>3, <1>5, <1>8, <3>2
    <3> QED BY <3>1, <3>2, <1>2
  <2> QED BY <2>4, <2>5
<1>12. L!Current'
  <2> SUFFICES ASSUME ~doubled
               PROVE (\A j \in 1..n : cache_'[j].info = latest[cache_'[j].key]) /\ got'.info = latest[got'.key]
    BY <1>1, <1>4 DEF L!Current
  <2>1. \A x \in 1..n : cache_[x].info = latest[cache_[x].key]
    BY DEF L!Current
  <2>2. \A j \in 1..n : \E x \in 1..n : cache_'[j] = cache_[x]
    <3> SUFFICES ASSUME NEW j \in 1..n PROVE \E x \in 1..n : cache_'[j] = cache_[x]
      OBVIOUS
    <3>1. CASE j = n
      BY <1>4, <3>1
    <3>2. CASE j < n
      <4>1. (IF j < i THEN j ELSE j + 1) \in 1..n
        BY <3>2, <1>2
      <4> QED BY <4>1, <1>4, <3>2, <1>2
    <3> QED BY <3>1, <3>2, <1>2
  <2> QED BY <1>1, <2>1, <2>2
<1> QED BY <1>6, <1>7, <1>9, <1>10, <1>11, <1>12

\* A call that does not find its key starts the function.
LEMMA LruMiss ==
  ASSUME LruInv, NEW k \in Keys, L!Miss(k)
  PROVE  LruInv'
<1>1. UNCHANGED <<cache_, used, clock, latest, got, doubled>> /\ running' \in Seq(Keys)
  BY DEF L!Miss, LruInv, L!TypeOK
<1> QED BY <1>1 DEF LruInv, L!TypeOK, L!Bounded, L!InOrder, L!Stamped, L!MostRecent, L!Current

\* A result comes: the cache with the first record gone when it was full, and with
\* the result behind the rest unless its key is there.
LEMMA LruReturn ==
  ASSUME L!CacheConstants, LruInv, NEW v \in Values, L!Return(v)
  PROVE  LruInv'
<1> USE DEF LruInv
<1> DEFINE R == [key : Keys, info : Values]
           k == L!Top
           P == L!Purged
           m == Len(P)
           d == Len(cache_) - m
           there == \E i \in 1..m : P[i].key = k
<1>1. /\ running # <<>> /\ running \in Seq(Keys) /\ k \in Keys /\ running' = SubSeq(running, 1, Len(running) - 1)
      /\ latest' = [latest EXCEPT ![k] = v] /\ got' = L!Record(k, v)
      /\ cache_' = IF there THEN P ELSE Append(P, L!Record(k, v))
      /\ IF there THEN doubled' = TRUE /\ UNCHANGED <<used, clock>> ELSE L!Uses(k) /\ UNCHANGED doubled
  <2>1. running # <<>> /\ running \in Seq(Keys) /\ k \in Keys
    BY DEF L!Return, L!TypeOK, L!Top
  <2>2. DOMAIN P = 1..m
    BY DEF L!Purged, L!TypeOK
  <2> HIDE DEF k, P
  <2>3. (\E i \in DOMAIN P : P[i].key = k) <=> there
    BY <2>2
  <2> QED BY <2>1, <2>3 DEF L!Return, k, P
<1>2. /\ cache_ \in Seq(R) /\ Len(cache_) \in Nat /\ Len(cache_) <= capacity_
      /\ \A i \in 1..Len(cache_) : cache_[i] \in R /\ cache_[i].key \in Keys
      /\ \A i, j \in 1..Len(cache_) : i # j => cache_[i].key # cache_[j].key
  BY KeysDiffer DEF L!TypeOK, L!Bounded
<1>3. /\ P \in Seq(R) /\ m \in Nat /\ m < capacity_
      /\ d = IF Len(cache_) = capacity_ THEN 1 ELSE 0
      /\ \A i \in 1..m : P[i] = cache_[i + d] /\ i + d \in 1..Len(cache_)
  <2>1. cache_ \in Seq(R) /\ Len(cache_) \in Nat /\ capacity_ \in Nat \ {0} /\ Len(cache_) <= capacity_
    BY <1>2 DEF L!CacheConstants
  <2> HIDE DEF R
  <2>2. CASE Len(cache_) = capacity_
    <3>1. cache_ # <<>>
      BY <2>1, <2>2
    <3>2. P = Tail(cache_)
      BY <2>2 DEF L!Purged
    <3>3. P \in Seq(R) /\ m = Len(cache_) - 1 /\ \A i \in 1..m : P[i] = cache_[i + 1]
      BY <2>1, <3>1, <3>2, HeadTailProperties
    <3> HIDE DEF P
    <3> QED BY <3>3, <2>1, <2>2
  <2>3. CASE Len(cache_) # capacity_
    <3>1. P = cache_
      BY <2>3 DEF L!Purged
    <3> HIDE DEF P
    <3> QED BY <3>1, <2>1, <2>3
  <2> QED BY <2>2, <2>3
<1>4. L!Record(k, v) \in R /\ L!Record(k, v).key = k /\ L!Record(k, v).info = v
  BY <1>1 DEF L!Record
<1>5. /\ running' \in Seq(Keys) /\ latest' \in [Keys -> Values] /\ latest'[k] = v
      /\ \A j \in Keys : j # k => latest'[j] = latest[j]
  <2>1. Len(running) - 1 \in 0..Len(running)
    BY <1>1
  <2>2. running' \in Seq(Keys)
    BY <1>1, <2>1, SubSeqProperties
  <2> QED BY <1>1, <2>2 DEF L!TypeOK
<1>6. \A i \in 1..m : /\ P[i] \in R /\ P[i].key \in Keys /\ used[P[i].key] > 0
                      /\ \A j \in 1..m : i < j => used[P[i].key] < used[P[j].key]
                      /\ ~doubled => P[i].info = latest[P[i].key]
  <2> HIDE DEF P, R, d
  <2>1. d \in {0, 1}
    BY <1>3
  <2>2. \A i \in 1..m : P[i] \in R /\ P[i].key \in Keys /\ used[P[i].key] > 0 /\ (~doubled => P[i].info = latest[P[i].key])
    <3> SUFFICES ASSUME NEW i \in 1..m
                 PROVE  P[i] \in R /\ P[i].key \in Keys /\ used[P[i].key] > 0 /\ (~doubled => P[i].info = latest[P[i].key])
      OBVIOUS
    <3>1. i + d \in 1..Len(cache_) /\ P[i] = cache_[i + d]
      BY <1>3
    <3> QED BY <3>1, <1>2 DEF L!Stamped, L!Current
  <2>3. ASSUME NEW i \in 1..m, NEW j \in 1..m, i < j PROVE used[P[i].key] < used[P[j].key]
    <3>1. i + d < j + d /\ i + d \in 1..Len(cache_) /\ j + d \in 1..Len(cache_)
      BY <1>3, <2>1, <2>3
    <3> QED BY <3>1, <1>3 DEF L!InOrder
  <2> QED BY <2>2, <2>3
<1> HIDE DEF P, k
<1>7. CASE there
  <2>1. cache_' = P /\ doubled' = TRUE /\ UNCHANGED <<used, clock>>
    BY <1>1, <1>7
  <2>2. L!TypeOK'
    BY <1>1, <1>3, <1>4, <1>5, <2>1 DEF L!TypeOK
  <2>3. L!Bounded' /\ L!MostRecent' /\ L!Current'
    BY <1>3, <2>1 DEF L!Bounded, L!MostRecent, L!Current, L!CacheConstants
  <2>4. L!InOrder' /\ L!Stamped'
    BY <1>3, <1>6, <2>1 DEF L!InOrder, L!Stamped
  <2> QED BY <2>2, <2>3, <2>4
<1>8. CASE ~there
  <2>1. cache_' = Append(P, L!Record(k, v)) /\ L!Uses(k) /\ UNCHANGED doubled
    BY <1>1, <1>8
  <2>2. /\ clock' = clock + 1 /\ used' \in [Keys -> Nat] /\ clock' \in Nat
        /\ \A j \in Keys : used'[j] = IF j = k THEN clock + 1 ELSE used[j]
        /\ \A j \in Keys : used'[j] <= clock'
        /\ \A j \in Keys : j # k => used'[j] < used'[k]
    BY <1>1, <2>1, UsesIs
  <2>3. /\ cache_' \in Seq(R) /\ Len(cache_') = m + 1 /\ cache_'[m + 1] = L!Record(k, v)
        /\ \A i \in 1..m : cache_'[i] = P[i]
    <3> HIDE DEF R
    <3> QED BY <2>1, <1>3, <1>4, AppendProperties
  <2>4. \A i \in 1..m : P[i].key # k /\ used'[P[i].key] = used[P[i].key]
    BY <1>6, <1>8, <2>2
  <2>5. L!TypeOK'
    BY <1>1, <1>4, <1>5, <2>1, <2>2, <2>3 DEF L!TypeOK
  <2>6. L!Bounded'
    BY <1>3, <2>3 DEF L!Bounded, L!CacheConstants
  <2>7. L!InOrder'
    <3> SUFFICES ASSUME NEW a \in 1..(m + 1), NEW b \in 1..(m + 1), a < b
                 PROVE  used'[cache_'[a].key] < used'[cache_'[b].key]
      BY <2>3 DEF L!InOrder
    <3>1. CASE b = m + 1
      <4>1. a \in 1..m
        <5>1. m \in Nat
          BY <1>3
        <5> HIDE DEF m
        <5> QED BY <5>1, <3>1
      <4>2. cache_'[a] = P[a] /\ P[a].key \in Keys /\ P[a].key # k
        BY <4>1, <1>6, <2>3, <2>4
      <4>3. cache_'[b].key = k
        BY <1>4, <2>3, <3>1
      <4> QED BY <4>2, <4>3, <2>2
    <3>2. CASE b # m + 1
      <4>1. a \in 1..m /\ b \in 1..m
        <5>1. m \in Nat
          BY <1>3
        <5> HIDE DEF m
        <5> QED BY <5>1, <3>2
      <4>2. cache_'[a] = P[a] /\ cache_'[b] = P[b] /\ used[P[a].key] < used[P[b].key]
        <5>1. used[P[a].key] < used[P[b].key]
          BY <4>1, <1>6
        <5> QED BY <5>1, <4>1, <2>3
      <4> QED BY <4>1, <4>2, <2>4
    <3> QED BY <3>1, <3>2
  <2>8. L!Stamped'
    <3>1. \A i \in 1..(m + 1) : used'[cache_'[i].key] > 0
      <4> SUFFICES ASSUME NEW i \in 1..(m + 1) PROVE used'[cache_'[i].key] > 0
        OBVIOUS
      <4>1. CASE i = m + 1
        BY <1>1, <1>4, <2>2, <2>3, <4>1 DEF L!TypeOK
      <4>2. CASE i # m + 1
        <5>1. i \in 1..m
          <6>1. m \in Nat
            BY <1>3
          <6> HIDE DEF m
          <6> QED BY <6>1, <4>2
        <5>2. cache_'[i] = P[i] /\ used'[P[i].key] = used[P[i].key] /\ used[P[i].key] > 0
          BY <5>1, <1>6, <2>3, <2>4
        <5> QED BY <5>2
      <4> QED BY <4>1, <4>2
    <3> QED BY <3>1, <2>2, <2>3 DEF L!Stamped
  <2>9. L!MostRecent'
    <3> SUFFICES ASSUME ~doubled, NEW l \in Keys, used'[l] > 0, \A i \in 1..(m + 1) : cache_'[i].key # l
                 PROVE  m + 1 = capacity_ /\ \A i \in 1..(m + 1) : used'[l] < used'[cache_'[i].key]
      BY <2>1, <2>3 DEF L!MostRecent
    <3>1. l # k /\ used'[l] = used[l]
      <4>1. m + 1 \in 1..(m + 1)
        BY <1>3
      <4>2. l # k
        BY <4>1, <1>4, <2>3
      <4> QED BY <4>2, <2>2
    <3>2. \A i \in 1..m : P[i].key # l
      BY <1>3, <2>3
    <3>3. \/ \A i \in 1..Len(cache_) : cache_[i].key # l
          \/ d = 1 /\ cache_[1].key = l /\ Len(cache_) = capacity_
      <4> SUFFICES ASSUME NEW i \in 1..Len(cache_), cache_[i].key = l
                   PROVE  d = 1 /\ cache_[1].key = l /\ Len(cache_) = capacity_
        OBVIOUS
      <4>1. ~(i - d \in 1..m)
        <5> SUFFICES ASSUME i - d \in 1..m PROVE FALSE
          OBVIOUS
        <5>1. P[i - d] = cache_[(i - d) + d] /\ (i - d) + d = i
          BY <1>3, <1>2
        <5> QED BY <5>1, <3>2
      <4>2. d = 1 /\ i = 1
        BY <4>1, <1>2, <1>3
      <4> QED BY <4>2, <1>3
    <3>4. CASE \A i \in 1..Len(cache_) : cache_[i].key # l
      <4>1. Len(cache_) = capacity_ /\ \A i \in 1..Len(cache_) : used[l] < used[cache_[i].key]
        BY <3>1, <3>4 DEF L!MostRecent
      <4>2. m + 1 = capacity_ /\ \A i \in 1..m : used[l] < used[P[i].key]
        BY <4>1, <1>2, <1>3
      <4> QED BY <4>2, <3>1, <1>1, <1>3, <1>4, <2>2, <2>3, <2>4
    <3>5. CASE d = 1 /\ cache_[1].key = l /\ Len(cache_) = capacity_
      <4>1. m + 1 = capacity_
        BY <3>5, <1>2, <1>3
      <4>2. \A i \in 1..m : used[l] < used[P[i].key]
        <5>1. \A i \in 1..m : P[i] = cache_[i + 1] /\ i + 1 \in 1..Len(cache_) /\ 1 < i + 1 /\ 1 \in 1..Len(cache_)
          BY <3>5, <1>2, <1>3
        <5> QED BY <5>1, <3>5 DEF L!InOrder
      <4> QED BY <4>1, <4>2, <3>1, <1>1, <1>3, <1>4, <2>2, <2>3, <2>4
    <3> QED BY <3>3, <3>4, <3>5
  <2>10. L!Current'
    <3> SUFFICES ASSUME ~doubled
                 PROVE  (\A i \in 1..(m + 1) : cache_'[i].info = latest'[cache_'[i].key]) /\ got'.info = latest'[got'.key]
      BY <2>1, <2>3 DEF L!Current
    <3>1. got'.info = latest'[got'.key]
      BY <1>1, <1>4, <1>5
    <3>2. ASSUME NEW i \in 1..(m + 1) PROVE cache_'[i].info = latest'[cache_'[i].key]
      <4>1. CASE i = m + 1
        BY <1>4, <1>5, <2>3, <4>1
      <4>2. CASE i # m + 1
        <5>1. i \in 1..m
          BY <4>2, <1>3
        <5>2. cache_'[i] = P[i] /\ P[i].key \in Keys /\ P[i].key # k /\ P[i].info = latest[P[i].key]
          BY <5>1, <1>6, <2>3, <2>4
        <5> QED BY <5>2, <1>5
      <4> QED BY <4>1, <4>2
    <3> QED BY <3>1, <3>2
  <2> QED BY <2>5, <2>6, <2>7, <2>8, <2>9, <2>10
<1> QED BY <1>7, <1>8

\* The cache of a function holds its keys once, in the order of their uses, the most
\* recently used ones, and the values that the function last gave for them.
THEOREM LruCacheCachesRecent ==
  ASSUME L!CacheConstants
  PROVE  L!Spec => []L!CachesRecent
<1>1. L!Init => LruInv
  <2> SUFFICES ASSUME L!Init PROVE LruInv
    OBVIOUS
  <2>1. cache_ = <<>> /\ Len(cache_) = 0 /\ (1..Len(cache_)) = {} /\ running \in Seq(Keys)
    BY DEF L!Init
  <2>2. L!TypeOK
    <3>1. cache_ \in Seq([key : Keys, info : Values])
      BY <2>1, EmptySeq
    <3>2. got \in [key : Keys, info : Values]
      BY DEF L!Init, L!Record
    <3> QED BY <2>1, <3>1, <3>2 DEF L!Init, L!TypeOK
  <2>3. got.info = latest[got.key]
    BY DEF L!Init, L!Record
  <2> QED BY <2>1, <2>2, <2>3
          DEF L!Init, LruInv, L!Bounded, L!InOrder, L!Stamped, L!MostRecent, L!Current, L!CacheConstants
<1>2. LruInv /\ [L!Next]_L!vars => LruInv'
  <2> SUFFICES ASSUME LruInv, [L!Next]_L!vars PROVE LruInv'
    OBVIOUS
  <2>1. ASSUME NEW k \in Keys, L!Hit(k) PROVE LruInv'
    BY <2>1, LruHit
  <2>2. ASSUME NEW k \in Keys, L!Miss(k) PROVE LruInv'
    BY <2>2, LruMiss
  <2>3. ASSUME NEW v \in Values, L!Return(v) PROVE LruInv'
    BY <2>3, LruReturn
  <2>4. CASE UNCHANGED L!vars
    BY <2>4 DEF L!vars, LruInv, L!TypeOK, L!Bounded, L!InOrder, L!Stamped, L!MostRecent, L!Current
  <2> QED BY <2>1, <2>2, <2>3, <2>4 DEF L!Next
<1>3. LruInv => L!CachesRecent
  BY DEF LruInv, L!CachesRecent
<1> QED BY <1>1, <1>2, <1>3, PTL DEF L!Spec
-----------------------------------------------------------------------------
\* the log
CONSTANTS Threads, MaxSeverity, Levels, MaxMessages
VARIABLES max_severity_, s_thread_id, step, logged, racers, out
Log == INSTANCE Logger

LogInv == /\ Log!TypeOK /\ Log!InTurn /\ Log!WholeLines /\ Log!StartsLines /\ Log!Racing /\ Log!NamesRacer

\* Of a thread that writes nothing only its place changes, among those at which its
\* last line is finished.
LEMMA LogSilent ==
  ASSUME LogInv, NEW t \in Threads, NEW to \in {"idle", "test", "set", "header"},
         step[t] \in {"idle", "test", "set", "header"}, step' = [step EXCEPT ![t] = to], UNCHANGED out
  PROVE  Log!InTurn' /\ Log!WholeLines' /\ Log!StartsLines'
<1>1. \A u \in Threads : step'[u] = IF u = t THEN to ELSE step[u]
  BY DEF LogInv, Log!TypeOK
<1>2. Log!WholeLines' /\ Log!StartsLines'
  BY DEF LogInv, Log!WholeLines, Log!StartsLines, Log!LastBefore
<1>3. Log!InTurn'
  <2> SUFFICES ASSUME NEW u \in Threads
               PROVE  /\ step'[u] \in {"message", "newline"} =>
                           \E i \in 1..Len(out) : out[i].by = u /\ Log!LastBefore(i, Len(out) + 1) /\ step'[u] \in Log!Follows[out[i].what]
                      /\ step'[u] \in {"idle", "test", "set", "header"} =>
                           \A i \in 1..Len(out) : out[i].by = u /\ Log!LastBefore(i, Len(out) + 1) => out[i].what = "newline"
    BY DEF Log!InTurn, Log!LastBefore
  <2>1. CASE u = t
    BY <1>1, <2>1 DEF LogInv, Log!InTurn
  <2>2. CASE u # t
    BY <1>1, <2>2 DEF LogInv, Log!InTurn
  <2> QED BY <2>1, <2>2
<1> QED BY <1>2, <1>3

\* A thread writes the piece that its place in vflog names, and goes on to the next.
LEMMA LogWrites ==
  ASSUME LogInv, NEW t \in Threads, NEW p \in Log!Pieces, NEW to,
         p.by = t, p.what = step[t], step' = [step EXCEPT ![t] = to], out' = Append(out, p),
         (p.what = "header" /\ to = "message") \/ (p.what = "message" /\ to = "newline") \/ (p.what = "newline" /\ to = "idle")
  PROVE  Log!InTurn' /\ Log!WholeLines' /\ Log!StartsLines' /\ out' \in Seq(Log!Pieces)
<1> DEFINE n == Len(out)
<1>1. /\ out \in Seq(Log!Pieces) /\ n \in Nat /\ out' \in Seq(Log!Pieces) /\ Len(out') = n + 1 /\ out'[n + 1] = p
      /\ \A i \in 1..n : out'[i] = out[i]
  <2>1. out \in Seq(Log!Pieces)
    BY DEF LogInv, Log!TypeOK
  <2> QED BY <2>1, AppendProperties
<1>2. \A u \in Threads : step'[u] = IF u = t THEN to ELSE step[u]
  BY DEF LogInv, Log!TypeOK
<1>3. \A i \in 1..n, j \in 1..(n + 1) : Log!LastBefore(i, j)' <=> Log!LastBefore(i, j)
  BY <1>1 DEF Log!LastBefore
\* the piece before it of the same thread
<1>4. /\ \A i \in 1..n : out[i].by = t /\ Log!LastBefore(i, n + 1) => p.what \in Log!Follows[out[i].what]
      /\ (\A i \in 1..n : out[i].by # t) => p.what = "header"
  <2>1. CASE p.what = "header"
    <3>1. \A i \in 1..n : out[i].by = t /\ Log!LastBefore(i, n + 1) => out[i].what = "newline"
      BY <2>1 DEF LogInv, Log!InTurn
    <3> QED BY <2>1, <3>1 DEF Log!Follows
  <2>2. CASE p.what \in {"message", "newline"}
    <3>1. PICK l \in 1..n : out[l].by = t /\ Log!LastBefore(l, n + 1) /\ p.what \in Log!Follows[out[l].what]
      BY <2>2 DEF LogInv, Log!InTurn
    <3>2. ASSUME NEW i \in 1..n, out[i].by = t, Log!LastBefore(i, n + 1) PROVE i = l
      BY <1>1, <3>1, <3>2 DEF Log!LastBefore
    <3> QED BY <3>1, <3>2
  <2> QED BY <2>1, <2>2
<1>5. Log!WholeLines'
  <2> SUFFICES ASSUME NEW i \in 1..(n + 1), NEW j \in 1..(n + 1), out'[i].by = out'[j].by, Log!LastBefore(i, j)'
               PROVE  out'[j].what \in Log!Follows[out'[i].what]
    BY <1>1 DEF Log!WholeLines, Log!Follows
  <2>1. i < j /\ i \in 1..n
    BY <1>1 DEF Log!LastBefore
  <2>2. CASE j = n + 1
    BY <1>1, <1>3, <1>4, <2>1, <2>2
  <2>3. CASE j # n + 1
    <3>1. j \in 1..n
      BY <1>1, <2>3
    <3>2. out[i].by = out[j].by /\ Log!LastBefore(i, j) /\ out'[i] = out[i] /\ out'[j] = out[j]
      BY <1>1, <1>3, <2>1, <3>1
    <3> QED BY <2>1, <3>1, <3>2 DEF LogInv, Log!WholeLines
  <2> QED BY <2>2, <2>3
<1>6. Log!StartsLines'
  <2> SUFFICES ASSUME NEW j \in 1..(n + 1), \A i \in 1..(n + 1) : i < j => out'[i].by # out'[j].by
               PROVE  out'[j].what = "header"
    BY <1>1 DEF Log!StartsLines
  <2>1. CASE j = n + 1
    <3>1. \A i \in 1..n : i \in 1..(n + 1) /\ i < n + 1
      BY <1>1
    <3> QED BY <1>1, <1>4, <2>1, <3>1
  <2>2. CASE j # n + 1
    <3>1. j \in 1..n /\ \A i \in 1..n : i \in 1..(n + 1)
      BY <1>1, <2>2
    <3>2. out'[j] = out[j] /\ \A i \in 1..n : i < j => out[i].by # out[j].by
      BY <1>1, <3>1
    <3> QED BY <3>1, <3>2 DEF LogInv, Log!StartsLines
  <2> QED BY <2>1, <2>2
<1>7. Log!InTurn'
  <2> SUFFICES ASSUME NEW u \in Threads
               PROVE  /\ step'[u] \in {"message", "newline"} =>
                           \E i \in 1..(n + 1) : out'[i].by = u /\ Log!LastBefore(i, Len(out) + 1)' /\ step'[u] \in Log!Follows[out'[i].what]
                      /\ step'[u] \in {"idle", "test", "set", "header"} =>
                           \A i \in 1..(n + 1) : out'[i].by = u /\ Log!LastBefore(i, Len(out) + 1)' => out'[i].what = "newline"
    BY <1>1 DEF Log!InTurn, Log!Follows
  <2>1. CASE u = t
    <3>1. Log!LastBefore(Len(out), Len(out) + 1)' /\ n + 1 \in 1..(n + 1)
      <4>1. \A l \in 1..(n + 1) : ~(n + 1 < l /\ l < n + 2)
        BY <1>1
      <4>2. n + 1 \in 1..(n + 1) /\ n + 1 < n + 2
        BY <1>1
      <4> QED BY <1>1, <4>1, <4>2 DEF Log!LastBefore
    <3>2. \A i \in 1..(n + 1) : out'[i].by = t /\ Log!LastBefore(i, Len(out) + 1)' => i = n + 1
      <4> SUFFICES ASSUME NEW i \in 1..(n + 1), out'[i].by = t, i # n + 1 PROVE ~Log!LastBefore(i, Len(out) + 1)'
        OBVIOUS
      <4>1. n + 1 \in 1..(n + 1) /\ i < n + 1 /\ n + 1 < n + 2
        BY <1>1
      <4>2. out'[n + 1].by = out'[i].by
        BY <1>1
      <4> QED BY <1>1, <4>1, <4>2 DEF Log!LastBefore
    <3> QED BY <1>1, <1>2, <2>1, <3>1, <3>2 DEF Log!Follows
  <2>2. CASE u # t
    <3>1. \A i \in 1..n : Log!LastBefore(i, Len(out) + 1)' /\ out[i].by = u <=> Log!LastBefore(i, n + 1) /\ out[i].by = u
      <4> SUFFICES ASSUME NEW i \in 1..n, out[i].by = u
                   PROVE  Log!LastBefore(i, Len(out) + 1)' <=> Log!LastBefore(i, n + 1)
        OBVIOUS
      <4>1. Log!LastBefore(i, Len(out) + 1)' <=> \A l \in 1..(n + 1) : i < l => out'[l].by # u
        BY <1>1 DEF Log!LastBefore
      <4>2. Log!LastBefore(i, n + 1) <=> \A l \in 1..n : i < l => out[l].by # u
        BY <1>1 DEF Log!LastBefore
      <4>3. (\A l \in 1..(n + 1) : i < l => out'[l].by # u) <=> \A l \in 1..n : i < l => out[l].by # u
        BY <1>1, <2>2
      <4> QED BY <4>1, <4>2, <4>3
    <3>2. step'[u] = step[u] /\ out'[n + 1].by # u
      BY <1>1, <1>2, <2>2
    <3>3. \A i \in 1..(n + 1) : out'[i].by = u => i \in 1..n /\ out'[i] = out[i]
      BY <1>1, <3>2
    <3>4. \A i \in 1..n : i \in 1..(n + 1) /\ out'[i] = out[i]
      BY <1>1
    <3>5. /\ step[u] \in {"message", "newline"} =>
               \E i \in 1..n : out[i].by = u /\ Log!LastBefore(i, n + 1) /\ step[u] \in Log!Follows[out[i].what]
          /\ step[u] \in {"idle", "test", "set", "header"} =>
               \A i \in 1..n : out[i].by = u /\ Log!LastBefore(i, n + 1) => out[i].what = "newline"
      BY DEF LogInv, Log!InTurn
    <3> QED BY <3>1, <3>2, <3>3, <3>4, <3>5
  <2> QED BY <2>1, <2>2
<1> QED BY <1>1, <1>5, <1>6, <1>7

\* A line is whole, and its header names one of the threads that raced.
THEOREM LoggerWritesLines ==
  ASSUME Log!LoggerConstants
  PROVE  Log!Spec => []Log!WritesLines
<1>1. Log!Init => LogInv
  <2> SUFFICES ASSUME Log!Init PROVE LogInv
    OBVIOUS
  <2>1. out = <<>> /\ Len(out) = 0 /\ (1..Len(out)) = {} /\ out \in Seq(Log!Pieces)
    BY EmptySeq DEF Log!Init
  <2> QED BY <2>1 DEF Log!Init, LogInv, Log!TypeOK, Log!InTurn, Log!WholeLines, Log!StartsLines, Log!Racing,
                      Log!NamesRacer, Log!LoggerConstants, Log!Steps
<1>2. LogInv /\ [Log!Next]_Log!vars => LogInv'
  <2> SUFFICES ASSUME LogInv, [Log!Next]_Log!vars PROVE LogInv'
    OBVIOUS
  <2> USE DEF LogInv
  <2>1. ASSUME NEW level \in Levels, Log!SetLevel(level) PROVE LogInv'
    BY <2>1 DEF Log!SetLevel, Log!TypeOK, Log!InTurn, Log!WholeLines, Log!StartsLines, Log!Racing, Log!NamesRacer, Log!LastBefore
  <2>2. ASSUME NEW t \in Threads, NEW level \in Levels, Log!Log(t, level) PROVE LogInv'
    <3>1. PICK to \in {"idle", "test"} : step' = [step EXCEPT ![t] = to]
      BY <2>2 DEF Log!Log, Log!Goes, Log!TypeOK
    <3>2. step[t] = "idle" /\ UNCHANGED <<max_severity_, s_thread_id, racers, out>> /\ logged' = logged + 1
      BY <2>2 DEF Log!Log
    <3>3. Log!InTurn' /\ Log!WholeLines' /\ Log!StartsLines'
      BY <3>1, <3>2, LogSilent
    <3> QED BY <3>1, <3>2, <3>3 DEF Log!TypeOK, Log!Racing, Log!NamesRacer, Log!Steps
  <2>3. ASSUME NEW t \in Threads, Log!TestId(t) PROVE LogInv'
    <3>1. PICK to \in {"set", "header"} : step' = [step EXCEPT ![t] = to] /\ (to = "set" <=> s_thread_id = 0)
      BY <2>3 DEF Log!TestId, Log!Goes
    <3>2. /\ step[t] = "test" /\ UNCHANGED <<max_severity_, s_thread_id, logged, out>>
          /\ racers' = (IF s_thread_id = 0 THEN racers \cup {t} ELSE racers)
      BY <2>3 DEF Log!TestId
    <3>3. Log!InTurn' /\ Log!WholeLines' /\ Log!StartsLines'
      BY <3>1, <3>2, LogSilent
    <3> QED BY <3>1, <3>2, <3>3 DEF Log!TypeOK, Log!Racing, Log!NamesRacer, Log!Steps
  <2>4. ASSUME NEW t \in Threads, Log!SetId(t) PROVE LogInv'
    <3>1. step[t] = "set" /\ step' = [step EXCEPT ![t] = "header"] /\ s_thread_id' = t /\ UNCHANGED <<max_severity_, logged, racers, out>>
      BY <2>4 DEF Log!SetId, Log!Goes
    <3>2. Log!InTurn' /\ Log!WholeLines' /\ Log!StartsLines'
      BY <3>1, LogSilent
    <3> QED BY <3>1, <3>2 DEF Log!TypeOK, Log!Racing, Log!NamesRacer, Log!Steps, Log!LoggerConstants
  <2>5. ASSUME NEW t \in Threads, NEW id \in Threads \cup {0}, NEW to \in {"message", "newline", "idle"},
               step[t] \in {"header", "message", "newline"},
               out' = Append(out, Log!Piece(t, step[t], id)), step' = [step EXCEPT ![t] = to],
               (step[t] = "header" /\ to = "message") \/ (step[t] = "message" /\ to = "newline") \/ (step[t] = "newline" /\ to = "idle"),
               step[t] = "header" => id = s_thread_id,
               UNCHANGED <<max_severity_, s_thread_id, logged, racers>>
        PROVE  LogInv'
    <3> DEFINE p == Log!Piece(t, step[t], id)
    <3>1. p \in Log!Pieces /\ p.by = t /\ p.what = step[t] /\ p.id = id
      BY <2>5 DEF Log!Piece, Log!Pieces
    <3> HIDE DEF p
    <3>2. Log!InTurn' /\ Log!WholeLines' /\ Log!StartsLines' /\ out' \in Seq(Log!Pieces)
      BY <2>5, <3>1, LogWrites DEF p
    <3>3. out \in Seq(Log!Pieces) /\ out' = Append(out, p)
      BY <2>5 DEF Log!TypeOK, p
    <3>4. Len(out') = Len(out) + 1 /\ out'[Len(out) + 1] = p /\ \A i \in 1..Len(out) : out'[i] = out[i]
      BY <3>1, <3>3, AppendProperties
    <3>5. Log!NamesRacer'
      <4> SUFFICES ASSUME NEW i \in 1..(Len(out) + 1), out'[i].what = "header" PROVE out'[i].id \in racers
        BY <2>5, <3>4 DEF Log!NamesRacer
      <4>1. CASE i = Len(out) + 1
        BY <2>5, <3>1, <3>4, <4>1 DEF Log!Racing
      <4>2. CASE i # Len(out) + 1
        BY <3>3, <3>4, <4>2 DEF Log!NamesRacer
      <4> QED BY <4>1, <4>2
    <3> QED BY <2>5, <3>2, <3>5 DEF Log!TypeOK, Log!Racing, Log!Steps
  <2>6. ASSUME NEW t \in Threads, Log!Header(t) PROVE LogInv'
    BY <2>5, <2>6 DEF Log!Header, Log!Writes, Log!Goes, Log!TypeOK
  <2>7. ASSUME NEW t \in Threads, Log!Message(t) PROVE LogInv'
    BY <2>5, <2>7 DEF Log!Message, Log!Writes, Log!Goes
  <2>8. ASSUME NEW t \in Threads, Log!Newline(t) PROVE LogInv'
    BY <2>5, <2>8 DEF Log!Newline, Log!Writes, Log!Goes
  <2>9. CASE UNCHANGED Log!vars
    BY <2>9 DEF Log!vars, Log!TypeOK, Log!InTurn, Log!WholeLines, Log!StartsLines, Log!Racing, Log!NamesRacer, Log!LastBefore
  <2> QED BY <2>1, <2>2, <2>3, <2>4, <2>6, <2>7, <2>8, <2>9 DEF Log!Next
<1>3. LogInv => Log!WritesLines
  BY DEF LogInv, Log!WritesLines
<1> QED BY <1>1, <1>2, <1>3, PTL DEF Log!Spec
-----------------------------------------------------------------------------
\* the string cache and its arena
CONSTANTS Length, CharSize, MaxAlign, BlockHeader, MinBlockSize, Granule, MaxBlocks, MaxStack
VARIABLES blocks, ptr_, totalAllocatedSize_, bytesUsed_, map_, retained, stack
Str == INSTANCE StringCache WITH refs <- retained

Cells == (Keys \cup {"free"}) \X Nat
Bytes(k) == Length[k] * CharSize
Aligned(n) == n % MaxAlign = 0

\* the place p in the blocks bl has the characters of k
Lies(bl, k, p) ==
  /\ p.block \in 1..Len(bl) /\ p.at + Bytes(k) <= Len(bl[p.block])
  /\ \A c \in 0..(Bytes(k) - 1) : bl[p.block][p.at + c + 1] = <<k, c \div CharSize>>
\* and the next allocation does not reach it
Behind(next, k, p) == p.block = next.block => p.at + Bytes(k) <= next.at

\* f has the sizes of the first blocks together
Adds(f, bl) == f = [n \in 0..Len(bl) |-> IF n = 0 THEN 0 ELSE f[n - 1] + Len(bl[n]) + BlockHeader]

StringTypes ==
  /\ blocks \in Seq(Seq(Cells))
  /\ ptr_ \in [block : 0..Len(blocks), at : Nat] /\ Aligned(ptr_.at)
  /\ IF ptr_.block = 0 THEN ptr_.at = 0 ELSE ptr_.at <= Len(blocks[ptr_.block])
  /\ totalAllocatedSize_ \in Nat /\ bytesUsed_ \in Nat
  /\ DOMAIN map_ \subseteq Keys /\ map_ \in [DOMAIN map_ -> [block : Nat, at : Nat]]
  /\ retained \in [Keys -> Nat] /\ stack \in Seq(Keys) /\ Len(stack) <= MaxStack

PlacesInv ==
  \A k \in DOMAIN map_ :
    /\ Aligned(map_[k].at)
    /\ Length[k] # 0 => Lies(blocks, k, map_[k]) /\ Behind(ptr_, k, map_[k])

RetainInv == \A k \in Keys : retained[k] = Str!Times(k) + (IF k \in DOMAIN map_ THEN 1 ELSE 0)

SizesInv ==
  /\ \E f : Adds(f, blocks) /\ f[Len(blocks)] = totalAllocatedSize_
  /\ bytesUsed_ + Str!Room <= totalAllocatedSize_

ArenaInv == StringTypes /\ PlacesInv /\ RetainInv /\ SizesInv

\* Quotients of natural numbers are natural.
LEMMA DivIsNat ==
  ASSUME NEW n \in Nat, NEW d \in Nat \ {0}
  PROVE  n \div d \in Nat
OBVIOUS

\* A size that is rounded up is not less, and a multiple of the unit.
LEMMA UpIs ==
  ASSUME NEW n \in Nat, NEW unit \in Nat \ {0}
  PROVE  Str!Up(n, unit) \in Nat /\ Str!Up(n, unit) >= n /\ Str!Up(n, unit) % unit = 0
<1> DEFINE q == (n + unit - 1) \div unit
           r == (n + unit - 1) % unit
<1>1. q \in Nat /\ r \in Nat /\ r < unit /\ n + unit - 1 = q * unit + r
  OBVIOUS
<1> HIDE DEF q, r
<1>2. q * unit \in Nat
  BY <1>1
<1>3. (q * unit) % unit = 0
  BY <1>1
<1>4. q * unit >= n
  BY <1>1, <1>2
<1>5. Str!Up(n, unit) = q * unit
  BY DEF Str!Up, q
<1> QED BY <1>2, <1>3, <1>4, <1>5

\* Multiples of a unit add up to one.
LEMMA Multiples ==
  ASSUME NEW m \in Nat, NEW n \in Nat, NEW unit \in Nat \ {0}, m % unit = 0, n % unit = 0
  PROVE  (m + n) % unit = 0
<1> DEFINE p == m \div unit
           q == n \div unit
<1>1. p \in Nat /\ q \in Nat /\ m = p * unit /\ n = q * unit
  OBVIOUS
<1> HIDE DEF p, q
<1>2. m + n = (p + q) * unit
  BY <1>1
<1>3. p + q \in Nat
  BY <1>1
<1>4. ((p + q) * unit) % unit = 0
  BY <1>3
<1> QED BY <1>2, <1>4

\* What insert asks the arena for: whole aligned units, enough for the characters.
LEMMA SizeIs ==
  ASSUME Str!CacheConstants, NEW k \in Keys
  PROVE  LET size == Str!roundUp(Length[k] * CharSize * CharSize)
         IN  size \in Nat /\ Aligned(size) /\ size >= Bytes(k) /\ Bytes(k) \in Nat
<1> DEFINE b == Length[k] * CharSize
<1>1. Length[k] \in Nat /\ CharSize \in Nat \ {0} /\ MaxAlign \in Nat \ {0}
  BY DEF Str!CacheConstants
<1>2. b \in Nat
  BY <1>1
<1>3. Length[k] * CharSize * CharSize = b * CharSize
  OBVIOUS
<1> HIDE DEF b
<1>4. b * CharSize \in Nat /\ b * CharSize >= b
  <2>1. PICK m \in Nat : CharSize = m + 1
    <3>1. CharSize - 1 \in Nat /\ CharSize = (CharSize - 1) + 1
      BY <1>1
    <3> QED BY <3>1
  <2>2. b * (m + 1) = b * m + b
    BY <1>2, <2>1
  <2>3. b * m \in Nat
    BY <1>2, <2>1
  <2> QED BY <2>1, <2>2, <2>3, <1>2
<1>5. /\ Str!Up(b * CharSize, MaxAlign) \in Nat /\ Str!Up(b * CharSize, MaxAlign) >= b * CharSize
      /\ Str!Up(b * CharSize, MaxAlign) % MaxAlign = 0
  BY <1>1, <1>4, UpIs
<1>6. Str!roundUp(Length[k] * CharSize * CharSize) = Str!Up(b * CharSize, MaxAlign)
  BY <1>3 DEF Str!roundUp
<1> QED BY <1>2, <1>4, <1>5, <1>6 DEF b, Bytes, Aligned

\* A new block has the bytes it is for.
LEMMA BlockIs ==
  ASSUME Str!CacheConstants, NEW size \in Nat, NEW slack \in BOOLEAN
  PROVE  Str!Block(size, slack) \in Seq(Cells) /\ Len(Str!Block(size, slack)) >= size
<1> DEFINE n == IF slack THEN Str!goodMallocSize(BlockHeader + size) - BlockHeader ELSE size
<1>1. n \in Nat /\ n >= size
  <2>1. BlockHeader + size \in Nat /\ BlockHeader \in Nat /\ Granule \in Nat \ {0}
    BY DEF Str!CacheConstants
  <2>2. Str!goodMallocSize(BlockHeader + size) \in Nat /\ Str!goodMallocSize(BlockHeader + size) >= BlockHeader + size
    BY <2>1, UpIs DEF Str!goodMallocSize
  <2> HIDE DEF n
  <2>3. n = IF slack THEN Str!goodMallocSize(BlockHeader + size) - BlockHeader ELSE size
    BY DEF n
  <2> QED BY <2>1, <2>2, <2>3
<1>2. Str!Block(size, slack) = [i \in 1..n |-> Str!Free]
  BY DEF Str!Block
<1>3. Str!Free \in Cells
  BY DEF Str!Free, Cells
<1> HIDE DEF n
<1> QED BY <1>1, <1>2, <1>3

\* A set of natural numbers has a least member, unless it is empty.
LEMMA LeastNumber ==
  ASSUME NEW S \in SUBSET Nat, NEW n \in S
  PROVE  \E m \in S : \A k \in S : m <= k
<1> DEFINE T == {0..m : m \in S}
<1>1. T \subseteq FiniteSubsetsOf(Nat) /\ T # {}
  <2>1. ASSUME NEW m \in S PROVE 0..m \in FiniteSubsetsOf(Nat)
    <3>1. IsFiniteSet(0..m)
      BY FS_Interval
    <3>2. 0..m \in SUBSET Nat
      OBVIOUS
    <3> QED BY <3>1, <3>2 DEF FiniteSubsetsOf
  <2> QED BY <2>1
<1>2. PICK x \in T : \A y \in T : ~(<<y, x>> \in StrictSubsetOrdering(Nat))
  <2> HIDE DEF T
  <2> QED BY <1>1, WFMin, FS_StrictSubsetOrderingWellFounded
<1>3. PICK m \in S : x = 0..m
  OBVIOUS
<1>4. ASSUME NEW k \in S, k < m PROVE FALSE
  <2>1. 0..k \subseteq 0..m /\ 0..k # 0..m /\ 0..k \in T /\ 0..k \in SUBSET Nat /\ 0..m \in SUBSET Nat
    <3>1. m \in 0..m /\ m \notin 0..k
      BY <1>4
    <3> QED BY <1>4, <3>1
  <2> QED BY <2>1, <1>2, <1>3 DEF StrictSubsetOrdering
<1> QED BY <1>4

\* A function has the sizes together when each is the one before and a block more.
LEMMA AddsIs ==
  ASSUME NEW f, NEW bl, Len(bl) \in Nat
  PROVE  Adds(f, bl) <=> /\ f = [i \in 0..Len(bl) |-> f[i]] /\ f[0] = 0
                         /\ \A i \in 1..Len(bl) : f[i] = f[i - 1] + Len(bl[i]) + BlockHeader
<1> DEFINE e(i) == IF i = 0 THEN 0 ELSE f[i - 1] + Len(bl[i]) + BlockHeader
<1>1. Adds(f, bl) <=> f = [i \in 0..Len(bl) |-> e(i)]
  BY DEF Adds
<1>2. /\ e(0) = 0
      /\ \A i \in 1..Len(bl) : e(i) = f[i - 1] + Len(bl[i]) + BlockHeader
  OBVIOUS
<1> HIDE DEF e
<1>3. f = [i \in 0..Len(bl) |-> e(i)] <=> f = [i \in 0..Len(bl) |-> f[i]] /\ \A i \in 0..Len(bl) : f[i] = e(i)
  <2>1. ASSUME f = [i \in 0..Len(bl) |-> e(i)]
        PROVE  f = [i \in 0..Len(bl) |-> f[i]] /\ \A i \in 0..Len(bl) : f[i] = e(i)
    <3>1. \A i \in 0..Len(bl) : f[i] = e(i)
      BY <2>1
    <3>2. [i \in 0..Len(bl) |-> f[i]] = [i \in 0..Len(bl) |-> e(i)]
      BY <3>1
    <3> QED BY <2>1, <3>1, <3>2
  <2>2. ASSUME f = [i \in 0..Len(bl) |-> f[i]], \A i \in 0..Len(bl) : f[i] = e(i)
        PROVE  f = [i \in 0..Len(bl) |-> e(i)]
    <3>1. [i \in 0..Len(bl) |-> f[i]] = [i \in 0..Len(bl) |-> e(i)]
      BY <2>2
    <3> QED BY <2>2, <3>1
  <2> QED BY <2>1, <2>2
<1>4. (\A i \in 0..Len(bl) : f[i] = e(i)) <=> f[0] = e(0) /\ \A i \in 1..Len(bl) : f[i] = e(i)
  <2>1. 0..Len(bl) = {0} \cup 1..Len(bl)
    OBVIOUS
  <2> QED BY <2>1
<1> QED BY <1>1, <1>2, <1>3, <1>4

\* The sizes together are those that the recursion gives, which gives only one.
LEMMA TotalIs ==
  ASSUME StringTypes, BlockHeader \in Nat, NEW f, Adds(f, blocks)
  PROVE  Str!Total = f
<1> DEFINE n == Len(blocks)
           g == Str!Total
<1>1. n \in Nat /\ \A i \in 1..n : Len(blocks[i]) \in Nat
  <2>1. blocks \in Seq(Seq(Cells))
    BY DEF StringTypes
  <2>2. \A i \in 1..n : blocks[i] \in Seq(Cells)
    BY <2>1, ElementOfSeq
  <2> QED BY <2>1, <2>2
<1>2. Adds(g, blocks)
  <2>1. g = CHOOSE h : h = [i \in 0..Len(blocks) |-> IF i = 0 THEN 0 ELSE h[i - 1] + Len(blocks[i]) + BlockHeader]
    BY DEF Str!Total
  <2>2. g = CHOOSE h : Adds(h, blocks)
    BY <2>1 DEF Adds
  <2> HIDE DEF g
  <2> QED BY <2>2
<1> HIDE DEF g
<1>3. /\ DOMAIN f = 0..n /\ DOMAIN g = 0..n
      /\ f[0] = 0 /\ g[0] = 0
      /\ \A i \in 1..n : f[i] = f[i - 1] + Len(blocks[i]) + BlockHeader /\ g[i] = g[i - 1] + Len(blocks[i]) + BlockHeader
      /\ f = [i \in 0..n |-> f[i]] /\ g = [i \in 0..n |-> g[i]]
  <2>1. f = [i \in 0..n |-> f[i]] /\ f[0] = 0 /\ \A i \in 1..n : f[i] = f[i - 1] + Len(blocks[i]) + BlockHeader
    BY <1>1, AddsIs
  <2>2. g = [i \in 0..n |-> g[i]] /\ g[0] = 0 /\ \A i \in 1..n : g[i] = g[i - 1] + Len(blocks[i]) + BlockHeader
    BY <1>1, <1>2, AddsIs
  <2>3. DOMAIN f = 0..n
    <3> DEFINE h == [i \in 0..n |-> f[i]]
    <3>1. DOMAIN h = 0..n /\ f = h
      BY <2>1
    <3> QED BY <3>1
  <2>4. DOMAIN g = 0..n
    <3> DEFINE h == [i \in 0..n |-> g[i]]
    <3>1. DOMAIN h = 0..n /\ g = h
      BY <2>2
    <3> QED BY <3>1
  <2> QED BY <2>1, <2>2, <2>3, <2>4
<1> DEFINE S == {i \in 0..n : f[i] # g[i]}
<1>4. S = {}
  <2> SUFFICES ASSUME S # {} PROVE FALSE
    OBVIOUS
  <2>1. PICK i \in S : \A j \in S : i <= j
    <3>1. S \in SUBSET Nat /\ \E i \in S : TRUE
      BY <1>1
    <3> HIDE DEF S
    <3> QED BY <3>1, LeastNumber
  <2>2. i \in 1..n /\ i - 1 \in 0..n /\ i - 1 \notin S
    BY <2>1, <1>1, <1>3
  <2>3. f[i - 1] = g[i - 1]
    BY <2>2
  <2> QED BY <2>1, <2>2, <2>3, <1>3
<1>5. f = g
  <2>1. \A i \in 0..n : f[i] = g[i]
    BY <1>4
  <2>2. [i \in 0..n |-> f[i]] = [i \in 0..n |-> g[i]]
    BY <2>1
  <2> QED BY <1>3, <2>2
<1> QED BY <1>5 DEF g

\* With one block more the sum has that block more.
LEMMA OneMore ==
  ASSUME NEW bl \in Seq(Seq(Cells)), NEW b \in Seq(Cells), NEW f, Adds(f, bl)
  PROVE  \E g : Adds(g, Append(bl, b)) /\ g[Len(bl) + 1] = f[Len(bl)] + Len(b) + BlockHeader
<1> DEFINE n == Len(bl)
           all == Append(bl, b)
           g == [i \in 0..(n + 1) |-> IF i = n + 1 THEN f[n] + Len(b) + BlockHeader ELSE f[i]]
<1>1. n \in Nat /\ Len(all) = n + 1 /\ all[n + 1] = b /\ \A i \in 1..n : all[i] = bl[i]
  OBVIOUS
<1>2. f[0] = 0 /\ \A i \in 1..n : f[i] = f[i - 1] + Len(bl[i]) + BlockHeader
  BY <1>1, AddsIs
<1>3. g[n + 1] = f[n] + Len(b) + BlockHeader /\ \A i \in 0..n : g[i] = f[i]
  BY <1>1
<1>4. g = [i \in 0..(n + 1) |-> g[i]]
  OBVIOUS
<1> HIDE DEF all, n, g
<1>5. \A i \in 1..(n + 1) : g[i] = g[i - 1] + Len(all[i]) + BlockHeader
  <2> TAKE i \in 1..(n + 1)
  <2>1. CASE i = n + 1
    <3>1. i - 1 = n /\ n \in 0..n
      BY <1>1, <2>1
    <3> QED BY <3>1, <2>1, <1>1, <1>3
  <2>2. CASE i # n + 1
    <3>1. i \in 1..n /\ i \in 0..n /\ i - 1 \in 0..n
      BY <1>1, <2>2
    <3>2. g[i] = f[i] /\ g[i - 1] = f[i - 1] /\ all[i] = bl[i]
      BY <3>1, <1>1, <1>3
    <3> QED BY <3>1, <3>2, <1>2
  <2> QED BY <2>1, <2>2
<1>6. g[0] = 0
  <2>1. n \in Nat
    BY <1>1
  <2>2. 0 \in 0..n
    BY <2>1
  <2> QED BY <2>2, <1>2, <1>3, Zenon
<1>7. Adds(g, all)
  <2>1. Len(all) \in Nat
    BY <1>1
  <2>2. g = [i \in 0..Len(all) |-> g[i]]
    BY <1>1, <1>4
  <2>3. \A i \in 1..Len(all) : g[i] = g[i - 1] + Len(all[i]) + BlockHeader
    BY <1>1, <1>5
  <2> HIDE DEF Adds
  <2> QED BY <2>1, <2>2, <2>3, <1>6, AddsIs
<1>8. Adds(g, Append(bl, b)) /\ g[Len(bl) + 1] = f[Len(bl)] + Len(b) + BlockHeader
  BY <1>3, <1>7 DEF all, n
<1> QED BY <1>8

\* The sum depends on the sizes only.
LEMMA SameSizes ==
  ASSUME NEW f, NEW bl, NEW other, Len(bl) \in Nat, Len(other) = Len(bl), \A i \in 1..Len(bl) : Len(other[i]) = Len(bl[i]),
         Adds(f, bl)
  PROVE  Adds(f, other)
<1>1. \A i \in 0..Len(bl) : (IF i = 0 THEN 0 ELSE f[i - 1] + Len(bl[i]) + BlockHeader)
                            = (IF i = 0 THEN 0 ELSE f[i - 1] + Len(other[i]) + BlockHeader)
  OBVIOUS
<1> QED BY <1>1 DEF Adds

\* How often a CFString is on the stack.
Occurs(s, k) == Cardinality({i \in DOMAIN s : s[i] = k})

LEMMA OccursType ==
  ASSUME NEW s \in Seq(Keys), NEW k
  PROVE  /\ IsFiniteSet({i \in DOMAIN s : s[i] = k})
         /\ Occurs(s, k) \in 0..Len(s)
<1> DEFINE P == {i \in DOMAIN s : s[i] = k}
<1>1. Len(s) \in Nat /\ DOMAIN s = 1..Len(s)
  OBVIOUS
<1>2. IsFiniteSet(1..Len(s)) /\ Cardinality(1..Len(s)) = Len(s)
  BY <1>1, FS_Interval
<1>3. P \subseteq 1..Len(s)
  OBVIOUS
<1>4. IsFiniteSet(P) /\ Cardinality(P) <= Len(s)
  BY <1>2, <1>3, FS_Subset
<1>5. Cardinality(P) \in Nat
  BY <1>4, FS_CardinalityType
<1> QED BY <1>1, <1>4, <1>5 DEF Occurs

LEMMA OccursBound ==
  \A s \in Seq(Keys) : Len(s) \in Nat /\ \A k : Occurs(s, k) \in 0..Len(s) /\ Occurs(s, k) \in Nat
<1> SUFFICES ASSUME NEW s \in Seq(Keys), NEW k
             PROVE  Len(s) \in Nat /\ Occurs(s, k) \in 0..Len(s) /\ Occurs(s, k) \in Nat
  OBVIOUS
<1>1. Len(s) \in Nat
  OBVIOUS
<1>2. Occurs(s, k) \in 0..Len(s)
  BY OccursType
<1>3. 0..Len(s) \subseteq Nat
  BY <1>1
<1> QED BY <1>1, <1>2, <1>3

\* FiniteSets is instantiated with the model.
LEMMA SameCardinality ==
  \A S : Str!Cardinality(S) = Cardinality(S)
BY DEF Cardinality, Str!Cardinality

\* as the model counts it, now and in the next state
LEMMA TimesIs ==
  ASSUME NEW k
  PROVE  Str!Times(k) = Occurs(stack, k) /\ (Str!Times(k))' = Occurs(stack', k)
<1>1. Str!Times(k) = Occurs(stack, k)
  BY SameCardinality, Zenon DEF Str!Times, Occurs
<1>2. (Str!Times(k))' = Occurs(stack', k)
  BY SameCardinality, Zenon DEF Str!Times, Occurs
<1> QED BY <1>1, <1>2

LEMMA Pushed ==
  ASSUME NEW s \in Seq(Keys), NEW top \in Keys, NEW k
  PROVE  Occurs(Append(s, top), k) = Occurs(s, k) + (IF k = top THEN 1 ELSE 0)
<1> DEFINE P == {i \in DOMAIN s : s[i] = k}
           t == Append(s, top)
           Q == {i \in DOMAIN t : t[i] = k}
<1>1. /\ Len(s) \in Nat /\ DOMAIN s = 1..Len(s) /\ DOMAIN t = 1..(Len(s) + 1) /\ t[Len(s) + 1] = top
      /\ \A i \in 1..Len(s) : t[i] = s[i]
  OBVIOUS
<1> HIDE DEF t
<1>2. IsFiniteSet(P) /\ Cardinality(P) \in Nat
  BY OccursType, FS_CardinalityType
<1>3. Q = IF k = top THEN P \cup {Len(s) + 1} ELSE P
  <2>1. 1..(Len(s) + 1) = 1..Len(s) \cup {Len(s) + 1}
    BY <1>1
  <2> QED BY <2>1, <1>1
<1>4. Len(s) + 1 \notin P
  BY <1>1
<1>5. Cardinality(P \cup {Len(s) + 1}) = Cardinality(P) + 1
  BY <1>2, <1>4, FS_AddElement
<1> HIDE DEF P, Q
<1>6. Cardinality(Q) = Cardinality(P) + (IF k = top THEN 1 ELSE 0)
  BY <1>2, <1>3, <1>5
<1> QED BY <1>6 DEF Occurs, P, Q, t

LEMMA Popped ==
  ASSUME NEW s \in Seq(Keys), s # <<>>
  PROVE  /\ SubSeq(s, 1, Len(s) - 1) \in Seq(Keys) /\ Len(SubSeq(s, 1, Len(s) - 1)) = Len(s) - 1
         /\ s[Len(s)] \in Keys
         /\ \A k : Occurs(s, k) = Occurs(SubSeq(s, 1, Len(s) - 1), k) + (IF k = s[Len(s)] THEN 1 ELSE 0)
<1> DEFINE t == SubSeq(s, 1, Len(s) - 1)
<1>1. Len(s) \in Nat \ {0} /\ s[Len(s)] \in Keys
  BY EmptySeq
<1>2. t \in Seq(Keys) /\ Len(t) = Len(s) - 1 /\ \A i \in 1..(Len(s) - 1) : t[i] = s[i]
  <2>1. \A i \in 1..(Len(s) - 1) : s[i] \in Keys
    BY <1>1
  <2>2. 1 \in Int /\ Len(s) - 1 \in Nat
    BY <1>1
  <2> DEFINE n == Len(s) - 1
  <2>3. n \in Nat /\ \A i \in 1..n : s[i] \in Keys
    BY <2>1, <2>2
  <2> HIDE DEF n
  <2>4. /\ SubSeq(s, 1, n) \in Seq(Keys)
        /\ Len(SubSeq(s, 1, n)) = IF 1 <= n THEN n - 1 + 1 ELSE 0
        /\ \A i \in 1..(n - 1 + 1) : SubSeq(s, 1, n)[i] = s[1 + i - 1]
    <3>1. 1 \in Int /\ n \in Int
      BY <2>3
    <3> QED BY <2>3, <3>1, SubSeqProperties
  <2>5. Len(SubSeq(s, 1, n)) = n /\ \A i \in 1..n : SubSeq(s, 1, n)[i] = s[i]
    BY <2>3, <2>4
  <2> QED BY <2>4, <2>5 DEF n
<1>3. s = Append(t, s[Len(s)])
  <2> HIDE DEF t
  <2>1. Append(t, s[Len(s)]) \in Seq(Keys) /\ Len(Append(t, s[Len(s)])) = Len(s)
    BY <1>1, <1>2
  <2>2. \A i \in 1..Len(s) : s[i] = Append(t, s[Len(s)])[i]
    BY <1>1, <1>2
  <2> QED BY <2>1, <2>2, SeqEqual
<1> HIDE DEF t
<1>4. \A k : Occurs(Append(t, s[Len(s)]), k) = Occurs(t, k) + (IF k = s[Len(s)] THEN 1 ELSE 0)
  BY <1>1, <1>2, Pushed
<1> QED BY <1>1, <1>2, <1>3, <1>4 DEF t

\* Where the arena finds memory: behind the last allocation, in a new block that
\* is only for this one, or at the start of a new block.
AllocateHere(size, a) ==
  /\ Str!Room >= size
  /\ a.place = ptr_ /\ a.blocks = blocks /\ a.ptr = [block |-> ptr_.block, at |-> ptr_.at + size]
AllocateAlone(size, a) ==
  /\ a.place = [block |-> Len(blocks) + 1, at |-> 0] /\ a.ptr = ptr_
  /\ \E b \in Seq(Cells) : a.blocks = Append(blocks, b) /\ Len(b) >= size
AllocateAnew(size, a) ==
  /\ a.place = [block |-> Len(blocks) + 1, at |-> 0] /\ a.ptr = [block |-> Len(blocks) + 1, at |-> size]
  /\ \E b \in Seq(Cells) : a.blocks = Append(blocks, b) /\ Len(b) >= size

LEMMA AllocateIs ==
  ASSUME Str!CacheConstants, StringTypes, NEW size \in Nat
  PROVE  LET a == Str!Allocate(size)
         IN  AllocateHere(size, a) \/ AllocateAlone(size, a) \/ AllocateAnew(size, a)
<1> DEFINE new == Len(blocks) + 1
           here == [place |-> ptr_, blocks |-> blocks, ptr |-> [ptr_ EXCEPT !.at = @ + size]]
           alone == [place |-> [block |-> new, at |-> 0], blocks |-> Append(blocks, Str!Block(size, FALSE)), ptr |-> ptr_]
           anew == [place |-> [block |-> new, at |-> 0], blocks |-> Append(blocks, Str!Block(MinBlockSize, TRUE)),
                    ptr |-> [block |-> new, at |-> size]]
           a == Str!Allocate(size)
<1>1. Str!Allocate(size) = CASE Str!Room >= size -> here [] Str!Room < size /\ size > MinBlockSize -> alone [] OTHER -> anew
  BY DEF Str!Allocate
<1>2. Str!Room \in Int /\ MinBlockSize \in Nat
  <2>1. ptr_.block # 0 => Len(blocks[ptr_.block]) \in Nat /\ ptr_.at \in Nat
    <3>1. blocks \in Seq(Seq(Cells)) /\ ptr_.at \in Nat /\ ptr_.block \in 0..Len(blocks)
      BY DEF StringTypes
    <3>2. ASSUME ptr_.block # 0 PROVE blocks[ptr_.block] \in Seq(Cells)
      <4>1. ptr_.block \in 1..Len(blocks)
        BY <3>1, <3>2
      <4> QED BY <4>1, <3>1, ElementOfSeq
    <3> QED BY <3>1, <3>2
  <2> QED BY <2>1 DEF Str!Room, Str!CacheConstants
<1>3. CASE Str!Room >= size
  <2> HIDE DEF here, alone, anew
  <2>1. a = here
    BY <1>1, <1>2, <1>3
  <2>2. here.place = ptr_ /\ here.blocks = blocks /\ here.ptr = [block |-> ptr_.block, at |-> ptr_.at + size]
    BY DEF here, StringTypes
  <2> QED BY <2>1, <2>2, <1>3 DEF AllocateHere
<1>4. CASE Str!Room < size /\ size > MinBlockSize
  <2> HIDE DEF here, alone, anew
  <2>1. a = alone
    BY <1>1, <1>2, <1>4
  <2>2. Str!Block(size, FALSE) \in Seq(Cells) /\ Len(Str!Block(size, FALSE)) >= size
    BY BlockIs
  <2>3. alone.place = [block |-> new, at |-> 0] /\ alone.blocks = Append(blocks, Str!Block(size, FALSE)) /\ alone.ptr = ptr_
    BY DEF alone
  <2> QED BY <2>1, <2>2, <2>3 DEF AllocateAlone
<1>5. CASE Str!Room < size /\ ~(size > MinBlockSize)
  <2> HIDE DEF here, alone, anew
  <2>1. a = anew
    BY <1>1, <1>2, <1>5
  <2>2. Str!Block(MinBlockSize, TRUE) \in Seq(Cells) /\ Len(Str!Block(MinBlockSize, TRUE)) >= size
    <3> DEFINE b == Str!Block(MinBlockSize, TRUE)
    <3>1. b \in Seq(Cells) /\ Len(b) >= MinBlockSize
      BY BlockIs, <1>2
    <3> HIDE DEF b
    <3>2. Len(b) \in Nat
      BY <3>1
    <3>3. size <= MinBlockSize
      BY <1>2, <1>5
    <3>4. Len(b) >= size
      BY <3>1, <3>2, <3>3, <1>2
    <3> QED BY <3>1, <3>4, Zenon DEF b
  <2>3. /\ anew.place = [block |-> new, at |-> 0] /\ anew.blocks = Append(blocks, Str!Block(MinBlockSize, TRUE))
        /\ anew.ptr = [block |-> new, at |-> size]
    BY DEF anew
  <2> QED BY <2>1, <2>2, <2>3 DEF AllocateAnew
<1> HIDE DEF a
<1> QED BY <1>2, <1>3, <1>4, <1>5 DEF a

\* insert writes the characters of the key at its place, and nothing else.
LEMMA CopiedIs ==
  ASSUME Str!CacheConstants, NEW k \in Keys, NEW place \in [block : Nat, at : Nat], NEW memory \in Seq(Seq(Cells)),
         Length[k] # 0 => place.block \in 1..Len(memory) /\ place.at + Bytes(k) <= Len(memory[place.block])
  PROVE  LET new == Str!Copied(k, place, memory)
         IN  /\ new \in Seq(Seq(Cells)) /\ Len(new) = Len(memory)
             /\ \A b \in 1..Len(memory) :
                  /\ Len(new[b]) = Len(memory[b])
                  /\ \A i \in 1..Len(memory[b]) :
                       b # place.block \/ Length[k] = 0 \/ i <= place.at \/ i > place.at + Bytes(k) => new[b][i] = memory[b][i]
             /\ Length[k] # 0 => Lies(new, k, place)
<1> DEFINE new == Str!Copied(k, place, memory)
           p == place.block
           at == place.at
           n == Bytes(k)
<1>1. CASE Length[k] = 0
  <2>1. new = memory
    BY <1>1 DEF Str!Copied
  <2> HIDE DEF new
  <2> QED BY <2>1, <1>1 DEF new
<1>2. CASE Length[k] # 0
  <2> DEFINE old == memory[p]
             cell(i) == LET c == i - at - 1 IN IF c \in 0..(n - 1) THEN <<k, c \div CharSize>> ELSE old[i]
             block == [i \in DOMAIN old |-> cell(i)]
  <2>1. /\ n \in Nat /\ at \in Nat /\ CharSize \in Nat \ {0} /\ p \in 1..Len(memory) /\ at + n <= Len(old)
    BY <1>2, SizeIs DEF Str!CacheConstants
  <2>2. old \in Seq(Cells)
    BY <2>1, ElementOfSeq
  <2>3. new = [memory EXCEPT ![p] = block]
    BY <1>2 DEF Str!Copied, Bytes
  <2>4. DOMAIN old = 1..Len(old) /\ Len(old) \in Nat /\ \A i \in 1..Len(old) : old[i] \in Cells
    BY <2>2
  <2>5. \A i \in 1..Len(old) : cell(i) \in Cells
    <3> TAKE i \in 1..Len(old)
    <3> DEFINE c == i - at - 1
    <3>1. CASE c \in 0..(n - 1)
      <4>1. c \in Nat
        BY <3>1, <2>1
      <4> HIDE DEF c
      <4>2. c \div CharSize \in Nat
        BY <4>1, <2>1, DivIsNat
      <4>3. <<k, c \div CharSize>> \in Cells
        <5>1. \A d \in Nat : <<k, d>> \in Cells
          BY DEF Cells
        <5> QED BY <5>1, <4>2, Zenon
      <4> QED BY <4>3, <3>1 DEF c
    <3>2. CASE c \notin 0..(n - 1)
      BY <3>2, <2>4
    <3> QED BY <3>1, <3>2
  <2>6. \A i \in 1..Len(old) : i <= at \/ i > at + n => cell(i) = old[i]
    <3> TAKE i \in 1..Len(old)
    <3> HAVE i <= at \/ i > at + n
    <3>1. i - at - 1 \notin 0..(n - 1)
      BY <2>1, <2>4
    <3> QED BY <3>1
  <2>7. \A c \in 0..(n - 1) : at + c + 1 \in 1..Len(old) /\ cell(at + c + 1) = <<k, c \div CharSize>>
    <3> TAKE c \in 0..(n - 1)
    <3>1. at + c + 1 \in 1..Len(old) /\ (at + c + 1) - at - 1 = c
      BY <2>1, <2>4
    <3> QED BY <3>1
  <2> HIDE DEF cell
  <2>8. block \in Seq(Cells) /\ Len(block) = Len(old) /\ \A i \in 1..Len(old) : block[i] = cell(i)
    BY <2>4, <2>5
  <2> HIDE DEF block, old
  <2>9. /\ new \in Seq(Seq(Cells)) /\ Len(new) = Len(memory) /\ new[p] = block
        /\ \A b \in 1..Len(memory) : b # p => new[b] = memory[b]
    <3> DEFINE R == Seq(Cells)
    <3>1. memory \in Seq(R) /\ block \in R
      BY <2>8
    <3> HIDE DEF R, new
    <3>2. /\ new \in Seq(R) /\ Len(new) = Len(memory) /\ new[p] = block
          /\ \A b \in 1..Len(memory) : b # p => new[b] = memory[b]
      BY <3>1, <2>1, <2>3, ExceptSeq
    <3> QED BY <3>2 DEF R
  <2> HIDE DEF new
  <2>10. ASSUME NEW b \in 1..Len(memory)
         PROVE  /\ Len(new[b]) = Len(memory[b])
                /\ \A i \in 1..Len(memory[b]) : b # p \/ i <= at \/ i > at + n => new[b][i] = memory[b][i]
    <3>1. CASE b = p
      <4>1. memory[b] = old /\ new[b] = block
        BY <3>1, <2>9 DEF old
      <4> QED BY <4>1, <3>1, <2>6, <2>8
    <3>2. CASE b # p
      BY <3>2, <2>9
    <3> QED BY <3>1, <3>2
  <2>11. Lies(new, k, place)
    <3>1. p \in 1..Len(new) /\ at + n <= Len(new[p])
      BY <2>1, <2>8, <2>9
    <3>2. \A c \in 0..(n - 1) : new[p][at + c + 1] = <<k, c \div CharSize>>
      BY <2>7, <2>8, <2>9
    <3> QED BY <3>1, <3>2 DEF Lies
  <2> QED BY <2>9, <2>10, <2>11, <1>2 DEF new
<1> QED BY <1>1, <1>2

\* A new block has room for what is used of it.
LEMMA MoreRoom ==
  \A u, room, t, l, head, size \in Nat :
    u + room <= t /\ l >= size => /\ (u + size) + room <= t + (l + head)
                                 /\ (u + size) + (l - size) <= t + (l + head)
OBVIOUS

\* insert keeps what it finds, and puts the key behind it.
LEMMA InsertKeeps ==
  ASSUME Str!CacheConstants, StringTypes, PlacesInv, SizesInv, NEW k \in Keys, k \notin DOMAIN map_, Str!Insert(k)
  PROVE  /\ blocks' \in Seq(Seq(Cells))
         /\ ptr_' \in [block : 0..Len(blocks'), at : Nat] /\ Aligned(ptr_'.at)
         /\ IF ptr_'.block = 0 THEN ptr_'.at = 0 ELSE ptr_'.at <= Len(blocks'[ptr_'.block])
         /\ totalAllocatedSize_' \in Nat /\ bytesUsed_' \in Nat
         /\ DOMAIN map_' = DOMAIN map_ \cup {k} /\ map_' \in [DOMAIN map_' -> [block : Nat, at : Nat]]
         /\ PlacesInv' /\ SizesInv'
<1> DEFINE size == Str!roundUp(Length[k] * CharSize * CharSize)
           a == Str!Allocate(size)
           n == Len(blocks)
<1>1. /\ blocks' = Str!Copied(k, a.place, a.blocks) /\ ptr_' = a.ptr
      /\ bytesUsed_' = bytesUsed_ + size
      /\ totalAllocatedSize_' = totalAllocatedSize_
            + (IF Len(a.blocks) > n THEN Len(a.blocks[Len(a.blocks)]) + BlockHeader ELSE 0)
      /\ map_' = [l \in DOMAIN map_ \cup {k} |-> IF l = k THEN a.place ELSE map_[l]]
  BY DEF Str!Insert
<1>2. size \in Nat /\ Aligned(size) /\ size >= Bytes(k) /\ Bytes(k) \in Nat
      /\ (Length[k] # 0 => Bytes(k) > 0)
  <2>1. Length[k] \in Nat /\ CharSize \in Nat \ {0}
    BY DEF Str!CacheConstants
  <2>2. ASSUME Length[k] # 0 PROVE Length[k] * CharSize > 0
    BY <2>1, <2>2
  <2> QED BY <2>2, SizeIs DEF Bytes
<1> HIDE DEF size
<1>3. AllocateHere(size, a) \/ AllocateAlone(size, a) \/ AllocateAnew(size, a)
  BY <1>2, AllocateIs
<1> HIDE DEF a
<1>15. blocks \in Seq(Seq(Cells))
  BY DEF StringTypes
<1>4. /\ n \in Nat /\ ptr_.block \in 0..n /\ ptr_.at \in Nat
      /\ IF ptr_.block = 0 THEN ptr_.at = 0 ELSE ptr_.at <= Len(blocks[ptr_.block])
      /\ totalAllocatedSize_ \in Nat /\ bytesUsed_ \in Nat /\ BlockHeader \in Nat
  BY DEF StringTypes, Str!CacheConstants
<1>13. ptr_ = [block |-> ptr_.block, at |-> ptr_.at] /\ Aligned(ptr_.at) /\ MaxAlign \in Nat \ {0}
  BY DEF StringTypes, Str!CacheConstants
<1>14. Aligned(0)
  BY <1>13 DEF Aligned
<1>5. \A b \in 1..n : blocks[b] \in Seq(Cells) /\ Len(blocks[b]) \in Nat
  <2>1. \A b \in 1..n : blocks[b] \in Seq(Cells)
    BY <1>15, ElementOfSeq
  <2> QED BY <2>1
<1>6. Str!Room = IF ptr_.block = 0 THEN 0 ELSE Len(blocks[ptr_.block]) - ptr_.at
  BY DEF Str!Room
\* what the three ways of allocating have in common
<1> DEFINE more == a.blocks
           m == Len(more)
<1>7. /\ more \in Seq(Seq(Cells)) /\ m \in Nat /\ m >= n
      /\ \A b \in 1..n : more[b] = blocks[b]
      /\ a.place \in [block : Nat, at : Nat] /\ Aligned(a.place.at)
      /\ a.ptr \in [block : 0..m, at : Nat] /\ Aligned(a.ptr.at)
      /\ IF a.ptr.block = 0 THEN a.ptr.at = 0 ELSE a.ptr.at <= Len(more[a.ptr.block])
      /\ Length[k] # 0 => /\ a.place.block \in 1..m /\ a.place.at + Bytes(k) <= Len(more[a.place.block])
                          /\ Behind(a.ptr, k, a.place)
      /\ a.place = ptr_ \/ a.place.block = n + 1
      /\ a.ptr.block = ptr_.block => a.ptr.at >= ptr_.at
      /\ a.ptr.block \in {ptr_.block, n + 1}
  <2>1. CASE AllocateHere(size, a)
    <3>1. /\ Str!Room >= size /\ a.place = ptr_ /\ more = blocks
          /\ a.ptr = [block |-> ptr_.block, at |-> ptr_.at + size]
      BY <2>1 DEF AllocateHere
    <3>2. a.ptr.block = ptr_.block /\ a.ptr.at = ptr_.at + size
      BY <3>1
    <3>3. a.ptr.at \in Nat /\ Aligned(a.ptr.at)
      <4>1. ptr_.at % MaxAlign = 0 /\ size % MaxAlign = 0
        BY <1>2, <1>13 DEF Aligned
      <4>2. (ptr_.at + size) % MaxAlign = 0
        BY <4>1, <1>2, <1>4, <1>13, Multiples
      <4> QED BY <4>2, <3>2, <1>2, <1>4 DEF Aligned
    <3>4. IF ptr_.block = 0 THEN size = 0 ELSE ptr_.at + size <= Len(blocks[ptr_.block])
      <4>1. CASE ptr_.block = 0
        BY <4>1, <3>1, <1>2, <1>6
      <4>2. CASE ptr_.block # 0
        <5>1. ptr_.block \in 1..n
          BY <4>2, <1>4
        <5>2. Len(blocks[ptr_.block]) \in Nat
          BY <5>1, <1>5
        <5> QED BY <4>2, <5>2, <3>1, <1>2, <1>4, <1>6
      <4> QED BY <4>1, <4>2
    <3>5. ASSUME Length[k] # 0
          PROVE  ptr_.block \in 1..n /\ ptr_.at + Bytes(k) <= Len(blocks[ptr_.block]) /\ ptr_.at + Bytes(k) <= ptr_.at + size
      <4>1. size # 0
        BY <3>5, <1>2
      <4>2. ptr_.block \in 1..n
        BY <4>1, <3>4, <1>4
      <4>3. Len(blocks[ptr_.block]) \in Nat
        BY <4>2, <1>5
      <4>4. ptr_.at + size <= Len(blocks[ptr_.block])
        BY <4>1, <3>4
      <4> QED BY <4>2, <4>3, <4>4, <1>2, <1>4
    <3>6. IF a.ptr.block = 0 THEN a.ptr.at = 0 ELSE a.ptr.at <= Len(more[a.ptr.block])
      BY <3>1, <3>2, <3>4, <1>4
    <3>7. a.place \in [block : Nat, at : Nat] /\ Aligned(a.place.at) /\ a.ptr \in [block : 0..m, at : Nat]
      <4>1. ptr_.block \in 0..m /\ ptr_.block \in Nat /\ ptr_.at \in Nat
        BY <3>1, <1>4
      <4>2. a.place \in [block : Nat, at : Nat] /\ Aligned(a.place.at)
        BY <4>1, <3>1, <1>13
      <4> QED BY <4>1, <4>2, <3>1, <3>2, <3>3
    <3>8. a.ptr.at >= ptr_.at
      BY <3>2, <1>2, <1>4
    <3>9. Length[k] # 0 => /\ a.place.block \in 1..m /\ a.place.at + Bytes(k) <= Len(more[a.place.block])
                          /\ Behind(a.ptr, k, a.place)
      BY <3>1, <3>2, <3>5 DEF Behind
    <3>10. /\ more \in Seq(Seq(Cells)) /\ m \in Nat /\ m >= n /\ \A b \in 1..n : more[b] = blocks[b]
      BY <3>1, <1>4, <1>15
    <3> HIDE DEF more, m, n
    <3> QED BY <3>1, <3>2, <3>3, <3>6, <3>7, <3>8, <3>9, <3>10, Zenon
  <2>2. ASSUME NEW b \in Seq(Cells), more = Append(blocks, b), Len(b) >= size, a.place = [block |-> n + 1, at |-> 0]
        PROVE  /\ more \in Seq(Seq(Cells)) /\ m = n + 1 /\ (\A c \in 1..n : more[c] = blocks[c]) /\ more[n + 1] = b
               /\ a.place \in [block : Nat, at : Nat] /\ Aligned(a.place.at)
               /\ a.place.block \in 1..m /\ a.place.at + Bytes(k) <= Len(more[a.place.block]) /\ Len(b) \in Nat
    <3> DEFINE R == Seq(Cells)
    <3>1. blocks \in Seq(R) /\ b \in R
      BY <1>15
    <3> HIDE DEF R
    <3>2. more \in Seq(R) /\ m = n + 1 /\ (\A c \in 1..n : more[c] = blocks[c]) /\ more[n + 1] = b
      BY <3>1, <2>2
    <3>3. a.place.block = n + 1 /\ a.place.at = 0 /\ Len(b) \in Nat /\ Aligned(a.place.at)
      BY <2>2, <1>14
    <3>4. Bytes(k) <= Len(b)
      BY <2>2, <3>3, <1>2
    <3>5. a.place.block \in 1..m /\ a.place.at + Bytes(k) <= Len(more[a.place.block])
      BY <3>2, <3>3, <3>4, <1>2, <1>4
    <3>6. a.place \in [block : Nat, at : Nat]
      BY <2>2, <1>4
    <3> QED BY <3>2, <3>3, <3>5, <3>6 DEF R
  <2>3. CASE AllocateAlone(size, a)
    <3>1. PICK b \in Seq(Cells) : more = Append(blocks, b) /\ Len(b) >= size
      BY <2>3 DEF AllocateAlone
    <3>2. a.place = [block |-> n + 1, at |-> 0] /\ a.ptr = ptr_
      BY <2>3 DEF AllocateAlone
    <3>3. /\ more \in Seq(Seq(Cells)) /\ m = n + 1 /\ (\A c \in 1..n : more[c] = blocks[c])
          /\ a.place \in [block : Nat, at : Nat] /\ Aligned(a.place.at)
          /\ a.place.block \in 1..m /\ a.place.at + Bytes(k) <= Len(more[a.place.block])
      BY <3>1, <3>2, <2>2
    <3>4. a.place.block = n + 1 /\ a.place.block # ptr_.block
      BY <3>2, <1>4
    <3>5. IF ptr_.block = 0 THEN ptr_.at = 0 ELSE ptr_.at <= Len(more[ptr_.block])
      <4>1. ptr_.block # 0 => ptr_.block \in 1..n
        BY <1>4
      <4> QED BY <4>1, <3>3, <1>4
    <3>6. ptr_ \in [block : 0..m, at : Nat]
      <4>1. ptr_.block \in 0..m /\ ptr_.at \in Nat
        BY <3>3, <1>4
      <4> QED BY <4>1, <1>13
    <3>7. Behind(a.ptr, k, a.place)
      BY <3>2, <3>4 DEF Behind
    <3>8. m \in Nat /\ m >= n /\ ptr_.at >= ptr_.at
      BY <3>3, <1>4
    <3> HIDE DEF more, m, n
    <3> QED BY <3>2, <3>3, <3>4, <3>5, <3>6, <3>7, <3>8, <1>13, Zenon
  <2>4. CASE AllocateAnew(size, a)
    <3>1. PICK b \in Seq(Cells) : more = Append(blocks, b) /\ Len(b) >= size
      BY <2>4 DEF AllocateAnew
    <3>2. a.place = [block |-> n + 1, at |-> 0] /\ a.ptr = [block |-> n + 1, at |-> size]
      BY <2>4 DEF AllocateAnew
    <3>3. /\ more \in Seq(Seq(Cells)) /\ m = n + 1 /\ (\A c \in 1..n : more[c] = blocks[c]) /\ more[n + 1] = b
          /\ a.place \in [block : Nat, at : Nat] /\ Aligned(a.place.at)
          /\ a.place.block \in 1..m /\ a.place.at + Bytes(k) <= Len(more[a.place.block])
      BY <3>1, <3>2, <2>2
    <3>4. a.place.block = n + 1 /\ a.place.at = 0 /\ a.ptr.block = n + 1 /\ a.ptr.at = size
      BY <3>2
    <3>5. a.ptr.block # 0 /\ a.ptr.block # ptr_.block /\ a.ptr.at <= Len(more[a.ptr.block])
      BY <3>1, <3>3, <3>4, <1>4
    <3>6. a.ptr \in [block : 0..m, at : Nat] /\ Aligned(a.ptr.at)
      <4>1. n + 1 \in 0..m /\ size \in Nat
        BY <3>3, <1>2, <1>4
      <4> QED BY <4>1, <3>2, <3>4, <1>2
    <3>7. Behind(a.ptr, k, a.place)
      BY <3>4, <1>2 DEF Behind
    <3>8. m \in Nat /\ m >= n
      BY <3>3, <1>4
    <3> HIDE DEF more, m, n
    <3> QED BY <3>2, <3>3, <3>4, <3>5, <3>6, <3>7, <3>8, Zenon
  <2> QED BY <1>3, <2>1, <2>3, <2>4
<1>8. /\ blocks' \in Seq(Seq(Cells)) /\ Len(blocks') = m
      /\ \A b \in 1..m :
           /\ Len(blocks'[b]) = Len(more[b])
           /\ \A i \in 1..Len(more[b]) :
                b # a.place.block \/ Length[k] = 0 \/ i <= a.place.at \/ i > a.place.at + Bytes(k)
                  => blocks'[b][i] = more[b][i]
      /\ Length[k] # 0 => Lies(blocks', k, a.place)
  <2>1. /\ more \in Seq(Seq(Cells)) /\ a.place \in [block : Nat, at : Nat]
        /\ Length[k] # 0 => a.place.block \in 1..Len(more) /\ a.place.at + Bytes(k) <= Len(more[a.place.block])
    BY <1>7
  <2>2. blocks' = Str!Copied(k, a.place, more)
    BY <1>1
  <2> HIDE DEF more
  <2> QED BY <2>1, <2>2, CopiedIs DEF m
<1>9. /\ DOMAIN map_' = DOMAIN map_ \cup {k} /\ map_' \in [DOMAIN map_' -> [block : Nat, at : Nat]]
      /\ map_'[k] = a.place /\ \A l \in DOMAIN map_ : map_'[l] = map_[l]
      /\ \A l \in DOMAIN map_ : map_[l] \in [block : Nat, at : Nat] /\ l \in Keys /\ l # k
  BY <1>1, <1>7 DEF StringTypes
<1>10. PlacesInv'
  <2> SUFFICES ASSUME NEW l \in DOMAIN map_'
               PROVE  /\ Aligned(map_'[l].at)
                      /\ Length[l] # 0 => Lies(blocks', l, map_'[l]) /\ Behind(ptr_', l, map_'[l])
    BY DEF PlacesInv, Lies, Behind
  <2>1. CASE l = k
    BY <2>1, <1>1, <1>7, <1>8, <1>9
  <2>2. CASE l # k
    <3> DEFINE p == map_[l].block
               at == map_[l].at
               e == Bytes(l)
    <3>1. l \in DOMAIN map_ /\ map_'[l] = map_[l] /\ p \in Nat /\ at \in Nat /\ e \in Nat
      <4>1. l \in DOMAIN map_ /\ map_'[l] = map_[l] /\ map_[l] \in [block : Nat, at : Nat] /\ l \in Keys
        BY <2>2, <1>9
      <4> QED BY <4>1, SizeIs
    <3>2. Aligned(map_[l].at) /\ (Length[l] # 0 => Lies(blocks, l, map_[l]) /\ Behind(ptr_, l, map_[l]))
      BY <3>1 DEF PlacesInv
    <3>3. ASSUME Length[l] # 0 PROVE Lies(blocks', l, map_[l]) /\ Behind(ptr_', l, map_[l])
      <4>1. /\ p \in 1..n /\ at + e <= Len(blocks[p]) /\ (p = ptr_.block => at + e <= ptr_.at)
            /\ \A c \in 0..(e - 1) : blocks[p][at + c + 1] = <<l, c \div CharSize>>
        BY <3>2, <3>3 DEF Lies, Behind
      <4> HIDE DEF p, at, e
      <4>2. p \in 1..m /\ more[p] = blocks[p] /\ Len(blocks'[p]) = Len(blocks[p]) /\ Len(blocks[p]) \in Nat
        <5>1. p \in 1..m
          BY <4>1, <1>4, <1>7
        <5> HIDE DEF more, m, n
        <5>2. more[p] = blocks[p] /\ Len(blocks'[p]) = Len(more[p]) /\ Len(blocks[p]) \in Nat
          BY <5>1, <4>1, <1>5, <1>7, <1>8
        <5> QED BY <5>1, <5>2
      <4>3. ASSUME NEW c \in 0..(e - 1) PROVE blocks'[p][at + c + 1] = <<l, c \div CharSize>>
        <5>1. at + c + 1 \in 1..Len(more[p])
          BY <4>1, <4>2, <3>1
        <5>2. p # a.place.block \/ at + c + 1 <= a.place.at
          <6>1. ASSUME p = a.place.block PROVE at + c + 1 <= a.place.at
            <7>1. a.place = ptr_
              BY <6>1, <4>1, <1>4, <1>7
            <7>2. at + e <= a.place.at
              BY <7>1, <6>1, <4>1
            <7>3. a.place.at \in Nat
              BY <1>7
            <7> QED BY <7>2, <7>3, <3>1
          <6> QED BY <6>1
        <5>3. blocks'[p][at + c + 1] = more[p][at + c + 1]
          BY <5>1, <5>2, <4>2, <1>8
        <5> QED BY <5>3, <4>1, <4>2
      <4>4. ASSUME p = a.ptr.block PROVE at + e <= a.ptr.at
        <5>1. a.ptr.block = ptr_.block
          BY <4>1, <4>4, <1>4, <1>7
        <5>2. a.ptr.at \in Nat /\ a.ptr.at >= ptr_.at
          BY <5>1, <1>7
        <5>3. at + e <= ptr_.at
          BY <5>1, <4>4, <4>1
        <5> QED BY <5>2, <5>3, <3>1, <1>4
      <4>5. p \in 1..Len(blocks') /\ at + e <= Len(blocks'[p])
        BY <4>1, <4>2, <1>8
      <4>6. Lies(blocks', l, map_[l])
        BY <4>3, <4>5 DEF Lies, p, at, e
      <4>7. Behind(ptr_', l, map_[l])
        BY <4>4, <1>1 DEF Behind, p, at, e
      <4> QED BY <4>6, <4>7
    <3> QED BY <3>1, <3>2, <3>3
  <2> QED BY <2>1, <2>2
<1>11. SizesInv' /\ totalAllocatedSize_' \in Nat /\ bytesUsed_' \in Nat
  <2>1. PICK f : Adds(f, blocks) /\ f[n] = totalAllocatedSize_
    BY DEF SizesInv
  <2>2. bytesUsed_ + Str!Room <= totalAllocatedSize_
    BY DEF SizesInv
  <2>3. (Str!Room)' = IF a.ptr.block = 0 THEN 0 ELSE Len(blocks'[a.ptr.block]) - a.ptr.at
    BY <1>1 DEF Str!Room
  <2> DEFINE roomNow == IF a.ptr.block = 0 THEN 0 ELSE Len(more[a.ptr.block]) - a.ptr.at
  <2>4. (Str!Room)' = roomNow
    <3>1. ASSUME a.ptr.block # 0 PROVE Len(blocks'[a.ptr.block]) = Len(more[a.ptr.block])
      <4>1. a.ptr.block \in 1..m
        BY <3>1, <1>7
      <4> QED BY <4>1, <1>8
    <3> QED BY <2>3, <3>1
  <2>5. Str!Room \in Nat
    <3>1. CASE ptr_.block = 0
      BY <3>1, <1>6
    <3>2. CASE ptr_.block # 0
      <4>1. ptr_.block \in 1..n
        BY <3>2, <1>4
      <4> QED BY <4>1, <3>2, <1>4, <1>5, <1>6
    <3> QED BY <3>1, <3>2
  <2>6. ASSUME NEW g, Adds(g, more), g[m] = totalAllocatedSize_'
        PROVE  \E h : Adds(h, blocks') /\ h[Len(blocks')] = totalAllocatedSize_'
    <3>1. Adds(g, blocks')
      <4>1. m \in Nat /\ Len(blocks') = m /\ \A i \in 1..m : Len(blocks'[i]) = Len(more[i])
        BY <1>7, <1>8
      <4> QED BY <4>1, <2>6, SameSizes
    <3> QED BY <3>1, <2>6, <1>8
  <2>11. SizesInv' <=> /\ \E h : Adds(h, blocks') /\ h[Len(blocks')] = totalAllocatedSize_'
                       /\ bytesUsed_' + (Str!Room)' <= totalAllocatedSize_'
    BY DEF SizesInv, Adds
  <2>7. CASE AllocateHere(size, a)
    <3>1. Str!Room >= size /\ more = blocks /\ a.ptr.block = ptr_.block /\ a.ptr.at = ptr_.at + size
      BY <2>7 DEF AllocateHere
    <3>2. totalAllocatedSize_' = totalAllocatedSize_ /\ bytesUsed_' = bytesUsed_ + size
      BY <3>1, <1>1, <1>4
    <3>3. roomNow = Str!Room - size
      <4>1. CASE ptr_.block = 0
        BY <4>1, <3>1, <2>5, <1>2, <1>6
      <4>2. CASE ptr_.block # 0
        <5>1. Len(blocks[ptr_.block]) \in Nat
          BY <4>2, <1>4, <1>5
        <5> QED BY <4>2, <5>1, <3>1, <1>2, <1>4, <1>6
      <4> QED BY <4>1, <4>2
    <3>4. \E h : Adds(h, blocks') /\ h[Len(blocks')] = totalAllocatedSize_'
      BY <2>1, <2>6, <3>1, <3>2
    <3>5. bytesUsed_' + (Str!Room)' <= totalAllocatedSize_'
      BY <2>2, <2>4, <2>5, <3>2, <3>3, <1>2, <1>4
    <3> QED BY <2>11, <3>2, <3>4, <3>5, <1>2, <1>4
  <2>8. ASSUME NEW b \in Seq(Cells), more = Append(blocks, b)
        PROVE  /\ m = n + 1 /\ more[n + 1] = b /\ Len(b) \in Nat
               /\ totalAllocatedSize_' = totalAllocatedSize_ + (Len(b) + BlockHeader) /\ bytesUsed_' = bytesUsed_ + size
               /\ \E h : Adds(h, blocks') /\ h[Len(blocks')] = totalAllocatedSize_'
    <3>1. m = n + 1 /\ more[n + 1] = b /\ Len(b) \in Nat
      <4> DEFINE R == Seq(Cells)
      <4>1. blocks \in Seq(R) /\ b \in R /\ Len(b) \in Nat
        BY <1>15
      <4> HIDE DEF R
      <4> QED BY <4>1, <2>8
    <3>2. totalAllocatedSize_' = totalAllocatedSize_ + (Len(b) + BlockHeader) /\ bytesUsed_' = bytesUsed_ + size
      <4>1. m > n /\ more[m] = b
        BY <3>1, <1>4
      <4> QED BY <4>1, <1>1
    <3>3. PICK g : Adds(g, Append(blocks, b)) /\ g[n + 1] = f[n] + Len(b) + BlockHeader
      BY <2>1, <1>15, OneMore
    <3>4. Adds(g, more) /\ g[m] = totalAllocatedSize_'
      BY <3>1, <3>2, <3>3, <2>1, <2>8, <1>4
    <3> QED BY <3>1, <3>2, <3>4, <2>6
  <2>9. CASE AllocateAlone(size, a)
    <3>1. PICK b \in Seq(Cells) : more = Append(blocks, b) /\ Len(b) >= size
      BY <2>9 DEF AllocateAlone
    <3>2. a.ptr = ptr_
      BY <2>9 DEF AllocateAlone
    <3>3. /\ Len(b) \in Nat /\ totalAllocatedSize_' = totalAllocatedSize_ + (Len(b) + BlockHeader)
          /\ bytesUsed_' = bytesUsed_ + size /\ \E h : Adds(h, blocks') /\ h[Len(blocks')] = totalAllocatedSize_'
      BY <3>1, <2>8
    <3>4. roomNow = Str!Room
      <4>1. ptr_.block # 0 => more[ptr_.block] = blocks[ptr_.block]
        <5>1. ptr_.block # 0 => ptr_.block \in 1..n
          BY <1>4
        <5> HIDE DEF more, m, n
        <5> QED BY <5>1, <1>7
      <4> QED BY <4>1, <3>2, <1>6
    <3>5. bytesUsed_' + (Str!Room)' <= totalAllocatedSize_'
      BY <2>2, <2>4, <2>5, <3>1, <3>3, <3>4, <1>2, <1>4, MoreRoom
    <3>6. totalAllocatedSize_' \in Nat /\ bytesUsed_' \in Nat
      BY <3>3, <1>2, <1>4
    <3> QED BY <2>11, <3>3, <3>5, <3>6, Zenon
  <2>10. CASE AllocateAnew(size, a)
    <3>1. PICK b \in Seq(Cells) : more = Append(blocks, b) /\ Len(b) >= size
      BY <2>10 DEF AllocateAnew
    <3>2. a.ptr.block = n + 1 /\ a.ptr.at = size
      BY <2>10 DEF AllocateAnew
    <3>3. /\ more[n + 1] = b /\ Len(b) \in Nat /\ totalAllocatedSize_' = totalAllocatedSize_ + (Len(b) + BlockHeader)
          /\ bytesUsed_' = bytesUsed_ + size /\ \E h : Adds(h, blocks') /\ h[Len(blocks')] = totalAllocatedSize_'
      BY <3>1, <2>8
    <3>4. roomNow = Len(b) - size
      BY <3>2, <3>3, <1>4
    <3>5. bytesUsed_' + (Str!Room)' <= totalAllocatedSize_'
      BY <2>2, <2>4, <2>5, <3>1, <3>3, <3>4, <1>2, <1>4, MoreRoom
    <3>6. totalAllocatedSize_' \in Nat /\ bytesUsed_' \in Nat
      <4>1. /\ bytesUsed_ \in Nat /\ Str!Room \in Nat /\ totalAllocatedSize_ \in Nat /\ Len(b) \in Nat
            /\ BlockHeader \in Nat /\ size \in Nat /\ Len(b) >= size
        BY <2>5, <3>1, <3>3, <1>2, <1>4
      <4>2. /\ bytesUsed_' = bytesUsed_ + size
            /\ totalAllocatedSize_' = totalAllocatedSize_ + (Len(b) + BlockHeader)
        BY <3>3
      <4> QED BY <4>1, <4>2
    <3> QED BY <2>11, <3>3, <3>5, <3>6, Zenon
  <2> QED BY <1>3, <2>7, <2>9, <2>10
<1>12. /\ ptr_' \in [block : 0..Len(blocks'), at : Nat] /\ Aligned(ptr_'.at)
       /\ IF ptr_'.block = 0 THEN ptr_'.at = 0 ELSE ptr_'.at <= Len(blocks'[ptr_'.block])
  <2>1. ptr_' = a.ptr /\ Len(blocks') = m /\ a.ptr \in [block : 0..m, at : Nat]
    BY <1>1, <1>7, <1>8
  <2>2. ASSUME a.ptr.block # 0 PROVE Len(blocks'[a.ptr.block]) = Len(more[a.ptr.block])
    <3>1. a.ptr.block \in 1..m
      BY <2>1, <2>2, <1>7
    <3> QED BY <3>1, <1>8
  <2> QED BY <2>1, <2>2, <1>7
<1> QED BY <1>8, <1>9, <1>10, <1>11, <1>12

\* What does not touch the arena and its map leaves the places and sizes alone.
LEMMA ArenaStays ==
  ASSUME PlacesInv, SizesInv, UNCHANGED <<blocks, ptr_, totalAllocatedSize_, bytesUsed_, map_>>
  PROVE  PlacesInv' /\ SizesInv'
<1>1. PlacesInv'
  BY DEF PlacesInv, Lies, Behind
<1>2. SizesInv'
  <2>1. SizesInv' <=> /\ \E h : Adds(h, blocks') /\ h[Len(blocks')] = totalAllocatedSize_'
                      /\ bytesUsed_' + (Str!Room)' <= totalAllocatedSize_'
    BY DEF SizesInv, Adds
  <2>2. (Str!Room)' = Str!Room
    BY DEF Str!Room
  <2>3. blocks' = blocks /\ totalAllocatedSize_' = totalAllocatedSize_ /\ bytesUsed_' = bytesUsed_
    OBVIOUS
  <2>4. (\E h : Adds(h, blocks) /\ h[Len(blocks)] = totalAllocatedSize_) /\ bytesUsed_ + Str!Room <= totalAllocatedSize_
    BY DEF SizesInv
  <2> QED BY <2>1, <2>2, <2>3, <2>4
<1> QED BY <1>1, <1>2

\* A hit: the stack retains what the cache has.
LEMMA HitKeeps ==
  ASSUME Str!CacheConstants, ArenaInv, NEW k \in Keys, Str!Hit(k)
  PROVE  ArenaInv'
<1>1. /\ k \in DOMAIN map_ /\ Len(stack) < MaxStack
      /\ retained' = [retained EXCEPT ![k] = @ + 1] /\ stack' = Append(stack, k)
      /\ UNCHANGED <<blocks, ptr_, totalAllocatedSize_, bytesUsed_, map_>>
  BY DEF Str!Hit
<1>2. PlacesInv' /\ SizesInv'
  BY <1>1, ArenaStays DEF ArenaInv
<1>3. StringTypes'
  <2>1. stack' \in Seq(Keys) /\ Len(stack') <= MaxStack
    BY <1>1 DEF ArenaInv, StringTypes, Str!CacheConstants
  <2>2. retained' \in [Keys -> Nat]
    BY <1>1 DEF ArenaInv, StringTypes
  <2> QED BY <1>1, <2>1, <2>2 DEF ArenaInv, StringTypes
<1>4. RetainInv'
  <2> SUFFICES ASSUME NEW l \in Keys
               PROVE  retained'[l] = (Str!Times(l))' + (IF l \in DOMAIN map_' THEN 1 ELSE 0)
    BY DEF RetainInv
  <2>1. Str!Times(l) = Occurs(stack, l) /\ (Str!Times(l))' = Occurs(stack', l)
    BY TimesIs
  <2>2. stack \in Seq(Keys) /\ retained \in [Keys -> Nat]
    BY DEF ArenaInv, StringTypes
  <2>6. Occurs(Append(stack, k), l) = Occurs(stack, l) + (IF l = k THEN 1 ELSE 0)
    BY <2>2, Pushed
  <2>7. Occurs(stack, l) \in 0..Len(stack) /\ Len(stack) \in Nat
    BY <2>2, OccursBound
  <2>3. Occurs(stack', l) = Occurs(stack, l) + (IF l = k THEN 1 ELSE 0) /\ Occurs(stack, l) \in Nat
    BY <1>1, <2>6, <2>7
  <2>4. retained[l] = Str!Times(l) + (IF l \in DOMAIN map_ THEN 1 ELSE 0)
    BY DEF ArenaInv, RetainInv
  <2>5. retained'[l] = IF l = k THEN retained[l] + 1 ELSE retained[l]
    BY <1>1, <2>2
  <2> QED BY <1>1, <2>1, <2>3, <2>4, <2>5
<1> QED BY <1>2, <1>3, <1>4 DEF ArenaInv

\* A miss: a new CFString, for the cache and the stack.
LEMMA MissKeeps ==
  ASSUME Str!CacheConstants, ArenaInv, NEW k \in Keys, Str!Miss(k)
  PROVE  ArenaInv'
<1>1. /\ k \notin DOMAIN map_ /\ Len(stack) < MaxStack /\ retained[k] = 0
      /\ Str!Insert(k)
      /\ retained' = [retained EXCEPT ![k] = 2] /\ stack' = Append(stack, k)
  BY DEF Str!Miss
<1>2. /\ blocks' \in Seq(Seq(Cells))
      /\ ptr_' \in [block : 0..Len(blocks'), at : Nat] /\ Aligned(ptr_'.at)
      /\ IF ptr_'.block = 0 THEN ptr_'.at = 0 ELSE ptr_'.at <= Len(blocks'[ptr_'.block])
      /\ totalAllocatedSize_' \in Nat /\ bytesUsed_' \in Nat
      /\ DOMAIN map_' = DOMAIN map_ \cup {k} /\ map_' \in [DOMAIN map_' -> [block : Nat, at : Nat]]
      /\ PlacesInv' /\ SizesInv'
  BY <1>1, InsertKeeps DEF ArenaInv
<1>3. StringTypes'
  <2>1. stack' \in Seq(Keys) /\ Len(stack') <= MaxStack
    BY <1>1 DEF ArenaInv, StringTypes, Str!CacheConstants
  <2>2. retained' \in [Keys -> Nat]
    BY <1>1 DEF ArenaInv, StringTypes
  <2>3. DOMAIN map_' \subseteq Keys
    BY <1>2 DEF ArenaInv, StringTypes
  <2> QED BY <1>2, <2>1, <2>2, <2>3 DEF StringTypes, Aligned
<1>4. RetainInv'
  <2> SUFFICES ASSUME NEW l \in Keys
               PROVE  retained'[l] = (Str!Times(l))' + (IF l \in DOMAIN map_' THEN 1 ELSE 0)
    BY DEF RetainInv
  <2>1. Str!Times(l) = Occurs(stack, l) /\ (Str!Times(l))' = Occurs(stack', l)
    BY TimesIs
  <2>2. stack \in Seq(Keys) /\ retained \in [Keys -> Nat]
    BY DEF ArenaInv, StringTypes
  <2>6. Occurs(Append(stack, k), l) = Occurs(stack, l) + (IF l = k THEN 1 ELSE 0)
    BY <2>2, Pushed
  <2>7. Occurs(stack, l) \in 0..Len(stack) /\ Len(stack) \in Nat
    BY <2>2, OccursBound
  <2>3. Occurs(stack', l) = Occurs(stack, l) + (IF l = k THEN 1 ELSE 0) /\ Occurs(stack, l) \in Nat
    BY <1>1, <2>6, <2>7
  <2>4. retained[l] = Str!Times(l) + (IF l \in DOMAIN map_ THEN 1 ELSE 0)
    BY DEF ArenaInv, RetainInv
  <2>5. retained'[l] = IF l = k THEN 2 ELSE retained[l]
    BY <1>1, <2>2
  <2> QED BY <1>1, <1>2, <2>1, <2>3, <2>4, <2>5
<1> QED BY <1>2, <1>3, <1>4 DEF ArenaInv

\* The stack lets go of its last CFString.
LEMMA PopKeeps ==
  ASSUME Str!CacheConstants, ArenaInv, Str!Pop
  PROVE  ArenaInv'
<1>1. /\ stack # <<>> /\ retained' = [retained EXCEPT ![stack[Len(stack)]] = @ - 1]
      /\ stack' = SubSeq(stack, 1, Len(stack) - 1)
      /\ UNCHANGED <<blocks, ptr_, totalAllocatedSize_, bytesUsed_, map_>>
  BY DEF Str!Pop
<1>2. PlacesInv' /\ SizesInv'
  BY <1>1, ArenaStays DEF ArenaInv
<1> DEFINE top == stack[Len(stack)]
<1>3. stack \in Seq(Keys) /\ retained \in [Keys -> Nat] /\ Len(stack) <= MaxStack /\ MaxStack \in Nat
  BY DEF ArenaInv, StringTypes, Str!CacheConstants
<1>4. /\ stack' \in Seq(Keys) /\ Len(stack') = Len(stack) - 1 /\ top \in Keys
      /\ \A k : Occurs(stack, k) = Occurs(stack', k) + (IF k = top THEN 1 ELSE 0)
  BY <1>1, <1>3, Popped
<1> HIDE DEF top
<1>5. ASSUME NEW l \in Keys
      PROVE  /\ retained'[l] = (IF l = top THEN retained[l] - 1 ELSE retained[l]) /\ retained'[l] \in Nat
             /\ retained'[l] = (Str!Times(l))' + (IF l \in DOMAIN map_' THEN 1 ELSE 0)
  <2>1. Str!Times(l) = Occurs(stack, l) /\ (Str!Times(l))' = Occurs(stack', l)
    BY TimesIs
  <2>2. Occurs(stack', l) \in Nat
    <3>1. Occurs(stack', l) \in 0..Len(stack') /\ Len(stack') \in Nat
      BY <1>4, OccursBound
    <3> QED BY <3>1
  <2>3. retained[l] = Str!Times(l) + (IF l \in DOMAIN map_ THEN 1 ELSE 0) /\ retained[l] \in Nat
    BY <1>3 DEF ArenaInv, RetainInv
  <2>4. retained'[l] = IF l = top THEN retained[l] - 1 ELSE retained[l]
    BY <1>1, <1>3 DEF top
  <2>5. Occurs(stack, l) = Occurs(stack', l) + (IF l = top THEN 1 ELSE 0) /\ map_' = map_
    BY <1>1, <1>4
  <2> QED BY <2>1, <2>2, <2>3, <2>4, <2>5
<1>6. RetainInv'
  BY <1>5 DEF RetainInv
<1>7. StringTypes'
  <2>1. Len(stack') <= MaxStack
    BY <1>3, <1>4
  <2>2. retained' \in [Keys -> Nat]
    <3>1. retained' = [l \in Keys |-> retained'[l]]
      BY <1>1, <1>3
    <3> QED BY <3>1, <1>5
  <2> QED BY <1>1, <1>4, <2>1, <2>2 DEF ArenaInv, StringTypes
<1> QED BY <1>2, <1>6, <1>7 DEF ArenaInv

\* Keys go from the cache, which releases their CFStrings.
LEMMA ReleasedIs ==
  ASSUME Str!CacheConstants, ArenaInv, NEW ks \in SUBSET DOMAIN map_, retained' = Str!Released(ks),
         DOMAIN map_' = DOMAIN map_ \ ks, UNCHANGED stack
  PROVE  RetainInv' /\ retained' \in [Keys -> Nat]
<1>1. retained' = [l \in Keys |-> IF l \in ks THEN retained[l] - 1 ELSE retained[l]]
  BY DEF Str!Released
<1>2. stack \in Seq(Keys) /\ retained \in [Keys -> Nat] /\ stack' = stack
  BY DEF ArenaInv, StringTypes
<1>3. ASSUME NEW l \in Keys
      PROVE  retained'[l] \in Nat /\ retained'[l] = (Str!Times(l))' + (IF l \in DOMAIN map_' THEN 1 ELSE 0)
  <2>1. Str!Times(l) = Occurs(stack, l) /\ (Str!Times(l))' = Occurs(stack', l)
    BY TimesIs
  <2>2. Occurs(stack, l) \in Nat
    <3>1. Occurs(stack, l) \in 0..Len(stack) /\ Len(stack) \in Nat
      BY <1>2, OccursBound
    <3> QED BY <3>1
  <2>3. retained[l] = Str!Times(l) + (IF l \in DOMAIN map_ THEN 1 ELSE 0)
    BY DEF ArenaInv, RetainInv
  <2>4. retained'[l] = IF l \in ks THEN retained[l] - 1 ELSE retained[l]
    BY <1>1
  <2>5. l \in DOMAIN map_' <=> l \in DOMAIN map_ /\ l \notin ks
    OBVIOUS
  <2> QED BY <1>2, <2>1, <2>2, <2>3, <2>4, <2>5
<1> QED BY <1>1, <1>3 DEF RetainInv

LEMMA EraseKeeps ==
  ASSUME Str!CacheConstants, ArenaInv, NEW k \in Keys, Str!Erase(k)
  PROVE  ArenaInv'
<1>1. /\ k \in DOMAIN map_ /\ retained' = Str!Released({k}) /\ map_' = [l \in DOMAIN map_ \ {k} |-> map_[l]]
      /\ UNCHANGED <<blocks, ptr_, totalAllocatedSize_, bytesUsed_, stack>>
  BY DEF Str!Erase, Str!Without
<1>2. /\ DOMAIN map_' = DOMAIN map_ \ {k} /\ \A l \in DOMAIN map_' : map_'[l] = map_[l] /\ l \in DOMAIN map_
      /\ map_' \in [DOMAIN map_' -> [block : Nat, at : Nat]]
  BY <1>1 DEF ArenaInv, StringTypes
<1>3. RetainInv' /\ retained' \in [Keys -> Nat]
  BY <1>1, <1>2, ReleasedIs
<1>4. PlacesInv'
  BY <1>1, <1>2 DEF ArenaInv, PlacesInv, Lies, Behind
<1>5. SizesInv'
  <2>1. SizesInv' <=> /\ \E h : Adds(h, blocks') /\ h[Len(blocks')] = totalAllocatedSize_'
                      /\ bytesUsed_' + (Str!Room)' <= totalAllocatedSize_'
    BY DEF SizesInv, Adds
  <2>2. (Str!Room)' = Str!Room
    BY <1>1 DEF Str!Room
  <2>3. (\E h : Adds(h, blocks) /\ h[Len(blocks)] = totalAllocatedSize_) /\ bytesUsed_ + Str!Room <= totalAllocatedSize_
    BY DEF ArenaInv, SizesInv
  <2> QED BY <1>1, <2>1, <2>2, <2>3
<1>6. StringTypes'
  BY <1>1, <1>2, <1>3 DEF ArenaInv, StringTypes, Aligned
<1> QED BY <1>3, <1>4, <1>5, <1>6 DEF ArenaInv

\* Without blocks the sum is 0.
LEMMA NoBlocks ==
  ASSUME NEW bl, Len(bl) = 0
  PROVE  \E f : Adds(f, bl) /\ f[Len(bl)] = 0
<1> DEFINE f == [n \in 0..0 |-> 0]
<1>1. f = [n \in 0..Len(bl) |-> f[n]] /\ f[0] = 0 /\ \A i \in 1..Len(bl) : FALSE
  OBVIOUS
<1>3. f[Len(bl)] = 0
  OBVIOUS
<1> HIDE DEF f
<1>2. Adds(f, bl)
  <2>1. Len(bl) \in Nat
    OBVIOUS
  <2>2. /\ f = [i \in 0..Len(bl) |-> f[i]] /\ f[0] = 0
        /\ \A i \in 1..Len(bl) : f[i] = f[i - 1] + Len(bl[i]) + BlockHeader
    BY <1>1, Zenon
  <2> QED BY <2>1, <2>2, AddsIs, Zenon
<1> QED BY <1>2, <1>3

\* An arena without blocks, and a cache without keys.
LEMMA EmptyArena ==
  ASSUME blocks = <<>>, ptr_ = Str!Null, totalAllocatedSize_ = 0, bytesUsed_ = 0, DOMAIN map_ = {},
         MaxAlign \in Nat \ {0}
  PROVE  /\ PlacesInv /\ SizesInv
         /\ blocks \in Seq(Seq(Cells)) /\ ptr_ \in [block : 0..Len(blocks), at : Nat] /\ Aligned(ptr_.at)
         /\ ptr_.block = 0 /\ ptr_.at = 0
<1>1. Len(blocks) = 0 /\ blocks \in Seq(Seq(Cells))
  OBVIOUS
<1>2. ptr_.block = 0 /\ ptr_.at = 0 /\ ptr_ \in [block : 0..Len(blocks), at : Nat]
  BY <1>1 DEF Str!Null
<1>3. Aligned(ptr_.at)
  BY <1>2 DEF Aligned
<1>4. PlacesInv
  BY DEF PlacesInv
<1>5. SizesInv
  <2>2. \E f : Adds(f, blocks) /\ f[Len(blocks)] = totalAllocatedSize_
    BY <1>1, NoBlocks
  <2>4. bytesUsed_ + Str!Room <= totalAllocatedSize_
    BY <1>2 DEF Str!Room
  <2> QED BY <2>2, <2>4 DEF SizesInv
<1> QED BY <1>1, <1>2, <1>3, <1>4, <1>5

LEMMA ClearKeeps ==
  ASSUME Str!CacheConstants, ArenaInv, Str!Clear
  PROVE  ArenaInv'
<1>1. /\ retained' = Str!Released(DOMAIN map_) /\ map_' = [k \in {} |-> Str!Null]
      /\ blocks' = <<>> /\ ptr_' = Str!Null /\ totalAllocatedSize_' = 0 /\ bytesUsed_' = 0 /\ stack' = stack
  BY DEF Str!Clear, Str!ClearArena
<1>2. DOMAIN map_' = {} /\ map_' \in [DOMAIN map_' -> [block : Nat, at : Nat]]
  BY <1>1
<1>3. RetainInv' /\ retained' \in [Keys -> Nat]
  BY <1>1, <1>2, ReleasedIs
<1>4. MaxAlign \in Nat \ {0}
  BY DEF Str!CacheConstants
<1>5. /\ PlacesInv' /\ SizesInv'
      /\ blocks' \in Seq(Seq(Cells)) /\ ptr_' \in [block : 0..Len(blocks'), at : Nat] /\ Aligned(ptr_'.at)
      /\ ptr_'.block = 0 /\ ptr_'.at = 0
  <2>1. Len(blocks') = 0 /\ blocks' \in Seq(Seq(Cells))
    BY <1>1
  <2>2. ptr_'.block = 0 /\ ptr_'.at = 0 /\ ptr_' \in [block : 0..Len(blocks'), at : Nat]
    BY <1>1, <2>1 DEF Str!Null
  <2>3. Aligned(ptr_'.at)
    BY <1>4, <2>2 DEF Aligned
  <2>4. PlacesInv'
    BY <1>2 DEF PlacesInv
  <2>5. SizesInv'
    <3>2. \E f : Adds(f, blocks') /\ f[Len(blocks')] = totalAllocatedSize_'
      BY <1>1, <2>1, NoBlocks
    <3>4. bytesUsed_' + (Str!Room)' <= totalAllocatedSize_'
      <4>1. (Str!Room)' = 0
        BY <2>2 DEF Str!Room
      <4> QED BY <4>1, <1>1
    <3>5. SizesInv' <=> /\ \E h : Adds(h, blocks') /\ h[Len(blocks')] = totalAllocatedSize_'
                        /\ bytesUsed_' + (Str!Room)' <= totalAllocatedSize_'
      BY DEF SizesInv, Adds
    <3> QED BY <3>2, <3>4, <3>5
  <2> QED BY <2>1, <2>2, <2>3, <2>4, <2>5
<1>6. StringTypes'
  BY <1>1, <1>2, <1>3, <1>5 DEF ArenaInv, StringTypes, Aligned
<1> QED BY <1>3, <1>5, <1>6 DEF ArenaInv

\* The characters of the cache's keys stay where they are, every CFString is retained
\* as often as it is held, and the arena's counters agree with its blocks.
THEOREM CacheKeepsKeys ==
  ASSUME Str!CacheConstants
  PROVE  Str!Spec => [](Str!TypeOK /\ Str!KeysIntact)
<1>1. Str!Init => ArenaInv
  <2> SUFFICES ASSUME Str!Init PROVE ArenaInv
    OBVIOUS
  <2>1. /\ blocks = <<>> /\ ptr_ = Str!Null /\ totalAllocatedSize_ = 0 /\ bytesUsed_ = 0
        /\ map_ = [k \in {} |-> Str!Null] /\ retained = [s \in Keys |-> 0] /\ stack = <<>>
    BY DEF Str!Init
  <2>2. DOMAIN map_ = {} /\ map_ \in [DOMAIN map_ -> [block : Nat, at : Nat]] /\ MaxAlign \in Nat \ {0} /\ MaxStack \in Nat
    BY <2>1 DEF Str!CacheConstants
  <2>3. /\ PlacesInv /\ SizesInv
        /\ blocks \in Seq(Seq(Cells)) /\ ptr_ \in [block : 0..Len(blocks), at : Nat] /\ Aligned(ptr_.at)
        /\ ptr_.block = 0 /\ ptr_.at = 0
    BY <2>1, <2>2, EmptyArena
  <2>4. stack \in Seq(Keys) /\ Len(stack) = 0 /\ retained \in [Keys -> Nat]
    BY <2>1
  <2>5. StringTypes
    BY <2>1, <2>2, <2>3, <2>4 DEF StringTypes
  <2>6. RetainInv
    <3> SUFFICES ASSUME NEW k \in Keys PROVE retained[k] = Str!Times(k) + (IF k \in DOMAIN map_ THEN 1 ELSE 0)
      BY DEF RetainInv
    <3>2. Str!Times(k) = Occurs(stack, k)
      BY TimesIs
    <3>3. Occurs(stack, k) \in 0..Len(stack)
      BY <2>4, OccursBound
    <3>1. Str!Times(k) = 0
      BY <3>2, <3>3, <2>4
    <3> QED BY <3>1, <2>1, <2>2
  <2> QED BY <2>3, <2>5, <2>6 DEF ArenaInv
<1>2. ArenaInv /\ [Str!Next]_Str!vars => ArenaInv'
  <2> SUFFICES ASSUME ArenaInv, [Str!Next]_Str!vars PROVE ArenaInv'
    OBVIOUS
  <2>1. ASSUME NEW k \in Keys, Str!Hit(k) PROVE ArenaInv'
    BY <2>1, HitKeeps
  <2>2. ASSUME NEW k \in Keys, Str!Miss(k) PROVE ArenaInv'
    BY <2>2, MissKeeps
  <2>3. ASSUME NEW k \in Keys, Str!Erase(k) PROVE ArenaInv'
    BY <2>3, EraseKeeps
  <2>4. CASE Str!Pop
    BY <2>4, PopKeeps
  <2>5. CASE Str!Clear
    BY <2>5, ClearKeeps
  <2>6. CASE UNCHANGED Str!vars
    <3>1. UNCHANGED <<blocks, ptr_, totalAllocatedSize_, bytesUsed_, map_>> /\ UNCHANGED <<retained, stack>>
      BY <2>6 DEF Str!vars
    <3>2. PlacesInv' /\ SizesInv'
      BY <3>1, ArenaStays DEF ArenaInv
    <3>3. StringTypes' /\ RetainInv'
      BY <3>1 DEF ArenaInv, StringTypes, RetainInv, Str!Times, Aligned
    <3> QED BY <3>2, <3>3 DEF ArenaInv
  <2> QED BY <2>1, <2>2, <2>3, <2>4, <2>5, <2>6 DEF Str!Next
<1>3. ArenaInv => Str!TypeOK /\ Str!KeysIntact
  <2> SUFFICES ASSUME ArenaInv PROVE Str!TypeOK /\ Str!KeysIntact
    OBVIOUS
  <2> USE DEF ArenaInv
  <2>1. \A k \in Keys : Str!Times(k) \in 0..Len(stack)
    BY OccursBound, TimesIs DEF StringTypes
  <2>2. \A k \in Keys : retained[k] = Str!Times(k) + (IF k \in DOMAIN map_ THEN 1 ELSE 0)
    BY DEF RetainInv
  <2>3. \A k \in Keys : retained[k] \in 0..(MaxStack + 1)
    <3>1. Len(stack) \in Nat /\ Len(stack) <= MaxStack /\ MaxStack \in Nat
      BY DEF StringTypes, Str!CacheConstants
    <3> QED BY <3>1, <2>1, <2>2
  <2>4. ptr_.block \in 0..Len(blocks) /\ DOMAIN map_ \subseteq Keys
    BY DEF StringTypes
  <2>5. Str!Room \in Nat
    <3>1. CASE ptr_.block = 0
      BY <3>1 DEF Str!Room
    <3>2. CASE ptr_.block # 0
      <4>1. ptr_.block \in 1..Len(blocks) /\ ptr_.at \in Nat /\ ptr_.at <= Len(blocks[ptr_.block])
        BY <3>2 DEF StringTypes
      <4>2. blocks[ptr_.block] \in Seq(Cells)
        BY <4>1, ElementOfSeq DEF StringTypes
      <4>3. Len(blocks[ptr_.block]) \in Nat
        BY <4>2
      <4> QED BY <3>2, <4>1, <4>3 DEF Str!Room
    <3> QED BY <3>1, <3>2
  <2>6. Str!TypeOK
    BY <2>3, <2>4, <2>5 DEF Str!TypeOK
  <2>7. ASSUME NEW k \in DOMAIN map_
        PROVE  /\ map_[k].at % MaxAlign = 0
               /\ \A c \in 0..(Length[k] * CharSize - 1) :
                    /\ map_[k].block \in DOMAIN blocks /\ map_[k].at + c + 1 \in DOMAIN blocks[map_[k].block]
                    /\ blocks[map_[k].block][map_[k].at + c + 1] = <<k, c \div CharSize>>
    <3>1. map_[k].at % MaxAlign = 0 /\ (Length[k] # 0 => Lies(blocks, k, map_[k]))
      BY DEF PlacesInv, Aligned
    <3> DEFINE p == map_[k].block
               at == map_[k].at
               e == Length[k] * CharSize
    <3>2. k \in Keys /\ p \in Nat /\ at \in Nat
      BY DEF StringTypes
    <3>3. e \in Nat /\ (Length[k] = 0 => e = 0)
      BY <3>2 DEF Str!CacheConstants
    <3>4. ASSUME NEW c \in 0..(e - 1)
          PROVE  p \in DOMAIN blocks /\ at + c + 1 \in DOMAIN blocks[p] /\ blocks[p][at + c + 1] = <<k, c \div CharSize>>
      <4>1. Length[k] # 0
        BY <3>3, <3>4
      <4>2. p \in 1..Len(blocks) /\ at + e <= Len(blocks[p]) /\ blocks[p][at + c + 1] = <<k, c \div CharSize>>
        BY <4>1, <3>1 DEF Lies, Bytes
      <4>3. blocks[p] \in Seq(Cells) /\ p \in DOMAIN blocks
        BY <4>2, ElementOfSeq DEF StringTypes
      <4> HIDE DEF p, at, e
      <4>4. DOMAIN blocks[p] = 1..Len(blocks[p]) /\ Len(blocks[p]) \in Nat
        BY <4>3
      <4>5. at + c + 1 \in 1..Len(blocks[p])
        BY <4>2, <4>4, <3>2, <3>3
      <4> QED BY <4>2, <4>3, <4>4, <4>5
    <3> QED BY <3>1, <3>4
  <2>8. totalAllocatedSize_ = Str!Total[Len(blocks)] /\ bytesUsed_ <= totalAllocatedSize_
    <3>1. PICK f : Adds(f, blocks) /\ f[Len(blocks)] = totalAllocatedSize_
      BY DEF SizesInv
    <3>2. Str!Total = f
      BY <3>1, TotalIs DEF Str!CacheConstants
    <3>3. bytesUsed_ + Str!Room <= totalAllocatedSize_ /\ bytesUsed_ \in Nat /\ totalAllocatedSize_ \in Nat
      BY DEF SizesInv, StringTypes
    <3>4. bytesUsed_ <= totalAllocatedSize_
      BY <3>3, <2>5
    <3> QED BY <3>1, <3>2, <3>4
  <2> QED BY <2>2, <2>6, <2>7, <2>8 DEF Str!KeysIntact
<1> QED BY <1>1, <1>2, <1>3, PTL DEF Str!Spec
-----------------------------------------------------------------------------
\* base64
CONSTANTS ByteTexts, Base64Texts
VARIABLES direction, input, place, output, thrown, origin
Base == INSTANCE Base64

\* The provers do better without large numbers: a byte, the value of a character, and
\* that characters have the bits of the bytes they stand for.
Byte == 0..255
Sextet == 0..63
One(p, q, a) == p * 64 + q = a * 16
Two(p, q, r, a, b) == (p * 64 + q) * 64 + r = (a * 256 + b) * 4
Three(p, q, r, z, a, b, c) == (p * 64 + q) * 4096 + (r * 64 + z) = a * 65536 + b * 256 + c

\* What the g-th four characters of s say about the g-th three bytes of t, or about those that are left.
Says(s, t, g) ==
  /\ s[4 * g + 1] \in Sextet /\ s[4 * g + 2] \in Sextet
  /\ 3 * g + 1 = Len(t) => /\ s[4 * g + 3] = Base!Pad /\ s[4 * g + 4] = Base!Pad
                           /\ One(s[4 * g + 1], s[4 * g + 2], t[3 * g + 1])
  /\ 3 * g + 2 = Len(t) => /\ s[4 * g + 3] \in Sextet /\ s[4 * g + 4] = Base!Pad
                           /\ Two(s[4 * g + 1], s[4 * g + 2], s[4 * g + 3], t[3 * g + 1], t[3 * g + 2])
  /\ 3 * g + 3 <= Len(t) => /\ s[4 * g + 3] \in Sextet /\ s[4 * g + 4] \in Sextet
                            /\ Three(s[4 * g + 1], s[4 * g + 2], s[4 * g + 3], s[4 * g + 4],
                                     t[3 * g + 1], t[3 * g + 2], t[3 * g + 3])

\* s is what is encoded of the first n bytes of t.
Codes(s, t, n) ==
  /\ Len(s) = 4 * ((n + 2) \div 3)
  /\ \A g \in Nat : 3 * g < n => Says(s, t, g)

EncodesInv ==
  direction = "encode" =>
    /\ origin.direction = "encode" /\ origin.input = input /\ thrown = "no" /\ input \in Seq(Byte)
    /\ (place - 1) % 3 = 0 \/ place = Len(input) + 1
    /\ Codes(output, input, place - 1)
DecodesInv ==
  direction = "decode" =>
    /\ (place - 1) % 4 = 0
    /\ \A i \in 1..(place - 1) : Base!IsCharacter(input[i]) \/ (input[i] = Base!Pad /\ i >= Len(input) - 1)
    /\ place <= Len(input) => \A i \in 1..(place - 1) : Base!IsCharacter(input[i])
    /\ place = Len(input) + 1 /\ input # <<>> => (input[Len(input) - 1] = Base!Pad => input[Len(input)] = Base!Pad)
    /\ Len(output) = 3 * ((place - 1) \div 4) - IF place = Len(input) + 1 THEN Base!Pads(input) ELSE 0
    /\ thrown # "no" => origin.direction = "decode" /\ ~Base!WellFormed(input)
    /\ origin.direction = "encode" =>
         /\ origin.input \in Seq(Byte)
         /\ Codes(input, origin.input, Len(origin.input))
         /\ IF place <= Len(input) THEN Len(output) = 3 * ((place - 1) \div 4) ELSE Len(output) = Len(origin.input)
         /\ \A i \in 1..Len(output) : i <= Len(origin.input) /\ output[i] = origin.input[i]
BaseTypes ==
  /\ direction \in {"encode", "decode"} /\ input \in Seq(Nat) /\ output \in Seq(Byte)
  /\ place \in Nat /\ 1 <= place /\ place <= Len(input) + 1
  /\ origin.direction \in {"encode", "decode"}
BaseInv == BaseTypes /\ EncodesInv /\ DecodesInv

\* Twenty-four bits are as many in four parts as in three, and those of the bytes that
\* are not there are zero.
LEMMA Sextets ==
  ASSUME NEW a \in Byte, NEW b \in Byte, NEW c \in Byte, NEW n, n = a * 65536 + b * 256 + c
  PROVE  /\ (n \div 262144) % 64 \in Sextet /\ (n \div 4096) % 64 \in Sextet
         /\ (n \div 64) % 64 \in Sextet /\ n % 64 \in Sextet
         /\ Three((n \div 262144) % 64, (n \div 4096) % 64, (n \div 64) % 64, n % 64, a, b, c)
<1>1. n \in Nat /\ n < 16777216
  BY DEF Byte
<1>2. \A m \in Nat : m < 16777216 =>
        /\ (m \div 262144) % 64 \in Sextet /\ (m \div 4096) % 64 \in Sextet
        /\ (m \div 64) % 64 \in Sextet /\ m % 64 \in Sextet
        /\ (((m \div 262144) % 64) * 64 + ((m \div 4096) % 64)) * 4096 + (((m \div 64) % 64) * 64 + (m % 64)) = m
  BY SMTT(60) DEF Sextet
<1> QED BY <1>1, <1>2, SMT DEF Three

LEMMA ShortGroups ==
  ASSUME NEW p \in Sextet, NEW q \in Sextet, NEW r \in Sextet, NEW z \in Sextet,
         NEW a \in Byte, NEW b \in Byte, NEW c \in Byte, Three(p, q, r, z, a, b, c)
  PROVE  /\ b = 0 /\ c = 0 => One(p, q, a)
         /\ c = 0 => Two(p, q, r, a, b)
BY SMT DEF Three, Two, One, Sextet, Byte

LEMMA Parts ==
  /\ \A x \in Nat : x % 3 = 0 => x \div 3 \in Nat /\ x = 3 * (x \div 3)
  /\ \A x \in Nat : x % 4 = 0 => x \div 4 \in Nat /\ x = 4 * (x \div 4)
  /\ \A x \in Nat : (3 * x + 2) \div 3 = x
  /\ \A x \in Nat : (3 * x + 1 + 2) \div 3 = x + 1 /\ (3 * x + 2 + 2) \div 3 = x + 1 /\ (3 * x + 3 + 2) \div 3 = x + 1
  /\ \A x \in Nat : (3 * x) % 3 = 0 /\ (3 * x + 3) % 3 = 0 /\ (4 * x) % 4 = 0 /\ (4 * x) \div 4 = x
OBVIOUS

\* Four more characters.
LEMMA FourMore ==
  ASSUME NEW S, NEW s \in Seq(S), NEW c1 \in S, NEW c2 \in S, NEW c3 \in S, NEW c4 \in S
  PROVE  LET u == s \o <<c1, c2, c3, c4>>
         IN  /\ u \in Seq(S) /\ Len(u) = Len(s) + 4
             /\ \A i \in 1..Len(s) : u[i] = s[i]
             /\ u[Len(s) + 1] = c1 /\ u[Len(s) + 2] = c2 /\ u[Len(s) + 3] = c3 /\ u[Len(s) + 4] = c4
<1>1. <<c1, c2, c3, c4>> \in Seq(S) /\ Len(<<c1, c2, c3, c4>>) = 4
  OBVIOUS
<1> QED BY <1>1

\* One round of encodeBase64, with three bytes or with as many as are left.
LEMMA GroupSays ==
  ASSUME NEW t \in Seq(Byte), NEW g \in Nat, NEW left \in Nat, left = Len(t) - 3 * g, left > 0,
         NEW p \in Sextet, NEW q \in Sextet, NEW r \in Sextet, NEW z \in Sextet,
         NEW a \in Byte, NEW b \in Byte, NEW c \in Byte, Three(p, q, r, z, a, b, c),
         a = t[3 * g + 1], b = (IF left >= 2 THEN t[3 * g + 2] ELSE 0), c = (IF left >= 3 THEN t[3 * g + 3] ELSE 0),
         NEW u, u[4 * g + 1] = p, u[4 * g + 2] = q,
         u[4 * g + 3] = (IF left >= 2 THEN r ELSE Base!Pad), u[4 * g + 4] = (IF left >= 3 THEN z ELSE Base!Pad)
  PROVE  Says(u, t, g)
<1>1. /\ b = 0 /\ c = 0 => One(p, q, a)
      /\ c = 0 => Two(p, q, r, a, b)
  BY ShortGroups
<1>2. left >= 3 \/ left = 2 \/ left = 1
  OBVIOUS
<1>3. CASE left >= 3
  <2>1. 3 * g + 3 <= Len(t) /\ 3 * g + 1 # Len(t) /\ 3 * g + 2 # Len(t) /\ left >= 2
    BY <1>3
  <2> QED BY <1>3, <2>1 DEF Says
<1>4. CASE left = 2
  <2>1. 3 * g + 2 = Len(t) /\ 3 * g + 1 # Len(t) /\ ~(3 * g + 3 <= Len(t)) /\ left >= 2 /\ ~(left >= 3)
    BY <1>4
  <2> QED BY <1>1, <1>4, <2>1 DEF Says
<1>5. CASE left = 1
  <2>1. 3 * g + 1 = Len(t) /\ 3 * g + 2 # Len(t) /\ ~(3 * g + 3 <= Len(t)) /\ ~(left >= 2) /\ ~(left >= 3)
    BY <1>5
  <2> QED BY <1>1, <1>5, <2>1 DEF Says
<1> QED BY <1>2, <1>3, <1>4, <1>5

LEMMA EncodeStep ==
  ASSUME BaseInv, Base!Encode PROVE BaseInv'
<1>1. /\ direction = "encode" /\ direction' = "encode" /\ input' = input /\ thrown' = thrown /\ origin' = origin
      /\ Len(input) - place + 1 > 0
  BY DEF Base!Encode, Base!Left
<1>2. /\ place \in Nat /\ place >= 1 /\ place <= Len(input) + 1 /\ output \in Seq(Byte) /\ input \in Seq(Nat)
      /\ origin.direction \in {"encode", "decode"}
  BY DEF BaseInv, BaseTypes
<1>3. /\ origin.direction = "encode" /\ origin.input = input /\ thrown = "no"
      /\ (place - 1) % 3 = 0 \/ place = Len(input) + 1
  BY <1>1 DEF BaseInv, EncodesInv
<1>a. input \in Seq(Byte) /\ Len(input) \in Nat
  BY <1>1 DEF BaseInv, EncodesInv
<1>b. Codes(output, input, place - 1)
  BY <1>1 DEF BaseInv, EncodesInv
<1>4. (place - 1) % 3 = 0 /\ place - 1 \in Nat
  BY <1>1, <1>2, <1>3, <1>a
<1>5. PICK g \in Nat : place - 1 = 3 * g
  BY <1>4, Parts
<1>6. place = 3 * g + 1 /\ 3 * g < Len(input)
  BY <1>1, <1>2, <1>5, <1>a
<1>c. Len(output) = 4 * g
  <2>1. Len(output) = 4 * ((3 * g + 2) \div 3)
    BY <1>b, <1>5 DEF Codes
  <2> QED BY <2>1, Parts
<1> DEFINE left == Base!Left
           byte(i) == IF i < left THEN input[place + i] ELSE 0
           a == byte(0)
           b == byte(1)
           c == byte(2)
           n == a * 65536 + b * 256 + c
           p == (n \div 262144) % 64
           q == (n \div 4096) % 64
           r == (n \div 64) % 64
           z == n % 64
           c3 == IF left >= 2 THEN r ELSE Base!Pad
           c4 == IF left >= 3 THEN z ELSE Base!Pad
<1>7. left = Len(input) - 3 * g /\ left \in Nat /\ left > 0
  BY <1>a, <1>6 DEF Base!Left
<1>8. output' = output \o <<p, q, c3, c4>>
  BY DEF Base!Encode
<1>9. place' = IF left >= 3 THEN place + 3 ELSE Len(input) + 1
  BY DEF Base!Encode
<1>10. a = input[3 * g + 1] /\ b = (IF left >= 2 THEN input[3 * g + 2] ELSE 0) /\ c = (IF left >= 3 THEN input[3 * g + 3] ELSE 0)
  <2>1. place + 0 = 3 * g + 1 /\ place + 1 = 3 * g + 2 /\ place + 2 = 3 * g + 3
    BY <1>6
  <2>2. 0 < left /\ (1 < left <=> left >= 2) /\ (2 < left <=> left >= 3)
    BY <1>7
  <2> HIDE DEF left
  <2> QED BY <2>1, <2>2, Zenon
<1> HIDE DEF left, byte
<1>11. a \in Byte /\ b \in Byte /\ c \in Byte
  <2>1. /\ 3 * g + 1 \in 1..Len(input)
        /\ left >= 2 => 3 * g + 2 \in 1..Len(input)
        /\ left >= 3 => 3 * g + 3 \in 1..Len(input)
    BY <1>a, <1>7
  <2>2. \A i \in 1..Len(input) : input[i] \in Byte
    BY <1>a
  <2>3. 0 \in Byte
    BY DEF Byte
  <2> HIDE DEF a, b, c
  <2> QED BY <1>10, <2>1, <2>2, <2>3, Zenon
<1> HIDE DEF a, b, c
<1>12. p \in Sextet /\ q \in Sextet /\ r \in Sextet /\ z \in Sextet /\ Three(p, q, r, z, a, b, c)
  <2> HIDE DEF n
  <2>1. n = a * 65536 + b * 256 + c
    BY DEF n
  <2> QED BY <1>11, <2>1, Sextets
<1> HIDE DEF p, q, r, z
<1>d. Sextet \subseteq Byte /\ Base!Pad \in Byte
  BY DEF Sextet, Byte, Base!Pad
<1>13. /\ output' \in Seq(Byte) /\ Len(output') = 4 * g + 4 /\ \A i \in 1..(4 * g) : output'[i] = output[i]
       /\ output'[4 * g + 1] = p /\ output'[4 * g + 2] = q /\ output'[4 * g + 3] = c3 /\ output'[4 * g + 4] = c4
  <2>1. p \in Byte /\ q \in Byte /\ c3 \in Byte /\ c4 \in Byte
    BY <1>12, <1>d
  <2> HIDE DEF c3, c4
  <2>2. LET u == output \o <<p, q, c3, c4>>
        IN  /\ u \in Seq(Byte) /\ Len(u) = Len(output) + 4
            /\ \A i \in 1..Len(output) : u[i] = output[i]
            /\ u[Len(output) + 1] = p /\ u[Len(output) + 2] = q /\ u[Len(output) + 3] = c3 /\ u[Len(output) + 4] = c4
    <3>1. output \in Seq(Byte)
      BY <1>2
    <3> QED BY <2>1, <3>1, FourMore
  <2> QED BY <1>8, <1>c, <2>2
<1>14. Says(output', input, g)
  <2>1. /\ output'[4 * g + 1] = p /\ output'[4 * g + 2] = q
        /\ output'[4 * g + 3] = (IF left >= 2 THEN r ELSE Base!Pad) /\ output'[4 * g + 4] = (IF left >= 3 THEN z ELSE Base!Pad)
    BY <1>13 DEF c3, c4
  <2> HIDE DEF c3, c4, n
  <2> QED BY <1>7, <1>10, <1>11, <1>12, <1>a, <2>1, GroupSays, Zenon
<1> HIDE DEF c3, c4
<1>15. \E k \in 1..3 : place' - 1 = 3 * g + k /\ (k = 3 \/ place' = Len(input) + 1) /\ place' <= Len(input) + 1
  <2>1. CASE left >= 3
    BY <1>6, <1>7, <1>9, <1>a, <2>1
  <2>2. CASE left = 2
    <3>1. place' - 1 = 3 * g + 2 /\ place' = Len(input) + 1
      BY <1>7, <1>9, <1>a, <2>2
    <3> QED BY <3>1, <1>a
  <2>3. CASE left = 1
    <3>1. place' - 1 = 3 * g + 1 /\ place' = Len(input) + 1
      BY <1>7, <1>9, <1>a, <2>3
    <3> QED BY <3>1, <1>a
  <2> QED BY <1>7, <2>1, <2>2, <2>3
<1>16. /\ place' \in Nat /\ place' >= 1 /\ place' <= Len(input) + 1 /\ place' - 1 <= 3 * g + 3
       /\ (place' - 1) % 3 = 0 \/ place' = Len(input) + 1
       /\ ((place' - 1) + 2) \div 3 = g + 1
  <2>1. PICK k \in 1..3 : place' - 1 = 3 * g + k /\ (k = 3 \/ place' = Len(input) + 1) /\ place' <= Len(input) + 1
    BY <1>15
  <2>2. place' = 3 * g + k + 1
    BY <1>9, <1>2, <1>a, <2>1
  <2>3. k = 1 \/ k = 2 \/ k = 3
    BY <2>1
  <2>4. ((place' - 1) + 2) \div 3 = g + 1
    <3>1. ((3 * g + 1) + 2) \div 3 = g + 1 /\ ((3 * g + 2) + 2) \div 3 = g + 1 /\ ((3 * g + 3) + 2) \div 3 = g + 1
      BY Parts
    <3> QED BY <2>1, <2>3, <3>1
  <2>5. k = 3 => (place' - 1) % 3 = 0
    <3>1. (3 * g + 3) % 3 = 0
      BY Parts
    <3> QED BY <2>1, <3>1
  <2>6. place' \in Nat /\ place' >= 1 /\ place' - 1 <= 3 * g + 3
    BY <2>2, <2>3
  <2> QED BY <2>1, <2>4, <2>5, <2>6
<1>17. Codes(output', input, place' - 1)
  <2>1. Len(output') = 4 * (((place' - 1) + 2) \div 3)
    BY <1>13, <1>16
  <2>2. ASSUME NEW h \in Nat, 3 * h < place' - 1 PROVE Says(output', input, h)
    <3>1. CASE h = g
      BY <3>1, <1>14
    <3>2. CASE h # g
      <4>1. 3 * h < 3 * g + 3
        <5>1. PICK k \in 1..3 : place' - 1 = 3 * g + k
          BY <1>15
        <5>2. 3 * h < 3 * g + k
          BY <2>2, <5>1
        <5> QED BY <5>2
      <4>2. h < g
        BY <3>2, <4>1
      <4>3. Says(output, input, h)
        BY <1>b, <1>5, <4>2 DEF Codes
      <4>4. /\ output'[4 * h + 1] = output[4 * h + 1] /\ output'[4 * h + 2] = output[4 * h + 2]
            /\ output'[4 * h + 3] = output[4 * h + 3] /\ output'[4 * h + 4] = output[4 * h + 4]
        <5>1. 4 * h + 1 \in 1..(4 * g) /\ 4 * h + 2 \in 1..(4 * g) /\ 4 * h + 3 \in 1..(4 * g) /\ 4 * h + 4 \in 1..(4 * g)
          BY <4>2
        <5> QED BY <1>13, <5>1
      <4> QED BY <4>3, <4>4, Zenon DEF Says
    <3> QED BY <3>1, <3>2
  <2> QED BY <2>1, <2>2 DEF Codes
<1>18. BaseTypes'
  BY <1>1, <1>2, <1>13, <1>16 DEF BaseTypes
<1>19. EncodesInv'
  BY <1>1, <1>3, <1>16, <1>17, <1>a DEF EncodesInv
<1>20. DecodesInv'
  BY <1>1 DEF DecodesInv
<1> QED BY <1>18, <1>19, <1>20 DEF BaseInv

\* The client turns to decode what was encoded.
LEMMA TurnStep ==
  ASSUME BaseInv, Base!Turn PROVE BaseInv'
<1>1. /\ direction = "encode" /\ direction' = "decode" /\ input' = output /\ output' = <<>> /\ place' = 1
      /\ thrown' = thrown /\ origin' = origin
  BY DEF Base!Turn
<1>2. /\ place \in Nat /\ output \in Seq(Byte) /\ input \in Seq(Nat) /\ origin.direction \in {"encode", "decode"}
  BY DEF BaseInv, BaseTypes
<1>3. origin.direction = "encode" /\ origin.input = input /\ thrown = "no" /\ input \in Seq(Byte)
  BY <1>1 DEF BaseInv, EncodesInv
<1>4. Codes(output, input, place - 1)
  BY <1>1 DEF BaseInv, EncodesInv
<1>5. place - 1 = Len(input)
  BY <1>2 DEF Base!Turn, Base!Left
<1>6. Byte \subseteq Nat
  BY DEF Byte
<1>7. output \in Seq(Nat)
  <2>1. Len(output) \in Nat /\ output \in [1..Len(output) -> Byte]
    BY <1>2
  <2>2. output \in [1..Len(output) -> Nat]
    BY <1>6, <2>1
  <2> QED BY <2>1, <2>2
<1>8. BaseTypes'
  <2>1. <<>> \in Seq(Byte) /\ Len(output) \in Nat
    BY <1>7
  <2> QED BY <1>1, <1>2, <1>7, <2>1 DEF BaseTypes
<1>9. DecodesInv'
  <2>1. (place' - 1) % 4 = 0 /\ (place' - 1) \div 4 = 0 /\ 1..(place' - 1) = {} /\ Len(output') = 0
    BY <1>1
  <2>2. place' = Len(input') + 1 => input' = <<>>
    BY <1>1, <1>2
  <2>3. place' = Len(input') + 1 => Base!Pads(input') = 0
    BY <2>2 DEF Base!Pads
  <2>4. place' = Len(input') + 1 => Len(input) = 0
    <3>1. Len(output) = 4 * ((Len(input) + 2) \div 3)
      BY <1>4, <1>5 DEF Codes
    <3> QED BY <1>1, <1>2, <2>2, <3>1
  <2>5. (IF place' <= Len(input') THEN Len(output') = 3 * ((place' - 1) \div 4) ELSE Len(output') = Len(origin.input)')
    BY <1>1, <1>2, <1>3, <2>1, <2>4
  <2>6. Codes(input', (origin.input)', Len(origin.input)')
    BY <1>1, <1>3, <1>4, <1>5
  <2>7. Len(output') = 3 * ((place' - 1) \div 4) - IF place' = Len(input') + 1 THEN Base!Pads(input') ELSE 0
    BY <2>1, <2>3
  <2> QED BY <1>1, <1>3, <2>1, <2>2, <2>5, <2>6, <2>7 DEF DecodesInv
<1>10. EncodesInv'
  BY <1>1 DEF EncodesInv
<1> QED BY <1>8, <1>9, <1>10 DEF BaseInv

\* The bits of the bytes again, which are bytes in any case.
OneBack(n, a) == (n \div 16) % 256 = a
TwoBack(n, a, b) == (n \div 1024) % 256 = a /\ (n \div 4) % 256 = b
ThreeBack(n, a, b, c) == (n \div 65536) % 256 = a /\ (n \div 256) % 256 = b /\ n % 256 = c
TwelveBits(p, q) == p * 64 + q
MoreBits(p, q, r, z) == (p * 64 + q) * 4096 + (r * 64 + z)
LEMMA BytesAgain ==
  ASSUME NEW a \in Byte, NEW b \in Byte, NEW c \in Byte, NEW p, NEW q, NEW r, NEW z
  PROVE  /\ Three(p, q, r, z, a, b, c) => ThreeBack(MoreBits(p, q, r, z), a, b, c)
         /\ Two(p, q, r, a, b) => TwoBack(TwelveBits(TwelveBits(p, q), r), a, b)
         /\ One(p, q, a) => OneBack(TwelveBits(p, q), a)
<1>1. /\ \A n : n = a * 65536 + b * 256 + c => (n \div 65536) % 256 = a /\ (n \div 256) % 256 = b /\ n % 256 = c
      /\ \A n : n = (a * 256 + b) * 4 => (n \div 1024) % 256 = a /\ (n \div 4) % 256 = b
      /\ \A n : n = a * 16 => (n \div 16) % 256 = a
  <2>1. \A n : n = a * 65536 + b * 256 + c => (n \div 65536) % 256 = a /\ (n \div 256) % 256 = b /\ n % 256 = c
    BY SMTT(60) DEF Byte
  <2>2. \A n : n = (a * 256 + b) * 4 => (n \div 1024) % 256 = a /\ (n \div 4) % 256 = b
    BY SMTT(60) DEF Byte
  <2>3. \A n : n = a * 16 => (n \div 16) % 256 = a
    BY SMT DEF Byte
  <2> QED BY <2>1, <2>2, <2>3
<1>2. Three(p, q, r, z, a, b, c) => ThreeBack(MoreBits(p, q, r, z), a, b, c)
  BY <1>1 DEF Three, ThreeBack, MoreBits
<1>3. Two(p, q, r, a, b) => TwoBack(TwelveBits(TwelveBits(p, q), r), a, b)
  BY <1>1 DEF Two, TwoBack, TwelveBits
<1>4. One(p, q, a) => OneBack(TwelveBits(p, q), a)
  BY <1>1 DEF One, OneBack, TwelveBits
<1> QED BY <1>2, <1>3, <1>4

LEMMA AnyBytes ==
  ASSUME NEW n \in Nat
  PROVE  /\ (n \div 65536) % 256 \in Byte /\ (n \div 256) % 256 \in Byte /\ n % 256 \in Byte
         /\ (n \div 1024) % 256 \in Byte /\ (n \div 4) % 256 \in Byte /\ (n \div 16) % 256 \in Byte
BY SMT DEF Byte

LEMMA Rounds ==
  \A m, n \in Nat :
    /\ 4 * m < 4 * ((n + 2) \div 3) => 3 * m < n
    /\ 4 * m + 4 = 4 * ((n + 2) \div 3) /\ 3 * m + 3 <= n => n = 3 * m + 3
    /\ 4 * m + 4 <= n /\ 4 * m + 5 # n + 1 => 4 * m + 5 <= n
OBVIOUS

LEMMA Appended ==
  \A s, t \in Seq(Byte) :
         /\ s \o t \in Seq(Byte) /\ Len(s \o t) = Len(s) + Len(t)
         /\ \A i \in 1..Len(s) : (s \o t)[i] = s[i]
         /\ \A i \in 1..Len(t) : (s \o t)[Len(s) + i] = t[i]
OBVIOUS

\* The four characters of a round that writes k bytes, and that it writes the bytes
\* that they have been encoded of.
Shape(s, m, k) ==
  /\ s[4 * m + 1] \in Sextet /\ s[4 * m + 2] \in Sextet
  /\ IF k >= 2 THEN s[4 * m + 3] \in Sextet ELSE s[4 * m + 3] = Base!Pad
  /\ IF k = 3 THEN s[4 * m + 4] \in Sextet ELSE s[4 * m + 4] = Base!Pad /\ Len(s) = 4 * m + 4
Returns(s, m, k, bytes) ==
  \A t \in Seq(Byte) : Says(s, t, m) /\ 3 * m < Len(t) =>
    /\ IF k = 3 THEN 3 * m + 3 <= Len(t) ELSE Len(t) = 3 * m + k
    /\ \A i \in 1..k : bytes[i] = t[3 * m + i]

\* One round of decodeBase64: four characters, of which the last may be padding when
\* they end the text, and k bytes, those that the characters have been encoded of if
\* they have been encoded.
LEMMA DecodeRound ==
  ASSUME BaseInv, direction = "decode", NEW m \in Nat, place = 4 * m + 1, 4 * m + 4 <= Len(input),
         NEW k \in 1..3, NEW bytes \in Seq(Byte), Len(bytes) = k,
         Shape(input, m, k), Returns(input, m, k, bytes),
         Base!Decoded(4, bytes)
  PROVE  BaseInv'
<1>1. /\ direction' = "decode" /\ input' = input /\ thrown' = thrown /\ origin' = origin
      /\ place' = 4 * m + 5 /\ output' = output \o bytes
  BY DEF Base!Decoded
<1>2. /\ input \in Seq(Nat) /\ output \in Seq(Byte) /\ origin.direction \in {"encode", "decode"}
      /\ Len(input) \in Nat /\ Len(output) \in Nat
  BY DEF BaseInv, BaseTypes
<1>3. place <= Len(input) /\ place # Len(input) + 1 /\ (place - 1) \div 4 = m /\ (place' - 1) \div 4 = m + 1 /\ (place' - 1) % 4 = 0
  <2>1. (4 * m) \div 4 = m /\ (4 * (m + 1)) \div 4 = m + 1 /\ (4 * (m + 1)) % 4 = 0
    BY Parts
  <2>2. place - 1 = 4 * m /\ place' - 1 = 4 * (m + 1)
    BY <1>1
  <2>3. place <= Len(input) /\ place # Len(input) + 1
    BY <1>2
  <2> QED BY <2>1, <2>2, <2>3
<1>4. /\ \A i \in 1..(4 * m) : Base!IsCharacter(input[i])
      /\ Len(output) = 3 * m
      /\ thrown # "no" => origin.direction = "decode" /\ ~Base!WellFormed(input)
      /\ origin.direction = "encode" =>
           /\ origin.input \in Seq(Byte)
           /\ Codes(input, origin.input, Len(origin.input))
           /\ \A i \in 1..Len(output) : i <= Len(origin.input) /\ output[i] = origin.input[i]
  <2>1. DecodesInv /\ 1..(place - 1) = 1..(4 * m)
    BY DEF BaseInv
  <2>2. place <= Len(input) => \A i \in 1..(place - 1) : Base!IsCharacter(input[i])
    BY <2>1, Zenon DEF DecodesInv
  <2>3. Len(output) = 3 * ((place - 1) \div 4) - IF place = Len(input) + 1 THEN Base!Pads(input) ELSE 0
    BY <2>1, Zenon DEF DecodesInv
  <2>4. Len(output) = 3 * m
    <3>1. Len(output) = 3 * m - 0
      BY <1>3, <2>3, Zenon
    <3> QED BY <3>1
  <2>5. /\ thrown # "no" => origin.direction = "decode" /\ ~Base!WellFormed(input)
        /\ origin.direction = "encode" =>
             /\ origin.input \in Seq(Byte)
             /\ Codes(input, origin.input, Len(origin.input))
             /\ \A i \in 1..Len(output) : i <= Len(origin.input) /\ output[i] = origin.input[i]
    BY <2>1, Zenon DEF DecodesInv
  <2> QED BY <1>3, <2>1, <2>2, <2>4, <2>5, Zenon
<1>5. ~(Base!Pad \in Sextet)
  BY DEF Base!Pad, Sextet
<1>6. \A x : Base!IsCharacter(x) <=> x \in Sextet
  BY DEF Base!IsCharacter, Sextet
<1>7. \A i \in 1..(4 * m + 4) : i \in 1..(4 * m) \/ i = 4 * m + 1 \/ i = 4 * m + 2 \/ i = 4 * m + 3 \/ i = 4 * m + 4
  OBVIOUS
<1>8. \A i \in 1..(4 * m + 4) : Base!IsCharacter(input[i]) \/ (input[i] = Base!Pad /\ i >= Len(input) - 1)
  <2>1. k # 3 => 4 * m + 3 >= Len(input) - 1 /\ 4 * m + 4 >= Len(input) - 1
    <3>1. k # 3 => Len(input) = 4 * m + 4
      BY DEF Shape
    <3> QED BY <3>1
  <2>2. /\ input[4 * m + 1] \in Sextet /\ input[4 * m + 2] \in Sextet
        /\ input[4 * m + 3] \in Sextet \/ (input[4 * m + 3] = Base!Pad /\ k # 3)
        /\ input[4 * m + 4] \in Sextet \/ (input[4 * m + 4] = Base!Pad /\ k # 3)
    BY DEF Shape
  <2> QED BY <1>4, <1>6, <1>7, <2>1, <2>2, Zenon
<1>9. 4 * m + 5 <= Len(input) => k = 3
  <2>1. k # 3 => Len(input) = 4 * m + 4
    BY DEF Shape
  <2> QED BY <2>1
<1>10. 4 * m + 5 <= Len(input) => \A i \in 1..(4 * m + 4) : Base!IsCharacter(input[i])
  <2>1. k = 3 => /\ input[4 * m + 1] \in Sextet /\ input[4 * m + 2] \in Sextet
                 /\ input[4 * m + 3] \in Sextet /\ input[4 * m + 4] \in Sextet
    BY DEF Shape
  <2> QED BY <1>4, <1>6, <1>7, <1>9, <2>1, Zenon
<1>11. 4 * m + 5 = Len(input) + 1 =>
         /\ input[Len(input) - 1] = Base!Pad => input[Len(input)] = Base!Pad
         /\ Base!Pads(input) = 3 - k
  <2>1. SUFFICES ASSUME 4 * m + 5 = Len(input) + 1
        PROVE  /\ input[Len(input) - 1] = Base!Pad => input[Len(input)] = Base!Pad
               /\ Base!Pads(input) = 3 - k
    OBVIOUS
  <2>2. Len(input) - 1 = 4 * m + 3 /\ Len(input) = 4 * m + 4 /\ input # <<>>
    BY <1>2, <2>1
  <2>3. CASE k = 3
    <3>1. input[Len(input)] # Base!Pad /\ input[Len(input) - 1] # Base!Pad
      BY <1>5, <2>2, <2>3 DEF Shape
    <3> QED BY <2>2, <2>3, <3>1 DEF Base!Pads
  <2>4. CASE k = 2
    <3>1. input[Len(input)] = Base!Pad /\ input[Len(input) - 1] # Base!Pad
      BY <1>5, <2>2, <2>4 DEF Shape
    <3> QED BY <2>2, <2>4, <3>1 DEF Base!Pads
  <2>5. CASE k = 1
    <3>1. input[Len(input)] = Base!Pad /\ input[Len(input) - 1] = Base!Pad
      BY <2>2, <2>5 DEF Shape
    <3> QED BY <2>2, <2>5, <3>1 DEF Base!Pads
  <2> QED BY <2>3, <2>4, <2>5
<1>12. /\ output' \in Seq(Byte) /\ Len(output') = 3 * m + k
       /\ \A i \in 1..(3 * m) : output'[i] = output[i]
       /\ \A i \in 1..k : output'[3 * m + i] = bytes[i]
  <2>1. Len(output) = 3 * m /\ output \in Seq(Byte) /\ output' = output \o bytes
    BY <1>1, <1>2, <1>4
  <2>2. /\ output \o bytes \in Seq(Byte) /\ Len(output \o bytes) = Len(output) + Len(bytes)
        /\ \A i \in 1..Len(output) : (output \o bytes)[i] = output[i]
        /\ \A i \in 1..Len(bytes) : (output \o bytes)[Len(output) + i] = bytes[i]
    <3>1. bytes \in Seq(Byte)
      OBVIOUS
    <3>2. output \in Seq(Byte)
      BY <2>1
    <3> QED BY <3>1, <3>2, Appended, Zenon
  <2> QED BY <2>1, <2>2, Zenon
<1>13. BaseTypes'
  <2>1. 4 * m + 5 \in Nat /\ 1 <= 4 * m + 5 /\ 4 * m + 5 <= Len(input) + 1
    BY <1>2
  <2> QED BY <1>1, <1>2, <1>12, <2>1 DEF BaseTypes
<1>14. Len(output') = 3 * ((place' - 1) \div 4) - IF place' = Len(input') + 1 THEN Base!Pads(input') ELSE 0
  <2>1. CASE 4 * m + 5 = Len(input) + 1
    <3>1. Base!Pads(input') = 3 - k /\ place' = Len(input') + 1
      BY <1>1, <1>11, <2>1
    <3>2. 3 * m + k = 3 * (m + 1) - (3 - k)
      OBVIOUS
    <3> DEFINE pads == IF place' = Len(input') + 1 THEN Base!Pads(input') ELSE 0
    <3>3. pads = 3 - k
      BY <3>1, Zenon
    <3>4. 3 * ((place' - 1) \div 4) = 3 * (m + 1) /\ Len(output') = 3 * m + k
      BY <1>3, <1>12, Zenon
    <3> HIDE DEF pads
    <3>5. Len(output') = 3 * ((place' - 1) \div 4) - pads
      BY <3>2, <3>3, <3>4, Zenon
    <3> QED BY <3>5 DEF pads
  <2>2. CASE 4 * m + 5 # Len(input) + 1
    <3>1. 4 * m + 5 <= Len(input)
      BY <1>2, <2>2, Rounds, Zenon
    <3>2. k = 3 /\ place' # Len(input') + 1
      BY <1>1, <1>9, <2>2, <3>1, Zenon
    <3>3. 3 * m + 3 = 3 * (m + 1) - 0
      OBVIOUS
    <3> QED BY <1>3, <1>12, <3>2, <3>3, Zenon
  <2> QED BY <2>1, <2>2
<1>15. ASSUME origin.direction = "encode"
       PROVE  /\ IF place' <= Len(input') THEN Len(output') = 3 * ((place' - 1) \div 4) ELSE Len(output') = Len(origin.input)
              /\ \A i \in 1..Len(output') : i <= Len(origin.input) /\ output'[i] = origin.input[i]
  <2> DEFINE t == origin.input
  <2>1. t \in Seq(Byte) /\ Len(t) \in Nat
    BY <1>4, <1>15
  <2>2. Len(input) = 4 * ((Len(t) + 2) \div 3) /\ \A g \in Nat : 3 * g < Len(t) => Says(input, t, g)
    BY <1>4, <1>15 DEF Codes
  <2> HIDE DEF t
  <2>3. 3 * m < Len(t)
    <3>1. 4 * m < 4 * ((Len(t) + 2) \div 3)
      <4>1. 4 * m < Len(input)
        BY <1>2
      <4> QED BY <2>2, <4>1
    <3> QED BY <2>1, <3>1, Rounds
  <2>4. /\ IF k = 3 THEN 3 * m + 3 <= Len(t) ELSE Len(t) = 3 * m + k
        /\ \A i \in 1..k : bytes[i] = t[3 * m + i]
    BY <2>1, <2>2, <2>3, Zenon DEF Returns
  <2>5. IF place' <= Len(input') THEN Len(output') = 3 * ((place' - 1) \div 4) ELSE Len(output') = Len(t)
    <3>1. CASE 4 * m + 5 <= Len(input)
      BY <1>1, <1>3, <1>9, <1>12, <3>1
    <3>2. CASE ~(4 * m + 5 <= Len(input))
      <4>1. Len(input) = 4 * m + 4
        BY <1>2, <3>2
      <4>2. k = 3 => Len(t) = 3 * m + 3
        <5>1. 4 * m + 4 = 4 * ((Len(t) + 2) \div 3)
          BY <2>2, <4>1
        <5> QED BY <2>1, <2>4, <5>1, Rounds
      <4> QED BY <1>1, <1>12, <2>4, <3>2, <4>2
    <3> QED BY <3>1, <3>2
  <2>6. ASSUME NEW i \in 1..Len(output') PROVE i <= Len(t) /\ output'[i] = t[i]
    <3>1. i \in 1..(3 * m) \/ \E j \in 1..k : i = 3 * m + j
      <4>1. i \in 1..(3 * m + k)
        BY <1>12
      <4>2. i > 3 * m => i - (3 * m) \in 1..k /\ i = 3 * m + (i - (3 * m))
        BY <4>1
      <4> QED BY <4>1, <4>2
    <3>2. CASE i \in 1..(3 * m)
      <4>1. \A x \in 1..Len(output) : x <= Len(t) /\ output[x] = t[x]
        BY <1>4, <1>15 DEF t
      <4> QED BY <1>4, <1>12, <3>2, <4>1
    <3>3. CASE \E j \in 1..k : i = 3 * m + j
      <4>1. PICK j \in 1..k : i = 3 * m + j
        BY <3>3
      <4>2. output'[i] = bytes[j] /\ bytes[j] = t[3 * m + j]
        BY <1>12, <2>4, <4>1
      <4>3. 3 * m + j <= Len(t)
        BY <2>1, <2>4, <4>1
      <4> QED BY <4>1, <4>2, <4>3
    <3> QED BY <3>1, <3>2, <3>3
  <2> QED BY <2>5, <2>6 DEF t
<1>16. DecodesInv'
  <2>1. place' - 1 = 4 * m + 4
    BY <1>1
  <2>2. \A i \in 1..(place' - 1) : Base!IsCharacter(input'[i]) \/ (input'[i] = Base!Pad /\ i >= Len(input') - 1)
    BY <1>1, <1>8, <2>1
  <2>3. place' <= Len(input') => \A i \in 1..(place' - 1) : Base!IsCharacter(input'[i])
    BY <1>1, <1>10, <2>1
  <2>4. place' = Len(input') + 1 => (input'[Len(input') - 1] = Base!Pad => input'[Len(input')] = Base!Pad)
    BY <1>1, <1>11
  <2>5. origin'.direction = "encode" =>
         /\ origin'.input \in Seq(Byte)
         /\ Codes(input', origin'.input, Len(origin'.input))
         /\ IF place' <= Len(input') THEN Len(output') = 3 * ((place' - 1) \div 4) ELSE Len(output') = Len(origin'.input)
         /\ \A i \in 1..Len(output') : i <= Len(origin'.input) /\ output'[i] = origin'.input[i]
    BY <1>1, <1>4, <1>15
  <2>6. thrown' # "no" => origin'.direction = "decode" /\ ~Base!WellFormed(input')
    BY <1>1, <1>4
  <2> QED BY <1>1, <1>3, <1>14, <2>2, <2>3, <2>4, <2>5, <2>6 DEF DecodesInv
<1>17. EncodesInv'
  BY <1>1 DEF EncodesInv
<1> QED BY <1>13, <1>16, <1>17 DEF BaseInv

\* Where a round of decodeBase64 stands.
LEMMA RoundAt ==
  ASSUME BaseInv, direction = "decode", Base!Left > 0
  PROVE  \E m \in Nat : place = 4 * m + 1 /\ Base!Left = Len(input) - 4 * m
<1>1. place \in Nat /\ 1 <= place /\ Len(input) \in Nat
  BY DEF BaseInv, BaseTypes
<1>2. (place - 1) % 4 = 0
  BY DEF BaseInv, DecodesInv
<1>3. place - 1 \in Nat
  BY <1>1
<1>4. PICK m \in Nat : place - 1 = 4 * m
  BY <1>2, <1>3, Parts
<1> QED BY <1>1, <1>4 DEF Base!Left

LEMMA DecodeThreeStep ==
  ASSUME BaseInv, Base!DecodeThree PROVE BaseInv'
<1>1. direction = "decode" /\ Base!Four
  BY DEF Base!DecodeThree
<1>2. 3 < Base!Left /\ Base!Character(0) /\ Base!Character(1) /\ Base!Character(2) /\ Base!Character(3)
  <2>1. 0 \in 0..3 /\ 1 \in 0..3 /\ 2 \in 0..3 /\ 3 \in 0..3
    OBVIOUS
  <2>2. Base!Character(0) /\ Base!Character(1) /\ Base!Character(2) /\ Base!Character(3)
    BY <1>1, <2>1, Zenon DEF Base!Four
  <2> QED BY <2>2 DEF Base!Character
<1>3. place \in Nat /\ Len(input) \in Nat
  BY DEF BaseInv, BaseTypes
<1>4. Base!Left > 0
  BY <1>2, <1>3 DEF Base!Left
<1>5. PICK m \in Nat : place = 4 * m + 1 /\ Base!Left = Len(input) - 4 * m
  BY <1>1, <1>4, RoundAt
<1>6. 4 * m + 4 <= Len(input)
  BY <1>2, <1>3, <1>5
<1> DEFINE p == input[4 * m + 1]
           q == input[4 * m + 2]
           r == input[4 * m + 3]
           z == input[4 * m + 4]
           n == (p * 64 + q) * 4096 + (r * 64 + z)
           bytes == <<(n \div 65536) % 256, (n \div 256) % 256, n % 256>>
<1>7. place + 0 = 4 * m + 1 /\ place + 1 = 4 * m + 2 /\ place + 2 = 4 * m + 3 /\ place + 3 = 4 * m + 4
  BY <1>5
<1>8. p \in Sextet /\ q \in Sextet /\ r \in Sextet /\ z \in Sextet
  BY <1>2, <1>7 DEF Base!Character, Base!IsCharacter, Sextet
<1>9. Base!Decoded(4, bytes)
  <2>1. Base!Number(0, 1) = p * 64 + q /\ Base!Number(2, 3) = r * 64 + z
    BY <1>7, Zenon DEF Base!Number
  <2> QED BY <2>1 DEF Base!DecodeThree
<1> HIDE DEF p, q, r, z
<1>10. n \in Nat
  BY <1>8 DEF Sextet
<1>11. bytes \in Seq(Byte) /\ Len(bytes) = 3
  <2> HIDE DEF n
  <2>1. (n \div 65536) % 256 \in Byte /\ (n \div 256) % 256 \in Byte /\ n % 256 \in Byte
    BY <1>10, AnyBytes
  <2> QED BY <2>1
<1>12. Shape(input, m, 3)
  BY <1>8 DEF Shape, p, q, r, z
<1>13. Returns(input, m, 3, bytes)
  <2>1. SUFFICES ASSUME NEW t \in Seq(Byte), Says(input, t, m), 3 * m < Len(t)
        PROVE  3 * m + 3 <= Len(t) /\ \A i \in 1..3 : bytes[i] = t[3 * m + i]
    BY DEF Returns
  <2>2. 3 * m + 3 <= Len(t)
    <3>1. ~(Base!Pad \in Sextet)
      BY DEF Base!Pad, Sextet
    <3>2. 3 * m + 1 # Len(t) /\ 3 * m + 2 # Len(t)
      BY <1>8, <2>1, <3>1, Zenon DEF Says, r, z
    <3> QED BY <2>1, <3>2
  <2>3. Three(p, q, r, z, t[3 * m + 1], t[3 * m + 2], t[3 * m + 3])
    BY <2>1, <2>2, Zenon DEF Says, p, q, r, z
  <2>4. t[3 * m + 1] \in Byte /\ t[3 * m + 2] \in Byte /\ t[3 * m + 3] \in Byte
    BY <2>1, <2>2
  <2>5. n = MoreBits(p, q, r, z)
    BY DEF MoreBits
  <2> HIDE DEF n
  <2>6. ThreeBack(n, t[3 * m + 1], t[3 * m + 2], t[3 * m + 3])
    BY <2>3, <2>4, <2>5, BytesAgain, Zenon
  <2>7. bytes[1] = t[3 * m + 1] /\ bytes[2] = t[3 * m + 2] /\ bytes[3] = t[3 * m + 3]
    BY <2>6 DEF ThreeBack
  <2> HIDE DEF bytes
  <2>8. \A i \in 1..3 : i = 1 \/ i = 2 \/ i = 3
    OBVIOUS
  <2> QED BY <2>2, <2>7, <2>8, Zenon
<1> HIDE DEF bytes
<1>14. 3 \in 1..3
  OBVIOUS
<1> QED BY <1>1, <1>5, <1>6, <1>9, <1>11, <1>12, <1>13, <1>14, DecodeRound

LEMMA DecodeTwoStep ==
  ASSUME BaseInv, Base!DecodeTwo PROVE BaseInv'
<1>1. direction = "decode" /\ Base!ThreePadded
  BY DEF Base!DecodeTwo
<1>2. Base!Left = 4 /\ Base!Character(0) /\ Base!Character(1) /\ Base!Character(2) /\ Base!Padding(3)
  <2>1. 0 \in 0..2 /\ 1 \in 0..2 /\ 2 \in 0..2
    OBVIOUS
  <2> QED BY <1>1, <2>1, Zenon DEF Base!ThreePadded
<1>3. place \in Nat /\ Len(input) \in Nat
  BY DEF BaseInv, BaseTypes
<1>4. Base!Left > 0
  BY <1>2
<1>5. PICK m \in Nat : place = 4 * m + 1 /\ Base!Left = Len(input) - 4 * m
  BY <1>1, <1>4, RoundAt
<1>6. Len(input) = 4 * m + 4
  BY <1>2, <1>3, <1>5
<1> DEFINE p == input[4 * m + 1]
           q == input[4 * m + 2]
           r == input[4 * m + 3]
           n == (p * 64 + q) * 64 + r
           bytes == <<(n \div 1024) % 256, (n \div 4) % 256>>
<1>7. place + 0 = 4 * m + 1 /\ place + 1 = 4 * m + 2 /\ place + 2 = 4 * m + 3 /\ place + 3 = 4 * m + 4
  BY <1>5
<1>8. p \in Sextet /\ q \in Sextet /\ r \in Sextet /\ input[4 * m + 4] = Base!Pad
  BY <1>2, <1>7 DEF Base!Character, Base!IsCharacter, Base!Padding, Sextet
<1>9. Base!Decoded(4, bytes)
  <2>1. Base!Number(0, 1) = p * 64 + q /\ input[place + 2] = r
    BY <1>7, Zenon DEF Base!Number
  <2> QED BY <2>1 DEF Base!DecodeTwo
<1> HIDE DEF p, q, r
<1>10. n \in Nat
  BY <1>8 DEF Sextet
<1>11. bytes \in Seq(Byte) /\ Len(bytes) = 2
  <2> HIDE DEF n
  <2>1. (n \div 1024) % 256 \in Byte /\ (n \div 4) % 256 \in Byte
    BY <1>10, AnyBytes
  <2> QED BY <2>1
<1>12. Shape(input, m, 2)
  BY <1>6, <1>8 DEF Shape, p, q, r
<1>13. Returns(input, m, 2, bytes)
  <2>1. SUFFICES ASSUME NEW t \in Seq(Byte), Says(input, t, m), 3 * m < Len(t)
        PROVE  Len(t) = 3 * m + 2 /\ \A i \in 1..2 : bytes[i] = t[3 * m + i]
    BY DEF Returns
  <2>2. 3 * m + 2 = Len(t)
    <3>1. ~(Base!Pad \in Sextet)
      BY DEF Base!Pad, Sextet
    <3>2. 3 * m + 1 # Len(t) /\ ~(3 * m + 3 <= Len(t))
      BY <1>8, <2>1, <3>1, Zenon DEF Says, r
    <3> QED BY <2>1, <3>2
  <2>3. Two(p, q, r, t[3 * m + 1], t[3 * m + 2])
    BY <2>1, <2>2, Zenon DEF Says, p, q, r
  <2>4. t[3 * m + 1] \in Byte /\ t[3 * m + 2] \in Byte
    BY <2>1, <2>2
  <2>5. n = TwelveBits(TwelveBits(p, q), r)
    BY DEF TwelveBits
  <2> HIDE DEF n
  <2>6. TwoBack(n, t[3 * m + 1], t[3 * m + 2])
    BY <2>3, <2>4, <2>5, BytesAgain, Zenon
  <2>7. bytes[1] = t[3 * m + 1] /\ bytes[2] = t[3 * m + 2]
    BY <2>6 DEF TwoBack
  <2> HIDE DEF bytes
  <2>8. \A i \in 1..2 : i = 1 \/ i = 2
    OBVIOUS
  <2> QED BY <2>2, <2>7, <2>8, Zenon
<1> HIDE DEF bytes
<1>14. 2 \in 1..3 /\ 4 * m + 4 <= Len(input)
  BY <1>3, <1>6
<1> QED BY <1>1, <1>5, <1>9, <1>11, <1>12, <1>13, <1>14, DecodeRound

LEMMA DecodeOneStep ==
  ASSUME BaseInv, Base!DecodeOne PROVE BaseInv'
<1>1. direction = "decode" /\ Base!TwoPadded
  BY DEF Base!DecodeOne
<1>2. Base!Left = 4 /\ Base!Character(0) /\ Base!Character(1) /\ Base!Padding(2) /\ Base!Padding(3)
  <2>1. 0 \in 0..1 /\ 1 \in 0..1
    OBVIOUS
  <2> QED BY <1>1, <2>1, Zenon DEF Base!TwoPadded
<1>3. place \in Nat /\ Len(input) \in Nat
  BY DEF BaseInv, BaseTypes
<1>4. Base!Left > 0
  BY <1>2
<1>5. PICK m \in Nat : place = 4 * m + 1 /\ Base!Left = Len(input) - 4 * m
  BY <1>1, <1>4, RoundAt
<1>6. Len(input) = 4 * m + 4
  BY <1>2, <1>3, <1>5
<1> DEFINE p == input[4 * m + 1]
           q == input[4 * m + 2]
           n == p * 64 + q
           bytes == <<(n \div 16) % 256>>
<1>7. place + 0 = 4 * m + 1 /\ place + 1 = 4 * m + 2 /\ place + 2 = 4 * m + 3 /\ place + 3 = 4 * m + 4
  BY <1>5
<1>8. p \in Sextet /\ q \in Sextet /\ input[4 * m + 3] = Base!Pad /\ input[4 * m + 4] = Base!Pad
  BY <1>2, <1>7 DEF Base!Character, Base!IsCharacter, Base!Padding, Sextet
<1>9. Base!Decoded(4, bytes)
  <2>1. Base!Number(0, 1) = p * 64 + q
    BY <1>7, Zenon DEF Base!Number
  <2> QED BY <2>1 DEF Base!DecodeOne
<1> HIDE DEF p, q
<1>10. n \in Nat
  BY <1>8 DEF Sextet
<1>11. bytes \in Seq(Byte) /\ Len(bytes) = 1
  <2> HIDE DEF n
  <2>1. (n \div 16) % 256 \in Byte
    BY <1>10, AnyBytes
  <2> QED BY <2>1
<1>12. Shape(input, m, 1)
  BY <1>6, <1>8 DEF Shape, p, q
<1>13. Returns(input, m, 1, bytes)
  <2>1. SUFFICES ASSUME NEW t \in Seq(Byte), Says(input, t, m), 3 * m < Len(t)
        PROVE  Len(t) = 3 * m + 1 /\ \A i \in 1..1 : bytes[i] = t[3 * m + i]
    BY DEF Returns
  <2>2. 3 * m + 1 = Len(t)
    <3>1. ~(Base!Pad \in Sextet)
      BY DEF Base!Pad, Sextet
    <3>2. 3 * m + 2 # Len(t) /\ ~(3 * m + 3 <= Len(t))
      BY <1>8, <2>1, <3>1, Zenon DEF Says
    <3> QED BY <2>1, <3>2
  <2>3. One(p, q, t[3 * m + 1])
    BY <2>1, <2>2, Zenon DEF Says, p, q
  <2>4. t[3 * m + 1] \in Byte
    BY <2>1, <2>2
  <2>5. n = TwelveBits(p, q)
    BY DEF TwelveBits
  <2> HIDE DEF n
  <2>6. OneBack(n, t[3 * m + 1])
    BY <2>3, <2>4, <2>5, BytesAgain, Zenon
  <2>7. bytes[1] = t[3 * m + 1]
    BY <2>6 DEF OneBack
  <2> HIDE DEF bytes
  <2>8. \A i \in 1..1 : i = 1
    OBVIOUS
  <2> QED BY <2>2, <2>7, <2>8, Zenon
<1> HIDE DEF bytes
<1>14. 1 \in 1..3 /\ 4 * m + 4 <= Len(input)
  BY <1>3, <1>6
<1> QED BY <1>1, <1>5, <1>9, <1>11, <1>12, <1>13, <1>14, DecodeRound

\* Four characters are what the encoder writes, or what a well-formed text has: the
\* decoder fails at nothing else.
LEMMA RoundPossible ==
  ASSUME NEW m \in Nat, place = 4 * m + 1, input \in Seq(Nat), Base!Left = Len(input) - 4 * m,
         4 * m + 4 <= Len(input),
         input[4 * m + 1] \in Sextet, input[4 * m + 2] \in Sextet,
         \/ input[4 * m + 3] \in Sextet /\ input[4 * m + 4] \in Sextet
         \/ Len(input) = 4 * m + 4 /\ input[4 * m + 4] = Base!Pad /\ input[4 * m + 3] \in Sextet \union {Base!Pad}
  PROVE  Base!Four \/ Base!ThreePadded \/ Base!TwoPadded
<1>1. Len(input) \in Nat /\ Base!Left >= 4
  <2>1. Len(input) \in Nat
    OBVIOUS
  <2> QED BY <2>1
<1>2. place + 0 = 4 * m + 1 /\ place + 1 = 4 * m + 2 /\ place + 2 = 4 * m + 3 /\ place + 3 = 4 * m + 4
  OBVIOUS
<1>3. 0 < Base!Left /\ 1 < Base!Left /\ 2 < Base!Left /\ 3 < Base!Left
  BY <1>1
<1>4. \A x : Base!IsCharacter(x) <=> x \in Sextet
  BY DEF Base!IsCharacter, Sextet
<1>5. Base!Character(0) /\ Base!Character(1)
  BY <1>2, <1>3, <1>4, Zenon DEF Base!Character
<1>6. /\ input[4 * m + 3] \in Sextet => Base!Character(2)
      /\ input[4 * m + 3] = Base!Pad => Base!Padding(2)
      /\ input[4 * m + 4] \in Sextet => Base!Character(3)
      /\ input[4 * m + 4] = Base!Pad => Base!Padding(3)
  BY <1>2, <1>3, <1>4, Zenon DEF Base!Character, Base!Padding
<1>7. /\ \A i \in 0..3 : i = 0 \/ i = 1 \/ i = 2 \/ i = 3
      /\ \A i \in 0..2 : i = 0 \/ i = 1 \/ i = 2
      /\ \A i \in 0..1 : i = 0 \/ i = 1
  OBVIOUS
<1>8. CASE input[4 * m + 3] \in Sextet /\ input[4 * m + 4] \in Sextet
  BY <1>5, <1>6, <1>7, <1>8, Zenon DEF Base!Four
<1>9. CASE Len(input) = 4 * m + 4 /\ input[4 * m + 4] = Base!Pad /\ input[4 * m + 3] \in Sextet \union {Base!Pad}
  <2>1. Base!Left = 4
    BY <1>9
  <2> QED BY <1>5, <1>6, <1>7, <1>9, <2>1, Zenon DEF Base!ThreePadded, Base!TwoPadded
<1> QED BY <1>8, <1>9

LEMMA FailStep ==
  ASSUME BaseInv, Base!Fail PROVE BaseInv'
<1>1. /\ direction = "decode" /\ Base!Left > 0 /\ ~(Base!Four \/ Base!ThreePadded \/ Base!TwoPadded)
      /\ direction' = direction /\ input' = input /\ place' = place /\ output' = output /\ origin' = origin
  BY DEF Base!Fail
<1>2. /\ place \in Nat /\ Len(input) \in Nat /\ input \in Seq(Nat)
      /\ origin.direction \in {"encode", "decode"}
  BY DEF BaseInv, BaseTypes
<1>3. PICK m \in Nat : place = 4 * m + 1 /\ Base!Left = Len(input) - 4 * m
  BY <1>1, RoundAt
<1>4. 4 * m < Len(input) /\ place <= Len(input)
  BY <1>1, <1>2, <1>3
<1>5. origin.direction = "decode"
  <2>1. SUFFICES ASSUME origin.direction = "encode" PROVE FALSE
    BY <1>2
  <2> DEFINE t == origin.input
  <2>2. t \in Seq(Byte) /\ Codes(input, t, Len(t))
    BY <1>1, <2>1, Zenon DEF BaseInv, DecodesInv
  <2> HIDE DEF t
  <2>3. Len(t) \in Nat
    BY <2>2
  <2>4. Len(input) = 4 * ((Len(t) + 2) \div 3) /\ \A g \in Nat : 3 * g < Len(t) => Says(input, t, g)
    BY <2>2 DEF Codes
  <2>5. 3 * m < Len(t)
    <3>1. 4 * m < 4 * ((Len(t) + 2) \div 3)
      BY <1>4, <2>4
    <3> QED BY <2>3, <3>1, Rounds, Zenon
  <2>6. Says(input, t, m)
    BY <2>4, <2>5
  <2>7. 4 * m + 4 <= Len(input)
    BY <1>4, <2>3, <2>4
  <2>8. 3 * m + 3 <= Len(t) \/ 3 * m + 2 = Len(t) \/ 3 * m + 1 = Len(t)
    BY <2>3, <2>5
  <2>9. 3 * m + 3 <= Len(t) \/ Len(input) = 4 * m + 4
    <3>1. (3 * m + 1 + 2) \div 3 = m + 1 /\ (3 * m + 2 + 2) \div 3 = m + 1
      BY Parts
    <3>2. 4 * (m + 1) = 4 * m + 4
      OBVIOUS
    <3> QED BY <2>4, <2>8, <3>1, <3>2, Zenon
  <2>10. input[4 * m + 1] \in Sextet /\ input[4 * m + 2] \in Sextet
    BY <2>6, Zenon DEF Says
  <2>11. \/ input[4 * m + 3] \in Sextet /\ input[4 * m + 4] \in Sextet
         \/ Len(input) = 4 * m + 4 /\ input[4 * m + 4] = Base!Pad /\ input[4 * m + 3] \in Sextet \union {Base!Pad}
    BY <2>6, <2>8, <2>9, Zenon DEF Says
  <2> QED BY <1>1, <1>2, <1>3, <2>7, <2>10, <2>11, RoundPossible
<1>6. ~Base!WellFormed(input)
  <2>1. SUFFICES ASSUME Base!WellFormed(input) PROVE FALSE
    OBVIOUS
  <2>2. /\ Len(input) % 4 = 0
        /\ \A i \in DOMAIN input : Base!IsCharacter(input[i]) \/ (input[i] = Base!Pad /\ i >= Len(input) - 1)
        /\ input # <<>> /\ input[Len(input) - 1] = Base!Pad => input[Len(input)] = Base!Pad
    BY <2>1, Zenon DEF Base!WellFormed
  <2>3. PICK l \in Nat : Len(input) = 4 * l
    BY <1>2, <2>2, Parts
  <2>4. 4 * m + 4 <= Len(input) /\ (Len(input) = 4 * m + 4 \/ 4 * m + 8 <= Len(input))
    BY <1>4, <2>3
  <2>5. DOMAIN input = 1..Len(input)
    BY <1>2
  <2>6. /\ 4 * m + 1 \in 1..Len(input) /\ 4 * m + 2 \in 1..Len(input)
        /\ 4 * m + 3 \in 1..Len(input) /\ 4 * m + 4 \in 1..Len(input)
        /\ ~(4 * m + 1 >= Len(input) - 1) /\ ~(4 * m + 2 >= Len(input) - 1)
    BY <1>2, <2>4
  <2>7. \A x : Base!IsCharacter(x) => x \in Sextet
    BY DEF Base!IsCharacter, Sextet
  <2>8. input[4 * m + 1] \in Sextet /\ input[4 * m + 2] \in Sextet
    BY <2>2, <2>5, <2>6, <2>7, Zenon
  <2>9. CASE 4 * m + 8 <= Len(input)
    <3>1. ~(4 * m + 3 >= Len(input) - 1) /\ ~(4 * m + 4 >= Len(input) - 1)
      BY <1>2, <2>9
    <3>2. input[4 * m + 3] \in Sextet /\ input[4 * m + 4] \in Sextet
      BY <2>2, <2>5, <2>6, <2>7, <3>1, Zenon
    <3> QED BY <1>1, <1>2, <1>3, <2>4, <2>8, <3>2, RoundPossible
  <2>10. CASE Len(input) = 4 * m + 4
    <3>1. Len(input) - 1 = 4 * m + 3 /\ input # <<>>
      BY <1>2, <2>10
    <3>2. input[4 * m + 3] = Base!Pad => input[4 * m + 4] = Base!Pad
      BY <2>2, <2>10, <3>1
    <3>3. /\ input[4 * m + 3] \in Sextet \/ input[4 * m + 3] = Base!Pad
          /\ input[4 * m + 4] \in Sextet \/ input[4 * m + 4] = Base!Pad
      BY <2>2, <2>5, <2>6, <2>7, Zenon
    <3>4. \/ input[4 * m + 3] \in Sextet /\ input[4 * m + 4] \in Sextet
          \/ Len(input) = 4 * m + 4 /\ input[4 * m + 4] = Base!Pad /\ input[4 * m + 3] \in Sextet \union {Base!Pad}
      BY <2>10, <3>2, <3>3
    <3> QED BY <1>1, <1>2, <1>3, <2>4, <2>8, <3>4, RoundPossible
  <2> QED BY <2>4, <2>9, <2>10
<1>7. BaseTypes'
  BY <1>1, Zenon DEF BaseInv, BaseTypes
<1>8. EncodesInv'
  BY <1>1, Zenon DEF EncodesInv
<1>9. DecodesInv'
  BY <1>1, <1>5, <1>6, Zenon DEF BaseInv, DecodesInv
<1> QED BY <1>7, <1>8, <1>9 DEF BaseInv

LEMMA BaseStart ==
  ASSUME Base!Base64Constants, Base!Init PROVE BaseInv
<1>1. /\ place = 1 /\ output = <<>> /\ thrown = "no" /\ origin = [direction |-> direction, input |-> input]
      /\ direction \in {"encode", "decode"}
      /\ direction = "encode" => input \in ByteTexts
      /\ direction = "decode" => input \in Base64Texts
  BY DEF Base!Init
<1>2. Byte \subseteq Nat
  BY DEF Byte
<1>3. direction = "encode" => input \in Seq(Byte)
  BY <1>1 DEF Base!Base64Constants, Byte
<1>4. input \in Seq(Nat)
  <2>1. CASE direction = "decode"
    BY <1>1, <2>1 DEF Base!Base64Constants
  <2>2. CASE direction = "encode"
    <3>1. Len(input) \in Nat /\ input \in [1..Len(input) -> Byte]
      BY <1>3, <2>2
    <3>2. input \in [1..Len(input) -> Nat]
      BY <1>2, <3>1
    <3> QED BY <3>1, <3>2
  <2> QED BY <1>1, <2>1, <2>2
<1>5. origin.direction = direction /\ origin.input = input
  BY <1>1
<1>6. BaseTypes
  <2>1. <<>> \in Seq(Byte) /\ Len(input) \in Nat
    BY <1>4
  <2> QED BY <1>1, <1>4, <1>5, <2>1 DEF BaseTypes
<1>7. EncodesInv
  <2>1. (1 - 1) % 3 = 0 /\ 1 - 1 = 0 /\ 4 * ((0 + 2) \div 3) = 0
    OBVIOUS
  <2>2. \A g \in Nat : ~(3 * g < 0)
    OBVIOUS
  <2>3. Len(<<>>) = 0
    OBVIOUS
  <2>4. Codes(output, input, 0)
    BY <1>1, <2>1, <2>2, <2>3 DEF Codes
  <2> QED BY <1>1, <1>3, <1>5, <2>1, <2>4 DEF EncodesInv
<1>8. DecodesInv
  <2>1. (1 - 1) % 4 = 0 /\ (1 - 1) \div 4 = 0 /\ 1..(1 - 1) = {} /\ Len(<<>>) = 0
    OBVIOUS
  <2>2. 1 = Len(input) + 1 => input = <<>>
    BY <1>4
  <2>3. 1 = Len(input) + 1 => Base!Pads(input) = 0
    BY <2>2 DEF Base!Pads
  <2>4. Len(output) = 3 * ((place - 1) \div 4) - IF place = Len(input) + 1 THEN Base!Pads(input) ELSE 0
    BY <1>1, <2>1, <2>3
  <2> QED BY <1>1, <1>5, <2>1, <2>2, <2>4 DEF DecodesInv
<1> QED BY <1>6, <1>7, <1>8 DEF BaseInv

LEMMA BaseRecodes ==
  ASSUME BaseInv PROVE Base!TypeOK /\ Base!Recodes
<1>1. /\ input \in Seq(Nat) /\ output \in Seq(Byte) /\ place \in Nat /\ 1 <= place /\ place <= Len(input) + 1
      /\ direction \in {"encode", "decode"} /\ Len(input) \in Nat /\ Len(output) \in Nat
  BY DEF BaseInv, BaseTypes
<1>2. Base!TypeOK
  <2>1. \A i \in DOMAIN output : output[i] \in 0..255
    <3>1. \A i \in DOMAIN output : output[i] \in Byte
      BY <1>1
    <3> QED BY <3>1 DEF Byte
  <2> QED BY <1>1, <2>1 DEF Base!TypeOK
<1>3. Base!Recodes
  <2>1. SUFFICES ASSUME direction = "decode"
        PROVE  /\ thrown # "no" => origin.direction = "decode" /\ ~Base!WellFormed(input)
               /\ Base!Left = 0 /\ thrown = "no" =>
                    /\ Base!WellFormed(input)
                    /\ origin.direction = "encode" => /\ output = origin.input
                                                 /\ Len(input) = 4 * ((Len(output) + 2) \div 3)
                    /\ Len(output) = 3 * (Len(input) \div 4) - Base!Pads(input)
    BY Zenon DEF Base!Recodes
  <2>2. DecodesInv
    BY DEF BaseInv
  <2>3. thrown # "no" => origin.direction = "decode" /\ ~Base!WellFormed(input)
    BY <2>1, <2>2, Zenon DEF DecodesInv
  <2>4. SUFFICES ASSUME Base!Left = 0
        PROVE  /\ Base!WellFormed(input)
               /\ origin.direction = "encode" => /\ output = origin.input
                                            /\ Len(input) = 4 * ((Len(output) + 2) \div 3)
               /\ Len(output) = 3 * (Len(input) \div 4) - Base!Pads(input)
    BY <2>3
  <2>5. place = Len(input) + 1 /\ place - 1 = Len(input) /\ ~(place <= Len(input))
    BY <1>1, <2>4 DEF Base!Left
  <2>6. DOMAIN input = 1..Len(input)
    BY <1>1
  <2>7. Base!WellFormed(input)
    <3>1. Len(input) % 4 = 0
      BY <2>1, <2>2, <2>5 DEF DecodesInv
    <3>2. \A i \in DOMAIN input : Base!IsCharacter(input[i]) \/ (input[i] = Base!Pad /\ i >= Len(input) - 1)
      BY <2>1, <2>2, <2>5, <2>6, Zenon DEF DecodesInv
    <3>3. input # <<>> /\ input[Len(input) - 1] = Base!Pad => input[Len(input)] = Base!Pad
      BY <2>1, <2>2, <2>5, Zenon DEF DecodesInv
    <3> QED BY <3>1, <3>2, <3>3, Zenon DEF Base!WellFormed
  <2>8. Len(output) = 3 * (Len(input) \div 4) - Base!Pads(input)
    BY <2>1, <2>2, <2>5, Zenon DEF DecodesInv
  <2>9. ASSUME origin.direction = "encode"
        PROVE  output = origin.input /\ Len(input) = 4 * ((Len(output) + 2) \div 3)
    <3> DEFINE t == origin.input
    <3>1. /\ t \in Seq(Byte) /\ Codes(input, t, Len(t)) /\ Len(output) = Len(t)
          /\ \A i \in 1..Len(output) : output[i] = t[i]
      BY <2>1, <2>2, <2>5, <2>9, Zenon DEF DecodesInv
    <3> HIDE DEF t
    <3>2. output = t
      BY <1>1, <3>1
    <3>3. Len(input) = 4 * ((Len(t) + 2) \div 3)
      BY <3>1, Zenon DEF Codes
    <3> QED BY <3>1, <3>2, <3>3, Zenon DEF t
  <2> QED BY <2>7, <2>8, <2>9
<1> QED BY <1>2, <1>3

LEMMA BaseStutter ==
  ASSUME BaseInv, UNCHANGED Base!vars PROVE BaseInv'
<1>1. /\ direction' = direction /\ input' = input /\ place' = place /\ output' = output /\ thrown' = thrown
      /\ origin' = origin
  BY DEF Base!vars
<1>2. BaseTypes'
  BY <1>1, Zenon DEF BaseInv, BaseTypes
<1>3. EncodesInv'
  BY <1>1, Zenon DEF BaseInv, EncodesInv
<1>4. DecodesInv'
  BY <1>1, Zenon DEF BaseInv, DecodesInv
<1> QED BY <1>2, <1>3, <1>4 DEF BaseInv

\* json::utility::decodeBase64 gives back the bytes that encodeBase64 was given, for
\* every text, and of the characters it is given itself it takes exactly those that
\* are fours with at most two of padding at the end.
THEOREM Base64Recodes ==
  ASSUME Base!Base64Constants
  PROVE  Base!Spec => [](Base!TypeOK /\ Base!Recodes)
<1>1. Base!Init => BaseInv
  BY BaseStart
<1>2. BaseInv /\ [Base!Next]_(Base!vars) => BaseInv'
  BY EncodeStep, TurnStep, DecodeThreeStep, DecodeTwoStep, DecodeOneStep, FailStep, BaseStutter, Zenon DEF Base!Next
<1>3. BaseInv => Base!TypeOK /\ Base!Recodes
  BY BaseRecodes
<1> QED BY <1>1, <1>2, <1>3, PTL DEF Base!Spec
=============================================================================
