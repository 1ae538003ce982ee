---------------------------- MODULE StreamProofs ----------------------------
(***************************************************************************)
(* Proofs about DataStreambuf: the areas stay inside the memory and every  *)
(* operation is one of the abstract stream, whatever the size the memory   *)
(* starts with, the characters and the length of the content; behind them  *)
(* about StreamDevices: what a device counted is what passed it; and about *)
(* Unicode: what is converted is read inside the range that is given.      *)
(***************************************************************************)
EXTENDS DataStreambuf, FiniteSetTheorems, SequenceTheorems, TLAPS

Cells == Chars \cup {0}

TypeInv ==
  /\ class \in {"malloc", "mutable"}
  /\ mode \in {{"in"}, {"out"}, {"in", "out"}, {"in", "out", "app"}}
  /\ mem \in Seq(Cells)
  /\ eback \in {"null", "mem"} /\ pbase \in {"null", "mem"} /\ fault \in {"none", "overrun", "null"}
  /\ gptr \in 0..MaxLength /\ egptr \in 0..MaxLength /\ pptr \in 0..MaxLength /\ hm \in 0..MaxLength
  /\ epptr \in Nat

\* how the pointers lie while no fault was met
Areas ==
  /\ Mark <= Len(mem) /\ gptr <= egptr
  /\ In => egptr <= Mark /\ eback = Base(mem)
  /\ ~In => gptr = 0 /\ eback = "null"
  /\ Out => epptr = Len(mem) /\ pbase = Base(mem)
  /\ ~Out => pptr = 0 /\ pbase = "null" /\ egptr = hm
  /\ class = "mutable" /\ Out => Len(mem) > 0

FaultInv ==
  /\ fault = "overrun" => class = "malloc" /\ Out /\ hm > 2
  /\ fault = "null" => ~In

IInv == TypeInv /\ (fault = "none" => Areas) /\ FaultInv
-----------------------------------------------------------------------------
LEMMA FillIs ==
  ASSUME NEW s \in Seq(Cells), NEW n \in Nat
  PROVE  /\ Fill(s, n) \in Seq(Cells) /\ Len(Fill(s, n)) = n
         /\ \A i \in 1..n : Fill(s, n)[i] = IF i <= Len(s) THEN s[i] ELSE 0
BY DEF Fill, Cells

\* a memory is null when it has no bytes
LEMMA BaseIs == ASSUME NEW s \in Seq(Cells) PROVE Base(s) = IF Len(s) = 0 THEN "null" ELSE "mem"
BY DEF Base

LEMMA MarkIs == ASSUME TypeInv
                PROVE  Mark \in 0..MaxLength /\ Mark >= hm /\ Mark >= pptr /\ (Mark = hm \/ Mark = pptr)
BY DEF TypeInv, Mark, Larger

\* The memory that data(NSData*) takes.
LEMMA MemoryIs ==
  ASSUME StreambufConstants, TypeInv, NEW s \in Seq(Cells)
  PROVE  /\ Memory(s) \in Seq(Cells)
         /\ class = "mutable" => Len(Memory(s)) = Len(s) + (IF Out THEN First ELSE 0)
         /\ class = "malloc" /\ Out => Len(Memory(s)) = IF Len(s) = 0 THEN 0 ELSE 2
         /\ class = "malloc" /\ ~Out => Len(Memory(s)) = Len(s)
         /\ \A i \in 1..Len(s) : i <= Len(Memory(s)) => Memory(s)[i] = s[i]
<1>1. s = <<>> <=> Len(s) = 0
  OBVIOUS
<1>2. ~Out => In
  BY DEF TypeInv, In, Out
<1>3. CASE class = "mutable"
  <2> DEFINE n == Len(s) + (IF Out THEN First ELSE 0)
  <2>1. n \in Nat /\ n >= Len(s)
    BY DEF StreambufConstants
  <2>2. Memory(s) = Fill(s, n)
    BY <1>3 DEF Memory
  <2> HIDE DEF n
  <2>3. Memory(s) \in Seq(Cells) /\ Len(Memory(s)) = n /\ \A i \in 1..n : Memory(s)[i] = IF i <= Len(s) THEN s[i] ELSE 0
    BY <2>1, <2>2, FillIs
  <2> QED BY <1>3, <2>1, <2>3 DEF n
<1>4. CASE class = "malloc" /\ Out /\ s # <<>>
  <2>1. Memory(s) = Fill(s, 2)
    BY <1>4 DEF Memory, MallocSize
  <2>2. Memory(s) \in Seq(Cells) /\ Len(Memory(s)) = 2 /\ \A i \in 1..2 : Memory(s)[i] = IF i <= Len(s) THEN s[i] ELSE 0
    BY <2>1, FillIs
  <2> QED BY <1>1, <1>4, <2>2
<1>5. CASE class = "malloc" /\ ~(Out /\ s # <<>>)
  <2>1. Memory(s) = s
    BY <1>2, <1>5 DEF Memory
  <2> QED BY <1>1, <1>5, <2>1
<1> QED BY <1>3, <1>4, <1>5 DEF TypeInv

LEMMA Modes == ASSUME TypeInv PROVE ~Out => In
BY DEF TypeInv, In, Out

LEMMA InitInv == ASSUME StreambufConstants, Init PROVE IInv
<1>1. /\ class \in {"malloc", "mutable"} /\ mode \in {{"in"}, {"out"}, {"in", "out"}, {"in", "out", "app"}}
      /\ mem = Memory(<<>>) /\ gptr = 0 /\ egptr = 0 /\ pptr = 0 /\ hm = 0 /\ fault = "none"
  BY DEF Init
<1>2. ~Out => In
  BY <1>1 DEF In, Out
<1>3. mem \in Seq(Cells) /\ (Out => Len(mem) \in Nat) /\ (class = "mutable" /\ Out => Len(mem) > 0)
  <2>1. CASE class = "mutable"
    <3> DEFINE n == IF Out THEN First ELSE 0
    <3>1. n \in Nat /\ (Out => n > 0)
      BY DEF StreambufConstants
    <3>2. mem = Fill(<<>>, n)
      BY <1>1, <2>1, <3>1 DEF Memory, Fill
    <3> HIDE DEF n
    <3>3. <<>> \in Seq(Cells)
      OBVIOUS
    <3>4. mem \in Seq(Cells) /\ Len(mem) = n
      BY <3>1, <3>2, <3>3, FillIs
    <3> QED BY <3>1, <3>4
  <2>2. CASE class = "malloc"
    <3>1. mem = <<>>
      BY <1>1, <2>2 DEF Memory
    <3> QED BY <3>1, <2>2
  <2> QED BY <1>1, <2>1, <2>2
<1>4. /\ eback = (IF In THEN Base(mem) ELSE "null") /\ pbase = (IF Out THEN Base(mem) ELSE "null")
      /\ epptr = (IF Out THEN Len(mem) ELSE 0)
  BY Zenon DEF Init
<1>5. Base(mem) \in {"null", "mem"}
  BY DEF Base
<1>6. TypeInv
  BY <1>1, <1>3, <1>4, <1>5 DEF TypeInv, StreambufConstants
<1>7. Mark = 0
  BY <1>1 DEF Mark, Larger
<1>8. Areas
  BY <1>1, <1>2, <1>3, <1>4, <1>7 DEF Areas
<1> QED BY <1>1, <1>6, <1>8 DEF IInv, FaultInv

LEMMA SetDataStep == ASSUME StreambufConstants, IInv, SetData PROVE IInv'
<1>1. PICK n \in 0..3 : \E s \in [1..n -> Chars] : Works /\ Load(s)
  BY DEF SetData
<1>2. PICK s \in [1..n -> Chars] : Works /\ Load(s)
  BY <1>1
<1>3. s \in Seq(Cells) /\ Len(s) = n
  BY DEF Cells
<1> DEFINE m == Memory(s)
<1>4. /\ mem' = m /\ UNCHANGED <<class, mode, read>>
      /\ fault' = (IF s # <<>> /\ Len(s) > Len(m) /\ (In \/ Out) THEN "overrun" ELSE fault)
      /\ hm' = Len(s)
      /\ Out => pbase' = Base(m) /\ epptr' = Len(m) /\ pptr' \in {0, Len(s)}
      /\ ~Out => pbase' = pbase /\ epptr' = epptr /\ pptr' = pptr
      /\ In => eback' = Base(m) /\ gptr' = 0 /\ egptr' = Len(s)
      /\ ~In => eback' = eback /\ gptr' = gptr /\ egptr' = egptr
  BY <1>2, Modes DEF Load, IInv
<1>5. /\ m \in Seq(Cells)
      /\ class = "mutable" => Len(m) = Len(s) + (IF Out THEN First ELSE 0)
      /\ class = "malloc" /\ Out => Len(m) = IF Len(s) = 0 THEN 0 ELSE 2
      /\ class = "malloc" /\ ~Out => Len(m) = Len(s)
  BY <1>3, MemoryIs DEF IInv
<1>6. TypeInv /\ Areas /\ fault = "none" /\ class \in {"malloc", "mutable"} /\ (~Out => In)
  BY <1>2, Modes DEF IInv, Works, TypeInv
<1>7. Base(m) \in {"null", "mem"} /\ Len(m) \in Nat
  BY <1>5 DEF Base
<1> HIDE DEF m
<1>8. TypeInv'
  <2>1. Len(s) \in 0..MaxLength
    BY <1>3 DEF StreambufConstants
  <2>2. pptr' \in 0..MaxLength /\ gptr' \in 0..MaxLength /\ egptr' \in 0..MaxLength /\ hm' \in 0..MaxLength
    <3>1. gptr \in 0..MaxLength /\ egptr \in 0..MaxLength /\ pptr \in 0..MaxLength /\ 0 \in 0..MaxLength
      BY <1>6 DEF TypeInv, StreambufConstants
    <3>2. pptr' \in {0, Len(s), pptr} /\ gptr' \in {0, gptr} /\ egptr' \in {Len(s), egptr} /\ hm' = Len(s)
      BY <1>4
    <3> QED BY <2>1, <3>1, <3>2
  <2>3. /\ eback' \in {"null", "mem"} /\ pbase' \in {"null", "mem"} /\ fault' \in {"none", "overrun", "null"}
        /\ epptr' \in Nat /\ mem' \in Seq(Cells)
    BY <1>4, <1>5, <1>6, <1>7 DEF TypeInv
  <2> QED BY <2>2, <2>3, <1>4, <1>6 DEF TypeInv
<1>9. In' = In /\ Out' = Out
  BY <1>4 DEF In, Out
<1>10. fault' = "none" => Areas'
  <2> SUFFICES ASSUME fault' = "none" PROVE Areas'
    OBVIOUS
  <2>1. Len(s) <= Len(m)
    BY <1>3, <1>4, <1>6, <1>7
  <2>2. Mark' = Len(s)
    BY <1>3, <1>4, <1>6 DEF Mark, Larger, Areas
  <2>3. Mark' <= Len(mem') /\ gptr' <= egptr'
    BY <2>1, <2>2, <1>3, <1>4, <1>6 DEF Areas
  <2>4. (In => egptr' <= Mark' /\ eback' = Base(mem')) /\ (~In => gptr' = 0 /\ eback' = "null")
    BY <2>2, <1>3, <1>4, <1>6 DEF Areas
  <2>5. Out => epptr' = Len(mem') /\ pbase' = Base(mem')
    BY <1>4
  <2>6. ~Out => pptr' = 0 /\ pbase' = "null" /\ egptr' = hm'
    BY <1>4, <1>6 DEF Areas
  <2>7. class' = "mutable" /\ Out => Len(mem') > 0
    BY <1>3, <1>4, <1>5, <1>7 DEF StreambufConstants
  <2> QED BY <2>3, <2>4, <2>5, <2>6, <2>7, <1>9 DEF Areas
<1>11. FaultInv'
  <2>1. fault' # "null"
    BY <1>4, <1>6
  <2>2. fault' = "overrun" => Len(s) > Len(m) /\ s # <<>>
    BY <1>4, <1>6
  <2>3. fault' = "overrun" => class = "malloc" /\ Out /\ Len(s) > 2
    <3> SUFFICES ASSUME Len(s) > Len(m) PROVE class = "malloc" /\ Out /\ Len(s) > 2
      BY <2>2
    <3> QED BY <1>3, <1>5, <1>6, <1>7 DEF StreambufConstants
  <2> QED BY <2>1, <2>3, <1>4, <1>9 DEF FaultInv
<1> QED BY <1>8, <1>10, <1>11 DEF IInv

\* The memory that a full put area grows to has room for one more.
LEMMA GrownIs ==
  ASSUME StreambufConstants, TypeInv, Areas, Out
  PROVE  /\ Grown \in Seq(Cells) /\ Len(Grown) > Len(mem)
         /\ \A i \in 1..Len(mem) : Grown[i] = mem[i]
<1>1. mem \in Seq(Cells) /\ Len(mem) \in Nat /\ (mem = <<>> <=> Len(mem) = 0)
  BY DEF TypeInv
<1>2. CASE class = "malloc" /\ mem = <<>>
  <2>1. Grown = Fill(mem, First) /\ First \in Nat /\ First > 0
    BY <1>2 DEF Grown, StreambufConstants
  <2>2. Grown \in Seq(Cells) /\ Len(Grown) = First
    BY <2>1, <1>1, FillIs
  <2>3. Len(mem) = 0
    BY <1>1, <1>2
  <2> QED BY <2>1, <2>2, <2>3
<1>3. CASE class = "mutable" \/ mem # <<>>
  <2> DEFINE n == 2 * Len(mem)
  <2>1. Grown = Fill(mem, n)
    <3>1. CASE class = "mutable"
      BY <3>1 DEF Grown
    <3>2. CASE class # "mutable" /\ mem # <<>>
      BY <3>2 DEF Grown
    <3> QED BY <1>3, <3>1, <3>2
  <2>2. Len(mem) > 0
    BY <1>1, <1>3 DEF Areas
  <2>3. n \in Nat /\ n > Len(mem)
    BY <1>1, <2>2
  <2> HIDE DEF n
  <2>4. Grown \in Seq(Cells) /\ Len(Grown) = n /\ \A i \in 1..n : Grown[i] = IF i <= Len(mem) THEN mem[i] ELSE 0
    BY <1>1, <2>1, <2>3, FillIs
  <2> QED BY <1>1, <2>3, <2>4
<1> QED BY <1>2, <1>3 DEF TypeInv

\* What writing one character does to the memory, the mark and the areas.
LEMMA SputcIs ==
  ASSUME StreambufConstants, IInv, NEW c \in Chars, Sputc(c)
  PROVE  /\ TypeInv /\ Areas /\ Out /\ fault' = "none" /\ pptr < MaxLength
         /\ mem' \in Seq(Cells) /\ Len(mem') >= Len(mem) /\ pptr < Len(mem')
         /\ mem'[pptr + 1] = c
         /\ \A i \in 1..Len(mem) : i # pptr + 1 => mem'[i] = mem[i]
         /\ pptr' = pptr + 1 /\ epptr' = Len(mem') /\ pbase' = "mem"
         /\ hm' = hm \/ (hm' = pptr + 1 /\ hm' > hm)
         /\ (In /\ eback' = "mem" /\ egptr' = hm' /\ hm' >= pptr + 1) \/ (~In /\ eback' = eback /\ egptr' = egptr)
              \/ (Len(mem') = Len(mem) /\ eback' = eback /\ egptr' = egptr)
         /\ UNCHANGED <<class, mode, gptr, read>>
<1> DEFINE full == pptr = epptr
           m == IF full THEN Grown ELSE mem
<1>1. /\ Works /\ Out /\ pptr < MaxLength
      /\ fault' = (IF pptr < Len(m) THEN fault ELSE "overrun")
      /\ mem' = [m EXCEPT ![pptr + 1] = c]
      /\ pptr' = pptr + 1 /\ epptr' = Len(m) /\ pbase' = "mem"
      /\ hm' = (IF full THEN Larger(pptr + 1, hm) ELSE hm)
      /\ (IF full /\ In THEN eback' = "mem" /\ egptr' = hm' ELSE UNCHANGED <<eback, egptr>>)
      /\ UNCHANGED <<class, mode, gptr, read>>
  BY Zenon DEF Sputc
<1>2. TypeInv /\ Areas /\ fault = "none"
  BY <1>1 DEF IInv, Works
<1>3. /\ mem \in Seq(Cells) /\ Len(mem) \in Nat /\ pptr \in Nat /\ hm \in Nat
      /\ pptr <= Len(mem) /\ epptr = Len(mem)
  BY <1>1, <1>2, MarkIs DEF TypeInv, Areas
<1>4. /\ m \in Seq(Cells) /\ Len(m) \in Nat /\ Len(m) >= Len(mem) /\ pptr < Len(m)
      /\ \A i \in 1..Len(mem) : m[i] = mem[i]
  <2>1. CASE full
    BY <1>1, <1>2, <1>3, <2>1, GrownIs
  <2>2. CASE ~full
    BY <1>3, <2>2
  <2> QED BY <2>1, <2>2
<1>5. full \/ m = mem
  OBVIOUS
<1> HIDE DEF m
<1>6. c \in Cells
  BY DEF Cells
<1>7. mem' \in Seq(Cells) /\ Len(mem') = Len(m) /\ mem'[pptr + 1] = c /\ \A i \in 1..Len(m) : i # pptr + 1 => mem'[i] = m[i]
  BY <1>1, <1>3, <1>4, <1>6
<1>8. \A i \in 1..Len(mem) : i # pptr + 1 => mem'[i] = mem[i]
  BY <1>3, <1>4, <1>7
<1>9. hm' = hm \/ (hm' = pptr + 1 /\ hm' > hm)
  BY <1>1, <1>3 DEF Larger
<1>10. full => hm' >= pptr + 1
  BY <1>1, <1>3 DEF Larger
<1>11. (In /\ eback' = "mem" /\ egptr' = hm' /\ hm' >= pptr + 1) \/ (~In /\ eback' = eback /\ egptr' = egptr)
              \/ (Len(mem') = Len(mem) /\ eback' = eback /\ egptr' = egptr)
  <2>1. CASE full /\ In
    BY <2>1, <1>1, <1>10
  <2>2. CASE full /\ ~In
    BY <2>2, <1>1
  <2>3. CASE ~full
    BY <2>3, <1>1, <1>5, <1>7
  <2> QED BY <2>1, <2>2, <2>3
<1>12. fault' = "none" /\ epptr' = Len(mem') /\ Len(mem') >= Len(mem) /\ pptr < Len(mem')
  BY <1>1, <1>2, <1>4, <1>7
<1> QED BY <1>1, <1>2, <1>7, <1>8, <1>9, <1>11, <1>12

\* The mark moves on to what was written, and not otherwise.
LEMMA SputcMark ==
  ASSUME StreambufConstants, IInv, NEW c \in Chars, Sputc(c)
  PROVE  Mark' = IF pptr = Mark THEN pptr + 1 ELSE Mark
<1>1. /\ TypeInv /\ pptr' = pptr + 1 /\ (hm' = hm \/ (hm' = pptr + 1 /\ hm' > hm))
  BY SputcIs
<1>2. pptr \in Nat /\ hm \in Nat
  BY <1>1 DEF TypeInv
<1>3. Mark = (IF hm > pptr THEN hm ELSE pptr) /\ Mark' = (IF hm' > pptr' THEN hm' ELSE pptr')
  BY DEF Mark, Larger
<1> QED BY <1>1, <1>2, <1>3

LEMMA SputcStep == ASSUME StreambufConstants, IInv, NEW c \in Chars, Sputc(c) PROVE IInv'
<1>1. /\ TypeInv /\ Areas /\ Out /\ fault' = "none" /\ pptr < MaxLength
      /\ mem' \in Seq(Cells) /\ Len(mem') >= Len(mem) /\ pptr < Len(mem')
      /\ pptr' = pptr + 1 /\ epptr' = Len(mem') /\ pbase' = "mem"
      /\ hm' = hm \/ (hm' = pptr + 1 /\ hm' > hm)
      /\ (In /\ eback' = "mem" /\ egptr' = hm' /\ hm' >= pptr + 1) \/ (~In /\ eback' = eback /\ egptr' = egptr)
              \/ (Len(mem') = Len(mem) /\ eback' = eback /\ egptr' = egptr)
      /\ UNCHANGED <<class, mode, gptr, read>>
  BY SputcIs
<1>2. /\ pptr \in 0..MaxLength /\ hm \in 0..MaxLength /\ gptr \in 0..MaxLength /\ egptr \in 0..MaxLength /\ MaxLength \in Nat
      /\ Len(mem') \in Nat /\ Len(mem) \in Nat /\ Mark \in 0..MaxLength /\ Mark >= pptr /\ Mark >= hm /\ mem \in Seq(Cells)
  BY <1>1, MarkIs DEF TypeInv, StreambufConstants
<1>3. Mark' = IF pptr = Mark THEN pptr + 1 ELSE Mark
  BY SputcMark
<1>4. Mark <= Len(mem) /\ gptr <= egptr /\ (In => egptr <= Mark /\ eback = Base(mem)) /\ (~In => gptr = 0 /\ eback = "null")
      /\ (class = "mutable" => Len(mem) > 0)
  BY <1>1 DEF Areas
<1>5. In' = In /\ Out' = Out
  BY <1>1 DEF In, Out
<1>6. TypeInv'
  <2>1. pptr' \in 0..MaxLength /\ hm' \in 0..MaxLength
    BY <1>1, <1>2
  <2>2. egptr' \in 0..MaxLength
    BY <2>1, <1>1, <1>2
  <2>3. eback' \in {"null", "mem"}
    BY <1>1 DEF TypeInv
  <2> QED BY <2>1, <2>2, <2>3, <1>1, <1>2 DEF TypeInv
<1>7. Base(mem') = "mem"
  BY <1>1, <1>2, BaseIs
<1>8. Areas'
  <2>1. Mark' <= Len(mem')
    BY <1>1, <1>2, <1>3, <1>4
  <2>2. gptr' <= egptr'
    <3>1. CASE ~(egptr' = egptr)
      <4>2. egptr' = hm' /\ hm' >= pptr + 1 /\ hm' >= hm
        BY <3>1, <1>1, <1>2
      <4>3. gptr <= Mark
        BY <1>2, <1>4
      <4>4. Mark = hm \/ Mark = pptr
        BY <1>1, MarkIs
      <4> QED BY <4>2, <4>3, <4>4, <1>1, <1>2
    <3>2. CASE egptr' = egptr
      BY <3>2, <1>1, <1>4
    <3> QED BY <3>1, <3>2
  <2>3. In => egptr' <= Mark'
    <3>1. Mark' >= hm' /\ Mark' >= Mark
      <4>1. hm' <= Mark'
        BY <1>1, <1>2, <1>3
      <4>2. Mark' >= Mark
        BY <1>2, <1>3
      <4> QED BY <4>1, <4>2
    <3>2. In => egptr' = hm' \/ egptr' = egptr
      BY <1>1
    <3>3. Mark' \in Nat /\ hm' \in Nat
      BY <1>1, <1>2, <1>3
    <3> QED BY <3>1, <3>2, <3>3, <1>2, <1>4
  <2>4. In => eback' = Base(mem')
    <3>1. CASE eback' = "mem"
      BY <3>1, <1>7
    <3>2. CASE Len(mem') = Len(mem) /\ eback' = eback
      <4>1. Base(mem) = "mem"
        BY <3>2, <1>1, <1>2, BaseIs
      <4> QED BY <4>1, <3>2, <1>4, <1>7
    <3> QED BY <3>1, <3>2, <1>1
  <2>5. ~In => gptr' = 0 /\ eback' = "null"
    <3> SUFFICES ASSUME ~In PROVE gptr' = 0 /\ eback' = "null"
      OBVIOUS
    <3> QED BY <1>1, <1>4
  <2>6. class' = "mutable" => Len(mem') > 0
    BY <1>1, <1>2
  <2> QED BY <2>1, <2>2, <2>3, <2>4, <2>5, <2>6, <1>1, <1>5, <1>7 DEF Areas
<1> QED BY <1>1, <1>6, <1>8 DEF IInv, FaultInv

\* Reading one character: what there is to read ends at the mark.
LEMMA SbumpcIs ==
  ASSUME IInv, Sbumpc
  PROVE  /\ TypeInv /\ Areas /\ fault = "none"
         /\ hm' \in {hm, Mark} /\ egptr' \in {egptr, Mark} /\ (Out \/ (hm' = hm /\ egptr' = egptr))
         /\ egptr' >= egptr /\ (~In => egptr' = egptr)
         /\ \/ gptr >= egptr' /\ read' = 0 /\ gptr' = gptr /\ fault' = "none" /\ (In => gptr = Mark)
            \/ gptr < egptr' /\ eback = "null" /\ fault' = "null" /\ gptr' = gptr /\ read' = read
            \/ gptr < egptr' /\ eback = "mem" /\ read' = mem[gptr + 1] /\ gptr' = gptr + 1 /\ fault' = "none"
         /\ UNCHANGED <<class, mode, mem, eback, pbase, pptr, epptr>>
<1> DEFINE end == IF gptr < egptr THEN egptr ELSE Underflow
<1>1. /\ Works
      /\ hm' = (IF gptr < egptr THEN hm ELSE Mark)
      /\ egptr' = end
      /\ (IF gptr >= end THEN read' = 0 /\ UNCHANGED <<gptr, fault>>
          ELSE IF eback = "null" THEN fault' = "null" /\ UNCHANGED <<read, gptr>>
          ELSE read' = mem[gptr + 1] /\ gptr' = gptr + 1 /\ UNCHANGED fault)
      /\ UNCHANGED <<class, mode, mem, eback, pbase, pptr, epptr>>
  BY Zenon DEF Sbumpc
<1>2. TypeInv /\ Areas /\ fault = "none"
  BY <1>1 DEF IInv, Works
<1>3. /\ gptr \in Nat /\ egptr \in Nat /\ hm \in Nat /\ pptr \in Nat /\ Mark \in Nat
      /\ Mark >= hm /\ Mark >= pptr /\ (Mark = hm \/ Mark = pptr) /\ eback \in {"null", "mem"}
  BY <1>2, MarkIs DEF TypeInv
<1>4. gptr <= egptr /\ (In => egptr <= Mark) /\ (~Out => pptr = 0 /\ egptr = hm) /\ (~Out => In)
  BY <1>2, Modes DEF Areas
<1>5. Underflow = (IF In THEN (IF egptr > Mark THEN egptr ELSE Mark) ELSE egptr)
  BY DEF Underflow, Larger
<1>6. end \in {egptr, Mark} /\ end >= egptr /\ (~In => end = egptr) /\ (In /\ gptr >= egptr => end = Mark)
  BY <1>3, <1>4, <1>5
<1>7. ~Out => Mark = hm /\ end = egptr
  BY <1>3, <1>4, <1>5
<1>8. In /\ gptr >= end => gptr = Mark
  <2> SUFFICES ASSUME In, gptr >= end PROVE gptr = Mark
    OBVIOUS
  <2>1. gptr >= egptr
    BY <1>3, <1>6
  <2>2. end = Mark
    BY <1>6, <2>1
  <2>3. gptr <= Mark
    BY <1>3, <1>4
  <2> QED BY <1>3, <2>2, <2>3
<1> HIDE DEF end
<1>9. hm' \in {hm, Mark} /\ (Out \/ (hm' = hm /\ egptr' = egptr))
  BY <1>1, <1>7
<1>10. end \in Nat
  BY <1>3, <1>6
<1>11. \/ gptr >= end /\ read' = 0 /\ gptr' = gptr /\ fault' = "none"
       \/ gptr < end /\ eback = "null" /\ fault' = "null" /\ gptr' = gptr /\ read' = read
       \/ gptr < end /\ eback = "mem" /\ read' = mem[gptr + 1] /\ gptr' = gptr + 1 /\ fault' = "none"
  BY <1>1, <1>2, <1>3, <1>10
<1> QED BY <1>1, <1>2, <1>6, <1>8, <1>9, <1>11

LEMMA SbumpcStep == ASSUME StreambufConstants, IInv, Sbumpc PROVE IInv'
<1>1. /\ TypeInv /\ Areas /\ fault = "none"
      /\ hm' \in {hm, Mark} /\ egptr' \in {egptr, Mark} /\ (Out \/ (hm' = hm /\ egptr' = egptr))
      /\ egptr' >= egptr /\ (~In => egptr' = egptr)
      /\ UNCHANGED <<class, mode, mem, eback, pbase, pptr, epptr>>
  BY SbumpcIs
<1>2. \/ gptr' = gptr /\ fault' = "none"
      \/ gptr < egptr' /\ eback = "null" /\ fault' = "null" /\ gptr' = gptr
      \/ gptr < egptr' /\ eback = "mem" /\ gptr' = gptr + 1 /\ fault' = "none"
  BY SbumpcIs
<1>3. /\ gptr \in 0..MaxLength /\ egptr \in 0..MaxLength /\ hm \in 0..MaxLength /\ pptr \in 0..MaxLength /\ Mark \in 0..MaxLength
      /\ Mark >= hm /\ Mark >= pptr /\ (Mark = hm \/ Mark = pptr) /\ MaxLength \in Nat /\ Len(mem) \in Nat
  BY <1>1, MarkIs DEF TypeInv, StreambufConstants
<1>4. /\ Mark <= Len(mem) /\ gptr <= egptr
      /\ In => egptr <= Mark /\ eback = Base(mem)
      /\ ~In => gptr = 0 /\ eback = "null"
      /\ Out => epptr = Len(mem) /\ pbase = Base(mem)
      /\ ~Out => pptr = 0 /\ pbase = "null" /\ egptr = hm
      /\ class = "mutable" /\ Out => Len(mem) > 0
  BY <1>1 DEF Areas
<1>5. In' = In /\ Out' = Out
  BY <1>1 DEF In, Out
<1>6. egptr' \in 0..MaxLength /\ hm' \in 0..MaxLength
  BY <1>1, <1>3
<1>7. gptr' \in 0..MaxLength /\ gptr' <= egptr'
  BY <1>1, <1>2, <1>3, <1>4, <1>6
<1>8. TypeInv'
  BY <1>1, <1>2, <1>6, <1>7 DEF TypeInv
<1>9. Mark' = Mark
  BY <1>1, <1>3 DEF Mark, Larger
<1>10. fault' = "none" => Areas'
  <2> SUFFICES ASSUME fault' = "none" PROVE Areas'
    OBVIOUS
  <2>1. In => egptr' <= Mark' /\ eback' = Base(mem')
    BY <1>1, <1>3, <1>4, <1>9
  <2>2. ~In => gptr' = 0 /\ eback' = "null"
    BY <1>1, <1>2, <1>4
  <2>3. Out => epptr' = Len(mem') /\ pbase' = Base(mem')
    BY <1>1, <1>4
  <2>4. ~Out => pptr' = 0 /\ pbase' = "null" /\ egptr' = hm'
    BY <1>1, <1>4
  <2>5. Mark' <= Len(mem') /\ (class' = "mutable" /\ Out => Len(mem') > 0)
    BY <1>1, <1>4, <1>9
  <2> QED BY <2>1, <2>2, <2>3, <2>4, <2>5, <1>5, <1>7 DEF Areas
<1>11. FaultInv'
  <2>1. fault' # "overrun"
    BY <1>1, <1>2
  <2>2. fault' = "null" => ~In
    <3> SUFFICES ASSUME fault' = "null", In PROVE FALSE
      OBVIOUS
    <3>1. gptr < egptr' /\ eback = "null"
      BY <1>2
    <3>2. Base(mem) = "null"
      BY <1>4, <3>1
    <3>3. Len(mem) = 0
      BY <3>2, <1>1, BaseIs DEF TypeInv
    <3>4. egptr' <= Mark
      BY <1>1, <1>3, <1>4
    <3> QED BY <3>1, <3>3, <3>4, <1>3, <1>4, <1>6
  <2> QED BY <2>1, <2>2, <1>5 DEF FaultInv
<1> QED BY <1>8, <1>10, <1>11 DEF IInv

\* Steps after which the memory has the same size, the bases are the same and
\* the mark is where it was: those that put back, seek, or get the data.
LEMMA MarkedStep ==
  ASSUME StreambufConstants, TypeInv, Areas, fault = "none",
         UNCHANGED <<class, mode, eback, pbase, epptr, fault>>,
         mem' \in Seq(Cells), Len(mem') = Len(mem), hm' \in {hm, Mark}, Mark' = Mark,
         gptr' \in Nat, gptr' <= egptr', egptr' \in {egptr, Mark}, pptr' \in 0..Mark,
         ~In => gptr' = 0, ~Out => pptr' = 0
  PROVE  IInv'
<1>1. /\ gptr \in 0..MaxLength /\ egptr \in 0..MaxLength /\ hm \in 0..MaxLength /\ pptr \in 0..MaxLength /\ Mark \in 0..MaxLength
      /\ Mark >= hm /\ Mark >= pptr /\ (Mark = hm \/ Mark = pptr) /\ MaxLength \in Nat /\ Len(mem) \in Nat
  BY MarkIs DEF TypeInv, StreambufConstants
<1>2. In' = In /\ Out' = Out
  BY DEF In, Out
<1>3. TypeInv'
  <2>1. egptr' \in 0..MaxLength /\ hm' \in 0..MaxLength /\ pptr' \in 0..MaxLength
    BY <1>1
  <2>2. gptr' \in 0..MaxLength
    BY <1>1, <2>1
  <2> QED BY <2>1, <2>2 DEF TypeInv
<1>4. Base(mem') = Base(mem)
  BY BaseIs DEF TypeInv
<1>5. ~Out => Mark = hm
  BY <1>1 DEF Areas
<1>6. Areas'
  <2>1. In => egptr' <= Mark' /\ eback' = Base(mem')
    BY <1>1, <1>4 DEF Areas
  <2>2. ~In => gptr' = 0 /\ eback' = "null"
    BY DEF Areas
  <2>3. Out => epptr' = Len(mem') /\ pbase' = Base(mem')
    BY <1>4 DEF Areas
  <2>4. ~Out => pptr' = 0 /\ pbase' = "null" /\ egptr' = hm'
    BY <1>5 DEF Areas
  <2>5. Mark' <= Len(mem') /\ (class' = "mutable" /\ Out => Len(mem') > 0)
    BY DEF Areas
  <2> QED BY <2>1, <2>2, <2>3, <2>4, <2>5, <1>2 DEF Areas
<1> QED BY <1>3, <1>6 DEF IInv, FaultInv

\* Putting back a character.
LEMMA SputbackcIs ==
  ASSUME StreambufConstants, IInv, NEW c \in Chars, Sputbackc(c)
  PROVE  /\ TypeInv /\ Areas /\ fault = "none" /\ In /\ gptr \in 1..Mark
         /\ gptr' = gptr - 1 /\ Mark' = Mark /\ hm' \in {hm, Mark}
         /\ \/ mem[gptr] = c /\ mem' = mem /\ egptr' = egptr /\ hm' = hm
            \/ Out /\ mem' = [mem EXCEPT ![gptr] = c] /\ egptr' = Mark
         /\ UNCHANGED <<class, mode, eback, pbase, pptr, epptr, read, fault>>
<1>1. /\ Works /\ gptr > 0 /\ eback = "mem" /\ gptr' = gptr - 1
      /\ (IF mem[gptr] = c THEN UNCHANGED <<mem, egptr, hm>> ELSE Pbackfail(c))
      /\ UNCHANGED <<class, mode, eback, pbase, pptr, epptr, read, fault>>
  BY Zenon DEF Sputbackc
<1>2. TypeInv /\ Areas /\ fault = "none"
  BY <1>1 DEF IInv, Works
<1>3. /\ gptr \in Nat /\ egptr \in Nat /\ hm \in Nat /\ pptr \in Nat /\ Mark \in Nat
      /\ Mark >= hm /\ Mark >= pptr /\ (Mark = hm \/ Mark = pptr)
  BY <1>2, MarkIs DEF TypeInv
<1>4. In
  BY <1>1, <1>2 DEF Areas
<1>5. gptr \in 1..Mark
  BY <1>1, <1>2, <1>3, <1>4 DEF Areas
<1>6. \/ mem[gptr] = c /\ mem' = mem /\ egptr' = egptr /\ hm' = hm
      \/ Out /\ mem' = [mem EXCEPT ![gptr] = c] /\ egptr' = Mark /\ hm' = Mark
  BY <1>1, Zenon DEF Pbackfail
<1>7. hm' \in {hm, Mark}
  BY <1>6
<1>8. Mark' = Mark
  BY <1>1, <1>3, <1>7 DEF Mark, Larger
<1> QED BY <1>1, <1>2, <1>4, <1>5, <1>6, <1>7, <1>8

LEMMA SputbackcStep == ASSUME StreambufConstants, IInv, NEW c \in Chars, Sputbackc(c) PROVE IInv'
<1>1. /\ TypeInv /\ Areas /\ fault = "none" /\ In /\ gptr \in 1..Mark
      /\ gptr' = gptr - 1 /\ Mark' = Mark /\ hm' \in {hm, Mark}
      /\ UNCHANGED <<class, mode, eback, pbase, pptr, epptr, read, fault>>
  BY SputbackcIs
<1>2. \/ mem[gptr] = c /\ mem' = mem /\ egptr' = egptr /\ hm' = hm
      \/ Out /\ mem' = [mem EXCEPT ![gptr] = c] /\ egptr' = Mark
  BY SputbackcIs
<1>3. mem \in Seq(Cells) /\ c \in Cells /\ Mark \in Nat /\ egptr \in Nat /\ pptr \in Nat /\ pptr <= Mark /\ Mark <= Len(mem)
  BY <1>1, MarkIs DEF TypeInv, Cells, Areas
<1>4. mem' \in Seq(Cells) /\ Len(mem') = Len(mem)
  BY <1>2, <1>3
<1>5. gptr' \in Nat /\ gptr' <= egptr' /\ egptr' \in {egptr, Mark}
  BY <1>1, <1>2, <1>3 DEF Areas
<1>6. pptr' \in 0..Mark /\ (~Out => pptr' = 0)
  BY <1>1, <1>3 DEF Areas
<1> QED BY <1>1, <1>4, <1>5, <1>6, MarkedStep

\* A seek that is granted.
LEMMA SeekoffIs ==
  ASSUME StreambufConstants, IInv, NEW off, NEW way, NEW which \in SUBSET {"in", "out"}, Seekoff(off, way, which)
  PROVE  /\ TypeInv /\ Areas /\ fault = "none" /\ hm' = Mark /\ Mark' = Mark /\ which # {}
         /\ \E to \in 0..Mark :
              /\ to # 0 => ("in" \in which => eback = "mem") /\ ("out" \in which => pbase = "mem")
              /\ "in" \in which => gptr' = to /\ egptr' = Mark
              /\ "in" \notin which => gptr' = gptr /\ egptr' = egptr
              /\ pptr' = IF "out" \in which THEN to ELSE pptr
         /\ UNCHANGED <<class, mode, mem, eback, pbase, epptr, read, fault>>
<1> DEFINE to == Target(off, way, which)
<1>1. /\ Works /\ to \in 0..Mark
      /\ to # 0 => ("in" \in which => eback = "mem") /\ ("out" \in which => pbase = "mem")
      /\ hm' = Mark
      /\ (IF "in" \in which THEN gptr' = to /\ egptr' = Mark ELSE UNCHANGED <<gptr, egptr>>)
      /\ pptr' = (IF "out" \in which THEN to ELSE pptr)
      /\ UNCHANGED <<class, mode, mem, eback, pbase, epptr, read, fault>>
  BY Zenon DEF Seekoff
<1>2. TypeInv /\ Areas /\ fault = "none"
  BY <1>1 DEF IInv, Works
<1>3. Mark \in Nat /\ pptr \in Nat /\ Mark >= pptr
  BY <1>2, MarkIs DEF TypeInv
<1>4. which # {}
  <2>1. which = {} => to = -1
    BY DEF Target
  <2> QED BY <2>1, <1>1, <1>3
<1> HIDE DEF to
<1>5. pptr' \in Nat /\ pptr' <= Mark
  BY <1>1, <1>3
<1>6. Mark' = Mark
  BY <1>1, <1>3, <1>5 DEF Mark, Larger
<1>7. /\ "in" \in which => gptr' = to /\ egptr' = Mark
      /\ "in" \notin which => gptr' = gptr /\ egptr' = egptr
  BY <1>1
<1> QED BY <1>1, <1>2, <1>4, <1>6, <1>7

LEMMA SeekoffStep ==
  ASSUME StreambufConstants, IInv, NEW off, NEW way, NEW which \in SUBSET {"in", "out"}, Seekoff(off, way, which)
  PROVE  IInv'
<1>1. /\ TypeInv /\ Areas /\ fault = "none" /\ hm' = Mark /\ Mark' = Mark
      /\ UNCHANGED <<class, mode, mem, eback, pbase, epptr, read, fault>>
  BY SeekoffIs
<1>2. PICK to \in 0..Mark :
        /\ to # 0 => ("in" \in which => eback = "mem") /\ ("out" \in which => pbase = "mem")
        /\ "in" \in which => gptr' = to /\ egptr' = Mark
        /\ "in" \notin which => gptr' = gptr /\ egptr' = egptr
        /\ pptr' = IF "out" \in which THEN to ELSE pptr
  BY SeekoffIs
<1>3. /\ Mark \in Nat /\ pptr \in Nat /\ pptr <= Mark /\ gptr \in Nat /\ egptr \in Nat /\ gptr <= egptr
      /\ (~In => gptr = 0 /\ eback = "null") /\ (~Out => pptr = 0 /\ pbase = "null") /\ mem \in Seq(Cells)
  BY <1>1, MarkIs DEF TypeInv, Areas
<1>4. gptr' \in Nat /\ gptr' <= egptr' /\ egptr' \in {egptr, Mark} /\ (~In => gptr' = 0)
  <2>1. CASE "in" \in which
    BY <2>1, <1>2, <1>3
  <2>2. CASE "in" \notin which
    BY <2>2, <1>2, <1>3
  <2> QED BY <2>1, <2>2
<1>5. pptr' \in 0..Mark /\ (~Out => pptr' = 0)
  <2>1. CASE "out" \in which
    BY <2>1, <1>2, <1>3
  <2>2. CASE "out" \notin which
    BY <2>2, <1>2, <1>3
  <2> QED BY <2>1, <2>2
<1>6. mem' \in Seq(Cells) /\ Len(mem') = Len(mem) /\ hm' \in {hm, Mark}
  BY <1>1, <1>3
<1> QED BY <1>1, <1>4, <1>5, <1>6, MarkedStep

LEMMA GetDataStep == ASSUME StreambufConstants, IInv, GetData PROVE IInv'
<1>1. /\ Works /\ Out /\ hm' = Mark
      /\ UNCHANGED <<class, mode, mem, eback, gptr, egptr, pbase, pptr, epptr, read, fault>>
  BY DEF GetData
<1>2. TypeInv /\ Areas /\ fault = "none"
  BY <1>1 DEF IInv, Works
<1>3. Mark \in Nat /\ pptr \in Nat /\ pptr <= Mark /\ gptr \in Nat /\ gptr <= egptr /\ (~In => gptr = 0) /\ mem \in Seq(Cells)
  BY <1>2, MarkIs DEF TypeInv, Areas
<1>4. Mark' = Mark
  BY <1>1, <1>3 DEF Mark, Larger
<1>5. mem' \in Seq(Cells) /\ Len(mem') = Len(mem) /\ hm' \in {hm, Mark} /\ gptr' \in Nat /\ gptr' <= egptr' /\ egptr' \in {egptr, Mark}
      /\ pptr' \in 0..Mark /\ (~In => gptr' = 0) /\ (~Out => pptr' = 0)
  BY <1>1, <1>3
<1> QED BY <1>1, <1>2, <1>4, <1>5, MarkedStep

LEMMA InvIsInductive == ASSUME StreambufConstants, IInv, [Next]_vars PROVE IInv'
<1>1. CASE UNCHANGED vars
  <2>1. UNCHANGED <<class, mode, mem, eback, gptr, egptr, pbase, pptr, epptr, hm, read, fault>>
    BY <1>1 DEF vars
  <2> QED BY <2>1 DEF IInv, TypeInv, Areas, FaultInv, In, Out, Mark, Larger, Base
<1>2. CASE SetData
  BY <1>2, SetDataStep
<1>3. CASE GetData
  BY <1>3, GetDataStep
<1>4. CASE Sbumpc
  BY <1>4, SbumpcStep
<1>5. ASSUME NEW c \in Chars, Sputc(c) PROVE IInv'
  BY <1>5, SputcStep
<1>6. ASSUME NEW c \in Chars, Sputbackc(c) PROVE IInv'
  BY <1>6, SputbackcStep
<1>7. ASSUME NEW which \in SUBSET {"in", "out"}, NEW off \in -2..2, NEW way \in {"cur", "end"}, Seekoff(off, way, which)
      PROVE IInv'
  BY <1>7, SeekoffStep
<1>8. ASSUME NEW which \in SUBSET {"in", "out"}, NEW position \in 0..2, Seekpos(position, which)
      PROVE IInv'
  BY <1>8, SeekoffStep DEF Seekpos
<1> QED BY <1>1, <1>2, <1>3, <1>4, <1>5, <1>6, <1>7, <1>8 DEF Next
-----------------------------------------------------------------------------
\* The type invariant of the stream buffers: no pointer and no mark goes beyond
\* the longest content.
THEOREM TypeCorrect == ASSUME StreambufConstants PROVE Spec => []TypeOK
<1>1. Init => IInv
  BY InitInv
<1>2. IInv /\ [Next]_vars => IInv'
  BY InvIsInductive
<1>3. IInv => TypeOK
  BY DEF IInv, TypeInv, TypeOK
<1> QED BY <1>1, <1>2, <1>3, PTL DEF Spec

\* The get and the put area stay inside the memory, with the two exceptions
\* that InMemory names, for any characters, any length of the content and any
\* first size of the memory.
THEOREM StaysInMemory == ASSUME StreambufConstants PROVE Spec => []InMemory
<1>1. Init => IInv
  BY InitInv
<1>2. IInv /\ [Next]_vars => IInv'
  BY InvIsInductive
<1>3. IInv => InMemory
  <2> SUFFICES ASSUME IInv PROVE InMemory
    OBVIOUS
  <2>1. Mark \in Nat /\ egptr \in Nat /\ Len(mem) \in Nat
    BY MarkIs DEF IInv, TypeInv
  <2>2. fault = "none" => /\ Mark <= Len(mem) /\ gptr <= egptr
                          /\ In => egptr <= Len(mem)
                          /\ Out => epptr = Len(mem)
    BY <2>1 DEF IInv, Areas
  <2> QED BY <2>2 DEF InMemory, IInv, FaultInv
<1> QED BY <1>1, <1>2, <1>3, PTL DEF Spec
-----------------------------------------------------------------------------
(* The refinement of ByteStream. *)

\* The content is the memory up to the mark, in the present state and the next.
LEMMA DataIs ==
  ASSUME TypeInv, Areas
  PROVE  Data = [i \in 1..Mark |-> mem[i]] /\ Mark \in Nat
<1>1. Mark \in Nat /\ Mark <= Len(mem) /\ mem \in Seq(Cells) /\ hm \in Nat /\ (Mark = hm \/ Mark = pptr) /\ Mark >= hm
  BY MarkIs DEF TypeInv, Areas
<1>2. ~Out => egptr = Mark
  BY <1>1 DEF Areas, Mark, Larger
<1>3. Data = SubSeq(mem, 1, Mark)
  BY <1>2 DEF Data
<1> QED BY <1>1, <1>3

LEMMA DataIsNext ==
  ASSUME TypeInv', Areas'
  PROVE  Data' = [i \in 1..Mark' |-> mem'[i]] /\ Mark' \in Nat
<1>1. Mark' \in Nat /\ Mark' <= Len(mem') /\ mem' \in Seq(Cells) /\ hm' \in Nat /\ (Mark' = hm' \/ Mark' = pptr') /\ Mark' >= hm'
  BY DEF TypeInv, Areas, Mark, Larger
<1>2. ~Out' => egptr' = Mark'
  BY <1>1 DEF Areas, Mark, Larger
<1>3. Data' = SubSeq(mem', 1, Mark')
  BY <1>2 DEF Data
<1> QED BY <1>1, <1>3

\* The content stays what it was when the memory up to the mark does.
LEMMA DataStays ==
  ASSUME TypeInv, Areas, TypeInv', Areas', Mark' = Mark, \A i \in 1..Mark : mem'[i] = mem[i]
  PROVE  Data' = Data
<1>1. Data = [i \in 1..Mark |-> mem[i]]
  BY DataIs
<1>2. Data' = [i \in 1..Mark |-> mem'[i]]
  BY DataIsNext
<1> QED BY <1>1, <1>2

LEMMA SetDataRefines ==
  ASSUME StreambufConstants, IInv, IInv', fault' = "none", SetData
  PROVE  Stream!Next
<1>1. PICK n \in 0..3 : \E s \in [1..n -> Chars] : Works /\ Load(s)
  BY DEF SetData
<1>2. PICK s \in [1..n -> Chars] : Works /\ Load(s)
  BY <1>1
<1>3. s \in Seq(Chars) /\ s \in Seq(Cells) /\ Len(s) = n
  BY DEF Cells
<1>4. TypeInv /\ Areas /\ TypeInv' /\ Areas'
  BY <1>2 DEF IInv, Works
<1> DEFINE m == Memory(s)
<1>5. /\ mem' = m /\ UNCHANGED <<class, mode, read>>
      /\ hm' = Len(s)
      /\ Out => pptr' \in {0, Len(s)}
      /\ ~Out => pptr' = pptr
      /\ In => gptr' = 0
      /\ ~In => gptr' = gptr
  BY <1>2, <1>4, Modes DEF Load
<1>6. \A i \in 1..Len(s) : i <= Len(m) => m[i] = s[i]
  BY <1>3, <1>4, MemoryIs
<1> HIDE DEF m
<1>7. gptr' = 0 /\ pptr' \in {0, Len(s)}
  BY <1>4, <1>5 DEF Areas
<1>8. Mark' = Len(s)
  BY <1>3, <1>5, <1>7 DEF Mark, Larger
<1>9. Len(s) <= Len(m)
  BY <1>4, <1>5, <1>8 DEF Areas
<1>10. Data' = [i \in 1..Len(s) |-> m[i]]
  BY <1>4, <1>5, <1>8, DataIsNext
<1>11. Data' = s
  <2>1. \A i \in 1..Len(s) : m[i] = s[i]
    BY <1>3, <1>6, <1>9, <1>5, <1>4 DEF TypeInv
  <2> QED BY <2>1, <1>3, <1>10
<1>12. Stream!SetContent
  BY <1>3, <1>5, <1>7, <1>11 DEF Stream!SetContent
<1> QED BY <1>5, <1>12 DEF Stream!Next

LEMMA SputcRefines ==
  ASSUME StreambufConstants, IInv, IInv', NEW c \in Chars, Sputc(c)
  PROVE  Stream!Next
<1>1. /\ TypeInv /\ Areas /\ Out /\ fault' = "none"
      /\ Len(mem') >= Len(mem) /\ pptr < Len(mem') /\ mem'[pptr + 1] = c
      /\ \A i \in 1..Len(mem) : i # pptr + 1 => mem'[i] = mem[i]
      /\ pptr' = pptr + 1
      /\ UNCHANGED <<class, mode, gptr, read>>
  BY SputcIs
<1>2. TypeInv' /\ Areas'
  BY <1>1 DEF IInv
<1>3. Mark' = IF pptr = Mark THEN pptr + 1 ELSE Mark
  BY SputcMark
<1>4. Mark \in Nat /\ pptr \in Nat /\ pptr <= Mark /\ Mark <= Len(mem) /\ Len(mem) \in Nat
  BY <1>1, MarkIs DEF TypeInv, Areas
<1>5. Data = [i \in 1..Mark |-> mem[i]] /\ Data' = [i \in 1..Mark' |-> mem'[i]]
  BY <1>1, <1>2, DataIs, DataIsNext
<1>6. Len(Data) = Mark
  BY <1>4, <1>5
<1> DEFINE next == [i \in 1..(IF pptr = Len(Data) THEN pptr + 1 ELSE Len(Data)) |->
                      IF i = pptr + 1 THEN c ELSE Data[i]]
<1>7. next = [i \in 1..Mark' |-> IF i = pptr + 1 THEN c ELSE Data[i]]
  BY <1>3, <1>6
<1>8. \A i \in 1..Mark' : mem'[i] = IF i = pptr + 1 THEN c ELSE Data[i]
  <2> TAKE i \in 1..Mark'
  <2>1. CASE i = pptr + 1
    BY <2>1, <1>1
  <2>2. CASE i # pptr + 1
    <3>1. i \in 1..Mark /\ i \in 1..Len(mem)
      BY <2>2, <1>3, <1>4
    <3> QED BY <2>2, <3>1, <1>1, <1>5
  <2> QED BY <2>1, <2>2
<1>9. Data' = next
  BY <1>5, <1>7, <1>8
<1>10. Stream!Put(c)
  BY <1>1, <1>9 DEF Stream!Put, Stream!Writes, Out
<1> QED BY <1>1, <1>10 DEF Stream!Next

LEMMA SbumpcRefines ==
  ASSUME StreambufConstants, IInv, IInv', fault' = "none", Sbumpc
  PROVE  Stream!Next
<1>1. /\ TypeInv /\ Areas /\ fault = "none"
      /\ hm' \in {hm, Mark} /\ egptr' \in {egptr, Mark} /\ egptr' >= egptr /\ (~In => egptr' = egptr)
      /\ UNCHANGED <<class, mode, mem, eback, pbase, pptr, epptr>>
  BY SbumpcIs
<1>2. \/ gptr >= egptr' /\ read' = 0 /\ gptr' = gptr /\ (In => gptr = Mark)
      \/ gptr < egptr' /\ eback = "mem" /\ read' = mem[gptr + 1] /\ gptr' = gptr + 1
  BY SbumpcIs
<1>3. TypeInv' /\ Areas'
  BY DEF IInv
<1>4. /\ Mark \in Nat /\ pptr \in Nat /\ hm \in Nat /\ Mark >= pptr /\ (Mark = hm \/ Mark = pptr) /\ Mark >= hm
      /\ gptr \in Nat /\ egptr \in Nat
  BY <1>1, MarkIs DEF TypeInv
<1>5. Mark' = Mark
  BY <1>1, <1>4 DEF Mark, Larger
<1>6. Data' = Data /\ Data = [i \in 1..Mark |-> mem[i]]
  BY <1>1, <1>3, <1>5, DataIs, DataStays
<1>7. Len(Data) = Mark
  BY <1>4, <1>6
<1>8. CASE gptr >= egptr' /\ read' = 0 /\ gptr' = gptr /\ (In => gptr = Mark)
  <2>1. Stream!AtEnd
    BY <1>1, <1>6, <1>7, <1>8 DEF Stream!AtEnd, Stream!Reads, In
  <2> QED BY <2>1, <1>1 DEF Stream!Next
<1>9. CASE gptr < egptr' /\ eback = "mem" /\ read' = mem[gptr + 1] /\ gptr' = gptr + 1
  <2>1. In
    BY <1>1, <1>9 DEF Areas
  <2>2. egptr' <= Mark
    BY <2>1, <1>1, <1>4 DEF Areas
  <2>3. gptr < Mark
    BY <2>2, <1>1, <1>4, <1>9
  <2>4. Data[gptr + 1] = mem[gptr + 1]
    BY <2>3, <1>4, <1>6
  <2>5. Stream!Get
    BY <2>1, <2>3, <2>4, <1>1, <1>6, <1>7, <1>9 DEF Stream!Get, Stream!Reads, In
  <2> QED BY <2>5, <1>1 DEF Stream!Next
<1> QED BY <1>2, <1>8, <1>9

LEMMA SputbackcRefines ==
  ASSUME StreambufConstants, IInv, IInv', fault' = "none", NEW c \in Chars, Sputbackc(c)
  PROVE  Stream!Next
<1>1. /\ TypeInv /\ Areas /\ fault = "none" /\ In /\ gptr \in 1..Mark
      /\ gptr' = gptr - 1 /\ Mark' = Mark
      /\ UNCHANGED <<class, mode, eback, pbase, pptr, epptr, read, fault>>
  BY SputbackcIs
<1>2. (mem[gptr] = c /\ mem' = mem) \/ (Out /\ mem' = [mem EXCEPT ![gptr] = c])
  BY SputbackcIs
<1>3. TypeInv' /\ Areas'
  BY DEF IInv
<1>4. Mark \in Nat /\ mem \in Seq(Cells) /\ Mark <= Len(mem)
  BY <1>1, MarkIs DEF TypeInv, Areas
<1>5. Data = [i \in 1..Mark |-> mem[i]] /\ Data' = [i \in 1..Mark |-> mem'[i]]
  BY <1>1, <1>3, DataIs, DataIsNext
<1>6. \A i \in 1..Mark : mem'[i] = IF i = gptr THEN c ELSE mem[i]
  BY <1>1, <1>2, <1>4
<1>7. Data' = [Data EXCEPT ![gptr] = c]
  BY <1>5, <1>6
<1>8. Out \/ Data[gptr] = c
  BY <1>1, <1>2, <1>5
<1>9. gptr > 0
  BY <1>1, <1>4
<1>10. Stream!PutBack(c)
  BY <1>1, <1>7, <1>8, <1>9 DEF Stream!PutBack, Stream!Reads, Stream!Writes, In, Out
<1> QED BY <1>1, <1>10 DEF Stream!Next

LEMMA SeekoffRefines ==
  ASSUME StreambufConstants, IInv, IInv', fault' = "none", NEW off, NEW way, NEW which \in SUBSET {"in", "out"},
         Seekoff(off, way, which)
  PROVE  Stream!Next
<1>1. /\ TypeInv /\ Areas /\ hm' = Mark /\ Mark' = Mark /\ which # {}
      /\ UNCHANGED <<class, mode, mem, eback, pbase, epptr, read, fault>>
  BY SeekoffIs
<1>2. PICK to \in 0..Mark :
        /\ "in" \in which => gptr' = to
        /\ "in" \notin which => gptr' = gptr
        /\ pptr' = IF "out" \in which THEN to ELSE pptr
  BY SeekoffIs
<1>3. TypeInv' /\ Areas'
  BY DEF IInv
<1>4. Data' = Data /\ Data = [i \in 1..Mark |-> mem[i]] /\ Mark \in Nat
  BY <1>1, <1>3, DataIs, DataStays
<1>5. Len(Data) = Mark
  BY <1>4
<1>6. Stream!Seek(which, to)
  BY <1>1, <1>2, <1>4, <1>5 DEF Stream!Seek
<1> QED BY <1>1, <1>2, <1>5, <1>6 DEF Stream!Next

\* data() is a seek to where the reader is.
LEMMA GetDataRefines ==
  ASSUME StreambufConstants, IInv, IInv', GetData
  PROVE  Stream!Next
<1>1. /\ Works /\ Out /\ hm' = Mark
      /\ UNCHANGED <<class, mode, mem, eback, gptr, egptr, pbase, pptr, epptr, read, fault>>
  BY DEF GetData
<1>2. TypeInv /\ Areas /\ TypeInv' /\ Areas'
  BY <1>1 DEF IInv, Works
<1>3. Mark \in Nat /\ pptr \in Nat /\ pptr <= Mark /\ gptr \in Nat /\ egptr \in Nat
  BY <1>2, MarkIs DEF TypeInv
<1>4. Mark' = Mark
  BY <1>1, <1>3 DEF Mark, Larger
<1>5. Data' = Data /\ Data = [i \in 1..Mark |-> mem[i]]
  BY <1>1, <1>2, <1>4, DataIs, DataStays
<1>6. Len(Data) = Mark
  BY <1>3, <1>5
<1>7. gptr \in 0..Mark
  BY <1>2, <1>3 DEF Areas
<1>8. Stream!Seek({"in"}, gptr)
  BY <1>1, <1>5, <1>6, <1>7 DEF Stream!Seek
<1> QED BY <1>1, <1>6, <1>7, <1>8 DEF Stream!Next

\* Every operation does to the content and the two positions what it does to a
\* stream in memory, through every growth of the memory and every seek, until
\* the memory is found too small: for any characters, any length of the content
\* and any first size of the memory.
THEOREM StreambufIsStream == ASSUME StreambufConstants PROVE Spec => Refines
<1>1. Init => IInv
  BY InitInv
<1>2. IInv /\ [Next]_vars => IInv'
  BY InvIsInductive
<1>3. IInv /\ IInv' /\ [Next]_vars => [fault' = "none" => Stream!Next]_vars
  <2> SUFFICES ASSUME IInv, IInv', Next, fault' = "none" PROVE Stream!Next
    OBVIOUS
  <2>1. CASE SetData
    BY <2>1, SetDataRefines
  <2>2. CASE GetData
    BY <2>2, GetDataRefines
  <2>3. CASE Sbumpc
    BY <2>3, SbumpcRefines
  <2>4. ASSUME NEW c \in Chars, Sputc(c) PROVE Stream!Next
    BY <2>4, SputcRefines
  <2>5. ASSUME NEW c \in Chars, Sputbackc(c) PROVE Stream!Next
    BY <2>5, SputbackcRefines
  <2>6. ASSUME NEW which \in SUBSET {"in", "out"}, NEW off \in -2..2, NEW way \in {"cur", "end"}, Seekoff(off, way, which)
        PROVE Stream!Next
    BY <2>6, SeekoffRefines
  <2>7. ASSUME NEW which \in SUBSET {"in", "out"}, NEW position \in 0..2, Seekpos(position, which)
        PROVE Stream!Next
    BY <2>7, SeekoffRefines DEF Seekpos
  <2> QED BY <2>1, <2>2, <2>3, <2>4, <2>5, <2>6, <2>7 DEF Next
<1> QED BY <1>1, <1>2, <1>3, PTL DEF Spec, Refines
-----------------------------------------------------------------------------
\* the devices over streams
CONSTANTS Streams, Devices, Total, MaxSize, MaxUses
VARIABLES sort, streams, devices, transfer, answer
X == INSTANCE StreamDevices WITH class <- sort

Held == [stream : Streams \cup {0}, counter : Nat]
DeviceTypes ==
  /\ sort \in {"NSInputStreamSource", "NSInputStreamSource2", "NSOutputStreamSink", "NSOutputStreamSink2"}
  /\ streams \in [Streams -> [status : {"notOpen", "open", "atEnd", "error", "closed"}, passed : 0..Total, uses : Nat]]
  /\ devices \in [Devices -> Held \cup {X!nothing}]
  /\ answer \in [device : Devices \cup {0}, amount : Int, took : Int]

\* write of the sink that can be copied goes on for a device over a stream
TransferGoes ==
  X!Idle \/ /\ sort = "NSOutputStreamSink2" /\ answer = X!Silent
            /\ transfer \in [device : Devices, size : 1..MaxSize, remaining : 1..MaxSize]
            /\ devices[transfer.device] \in Held /\ X!Stream(transfer.device) # 0

\* the devices over a stream have counted part of what passed, the only one all
Over(v, s) == devices[v] \in Held /\ X!Stream(v) = s
CountsPart ==
  \A s \in Streams :
    /\ \A v \in Devices : Over(v, s) =>
         /\ streams[s].uses > 0 /\ devices[v].counter <= streams[s].passed
         /\ streams[s].uses = 1 => /\ devices[v].counter = streams[s].passed
                                   /\ \A w \in Devices : Over(w, s) => w = v
    /\ streams[s].uses = 0 => streams[s].passed = 0

AnswersRight ==
  answer.device # 0 =>
    IF X!Input
    THEN /\ answer.amount = -1 => \/ X!Stream(answer.device) = 0
                                  \/ streams[X!Stream(answer.device)].passed = Total
         /\ answer.amount = 0 => X!Stream(answer.device) \in Streams /\ X!Status(answer.device) \in {"error", "closed"}
    ELSE answer.amount = IF answer.took > 0 THEN answer.took ELSE 0

DeviceInv == DeviceTypes /\ TransferGoes /\ CountsPart /\ AnswersRight

\* A device that exists is one with a stream, or none, and a count.
LEMMA HeldIs ==
  ASSUME DeviceTypes, NEW v \in Devices
  PROVE  X!Exists(v) <=> devices[v] \in Held
BY DEF DeviceTypes, Held, X!Exists, X!nothing

\* Before the first call nothing has passed and no device is made.
LEMMA DeviceInit == X!DeviceConstants /\ X!Init => DeviceInv
BY DEF X!DeviceConstants, X!Init, DeviceInv, DeviceTypes, TransferGoes, CountsPart, AnswersRight, Over, Held,
       X!Idle, X!Silent, X!nothing

\* a call that only makes, changes and ends devices
LEMMA DeviceCalls ==
  ASSUME X!DeviceConstants, DeviceInv, X!Calls,
         devices' \in [Devices -> Held \cup {X!nothing}],
         streams' \in [Streams -> [status : {"notOpen", "open", "atEnd", "error", "closed"}, passed : 0..Total, uses : Nat]],
         CountsPart'
  PROVE  DeviceInv'
BY DEF X!DeviceConstants, DeviceInv, DeviceTypes, TransferGoes, AnswersRight, X!Calls, X!Idle, X!Silent

\* A new device is the stream's next user, and its count begins with 0.
LEMMA MakesDevice ==
  ASSUME X!DeviceConstants, DeviceInv, NEW v \in Devices, NEW s \in Streams, X!Construct(v, s)
  PROVE  DeviceInv'
<1> USE DEF X!Construct, X!Use
<1>1. devices' \in [Devices -> Held \cup {X!nothing}]
  BY DEF DeviceInv, DeviceTypes, Held
<1>2. streams' \in [Streams -> [status : {"notOpen", "open", "atEnd", "error", "closed"}, passed : 0..Total, uses : Nat]]
  BY DEF DeviceInv, DeviceTypes
<1>3. CountsPart'
  BY HeldIs DEF DeviceInv, DeviceTypes, CountsPart, Over, X!Stream, X!DeviceConstants
<1> QED BY <1>1, <1>2, <1>3, DeviceCalls DEF X!Construct

\* A copy is one more user of the stream, with a count of its own.
LEMMA CopiesDevice ==
  ASSUME X!DeviceConstants, DeviceInv, NEW v \in Devices, NEW w \in Devices,
         X!CopyConstruct(v, w) \/ X!CopyAssign(v, w)
  PROVE  DeviceInv'
<1> USE DEF X!CopyConstruct, X!CopyAssign, X!Use
<1>1. devices[w] \in Held /\ v # w
  BY HeldIs DEF DeviceInv
<1>2. PICK n \in Nat : devices' = [devices EXCEPT ![v] = [stream |-> X!Stream(w), counter |-> n]] /\ n <= devices[w].counter
  BY <1>1 DEF DeviceInv, DeviceTypes, Held, X!Stream
<1>3. devices' \in [Devices -> Held \cup {X!nothing}]
  BY <1>1, <1>2 DEF DeviceInv, DeviceTypes, Held, X!Stream
<1>4. streams' \in [Streams -> [status : {"notOpen", "open", "atEnd", "error", "closed"}, passed : 0..Total, uses : Nat]]
  BY <1>1 DEF DeviceInv, DeviceTypes, X!Stream, Held
<1>5. CountsPart'
  BY <1>1, <1>2 DEF DeviceInv, DeviceTypes, CountsPart, Over, X!Stream, X!DeviceConstants, Held
<1> QED BY <1>3, <1>4, <1>5, DeviceCalls

\* What a moved device counted goes with its stream.
LEMMA MovesDevice ==
  ASSUME X!DeviceConstants, DeviceInv, NEW v \in Devices, NEW w \in Devices,
         X!MoveConstruct(v, w) \/ X!MoveAssign(v, w)
  PROVE  DeviceInv'
<1> USE DEF X!MoveConstruct, X!MoveAssign
<1>1. devices[w] \in Held /\ v # w /\ streams' = streams
  BY HeldIs DEF DeviceInv
<1>2. devices' = [devices EXCEPT ![v] = devices[w], ![w] = [stream |-> 0, counter |-> devices[w].counter]]
  BY <1>1 DEF DeviceInv, DeviceTypes, Held, X!Moved
<1>3. devices' \in [Devices -> Held \cup {X!nothing}]
  BY <1>1, <1>2 DEF DeviceInv, DeviceTypes, Held
<1>5. CountsPart'
  BY <1>1, <1>2 DEF DeviceInv, DeviceTypes, CountsPart, Over, X!Stream, X!DeviceConstants, Held
<1> QED BY <1>1, <1>3, <1>5, DeviceCalls DEF DeviceInv, DeviceTypes

\* A device that ends, or closes its stream, counts no further.
LEMMA EndsDevice ==
  ASSUME X!DeviceConstants, DeviceInv, NEW v \in Devices, X!Destroy(v) \/ X!Close(v)
  PROVE  DeviceInv'
<1> USE DEF X!Destroy, X!Close
<1>1. devices' \in [Devices -> Held \cup {X!nothing}]
  BY DEF DeviceInv, DeviceTypes
<1>2. streams' \in [Streams -> [status : {"notOpen", "open", "atEnd", "error", "closed"}, passed : 0..Total, uses : Nat]]
  BY DEF DeviceInv, DeviceTypes
<1>3. CountsPart'
  <2>1. CASE X!Destroy(v)
    BY <2>1 DEF DeviceInv, DeviceTypes, CountsPart, Over, X!Stream, Held, X!nothing
  <2>2. CASE X!Close(v)
    <3>1. X!Stream(v) \in Streams
      BY <2>2, HeldIs DEF DeviceInv, DeviceTypes, X!Stream, Held
    <3> QED BY <2>2, <3>1 DEF DeviceInv, DeviceTypes, CountsPart, Over, X!Stream
  <2> QED BY <2>1, <2>2
<1> QED BY <1>1, <1>2, <1>3, DeviceCalls

\* what passes a device that exists
LEMMA PassesCounted ==
  ASSUME X!DeviceConstants, DeviceInv, NEW v \in Devices, devices[v] \in Held, NEW n \in Nat, NEW amount \in X!Amounts(v, n),
         streams' = X!Passed(v, amount), devices' = X!Counted(v, amount), sort' = sort
  PROVE  /\ amount \in Int /\ amount <= n
         /\ streams' \in [Streams -> [status : {"notOpen", "open", "atEnd", "error", "closed"}, passed : 0..Total, uses : Nat]]
         /\ devices' \in [Devices -> Held \cup {X!nothing}]
         /\ devices'[v] \in Held /\ devices'[v].stream = devices[v].stream
         /\ CountsPart'
<1> DEFINE s == X!Stream(v)
<1>0. s \in Streams \cup {0} /\ 0 \notin Streams
  BY DEF Held, X!Stream, X!DeviceConstants
<1>1. amount \in Int /\ amount <= n
  BY DEF X!Amounts
<1>2. devices' = [devices EXCEPT ![v] = [stream |-> s, counter |-> devices'[v].counter]]
      /\ devices'[v].counter = (IF amount > 0 THEN devices[v].counter + amount ELSE devices[v].counter)
  <2> DEFINE c == IF amount > 0 THEN devices[v].counter + amount ELSE devices[v].counter
  <2>1. [devices[v] EXCEPT !.counter = c] = [stream |-> s, counter |-> c]
    BY DEF Held, X!Stream
  <2>2. devices' = [devices EXCEPT ![v] = [stream |-> s, counter |-> c]]
    BY <2>1 DEF X!Counted
  <2> QED BY <2>2 DEF DeviceInv, DeviceTypes
<1>3. devices'[v].counter \in Nat
  BY <1>1, <1>2 DEF Held
<1>4. devices' \in [Devices -> Held \cup {X!nothing}] /\ devices'[v] \in Held
  BY <1>0, <1>2, <1>3 DEF DeviceInv, DeviceTypes, Held
<1>5. CASE s = 0
  <2>1. streams' = streams
    BY <1>5 DEF X!Passed
  <2>2. CountsPart'
    BY <1>0, <1>2, <1>4, <1>5, <2>1 DEF DeviceInv, DeviceTypes, CountsPart, Over, X!Stream
  <2> QED BY <1>1, <1>2, <1>4, <2>1, <2>2 DEF DeviceInv, DeviceTypes, X!Stream
<1>6. CASE s \in Streams
  <2>1. /\ \A t \in Streams : streams'[t].uses = streams[t].uses /\ (t # s => streams'[t] = streams[t])
        /\ streams'[s].passed = (IF amount > 0 THEN streams[s].passed + amount ELSE streams[s].passed)
        /\ streams'[s].status \in {"notOpen", "open", "atEnd", "error", "closed"}
    BY <1>0, <1>6 DEF X!Passed, DeviceInv, DeviceTypes
  <2>2. amount > 0 => streams[s].passed + amount \in 0..Total
    BY <1>0, <1>1, <1>6 DEF X!Amounts, DeviceInv, DeviceTypes, X!DeviceConstants
  <2>3. streams'[s].passed \in 0..Total
    BY <2>1, <2>2, <1>6 DEF DeviceInv, DeviceTypes
  <2>4. streams' \in [Streams -> [status : {"notOpen", "open", "atEnd", "error", "closed"}, passed : 0..Total, uses : Nat]]
    BY <1>0, <1>6, <2>3, <2>1 DEF X!Passed, DeviceInv, DeviceTypes
  <2>5. CountsPart'
    <3>1. Over(v, s) /\ streams[s].passed \in Nat /\ streams[s].uses \in Nat /\ devices[v].counter \in Nat
      BY <1>6 DEF Over, DeviceInv, DeviceTypes, Held
    <3>2. ASSUME NEW w \in Devices, NEW t \in Streams
          PROVE  Over(w, t)' <=> Over(w, t)
      BY <1>2, <1>4 DEF Over, X!Stream, DeviceInv, DeviceTypes
    <3>3. ASSUME NEW w \in Devices, w # v PROVE devices'[w] = devices[w]
      BY <1>2, <3>3 DEF DeviceInv, DeviceTypes
    <3>4. streams[s].uses > 0
      BY <1>6, <3>1 DEF DeviceInv, CountsPart
    <3>5. ASSUME NEW t \in Streams, NEW w \in Devices, Over(w, t)
          PROVE  /\ streams[t].uses > 0 /\ devices'[w].counter <= streams'[t].passed
                 /\ streams[t].uses = 1 => devices'[w].counter = streams'[t].passed
      <4>1. streams[t].passed \in Nat /\ devices[w].counter \in Nat
        BY <3>5 DEF Over, DeviceInv, DeviceTypes, Held
      <4>2. /\ streams[t].uses > 0 /\ devices[w].counter <= streams[t].passed
            /\ streams[t].uses = 1 => devices[w].counter = streams[t].passed
        BY <3>5 DEF DeviceInv, CountsPart
      <4>3. CASE w = v
        <5>1. t = s
          BY <3>5, <4>3 DEF Over
        <5> QED BY <1>1, <1>2, <2>1, <4>1, <4>2, <4>3, <5>1
      <4>4. CASE w # v /\ t # s
        BY <3>3, <2>1, <4>2, <4>4
      <4>5. CASE w # v /\ t = s
        <5>1. streams[t].uses # 1
          BY <3>1, <3>5, <4>5, <1>6 DEF DeviceInv, CountsPart
        <5> QED BY <1>1, <3>3, <2>1, <4>1, <4>2, <4>5, <5>1
      <4> QED BY <4>3, <4>4, <4>5
    <3>6. ASSUME NEW t \in Streams, streams[t].uses = 0 PROVE streams'[t].passed = 0
      BY <3>4, <2>1, <3>6 DEF DeviceInv, CountsPart
    <3> QED BY <2>1, <3>2, <3>5, <3>6 DEF DeviceInv, CountsPart
  <2> QED BY <1>1, <1>2, <1>4, <2>4, <2>5 DEF X!Stream
<1> QED BY <1>0, <1>5, <1>6

\* read counts what it takes, -1 says the stream's end and 0 an error.
LEMMA ReadsDevice ==
  ASSUME X!DeviceConstants, DeviceInv, NEW v \in Devices, NEW n \in 1..MaxSize, X!Read(v, n)
  PROVE  DeviceInv'
<1>1. n \in Nat /\ devices[v] \in Held
  BY HeldIs DEF X!Read, X!DeviceConstants, DeviceInv
<1>2. PICK amount \in X!Amounts(v, n) :
        /\ answer' = [device |-> v, took |-> amount,
                      amount |-> CASE amount > 0 -> amount [] amount = 0 -> -1 [] OTHER -> 0]
        /\ streams' = X!Passed(v, amount) /\ devices' = X!Counted(v, amount)
  BY DEF X!Read
<1>3. X!Idle /\ X!Input /\ sort' = sort /\ transfer' = transfer
  BY DEF X!Read
<1>4. /\ amount \in Int /\ amount <= n
      /\ streams' \in [Streams -> [status : {"notOpen", "open", "atEnd", "error", "closed"}, passed : 0..Total, uses : Nat]]
      /\ devices' \in [Devices -> Held \cup {X!nothing}]
      /\ devices'[v] \in Held /\ devices'[v].stream = devices[v].stream
      /\ CountsPart'
  BY <1>1, <1>2, <1>3, PassesCounted
<1>5. DeviceTypes' /\ TransferGoes'
  BY <1>2, <1>3, <1>4 DEF DeviceInv, DeviceTypes, TransferGoes, X!Idle
<1>6. AnswersRight'
  <2> DEFINE s == X!Stream(v)
  <2>1. s \in Streams \cup {0} /\ 0 \notin Streams /\ X!Stream(v)' = s /\ 0 \notin Devices
    BY <1>1, <1>4 DEF X!Stream, Held, X!DeviceConstants
  <2>2. amount = 0 => s = 0 \/ (s \in Streams /\ streams[s].passed = Total)
    BY <1>3, <2>1 DEF X!Amounts
  <2>3. amount = 0 /\ s \in Streams => streams'[s].passed = streams[s].passed
    BY <1>2, <2>1 DEF X!Passed, DeviceInv, DeviceTypes
  <2>4. amount < 0 => s \in Streams
    BY <2>1 DEF X!Amounts
  <2>5. amount < 0 => streams'[s].status \in {"error", "closed"}
    <3>1. CASE amount < 0
      BY <1>2, <2>1, <2>4, <3>1 DEF X!Passed, DeviceInv, DeviceTypes
    <3> QED BY <3>1
  <2>6. X!Input'
    BY <1>3 DEF X!Input
  <2>7. answer'.device = v /\ answer'.amount = CASE amount > 0 -> amount [] amount = 0 -> -1 [] OTHER -> 0
    BY <1>2
  <2>8. answer'.amount = -1 => amount = 0
    BY <1>4, <2>7
  <2>9. answer'.amount = 0 => amount < 0
    BY <1>4, <2>7
  <2>10. answer'.amount = -1 => X!Stream(v)' = 0 \/ streams'[X!Stream(v)'].passed = Total
    BY <2>1, <2>2, <2>3, <2>8
  <2>11. answer'.amount = 0 => X!Stream(v)' \in Streams /\ X!Status(v)' \in {"error", "closed"}
    BY <2>1, <2>4, <2>5, <2>9 DEF X!Status
  <2> QED BY <2>6, <2>7, <2>10, <2>11 DEF AnswersRight, X!Stream, X!Status
<1> QED BY <1>4, <1>5, <1>6 DEF DeviceInv

\* write of the device that is not copied takes one part.
LEMMA WritesDevice ==
  ASSUME X!DeviceConstants, DeviceInv, NEW v \in Devices, NEW n \in 1..MaxSize, X!Write(v, n)
  PROVE  DeviceInv'
<1>1. n \in Nat /\ devices[v] \in Held
  BY HeldIs DEF X!Write, X!DeviceConstants, DeviceInv
<1>2. PICK amount \in X!Amounts(v, n) :
        /\ answer' = [device |-> v, took |-> amount, amount |-> IF amount >= 0 THEN amount ELSE 0]
        /\ streams' = X!Passed(v, amount) /\ devices' = X!Counted(v, amount)
  BY DEF X!Write
<1>3. X!Idle /\ ~X!Input /\ sort' = sort /\ transfer' = transfer
  BY DEF X!Write, X!Input
<1>4. /\ amount \in Int /\ amount <= n
      /\ streams' \in [Streams -> [status : {"notOpen", "open", "atEnd", "error", "closed"}, passed : 0..Total, uses : Nat]]
      /\ devices' \in [Devices -> Held \cup {X!nothing}]
      /\ CountsPart'
  BY <1>1, <1>2, <1>3, PassesCounted
<1>5. DeviceTypes' /\ TransferGoes'
  BY <1>2, <1>3, <1>4 DEF DeviceInv, DeviceTypes, TransferGoes, X!Idle
<1>6. AnswersRight'
  BY <1>2, <1>3, <1>4 DEF AnswersRight, X!Input
<1> QED BY <1>4, <1>5, <1>6 DEF DeviceInv

\* write of the device that is copied begins to write all of it.
LEMMA WritesAllDevice ==
  ASSUME X!DeviceConstants, DeviceInv, NEW v \in Devices, NEW n \in 1..MaxSize, X!WriteAll(v, n)
  PROVE  DeviceInv'
<1>1. devices[v] \in Held
  BY HeldIs DEF X!WriteAll, DeviceInv
<1> QED BY <1>1 DEF X!WriteAll, DeviceInv, DeviceTypes, TransferGoes, CountsPart, Over, AnswersRight, X!Silent, X!Stream

\* It goes on until nothing remains, or the stream takes no more.
LEMMA WritesOnDevice ==
  ASSUME X!DeviceConstants, DeviceInv, X!WriteOn
  PROVE  DeviceInv'
<1> DEFINE v == transfer.device
<1>1. /\ sort = "NSOutputStreamSink2" /\ answer = X!Silent /\ ~X!Idle
      /\ transfer \in [device : Devices, size : 1..MaxSize, remaining : 1..MaxSize]
      /\ v \in Devices /\ devices[v] \in Held /\ devices[v].stream # 0 /\ transfer.remaining \in Nat
  BY DEF X!WriteOn, DeviceInv, TransferGoes, X!Stream, X!DeviceConstants
<1>2. PICK amount \in X!Amounts(v, transfer.remaining) :
        /\ streams' = X!Passed(v, amount) /\ devices' = X!Counted(v, amount)
        /\ IF amount = transfer.remaining
           THEN /\ answer' = [device |-> v, amount |-> transfer.size, took |-> transfer.size]
                /\ transfer' = X!nothing
           ELSE /\ transfer' = IF amount > 0 THEN [transfer EXCEPT !.remaining = @ - amount] ELSE transfer
                /\ answer' = answer
  BY DEF X!WriteOn
<1>3. sort' = sort
  BY DEF X!WriteOn
<1>4. /\ amount \in Int /\ amount <= transfer.remaining
      /\ streams' \in [Streams -> [status : {"notOpen", "open", "atEnd", "error", "closed"}, passed : 0..Total, uses : Nat]]
      /\ devices' \in [Devices -> Held \cup {X!nothing}]
      /\ devices'[v] \in Held /\ devices'[v].stream = devices[v].stream
      /\ CountsPart'
  BY <1>1, <1>2, <1>3, PassesCounted
<1>5. CASE amount = transfer.remaining
  <2>1. transfer.size \in Int /\ transfer.size > 0
    BY <1>1 DEF X!DeviceConstants
  <2>2. DeviceTypes'
    BY <1>1, <1>2, <1>3, <1>4, <1>5, <2>1 DEF DeviceInv, DeviceTypes
  <2>3. TransferGoes'
    BY <1>2, <1>5 DEF TransferGoes, X!Idle
  <2>4. AnswersRight'
    BY <1>1, <1>2, <1>3, <1>5, <2>1 DEF AnswersRight, X!Input
  <2> QED BY <1>4, <2>2, <2>3, <2>4 DEF DeviceInv
<1>6. CASE amount # transfer.remaining
  <2>1. answer' = answer /\ (transfer' = transfer \/ (amount > 0 /\ transfer' = [transfer EXCEPT !.remaining = @ - amount]))
    BY <1>2, <1>6
  <2>2. /\ transfer' \in [device : Devices, size : 1..MaxSize, remaining : 1..MaxSize] /\ transfer'.device = v
    BY <1>1, <1>4, <1>6, <2>1 DEF X!DeviceConstants
  <2>3. DeviceTypes'
    BY <1>3, <1>4, <2>1 DEF DeviceInv, DeviceTypes
  <2>4. TransferGoes'
    BY <1>1, <1>3, <1>4, <2>1, <2>2 DEF TransferGoes, X!Stream, X!Silent
  <2>5. AnswersRight'
    BY <1>1, <2>1 DEF AnswersRight, X!Silent
  <2> QED BY <1>4, <2>3, <2>4, <2>5 DEF DeviceInv
<1> QED BY <1>5, <1>6

\* A device's count is part of what passed its stream, and all of it when the device
\* was the stream's only one: whatever calls construct, copy, move, close and use them.
LEMMA StreamDevicesInvariant == ASSUME X!DeviceConstants PROVE X!Spec => []DeviceInv
<1>1. DeviceInv /\ UNCHANGED X!vars => DeviceInv'
  BY DEF X!vars, DeviceInv, DeviceTypes, TransferGoes, CountsPart, Over, AnswersRight, X!Stream, X!Status, X!Input, X!Idle
<1>2. DeviceInv /\ X!Next => DeviceInv'
  BY MakesDevice, CopiesDevice, MovesDevice, EndsDevice, ReadsDevice, WritesDevice, WritesAllDevice, WritesOnDevice
     DEF X!Next
<1> QED BY <1>1, <1>2, DeviceInit, PTL DEF X!Spec

\* consumed() and written() are the bytes that passed the only device of a stream, and
\* write answers what it took.
THEOREM StreamDevicesCounts == ASSUME X!DeviceConstants PROVE X!Spec => []X!Counts
<1>1. DeviceInv => X!Counts
  BY HeldIs DEF DeviceInv, DeviceTypes, CountsPart, Over, AnswersRight, X!Counts, X!Stream, Held
<1> QED BY <1>1, StreamDevicesInvariant, PTL

\* read answers -1 only where the stream ended or the device has none, and 0 only when
\* the stream failed or was closed.
THEOREM StreamDevicesEndsWhereItEnds == ASSUME X!DeviceConstants PROVE X!Spec => []X!EndsWhereItEnds
<1>1. DeviceInv => X!EndsWhereItEnds
  BY DEF DeviceInv, AnswersRight, X!EndsWhereItEnds, X!Status, X!DeviceConstants
<1> QED BY <1>1, StreamDevicesInvariant, PTL
-----------------------------------------------------------------------------
(* Unicode: the parsers of code units and their fast path, in the range they are given. *)
CONSTANTS Texts, Threshold
VARIABLES form, option, keeps, state, text, pc, first, last, limit, pending, chars
U == INSTANCE Unicode

\* the least of a set of natural numbers: well-founded are the sets 0..m by inclusion
LEMMA LeastNumber ==
  ASSUME NEW S \in SUBSET Nat, NEW n \in S
  PROVE  \E m \in S : \A k \in S : m <= k
<1> DEFINE T == {0..m : m \in S}
<1>1. T \subseteq FiniteSubsetsOf(Nat) /\ T # {}
  <2>1. ASSUME NEW m \in S PROVE 0..m \in FiniteSubsetsOf(Nat)
    <3>1. IsFiniteSet(0..m)
      BY FS_Interval
    <3>2. 0..m \in SUBSET Nat
      OBVIOUS
    <3> QED BY <3>1, <3>2 DEF FiniteSubsetsOf
  <2> QED BY <2>1
<1>2. PICK x \in T : \A y \in T : ~(<<y, x>> \in StrictSubsetOrdering(Nat))
  <2> HIDE DEF T
  <2> QED BY <1>1, WFMin, FS_StrictSubsetOrderingWellFounded
<1>3. PICK m \in S : x = 0..m
  OBVIOUS
<1>4. ASSUME NEW k \in S, k < m PROVE FALSE
  <2>1. 0..k \subseteq 0..m /\ 0..k # 0..m /\ 0..k \in T /\ 0..k \in SUBSET Nat /\ 0..m \in SUBSET Nat
    <3>1. m \in 0..m /\ m \notin 0..k
      BY <1>4
    <3> QED BY <1>4, <3>1
  <2> QED BY <2>1, <1>2, <1>3 DEF StrictSubsetOrdering
<1> QED BY <1>4

\* the tests of a code unit and the number of those that follow, as functions of the encoding
Trail8(u) == u >= 128 /\ u <= 191
Trail16(u) == u >= 56320 /\ u <= 57343
TrailIn(f, u) == (f = "utf8" /\ Trail8(u)) \/ (f = "utf16" /\ Trail16(u))
Follow8(u) == IF u < 128 THEN 0 ELSE IF u >= 194 /\ u <= 223 THEN 1 ELSE IF u >= 224 /\ u <= 239 THEN 2
              ELSE IF u >= 240 /\ u <= 244 THEN 3 ELSE -1
Follow16(o, u) == IF u < 55296 \/ u > 57343 THEN 0 ELSE IF u <= 56319 \/ o = "Unsafe" THEN 1 ELSE -1
Follow32(o, u) == IF o = "Unsafe" \/ u < 55296 \/ (u >= 57344 /\ u <= 1114111) THEN 0 ELSE -1
Follow(f, o, u) == IF f = "utf8" THEN Follow8(u) ELSE IF f = "utf16" THEN Follow16(o, u) ELSE Follow32(o, u)

\* is_trail compares with the bounds of the encoding's trailing code units.
LEMMA TrailIs ==
  ASSUME form \in {"utf8", "utf16", "utf32"}, NEW u \in Nat
  PROVE  U!is_trail(u) <=> TrailIn(form, u)
BY DEF U!is_trail, U!utf8_is_trail, U!utf16_is_trail, U!isLowSurrogate, TrailIn, Trail8, Trail16

\* The parser counts the code units that follow as Follow does.
LEMMA FollowIs ==
  ASSUME form \in {"utf8", "utf16", "utf32"}, NEW u \in Nat
  PROVE  U!Trails(u) = Follow(form, option, u)
<1>1. CASE form = "utf8"
  <2>1. U!Trails(u) = U!Utf8Trails(u)
    BY <1>1 DEF U!Trails
  <2> DEFINE one == u \in 194..223
             two == u \in 224..239
             three == u \in 240..244
  <2>2. U!Utf8Trails(u) = CASE u < 128 -> 0 [] one -> 1 [] two -> 2 [] three -> 3 [] OTHER -> -1
    BY DEF U!Utf8Trails, U!utf8_is_single
  <2>3. (one <=> u >= 194 /\ u <= 223) /\ (two <=> u >= 224 /\ u <= 239) /\ (three <=> u >= 240 /\ u <= 244)
    OBVIOUS
  <2> HIDE DEF one, two, three
  <2>4. U!Utf8Trails(u) = Follow8(u)
    BY <2>2, <2>3 DEF Follow8
  <2> QED BY <1>1, <2>1, <2>4 DEF Follow
<1>2. CASE form = "utf16"
  <2>1. U!Trails(u) = U!Utf16Trails(u)
    BY <1>2 DEF U!Trails
  <2> DEFINE lead == u \in 55296..56319
             trail == u \in 56320..57343
  <2>2. U!Utf16Trails(u) = CASE ~(lead \/ trail) -> 0 [] lead -> 1 [] OTHER -> IF option = "Unsafe" THEN 1 ELSE -1
    BY DEF U!Utf16Trails, U!utf16_is_single, U!utf16_is_lead, U!isSurrogate, U!isHighSurrogate,
           U!isLowSurrogate, U!NoCheckTrails
  <2>3. (lead <=> u >= 55296 /\ u <= 56319) /\ (trail <=> u >= 56320 /\ u <= 57343)
    OBVIOUS
  <2> HIDE DEF lead, trail
  <2>4. U!Utf16Trails(u) = Follow16(option, u)
    BY <2>2, <2>3 DEF Follow16
  <2> QED BY <1>2, <2>1, <2>4 DEF Follow
<1>3. CASE form = "utf32"
  <2>1. U!Trails(u) = U!Utf32Trails(u)
    BY <1>3 DEF U!Trails
  <2>2. U!Utf32Trails(u) = Follow32(option, u)
    BY DEF U!Utf32Trails, U!NoCheckValidUnicode, U!isUnicodeScalarValue, Follow32
  <2> QED BY <1>3, <2>1, <2>2 DEF Follow
<1> QED BY <1>1, <1>2, <1>3

\* At most three follow, and none that a checking parser would begin with.
LEMMA FollowBounds ==
  ASSUME NEW f \in {"utf8", "utf16", "utf32"}, NEW o, NEW u \in Nat
  PROVE  /\ Follow(f, o, u) \in -1..3 /\ (f = "utf32" => Follow(f, o, u) <= 0)
         /\ TrailIn(f, u) /\ o # "Unsafe" => Follow(f, o, u) = -1
<1>1. Follow8(u) \in -1..3 /\ (Trail8(u) => Follow8(u) = -1)
  BY DEF Follow8, Trail8
<1>2. Follow16(o, u) \in -1..1 /\ (Trail16(u) /\ o # "Unsafe" => Follow16(o, u) = -1)
  BY DEF Follow16, Trail16
<1>3. Follow32(o, u) \in -1..0
  BY DEF Follow32
<1> QED BY <1>1, <1>2, <1>3 DEF Follow, TrailIn

\* What a checked character goes on with is a trailing code unit.
LEMMA FitsIsTrail ==
  ASSUME form \in {"utf8", "utf16"}, option # "Unsafe", NEW b, NEW u \in Nat, U!TrailFits(b, u)
  PROVE  TrailIn(form, u)
<1>1. CASE form = "utf8"
  <2>1. U!Utf8TrailFits(b, u)
    BY <1>1 DEF U!TrailFits, U!NoCheckTrails
  <2> DEFINE any == u \in 128..191
             e0 == u \in 160..191
             ed == u \in 128..159
             f0 == u \in 144..191
             f4 == u \in 128..143
  <2>2. IF Len(b) > 1 THEN any
        ELSE CASE b[1] = 224 -> e0 [] b[1] = 237 -> ed [] b[1] = 240 -> f0 [] b[1] = 244 -> f4 [] OTHER -> any
    BY <2>1, Zenon DEF U!Utf8TrailFits, U!utf8_is_trail
  <2>3. (any <=> Trail8(u)) /\ (e0 => Trail8(u)) /\ (ed => Trail8(u)) /\ (f0 => Trail8(u)) /\ (f4 => Trail8(u))
    BY DEF Trail8
  <2> HIDE DEF any, e0, ed, f0, f4
  <2>4. Trail8(u)
    <3>1. CASE Len(b) > 1
      BY <3>1, <2>2, <2>3
    <3>2. CASE ~(Len(b) > 1)
      <4>1. (CASE b[1] = 224 -> e0 [] b[1] = 237 -> ed [] b[1] = 240 -> f0 [] b[1] = 244 -> f4 [] OTHER -> any)
        BY <3>2, <2>2
      <4> QED BY <4>1, <2>3
    <3> QED BY <3>1, <3>2
  <2> QED BY <1>1, <2>4 DEF TrailIn
<1>2. CASE form = "utf16"
  BY <1>2 DEF U!TrailFits, U!NoCheckTrails, U!utf16_is_trail, U!isLowSurrogate, TrailIn, Trail16
<1> QED BY <1>1, <1>2
-----------------------------------------------------------------------------
\* The bits of a code point that its code units hold.
LEMMA Quotients ==
  ASSUME NEW cp \in Nat
  PROVE  /\ cp > 127 /\ cp <= 2047 => cp \div 64 \in Nat /\ cp \div 64 >= 2 /\ cp \div 64 <= 31
         /\ cp <= 65535 => cp \div 4096 \in Nat /\ cp \div 4096 <= 15
         /\ cp <= 1114111 => cp \div 262144 \in Nat /\ cp \div 262144 <= 4
         /\ cp \div 64 \in Nat /\ cp \div 4096 \in Nat
OBVIOUS

\* Trail makes trailing code units of UTF-8.
LEMMA TrailRange == ASSUME NEW v \in Nat PROVE U!Trail(v) \in Nat /\ Trail8(U!Trail(v))
BY DEF U!Trail, Trail8

\* The sums that two, three and four code units make.
Sum2(a, b) == ((a * 64) % 2048) + (b % 64)
Sum3(a, b, c) == ((a * 4096) % 65536) + ((b * 64) % 4096) + (c % 64)
Sum4(a, b, c, d) == ((a * 262144) % 2097152) + ((b * 4096) % 262144) + ((c * 64) % 4096) + (d % 64)

LEMMA Sums ==
  ASSUME NEW a \in Nat, NEW b \in Nat, NEW c \in Nat, NEW d \in Nat
  PROVE  Sum2(a, b) \in Nat /\ Sum3(a, b, c) \in Nat /\ Sum4(a, b, c, d) \in Nat
<1>1. Sum2(a, b) \in Nat
  <2>1. (a * 64) % 2048 \in Nat
    OBVIOUS
  <2>2. (b % 64) \in Nat
    OBVIOUS
  <2> QED BY <2>1, <2>2 DEF Sum2
<1>2. Sum3(a, b, c) \in Nat
  <2>1. (a * 4096) % 65536 \in Nat
    OBVIOUS
  <2>2. (b * 64) % 4096 \in Nat
    OBVIOUS
  <2>3. (c % 64) \in Nat
    OBVIOUS
  <2> QED BY <2>1, <2>2, <2>3 DEF Sum3
<1>3. Sum4(a, b, c, d) \in Nat
  <2>1. (a * 262144) % 2097152 \in Nat
    OBVIOUS
  <2>2. (b * 4096) % 262144 \in Nat
    OBVIOUS
  <2>3. (c * 64) % 4096 \in Nat
    OBVIOUS
  <2>4. (d % 64) \in Nat
    OBVIOUS
  <2> QED BY <2>1, <2>2, <2>3, <2>4 DEF Sum4
<1> QED BY <1>1, <1>2, <1>3

LEMMA Utf8ToCodepointIs ==
  ASSUME NEW s
  PROVE  /\ Len(s) = 1 => U!Utf8ToCodepoint(s) = s[1]
         /\ Len(s) = 2 => U!Utf8ToCodepoint(s) = Sum2(s[1], s[2])
         /\ Len(s) = 3 => U!Utf8ToCodepoint(s) = Sum3(s[1], s[2], s[3])
         /\ Len(s) = 4 => U!Utf8ToCodepoint(s) = Sum4(s[1], s[2], s[3], s[4])
<1> DEFINE l == Len(s)
           x == s[1]
           p == Sum2(s[1], s[2])
           q == Sum3(s[1], s[2], s[3])
           r == Sum4(s[1], s[2], s[3], s[4])
<1>1. U!Utf8ToCodepoint(s) = CASE l = 1 -> x [] l = 2 -> p [] l = 3 -> q [] l = 4 -> r
  BY DEF U!Utf8ToCodepoint, Sum2, Sum3, Sum4
<1> HIDE DEF l, x, p, q, r
<1>2. l = 1 => U!Utf8ToCodepoint(s) = x
  BY <1>1
<1>3. l = 2 => U!Utf8ToCodepoint(s) = p
  BY <1>1
<1>4. l = 3 => U!Utf8ToCodepoint(s) = q
  BY <1>1
<1>5. l = 4 => U!Utf8ToCodepoint(s) = r
  BY <1>1
<1> QED BY <1>2, <1>3, <1>4, <1>5 DEF l, x, p, q, r

\* A code point that is read from UTF-8 is a number.
LEMMA Utf8CodepointIsNat ==
  ASSUME NEW n \in 1..4, NEW s \in Seq(Nat), Len(s) = n
  PROVE  U!Utf8ToCodepoint(s) \in Nat
<1>1. \A k \in 1..n : s[k] \in Nat
  OBVIOUS
<1>2. CASE n = 1
  BY <1>1, <1>2, Utf8ToCodepointIs
<1>3. CASE n = 2
  <2>1. s[1] \in Nat /\ s[2] \in Nat
    BY <1>1, <1>3
  <2> QED BY <2>1, <1>3, Utf8ToCodepointIs, Sums
<1>4. CASE n = 3
  <2>1. s[1] \in Nat /\ s[2] \in Nat /\ s[3] \in Nat
    BY <1>1, <1>4
  <2>2. U!Utf8ToCodepoint(s) = Sum3(s[1], s[2], s[3])
    BY <1>4, Utf8ToCodepointIs
  <2>3. Sum3(s[1], s[2], s[3]) \in Nat
    BY <2>1, Sums, Zenon
  <2> QED BY <2>2, <2>3
<1>5. CASE n = 4
  <2>1. s[1] \in Nat /\ s[2] \in Nat /\ s[3] \in Nat /\ s[4] \in Nat
    BY <1>1, <1>5
  <2>2. U!Utf8ToCodepoint(s) = Sum4(s[1], s[2], s[3], s[4])
    BY <1>5, Utf8ToCodepointIs
  <2>3. Sum4(s[1], s[2], s[3], s[4]) \in Nat
    BY <2>1, Sums, Zenon
  <2> QED BY <2>2, <2>3
<1> QED BY <1>2, <1>3, <1>4, <1>5

\* The code units that these are: a lead, which says how many follow, and trails.
Leads(f, s, n) == Follow(f, "Unsafe", s[1]) = n - 1 /\ ~TrailIn(f, s[1]) /\ \A k \in 2..n : TrailIn(f, s[k])

LEMMA Shape8 ==
  ASSUME NEW s, NEW n \in 1..4, NEW q \in Nat
  PROVE  /\ n = 1 /\ s[1] = q /\ q <= 127 => Leads("utf8", s, n)
         /\ n = 2 /\ s[1] = 192 + q /\ q >= 2 /\ q <= 31 /\ Trail8(s[2]) => Leads("utf8", s, n)
         /\ n = 3 /\ s[1] = 224 + q /\ q <= 15 /\ Trail8(s[2]) /\ Trail8(s[3]) => Leads("utf8", s, n)
         /\ n = 4 /\ s[1] = 240 + q /\ q <= 4 /\ Trail8(s[2]) /\ Trail8(s[3]) /\ Trail8(s[4]) => Leads("utf8", s, n)
<1>1. n = 1 => \A k \in 2..n : FALSE
  OBVIOUS
<1>2. n = 2 => \A k \in 2..n : k = 2
  OBVIOUS
<1>3. n = 3 => \A k \in 2..n : k = 2 \/ k = 3
  OBVIOUS
<1>4. n = 4 => \A k \in 2..n : k = 2 \/ k = 3 \/ k = 4
  OBVIOUS
<1>5. /\ q <= 127 => Follow8(q) = 0 /\ ~Trail8(q)
      /\ q >= 2 /\ q <= 31 => Follow8(192 + q) = 1 /\ ~Trail8(192 + q)
      /\ q <= 15 => Follow8(224 + q) = 2 /\ ~Trail8(224 + q)
      /\ q <= 4 => Follow8(240 + q) = 3 /\ ~Trail8(240 + q)
  BY DEF Follow8, Trail8
<1>6. Leads("utf8", s, n) <=> Follow8(s[1]) = n - 1 /\ ~Trail8(s[1]) /\ \A k \in 2..n : Trail8(s[k])
  BY DEF Leads, Follow, TrailIn
<1> QED BY <1>1, <1>2, <1>3, <1>4, <1>5, <1>6

\* A well-formed character begins with a code unit that says how many follow.
LEMMA WellFormedIn8 ==
  ASSUME form = "utf8", NEW n \in 1..4, NEW s \in Seq(Nat), Len(s) = n, U!WellFormed(s)
  PROVE  Leads("utf8", s, n)
<1> DEFINE cp == U!Utf8ToCodepoint(s)
<1>1. cp \in Nat
  BY Utf8CodepointIsNat
<1>2. s = U!Utf8(cp) /\ (cp < 55296 \/ (cp >= 57344 /\ cp <= 1114111))
  <2>1. U!Codepoint(s) = cp
    BY DEF U!Codepoint
  <2>2. U!Encode(cp) = U!Utf8(cp)
    BY DEF U!Encode
  <2> HIDE DEF cp
  <2> QED BY <2>1, <2>2 DEF U!WellFormed, U!isUnicodeScalarValue
<1> HIDE DEF cp
<1> DEFINE l == U!utf8_encoded_length(cp)
           x1 == <<cp>>
           x2 == <<192 + cp \div 64, U!Trail(cp)>>
           x3 == <<224 + cp \div 4096, U!Trail(cp \div 64), U!Trail(cp)>>
           x4 == <<240 + cp \div 262144, U!Trail(cp \div 4096), U!Trail(cp \div 64), U!Trail(cp)>>
           x0 == <<>>
<1>3. l = IF cp <= 127 THEN 1 ELSE IF cp <= 2047 THEN 2 ELSE IF cp <= 65535 THEN 3 ELSE 4
  BY <1>1, <1>2 DEF U!utf8_encoded_length, U!utf8_encoded_length_unsafe, U!isSurrogate, U!isHighSurrogate, U!isLowSurrogate
<1>4. U!Utf8(cp) = CASE l = 1 -> x1 [] l = 2 -> x2 [] l = 3 -> x3 [] l = 4 -> x4 [] OTHER -> x0
  BY DEF U!Utf8
<1> HIDE DEF l, x0, x1, x2, x3, x4
<1>5. s = CASE l = 1 -> x1 [] l = 2 -> x2 [] l = 3 -> x3 [] l = 4 -> x4 [] OTHER -> x0
  BY <1>2, <1>4
<1>6. \A v \in Nat : Trail8(U!Trail(v))
  BY TrailRange
<1>7. CASE cp <= 127
  <2>1. l = 1
    BY <1>1, <1>3, <1>7
  <2>2. s = x1
    BY <2>1, <1>5
  <2>3. n = 1 /\ s[1] = cp
    BY <2>2 DEF x1
  <2> QED BY <2>3, <1>1, <1>7, Shape8
<1>8. CASE cp > 127 /\ cp <= 2047
  <2> DEFINE q == cp \div 64
             t == U!Trail(cp)
  <2>1. l = 2
    BY <1>1, <1>3, <1>8
  <2>2. s = x2
    BY <2>1, <1>5
  <2>3. s = <<192 + q, t>>
    BY <2>2 DEF x2
  <2>4. q \in Nat /\ q >= 2 /\ q <= 31
    BY <1>1, <1>8, Quotients
  <2>5. Trail8(t)
    BY <1>1, <1>6
  <2> HIDE DEF q, t
  <2>6. s[1] = 192 + q /\ s[2] = t /\ n = 2
    BY <2>3
  <2> QED BY <2>4, <2>5, <2>6, Shape8
<1>9. CASE cp > 2047 /\ cp <= 65535
  <2> DEFINE q == cp \div 4096
             r == cp \div 64
             t == U!Trail(r)
             v == U!Trail(cp)
  <2>1. l = 3
    BY <1>1, <1>3, <1>9
  <2>2. s = x3
    BY <2>1, <1>5
  <2>3. s = <<224 + q, t, v>>
    BY <2>2 DEF x3
  <2>4. q \in Nat /\ q <= 15 /\ r \in Nat
    BY <1>1, <1>9, Quotients
  <2> HIDE DEF q, r
  <2>5. Trail8(t) /\ Trail8(v)
    BY <2>4, <1>1, <1>6
  <2> HIDE DEF t, v
  <2>6. s[1] = 224 + q /\ s[2] = t /\ s[3] = v /\ n = 3
    BY <2>3
  <2> QED BY <2>4, <2>5, <2>6, Shape8
<1>10. CASE cp > 65535
  <2> DEFINE q == cp \div 262144
             p == cp \div 4096
             r == cp \div 64
             t == U!Trail(p)
             v == U!Trail(r)
             w == U!Trail(cp)
  <2>1. l = 4 /\ cp <= 1114111
    BY <1>1, <1>2, <1>3, <1>10
  <2>2. s = x4
    BY <2>1, <1>5
  <2>3. s = <<240 + q, t, v, w>>
    BY <2>2 DEF x4
  <2>4. q \in Nat /\ q <= 4 /\ p \in Nat /\ r \in Nat
    BY <1>1, <2>1, Quotients
  <2> HIDE DEF p, q, r
  <2>5. Trail8(t) /\ Trail8(v) /\ Trail8(w)
    BY <2>4, <1>1, <1>6
  <2> HIDE DEF t, v, w
  <2>6. s[1] = 240 + q /\ s[2] = t /\ s[3] = v /\ s[4] = w /\ n = 4
    BY <2>3
  <2> QED BY <2>4, <2>5, <2>6, Shape8
<1> QED BY <1>1, <1>7, <1>8, <1>9, <1>10

LEMMA Shape16 ==
  ASSUME NEW s, NEW n \in 1..4, NEW u \in Nat
  PROVE  /\ n = 1 /\ s[1] = u /\ (u < 55296 \/ u > 57343) => Leads("utf16", s, n)
         /\ n = 2 /\ s[1] = u /\ u >= 55296 /\ u <= 56319 /\ Trail16(s[2]) => Leads("utf16", s, n)
<1>1. n = 1 => \A k \in 2..n : FALSE
  OBVIOUS
<1>2. n = 2 => \A k \in 2..n : k = 2
  OBVIOUS
<1>3. /\ u < 55296 \/ u > 57343 => Follow16("Unsafe", u) = 0 /\ ~Trail16(u)
      /\ u >= 55296 /\ u <= 56319 => Follow16("Unsafe", u) = 1 /\ ~Trail16(u)
  BY DEF Follow16, Trail16
<1>4. Leads("utf16", s, n) <=> Follow16("Unsafe", s[1]) = n - 1 /\ ~Trail16(s[1]) /\ \A k \in 2..n : Trail16(s[k])
  BY DEF Leads, Follow, TrailIn
<1> QED BY <1>1, <1>2, <1>3, <1>4

LEMMA WellFormedIn16 ==
  ASSUME form = "utf16", NEW n \in 1..4, NEW s \in Seq(Nat), Len(s) = n, U!WellFormed(s)
  PROVE  Leads("utf16", s, n)
<1> DEFINE cp == U!Utf16ToCodepoint(s)
<1>1. cp \in Int
  <2>1. s[1] \in Int /\ (n > 1 => s[2] \in Int)
    OBVIOUS
  <2> QED BY <2>1 DEF U!Utf16ToCodepoint, U!utf16_surrogate_pair_to_code_point
<1>2. s = U!Utf16(cp) /\ (cp < 55296 \/ (cp >= 57344 /\ cp <= 1114111))
  <2>1. U!Codepoint(s) = cp
    BY DEF U!Codepoint
  <2>2. U!Encode(cp) = U!Utf16(cp)
    BY DEF U!Encode
  <2> HIDE DEF cp
  <2> QED BY <2>1, <2>2 DEF U!WellFormed, U!isUnicodeScalarValue
<1> HIDE DEF cp
<1>3. U!utf16_encoded_length(cp) = IF cp <= 65535 THEN 1 ELSE 2
  BY <1>1, <1>2 DEF U!utf16_encoded_length, U!utf16_encoded_length_unsafe, U!isSurrogate, U!isHighSurrogate, U!isLowSurrogate
<1>4. CASE cp <= 65535
  <2>1. s = <<cp>>
    BY <1>2, <1>3, <1>4 DEF U!Utf16
  <2>2. n = 1 /\ s[1] = cp /\ s[1] \in Nat
    BY <2>1
  <2>3. cp < 55296 \/ cp > 57343
    BY <1>1, <1>2
  <2> QED BY <2>2, <2>3, Shape16
<1>5. CASE cp > 65535
  <2> DEFINE q == cp \div 1024
             r == cp % 1024
  <2>0. U!utf16_encoded_length(cp) = 2 /\ cp <= 1114111
    BY <1>1, <1>2, <1>3, <1>5
  <2>1. s = <<q + 55232, 56320 + r>>
    BY <1>2, <2>0 DEF U!Utf16, U!utf16_get_lead, U!utf16_get_trail
  <2>2. q \in Nat /\ q >= 64 /\ q <= 1087 /\ r \in Nat /\ r <= 1023
    BY <1>1, <2>0, <1>5
  <2> HIDE DEF q, r
  <2>3. s[1] = q + 55232 /\ s[2] = 56320 + r /\ n = 2
    BY <2>1
  <2>4. q + 55232 \in Nat /\ q + 55232 >= 55296 /\ q + 55232 <= 56319 /\ Trail16(56320 + r)
    BY <2>2 DEF Trail16
  <2> QED BY <2>3, <2>4, Shape16
<1> QED BY <1>1, <1>4, <1>5

LEMMA WellFormedIs ==
  ASSUME form \in {"utf8", "utf16", "utf32"}, NEW n \in 1..4, NEW s \in Seq(Nat), Len(s) = n, U!WellFormed(s)
  PROVE  Leads(form, s, n)
<1>1. CASE form = "utf8"
  BY <1>1, WellFormedIn8
<1>2. CASE form = "utf16"
  BY <1>2, WellFormedIn16
<1>3. CASE form = "utf32"
  <2>1. U!Codepoint(s) = s[1] /\ U!Encode(s[1]) = U!Utf32(s[1])
    BY <1>3 DEF U!Codepoint, U!Encode
  <2>2. s = <<s[1]>> \/ s = <<>>
    BY <2>1 DEF U!WellFormed, U!Utf32
  <2>3. n = 1
    BY <2>2
  <2> QED BY <1>3, <2>3 DEF Leads, Follow, Follow32, TrailIn
<1> QED BY <1>1, <1>2, <1>3
-----------------------------------------------------------------------------
\* A character of the text starts at i, and from there on the text is cut into characters.
Cut(starts) == /\ starts \subseteq 1..(Len(text) + 1)
               /\ \A i \in starts \ {Len(text) + 1} :
                    \E n \in 1..4 : i + n \in starts /\ U!WellFormed(SubSeq(text, i, i + n - 1))
TextFrom(i) == \E starts \in SUBSET (1..(Len(text) + 1)) : i \in starts /\ Cut(starts)

\* Where a character starts, its first code unit says where the next one does, and
\* what is between are trailing code units of the text.
LEMMA AtCharacter ==
  ASSUME form \in {"utf8", "utf16", "utf32"}, text \in Seq(Nat), NEW b \in Nat, b >= 1, b <= Len(text), TextFrom(b)
  PROVE  /\ text[b] \in Nat /\ ~TrailIn(form, text[b])
         /\ Follow(form, "Unsafe", text[b]) \in 0..3
         /\ b + Follow(form, "Unsafe", text[b]) <= Len(text)
         /\ TextFrom(b + Follow(form, "Unsafe", text[b]) + 1)
         /\ \A k \in 1..Follow(form, "Unsafe", text[b]) : TrailIn(form, text[b + k])
<1>1. PICK starts \in SUBSET (1..(Len(text) + 1)) : b \in starts /\ Cut(starts)
  BY DEF TextFrom
<1>2. PICK n \in 1..4 : b + n \in starts /\ U!WellFormed(SubSeq(text, b, b + n - 1))
  BY <1>1 DEF Cut
<1>3. b + n <= Len(text) + 1
  BY <1>1, <1>2
<1> DEFINE s == SubSeq(text, b, b + n - 1)
<1>4. s \in Seq(Nat) /\ Len(s) = n /\ \A k \in 1..n : s[k] = text[b + k - 1]
  <2>1. \A i \in b..(b + n - 1) : text[i] \in Nat
    BY <1>3
  <2>2. /\ s \in Seq(Nat)
        /\ Len(s) = IF b <= b + n - 1 THEN b + n - 1 - b + 1 ELSE 0
        /\ \A k \in 1..(b + n - 1 - b + 1) : s[k] = text[b + k - 1]
    BY <2>1, SubSeqProperties
  <2>3. b <= b + n - 1 /\ b + n - 1 - b + 1 = n
    OBVIOUS
  <2> QED BY <2>2, <2>3
<1>5. U!WellFormed(s)
  BY <1>2
<1> HIDE DEF s
<1>6. Leads(form, s, n)
  BY <1>4, <1>5, WellFormedIs
<1>7. s[1] = text[b]
  BY <1>4
<1>8. Follow(form, "Unsafe", text[b]) = n - 1 /\ ~TrailIn(form, text[b])
  BY <1>6, <1>7 DEF Leads
<1>9. \A k \in 1..(n - 1) : TrailIn(form, text[b + k])
  <2>1. ASSUME NEW k \in 1..(n - 1) PROVE TrailIn(form, text[b + k])
    <3>1. k + 1 \in 2..n /\ k + 1 \in 1..n /\ b + (k + 1) - 1 = b + k
      OBVIOUS
    <3>2. s[k + 1] = text[b + k]
      BY <1>4, <3>1
    <3>3. TrailIn(form, s[k + 1])
      BY <1>6, <3>1 DEF Leads
    <3> QED BY <3>2, <3>3
  <2> QED BY <2>1
<1>10. TextFrom(b + (n - 1) + 1)
  <2>1. b + (n - 1) + 1 = b + n
    OBVIOUS
  <2> QED BY <1>1, <1>2, <2>1 DEF TextFrom
<1>11. text[b] \in Nat
  OBVIOUS
<1>12. n - 1 \in 0..3 /\ b + (n - 1) <= Len(text)
  BY <1>3
<1> QED BY <1>8, <1>9, <1>10, <1>11, <1>12

\* Last1 is the last place up to three back from the end that holds no trailing code
\* unit, or the beginning.
LEMMA Last1Is ==
  ASSUME form \in {"utf8", "utf16", "utf32"}, text \in Seq(Nat), first \in Nat, first >= 1,
         NEW n \in Nat, n > 5, first + n <= Len(text) + 1
  PROVE  /\ U!Last1(n) \in Nat /\ first <= U!Last1(n) /\ U!Last1(n) + 3 <= first + n
         /\ U!Last1(n) = first \/ ~TrailIn(form, text[U!Last1(n)])
         /\ \A j \in (U!Last1(n) + 1)..(first + n - 3) : TrailIn(form, text[j])
<1> DEFINE S == {m \in 0..(n - 3) : \A j \in (first + m + 1)..(first + n - 3) : TrailIn(form, text[j])}
           Good(i) == /\ i = first \/ ~TrailIn(form, text[i])
                      /\ \A j \in (i + 1)..(first + n - 3) : TrailIn(form, text[j])
<1>1. n - 3 \in S
  OBVIOUS
<1>2. PICK m \in S : \A k \in S : m <= k
  <2>1. S \in SUBSET Nat
    OBVIOUS
  <2> HIDE DEF S
  <2> QED BY <1>1, <2>1, LeastNumber
<1>3. first + m \in first..(first + n - 3) /\ m \in 0..(n - 3)
  OBVIOUS
<1>4. Good(first + m)
  <2>1. ASSUME m # 0, TrailIn(form, text[first + m]) PROVE FALSE
    <3>1. m - 1 \in 0..(n - 3)
      BY <1>3, <2>1
    <3>2. ASSUME NEW j \in (first + (m - 1) + 1)..(first + n - 3) PROVE TrailIn(form, text[j])
      <4>1. j = first + m \/ j \in (first + m + 1)..(first + n - 3)
        BY <1>3
      <4> QED BY <4>1, <2>1
    <3>3. m - 1 \in S
      BY <3>1, <3>2
    <3> QED BY <3>3, <1>2, <1>3
  <2>2. \A j \in (first + m + 1)..(first + n - 3) : TrailIn(form, text[j])
    OBVIOUS
  <2> QED BY <2>1, <2>2, <1>3
<1>5. ASSUME NEW i \in first..(first + n - 3)
      PROVE  Good(i) <=> /\ i = first \/ ~U!is_trail(text[i])
                         /\ \A j \in (i + 1)..(first + n - 3) : U!is_trail(text[j])
  <2>1. \A j \in first..(first + n - 3) : text[j] \in Nat
    OBVIOUS
  <2>2. \A j \in first..(first + n - 3) : U!is_trail(text[j]) <=> TrailIn(form, text[j])
    BY <2>1, TrailIs
  <2>3. \A j \in (i + 1)..(first + n - 3) : j \in first..(first + n - 3)
    OBVIOUS
  <2> QED BY <2>2, <2>3
<1>6. U!Last1(n) = CHOOSE i \in first..(first + n - 3) :
                      /\ i = first \/ ~U!is_trail(text[i])
                      /\ \A j \in (i + 1)..(first + n - 3) : U!is_trail(text[j])
  BY DEF U!Last1
<1>7. U!Last1(n) \in first..(first + n - 3) /\ Good(U!Last1(n))
  <2> DEFINE H(i) == /\ i = first \/ ~U!is_trail(text[i])
                     /\ \A j \in (i + 1)..(first + n - 3) : U!is_trail(text[j])
             D == first..(first + n - 3)
  <2>1. U!Last1(n) = CHOOSE i \in D : H(i)
    BY <1>6
  <2>2. first + m \in D /\ H(first + m)
    BY <1>3, <1>4, <1>5
  <2>3. \A i \in D : H(i) => Good(i)
    BY <1>5
  <2> HIDE DEF H, D, Good
  <2>4. U!Last1(n) \in D /\ H(U!Last1(n))
    BY <2>1, <2>2
  <2>5. U!Last1(n) \in D /\ Good(U!Last1(n))
    BY <2>3, <2>4
  <2> QED BY <2>5 DEF D
<1>8. U!Last1(n) \in Nat /\ first <= U!Last1(n) /\ U!Last1(n) + 3 <= first + n
  BY <1>7
<1> QED BY <1>7, <1>8
-----------------------------------------------------------------------------
\* Code units of a character that is not complete.
Partial(b) == \/ b = <<>>
              \/ b \in Seq(Nat) /\ Len(b) >= 1 /\ Len(b) <= Follow(form, option, b[1])

ConversionTypes ==
  /\ form \in {"utf8", "utf16", "utf32"} /\ option \in {"None", "ReplaceIllFormed", "Unsafe"} /\ keeps \in BOOLEAN
  /\ text \in Seq(Nat) /\ pc \in {"idle", "fast", "safe", "failed", "hang", "overrun", "rereads"}
  /\ first \in Nat /\ last \in Nat /\ limit \in Nat
  /\ 1 <= first /\ first <= last /\ last <= Len(text) + 1 /\ 1 <= limit /\ limit <= last
  /\ Partial(pending) /\ Partial(state)

\* The code units that are kept between two calls were read before, and are kept with a state only.
KeptInv ==
  /\ pc # "rereads" => Len(pending) < first
  /\ ~keeps => state = <<>> /\ (pc = "idle" => pending = <<>>)

\* On the fast path: the parser stops at its limit, three or more before the end, when
\* a character starts there.  When none does, all from there up to three before the end
\* are trailing code units, and it passes the limit only with a character that was
\* kept; without replacement it then stops at the third of them.
CheckedFastInv ==
  pc = "fast" /\ option # "Unsafe" =>
    /\ limit + 3 <= last
    /\ ~TrailIn(form, text[limit]) => first <= limit
    /\ TrailIn(form, text[limit]) =>
         /\ limit <= first /\ limit + Threshold < last
         /\ \A j \in limit..(last - 3) : TrailIn(form, text[j])
         /\ pending # <<>> \/ first > limit => keeps /\ limit >= 2
         /\ option = "None" => IF pending = <<>> THEN first <= limit + 3 ELSE first < limit + Len(pending)

\* Without checks: what the parser holds is the beginning of a character of the text.
UncheckedInv ==
  option = "Unsafe" =>
    /\ pc # "rereads" => /\ TextFrom(first - Len(pending))
                         /\ pending # <<>> => pending[1] = text[first - Len(pending)]
    /\ pc = "fast" => /\ first <= limit
                      /\ limit = Len(text) + 1 \/ ~TrailIn(form, text[limit])

RangeInv ==
  /\ pc = "overrun" => \/ keeps /\ pending # <<>> /\ first = last /\ limit = last
                       \/ /\ option = "ReplaceIllFormed" /\ keeps
                          /\ \E i \in 2..(last - Threshold) : \A j \in i..(last - 3) : TrailIn(form, text[j])
  /\ pc = "hang" => form = "utf32" /\ option = "ReplaceIllFormed"
  /\ pc = "rereads" => option = "Unsafe" /\ keeps /\ pending # <<>>
  /\ pc = "safe" => limit = last

ConversionInv == ConversionTypes /\ KeptInv /\ CheckedFastInv /\ UncheckedInv /\ RangeInv

\* What a partial character is.
LEMMA PartialIs ==
  ASSUME form \in {"utf8", "utf16", "utf32"}, NEW b, Partial(b)
  PROVE  /\ U!State(b) # 0 <=> b # <<>>
         /\ b # <<>> => /\ b \in Seq(Nat) /\ Len(b) \in 1..3 /\ b[1] \in Nat /\ form \in {"utf8", "utf16"}
                       /\ U!Trails(b[1]) = Follow(form, option, b[1]) /\ Len(b) <= Follow(form, option, b[1])
         /\ b = <<>> => Len(b) = 0
<1>1. CASE b = <<>>
  <2>1. U!State(b) = 0
    BY <1>1 DEF U!State, U!Utf8State, U!Utf16State
  <2> QED BY <1>1, <2>1
<1>2. CASE b # <<>>
  <2>1. b \in Seq(Nat) /\ Len(b) >= 1 /\ Len(b) <= Follow(form, option, b[1])
    BY <1>2 DEF Partial
  <2>2. b[1] \in Nat /\ Len(b) \in Nat
    BY <2>1
  <2> DEFINE n == Follow(form, option, b[1])
             l == Len(b)
  <2>3. n \in -1..3 /\ (form = "utf32" => n <= 0)
    BY <2>2, FollowBounds
  <2>4. U!Trails(b[1]) = n
    BY <2>2, FollowIs
  <2>5. form = "utf8" => U!State(b) = 10 * n + l - 1
    <3>1. form = "utf8" => U!Utf8Trails(b[1]) = n
      BY <2>4 DEF U!Trails
    <3> QED BY <3>1, <1>2 DEF U!State, U!Utf8State
  <2>6. form # "utf8" => U!State(b) = l
    BY <1>2 DEF U!State, U!Utf16State
  <2>7. l \in Nat /\ l >= 1 /\ l <= n
    BY <2>1, <2>2
  <2> HIDE DEF n, l
  <2>8. U!State(b) # 0
    BY <2>3, <2>5, <2>6, <2>7
  <2>9. l \in 1..3 /\ form # "utf32"
    BY <2>3, <2>7
  <2> QED BY <1>2, <2>1, <2>2, <2>4, <2>7, <2>8, <2>9 DEF n, l
<1> QED BY <1>1, <1>2

\* What is known when the parser reads a code unit.
LEMMA ReadsIs ==
  ASSUME ConversionInv, U!Reads
  PROVE  /\ pc \in {"fast", "safe"} /\ first < last /\ first <= Len(text)
         /\ U!Unit = text[first] /\ text[first] \in Nat
         /\ U!Trails(text[first]) = Follow(form, option, text[first])
         /\ Follow(form, option, text[first]) \in -1..3
         /\ U!State(pending) # 0 <=> pending # <<>>
         /\ first # limit \/ (pc = "fast" /\ pending # <<>>)
<1>1. ConversionTypes
  BY DEF ConversionInv
<1>2. first < last /\ first <= Len(text) /\ first \in 1..Len(text)
  BY <1>1 DEF U!Reads, ConversionTypes
<1>3. text[first] \in Nat
  BY <1>1, <1>2 DEF ConversionTypes
<1>4. U!State(pending) # 0 <=> pending # <<>>
  BY <1>1, PartialIs DEF ConversionTypes
<1>5. U!Trails(text[first]) = Follow(form, option, text[first])
  BY <1>1, <1>3, FollowIs DEF ConversionTypes
<1>6. Follow(form, option, text[first]) \in -1..3
  BY <1>1, <1>3, FollowBounds DEF ConversionTypes
<1>7. pc \in {"fast", "safe"} /\ (first # limit \/ (pc = "fast" /\ pending # <<>>))
  BY <1>4 DEF U!Reads, U!NoCheckLast
<1> QED BY <1>2, <1>3, <1>4, <1>5, <1>6, <1>7 DEF U!Unit

\* Without checks, inside a character there is a trailing code unit to come.
LEMMA InsideCharacter ==
  ASSUME ConversionInv, option = "Unsafe", pc # "rereads", pending # <<>>
  PROVE  /\ first <= Len(text) /\ TrailIn(form, text[first])
         /\ Len(pending) = Follow(form, option, pending[1]) => TextFrom(first + 1)
<1> DEFINE b == first - Len(pending)
           l == Len(pending)
<1>1. /\ form \in {"utf8", "utf16", "utf32"} /\ text \in Seq(Nat) /\ first \in Nat
      /\ Partial(pending) /\ first <= Len(text) + 1
  BY DEF ConversionInv, ConversionTypes
<1>2. l \in 1..3 /\ l <= Follow(form, option, pending[1])
  BY <1>1, PartialIs
<1>3. l < first
  BY DEF ConversionInv, KeptInv
<1>4. TextFrom(b) /\ pending[1] = text[b]
  BY DEF ConversionInv, UncheckedInv
<1>5. b \in Nat /\ b >= 1 /\ b <= Len(text)
  BY <1>1, <1>2, <1>3
<1> DEFINE n == Follow(form, "Unsafe", text[b])
<1>6. l <= n /\ Follow(form, option, pending[1]) = n
  BY <1>2, <1>4
<1>7. /\ n \in 0..3 /\ b + n <= Len(text) /\ TextFrom(b + n + 1)
      /\ \A k \in 1..n : TrailIn(form, text[b + k])
  BY <1>1, <1>4, <1>5, AtCharacter
<1>8. first = b + l
  BY <1>1, <1>2
<1> HIDE DEF n, b, l
<1>9. first <= Len(text) /\ l \in 1..n /\ (l = n => first + 1 = b + n + 1)
  BY <1>1, <1>2, <1>5, <1>6, <1>7, <1>8
<1>10. TrailIn(form, text[b + l])
  BY <1>7, <1>9
<1>11. l = n => TextFrom(first + 1)
  BY <1>7, <1>9
<1> QED BY <1>6, <1>8, <1>9, <1>10, <1>11 DEF l

\* The text and its encoding stay, so its characters do.
LEMMA TextStays ==
  ASSUME form' = form, text' = text
  PROVE  TextFrom(first - Len(pending))' <=> TextFrom(first' - Len(pending'))
<1>1. ASSUME NEW starts PROVE Cut(starts)' <=> Cut(starts)
  BY SMT DEF Cut, U!WellFormed, U!Codepoint, U!Encode
<1> QED BY <1>1, Zenon DEF TextFrom

\* The parser goes on by one code unit, which it took for what it is.
LEMMA Advances ==
  ASSUME U!UnicodeConstants, ConversionInv, U!Reads, first' = first + 1,
         UNCHANGED <<form, option, keeps, text, state, pc, last, limit>>,
         Partial(pending)',
         option # "Unsafe" => (TrailIn(form, text[first]) <=> pending # <<>>),
         Len(pending') = IF pending' = <<>> THEN 0 ELSE Len(pending) + 1,
         option = "Unsafe" => /\ TextFrom(first' - Len(pending'))
                              /\ pending' # <<>> => pending'[1] = text[first' - Len(pending')]
  PROVE  ConversionInv'
<1> USE DEF ConversionInv
<1> DEFINE p == Len(pending)
           q == Len(pending')
<1>1. /\ pc \in {"fast", "safe"} /\ first < last /\ first <= Len(text)
      /\ first # limit \/ (pc = "fast" /\ pending # <<>>)
  BY ReadsIs
<1>2. p \in 0..3 /\ (pending = <<>> => p = 0) /\ first \in Nat /\ limit \in Nat /\ last \in Nat /\ Len(text) \in Nat
  BY PartialIs DEF ConversionTypes
<1>3. q = IF pending' = <<>> THEN 0 ELSE p + 1
  OBVIOUS
<1>4. ConversionTypes'
  <2>1. Partial(state)'
    BY DEF ConversionTypes, Partial
  <2>2. 1 <= first + 1 /\ first + 1 <= last /\ first + 1 \in Nat
    BY <1>1, <1>2
  <2> QED BY <2>1, <2>2 DEF ConversionTypes
<1>5. KeptInv'
  <2>1. p < first
    BY <1>1 DEF KeptInv
  <2> HIDE DEF p, q
  <2>2. q < first + 1
    BY <2>1, <1>2, <1>3
  <2> QED BY <2>2, <1>1 DEF KeptInv, q
<1>6. CheckedFastInv'
  <2> SUFFICES ASSUME pc = "fast", option # "Unsafe"
               PROVE  CheckedFastInv'
    BY DEF CheckedFastInv
  <2>1. limit + 3 <= last
    BY DEF CheckedFastInv
  <2>2. TrailIn(form, text[first]) <=> pending # <<>>
    OBVIOUS
  <2>3. CASE ~TrailIn(form, text[limit])
    <3>1. first <= limit
      BY <2>3 DEF CheckedFastInv
    <3>2. first # limit
      BY <2>2, <2>3, <1>1
    <3>3. first + 1 <= limit
      BY <3>1, <3>2, <1>2
    <3> QED BY <2>1, <2>3, <3>3 DEF CheckedFastInv
  <2>4. CASE TrailIn(form, text[limit])
    <3>1. /\ limit <= first /\ limit + Threshold < last
          /\ \A j \in limit..(last - 3) : TrailIn(form, text[j])
          /\ pending # <<>> \/ first > limit => keeps /\ limit >= 2
          /\ option = "None" => IF pending = <<>> THEN first <= limit + 3 ELSE first < limit + p
      BY <2>4 DEF CheckedFastInv
    <3>2. keeps /\ limit >= 2 /\ limit <= first + 1
      BY <3>1, <1>1, <1>2
    <3>3. ASSUME option = "None"
          PROVE  IF pending' = <<>> THEN first + 1 <= limit + 3 ELSE first + 1 < limit + q
      <4>1. CASE pending = <<>>
        <5>1. first <= limit + 3 /\ ~(first \in limit..(last - 3))
          BY <3>1, <3>3, <2>2, <4>1
        <5>2. first > last - 3
          BY <5>1, <3>1, <1>2
        <5>3. limit + 5 < last
          BY <3>1, <1>2 DEF U!UnicodeConstants
        <5> QED BY <5>1, <5>2, <5>3, <1>2
      <4>2. CASE pending # <<>>
        <5>1. first < limit + p
          BY <3>1, <3>3, <4>2
        <5> HIDE DEF p, q
        <5> QED BY <5>1, <1>2, <1>3
      <4> QED BY <4>1, <4>2
    <3> QED BY <2>1, <2>4, <3>1, <3>2, <3>3 DEF CheckedFastInv
  <2> QED BY <2>3, <2>4
<1>7. UncheckedInv'
  <2> SUFFICES ASSUME option = "Unsafe" PROVE UncheckedInv'
    BY DEF UncheckedInv
  <2>1. TextFrom(first - Len(pending))'
    BY TextStays
  <2>2. (pending # <<>> => pending[1] = text[first - Len(pending)])'
    OBVIOUS
  <2>3. ASSUME pc = "fast" PROVE first + 1 <= limit /\ (limit = Len(text) + 1 \/ ~TrailIn(form, text[limit]))
    <3>1. first <= limit /\ (limit = Len(text) + 1 \/ ~TrailIn(form, text[limit]))
      BY <2>3 DEF UncheckedInv
    <3>2. ASSUME first = limit PROVE FALSE
      <4>1. pending # <<>>
        BY <3>2, <1>1
      <4>2. first <= Len(text) /\ TrailIn(form, text[first])
        BY <4>1, <2>3, InsideCharacter
      <4> QED BY <3>1, <3>2, <4>2, <1>2
    <3> QED BY <3>1, <3>2, <1>2
  <2> QED BY <2>1, <2>2, <2>3 DEF UncheckedInv
<1>8. RangeInv'
  BY <1>1 DEF RangeInv
<1> QED BY <1>4, <1>5, <1>6, <1>7, <1>8

\* The three steps that go on.
LEMMA SingleKeeps ==
  ASSUME U!UnicodeConstants, ConversionInv, U!Single
  PROVE  ConversionInv'
<1> USE DEF U!Single, U!Configuration
<1>1. /\ pending = <<>> /\ pending' = <<>> /\ first <= Len(text) /\ U!Unit = text[first] /\ text[first] \in Nat
      /\ Follow(form, option, text[first]) = 0
  BY ReadsIs
<1>2. form \in {"utf8", "utf16", "utf32"} /\ text \in Seq(Nat) /\ first \in Nat /\ first >= 1
  BY DEF ConversionInv, ConversionTypes
<1>3. option # "Unsafe" => ~TrailIn(form, text[first])
  BY <1>1, <1>2, FollowBounds
<1>4. Partial(pending)'
  BY <1>1 DEF Partial
<1>5. option = "Unsafe" => TextFrom(first' - Len(pending'))
  <2> SUFFICES ASSUME option = "Unsafe" PROVE TextFrom(first' - Len(pending'))
    OBVIOUS
  <2>1. pc # "rereads"
    BY ReadsIs
  <2>2. TextFrom(first - Len(pending))
    BY <2>1 DEF ConversionInv, UncheckedInv
  <2>3. first - Len(pending) = first /\ first' - Len(pending') = first + 0 + 1
    BY <1>1, <1>2
  <2>4. TextFrom(first)
    BY <2>2, <2>3
  <2>5. TextFrom(first + Follow(form, "Unsafe", text[first]) + 1)
    BY <2>4, <1>1, <1>2, AtCharacter
  <2> QED BY <2>3, <2>5, <1>1
<1> QED BY <1>1, <1>3, <1>4, <1>5, Advances

LEMMA LeadKeeps ==
  ASSUME U!UnicodeConstants, ConversionInv, U!Lead
  PROVE  ConversionInv'
<1> USE DEF U!Lead, U!Configuration
<1>1. /\ pending = <<>> /\ pending' = <<text[first]>> /\ first <= Len(text) /\ text[first] \in Nat
      /\ Follow(form, option, text[first]) > 0
  BY ReadsIs
<1>2. /\ form \in {"utf8", "utf16", "utf32"} /\ text \in Seq(Nat) /\ first \in Nat /\ first >= 1
  BY DEF ConversionInv, ConversionTypes
<1>3. option # "Unsafe" => ~TrailIn(form, text[first])
  BY <1>1, <1>2, FollowBounds
<1>4. pending' # <<>> /\ pending' \in Seq(Nat) /\ Len(pending') = 1 /\ pending'[1] = text[first]
  BY <1>1
<1>5. Follow(form, option, text[first]) >= 1
  BY <1>1, ReadsIs
<1>6. Partial(pending)'
  BY <1>4, <1>5 DEF Partial
<1>7. option = "Unsafe" => /\ TextFrom(first' - Len(pending'))
                           /\ pending' # <<>> => pending'[1] = text[first' - Len(pending')]
  <2> SUFFICES ASSUME option = "Unsafe"
               PROVE  TextFrom(first' - Len(pending')) /\ pending'[1] = text[first' - Len(pending')]
    OBVIOUS
  <2>1. pc # "rereads"
    BY ReadsIs
  <2>2. TextFrom(first - Len(pending))
    BY <2>1 DEF ConversionInv, UncheckedInv
  <2>3. first - Len(pending) = first /\ first' - Len(pending') = first
    BY <1>1, <1>2, <1>4
  <2> QED BY <2>2, <2>3, <1>4
<1>8. Len(pending') = IF pending' = <<>> THEN 0 ELSE Len(pending) + 1
  BY <1>1, <1>4
<1> QED BY <1>1, <1>3, <1>6, <1>7, <1>8, Advances

LEMMA ContinueKeeps ==
  ASSUME U!UnicodeConstants, ConversionInv, U!Continue
  PROVE  ConversionInv'
<1> USE DEF U!Continue, U!Configuration
<1>1. /\ pending # <<>> /\ first <= Len(text) /\ U!Unit = text[first] /\ text[first] \in Nat /\ pc # "rereads"
  BY ReadsIs
<1>2. /\ form \in {"utf8", "utf16", "utf32"} /\ text \in Seq(Nat) /\ first \in Nat /\ first >= 1 /\ Partial(pending)
  BY DEF ConversionInv, ConversionTypes
<1>3. /\ pending \in Seq(Nat) /\ Len(pending) \in 1..3 /\ pending[1] \in Nat /\ form \in {"utf8", "utf16"}
      /\ U!Trails(pending[1]) = Follow(form, option, pending[1])
      /\ Len(pending) <= Follow(form, option, pending[1])
  BY <1>1, <1>2, PartialIs
<1>4. option # "Unsafe" => TrailIn(form, text[first])
  BY <1>1, <1>3, FitsIsTrail
<1>5. option = "Unsafe" => TextFrom(first - Len(pending)) /\ pending[1] = text[first - Len(pending)]
  BY <1>1 DEF ConversionInv, UncheckedInv
<1>6. CASE Len(pending) = U!Trails(pending[1])
  <2>1. pending' = <<>> /\ Len(pending') = 0
    BY <1>6
  <2>2. Partial(pending)'
    BY <2>1 DEF Partial
  <2>3. option = "Unsafe" => TextFrom(first + 1)
    BY <1>1, <1>3, <1>6, InsideCharacter
  <2>4. first' - Len(pending') = first + 1
    BY <2>1, <1>2
  <2> QED BY <1>1, <1>4, <2>1, <2>2, <2>3, <2>4, Advances
<1>7. CASE Len(pending) # U!Trails(pending[1])
  <2>1. pending' = Append(pending, text[first])
    BY <1>1, <1>7
  <2>2. pending' \in Seq(Nat) /\ Len(pending') = Len(pending) + 1 /\ pending'[1] = pending[1]
    BY <1>1, <1>3, <2>1, AppendProperties
  <2>3. pending' # <<>>
    BY <2>2, <1>3
  <2>4. Len(pending') >= 1 /\ Len(pending') <= Follow(form, option, pending[1])
    <3>1. Follow(form, option, pending[1]) \in -1..3
      BY <1>2, <1>3, FollowBounds
    <3> QED BY <1>3, <1>7, <2>2, <3>1
  <2>5. Partial(pending)'
    BY <2>2, <2>4 DEF Partial
  <2>6. first' - Len(pending') = first - Len(pending)
    BY <1>2, <1>3, <2>2
  <2>7. Len(pending') = IF pending' = <<>> THEN 0 ELSE Len(pending) + 1
    BY <2>2, <2>3
  <2> QED BY <1>1, <1>4, <1>5, <2>2, <2>5, <2>6, <2>7, Advances
<1> QED BY <1>6, <1>7

\* Once a run has failed, or meets the same code unit for ever, nothing is left to hold.
LEMMA FailedKeeps ==
  ASSUME ConversionInv, UNCHANGED <<form, option, keeps, text, state, first, last, limit, pending>>,
         pc' \in {"failed", "hang"}, pc' = "hang" => form = "utf32" /\ option = "ReplaceIllFormed",
         pc \in {"fast", "safe"}
  PROVE  ConversionInv'
<1> USE DEF ConversionInv
<1>1. ConversionTypes'
  BY DEF ConversionTypes, Partial
<1>2. KeptInv'
  BY DEF KeptInv
<1>3. CheckedFastInv'
  BY DEF CheckedFastInv
<1>4. UncheckedInv'
  <2>1. TextFrom(first - Len(pending))' <=> TextFrom(first - Len(pending))
    BY TextStays
  <2> QED BY <2>1 DEF UncheckedInv
<1>5. RangeInv'
  BY DEF RangeInv
<1> QED BY <1>1, <1>2, <1>3, <1>4, <1>5

\* A replacement: the parser begins anew, behind what it skips or at the same code unit.
LEMMA ReplacementKeeps ==
  ASSUME ConversionInv, U!Reads, option = "ReplaceIllFormed", pending' = <<>>,
         first' = IF pending = <<>> THEN first + 1 ELSE first,
         UNCHANGED <<form, option, keeps, text, state, pc, last, limit>>
  PROVE  ConversionInv'
<1> USE DEF ConversionInv
<1>1. /\ pc \in {"fast", "safe"} /\ first < last /\ first <= Len(text)
      /\ first # limit \/ (pc = "fast" /\ pending # <<>>)
  BY ReadsIs
<1>2. first \in Nat /\ limit \in Nat /\ last \in Nat /\ Len(text) \in Nat
  BY DEF ConversionTypes
<1>3. ConversionTypes'
  <2>1. Partial(state)' /\ Partial(pending)'
    BY DEF ConversionTypes, Partial
  <2>2. 1 <= first' /\ first' <= last /\ first' \in Nat
    BY <1>1, <1>2 DEF ConversionTypes
  <2> QED BY <2>1, <2>2 DEF ConversionTypes
<1>4. KeptInv'
  <2>1. Len(pending') = 0 /\ first' > 0
    BY <1>2 DEF ConversionTypes
  <2> QED BY <2>1, <1>1, <1>2 DEF KeptInv
<1>5. CheckedFastInv'
  <2> SUFFICES ASSUME pc = "fast" PROVE CheckedFastInv'
    BY DEF CheckedFastInv
  <2>1. limit + 3 <= last
    BY DEF CheckedFastInv
  <2>2. CASE ~TrailIn(form, text[limit])
    <3>1. first <= limit
      BY <2>2 DEF CheckedFastInv
    <3>2. first' <= limit
      BY <3>1, <1>1, <1>2
    <3> QED BY <2>1, <2>2, <3>2 DEF CheckedFastInv
  <2>3. CASE TrailIn(form, text[limit])
    <3>1. /\ limit <= first /\ limit + Threshold < last
          /\ \A j \in limit..(last - 3) : TrailIn(form, text[j])
          /\ pending # <<>> \/ first > limit => keeps /\ limit >= 2
      BY <2>3 DEF CheckedFastInv
    <3>2. keeps /\ limit >= 2 /\ limit <= first'
      BY <3>1, <1>1, <1>2
    <3> QED BY <2>1, <2>3, <3>1, <3>2 DEF CheckedFastInv
  <2> QED BY <2>2, <2>3
<1>6. UncheckedInv' /\ RangeInv'
  BY <1>1 DEF UncheckedInv, RangeInv
<1> QED BY <1>3, <1>4, <1>5, <1>6

LEMMA ErrorsKeep ==
  ASSUME ConversionInv, U!StartError \/ U!TrailError \/ U!CodepointError
  PROVE  ConversionInv'
<1>1. CASE U!StartError
  <2>1. U!Reads /\ pending = <<>> /\ pc \in {"fast", "safe"}
    BY <1>1, ReadsIs DEF U!StartError
  <2>2. first + 1 = IF pending = <<>> THEN first + 1 ELSE first
    BY <2>1
  <2>3. CASE option # "ReplaceIllFormed"
    BY <1>1, <2>1, <2>3, FailedKeeps DEF U!StartError, U!Fail, U!Configuration
  <2>4. CASE option = "ReplaceIllFormed"
    BY <1>1, <2>1, <2>2, <2>4, ReplacementKeeps DEF U!StartError, U!Fail, U!Configuration
  <2> QED BY <2>3, <2>4
<1>2. CASE U!TrailError
  <2>1. U!Reads /\ pending # <<>> /\ pc \in {"fast", "safe"} /\ first \in Nat
    BY <1>2, ReadsIs DEF U!TrailError, ConversionInv, ConversionTypes
  <2>2. first + 0 = IF pending = <<>> THEN first + 1 ELSE first
    BY <2>1
  <2>3. CASE option # "ReplaceIllFormed"
    BY <1>2, <2>1, <2>3, FailedKeeps DEF U!TrailError, U!Fail, U!Configuration
  <2>4. CASE option = "ReplaceIllFormed"
    BY <1>2, <2>1, <2>2, <2>4, ReplacementKeeps DEF U!TrailError, U!Fail, U!Configuration
  <2> QED BY <2>3, <2>4
<1>3. CASE U!CodepointError
  BY <1>3, ReadsIs, FailedKeeps DEF U!CodepointError, U!Configuration
<1> QED BY <1>1, <1>2, <1>3

\* A chunk that takes the fast path has room for a character before the last three code units.
LEMMA ChunkIsLong ==
  ASSUME NEW f \in Nat, NEW t \in Nat, t >= 5, NEW e \in Nat, f + t < e, NEW l \in Nat, e <= l + 1,
         NEW m \in Nat, m >= f + 1, m <= f + 3
  PROVE  m \in (f + 1)..(e - 3) /\ m <= l /\ m >= 1
OBVIOUS

\* A call: the chunk's end is in the text, and a fast path ends where a character
\* starts or three before the end of a chunk of trailing code units.
LEMMA CallKeeps ==
  ASSUME U!UnicodeConstants, ConversionInv, pc = "idle",
         UNCHANGED <<form, option, keeps, text, first, pending>>,
         last' \in Nat, first <= last', last' <= Len(text) + 1, 1 <= limit', limit' <= last', limit' \in Nat,
         state' \in {state, pending},
         \/ pc' = "safe" /\ limit' = last'
         \/ pc' = "overrun" /\ limit' = last' /\ last' = first /\ pending # <<>>
         \/ /\ pc' = "fast" /\ option = "Unsafe" /\ limit' = Len(text) + 1
         \/ /\ pc' = "fast" /\ limit' + 3 <= last' /\ first <= limit' /\ first + Threshold < last'
            /\ limit' = first \/ ~TrailIn(form, text[limit'])
            /\ \A j \in (limit' + 1)..(last' - 3) : TrailIn(form, text[j])
  PROVE  ConversionInv'
<1> USE DEF ConversionInv
<1>1. /\ first \in Nat /\ first >= 1 /\ Len(text) \in Nat /\ form \in {"utf8", "utf16", "utf32"} /\ text \in Seq(Nat)
      /\ Len(pending) < first /\ Len(pending) \in 0..3 /\ (pending # <<>> => Len(pending) >= 1)
      /\ Threshold \in Nat /\ Threshold >= 5
  BY PartialIs DEF ConversionTypes, KeptInv, U!UnicodeConstants
<1>2. ConversionTypes'
  BY DEF ConversionTypes, Partial
<1>3. KeptInv'
  BY DEF KeptInv
<1>4. ASSUME pc' = "fast", option # "Unsafe" PROVE CheckedFastInv'
  <2>1. /\ limit' + 3 <= last' /\ first <= limit' /\ first + Threshold < last'
        /\ limit' = first \/ ~TrailIn(form, text[limit'])
        /\ \A j \in (limit' + 1)..(last' - 3) : TrailIn(form, text[j])
    BY <1>4
  <2>2. CASE ~TrailIn(form, text[limit'])
    BY <2>1, <2>2 DEF CheckedFastInv
  <2>3. CASE TrailIn(form, text[limit'])
    <3>1. limit' = first
      BY <2>1, <2>3
    <3>2. \A j \in first..(last' - 3) : TrailIn(form, text[j])
      <4>1. \A j \in first..(last' - 3) : j = first \/ j \in (first + 1)..(last' - 3)
        <5>1. \A e \in Int : \A j \in first..e : j = first \/ j \in (first + 1)..e
          BY <1>1
        <5>2. last' - 3 \in Int
          OBVIOUS
        <5> QED BY <5>1, <5>2
      <4>2. TrailIn(form, text[first])
        BY <2>3, <3>1
      <4>3. \A j \in (first + 1)..(last' - 3) : TrailIn(form, text[j])
        BY <2>1, <3>1
      <4> QED BY <4>1, <4>2, <4>3
    <3>3. pending # <<>> => keeps /\ first >= 2
      BY <1>1 DEF KeptInv, ConversionTypes
    <3>4. IF pending = <<>> THEN first <= first + 3 ELSE first < first + Len(pending)
      BY <1>1
    <3>5. ~(first > first)
      BY <1>1
    <3> QED BY <1>1, <2>1, <2>3, <3>1, <3>2, <3>3, <3>4, <3>5 DEF CheckedFastInv
  <2> QED BY <2>2, <2>3
<1>5. ASSUME option = "Unsafe" PROVE UncheckedInv'
  <2>1. TextFrom(first - Len(pending))' <=> TextFrom(first - Len(pending))
    BY TextStays
  <2>2. TextFrom(first - Len(pending)) /\ (pending # <<>> => pending[1] = text[first - Len(pending)])
    BY <1>5 DEF UncheckedInv
  <2>3. ASSUME pc' = "fast"
        PROVE  first <= limit' /\ (limit' = Len(text) + 1 \/ ~TrailIn(form, text[limit']))
    <3>1. CASE limit' = Len(text) + 1
      <4>1. first <= Len(text) + 1
        BY <1>1
      <4> QED BY <3>1, <4>1
    <3>2. CASE limit' # Len(text) + 1
      <4>1. /\ limit' + 3 <= last' /\ first <= limit' /\ first + Threshold < last'
            /\ limit' = first \/ ~TrailIn(form, text[limit'])
            /\ \A j \in (limit' + 1)..(last' - 3) : TrailIn(form, text[j])
        BY <2>3, <3>2
      <4>2. ASSUME limit' = first, TrailIn(form, text[first]) PROVE FALSE
        <5> DEFINE b == first - Len(pending)
                   n == Follow(form, "Unsafe", text[b])
        <5>1. b \in Nat /\ b >= 1 /\ b <= Len(text) /\ first <= Len(text)
          BY <1>1, <4>1
        <5>2. n \in 0..3 /\ b + n <= Len(text) /\ TextFrom(b + n + 1)
          BY <1>1, <2>2, <5>1, AtCharacter
        <5>3. pending = <<>> => ~TrailIn(form, text[first])
          <6>1. pending = <<>> => b = first
            BY <1>1
          <6>2. ~TrailIn(form, text[b])
            BY <1>1, <2>2, <5>1, AtCharacter
          <6> QED BY <6>1, <6>2
        <5>4. Len(pending) >= 1 /\ Len(pending) <= n
          <6>1. pending # <<>> /\ Partial(pending)
            BY <4>2, <5>3 DEF ConversionTypes
          <6>2. Len(pending) <= Follow(form, option, pending[1])
            BY <1>1, <6>1, PartialIs
          <6> QED BY <1>1, <1>5, <2>2, <6>1, <6>2
        <5> HIDE DEF b, n
        <5>5. b + Len(pending) = first
          BY <1>1 DEF b
        <5> DEFINE m == b + n + 1
        <5>9. m \in Nat /\ m >= first + 1 /\ m <= first + 3
          <6>1. b \in Nat /\ n \in 0..3 /\ Len(pending) \in Nat /\ first \in Nat
            BY <1>1, <5>1, <5>2
          <6> QED BY <6>1, <5>4, <5>5
        <5> HIDE DEF m
        <5>10. first + Threshold < last'
          BY <4>1
        <5>6. m \in (first + 1)..(last' - 3) /\ m <= Len(text) /\ m >= 1
          BY <1>1, <5>9, <5>10, ChunkIsLong
        <5>7. TrailIn(form, text[m])
          BY <4>1, <4>2, <5>6
        <5>8. ~TrailIn(form, text[m])
          <6>1. TextFrom(m)
            BY <5>2 DEF m
          <6> QED BY <1>1, <6>1, <5>6, <5>9, AtCharacter
        <5> QED BY <5>7, <5>8
      <4> QED BY <4>1, <4>2
    <3> QED BY <3>1, <3>2
  <2> QED BY <2>1, <2>2, <2>3 DEF UncheckedInv
<1>6. CheckedFastInv' /\ UncheckedInv'
  BY <1>4, <1>5 DEF CheckedFastInv, UncheckedInv
<1>7. RangeInv'
  <2>1. pending # <<>> => keeps
    BY DEF KeptInv, ConversionTypes
  <2> QED BY <2>1 DEF RangeInv
<1>8. UncheckedInv'
  BY <1>5 DEF UncheckedInv
<1> QED BY <1>2, <1>3, <1>6, <1>7, <1>8

LEMMA CallsKeep ==
  ASSUME U!UnicodeConstants, ConversionInv, U!Call
  PROVE  ConversionInv'
<1>1. /\ first \in Nat /\ first >= 1 /\ Len(text) \in Nat /\ form \in {"utf8", "utf16", "utf32"} /\ text \in Seq(Nat)
      /\ first <= Len(text) + 1 /\ Threshold \in Nat /\ Threshold >= 5
  BY DEF ConversionInv, ConversionTypes, U!UnicodeConstants
<1>2. ASSUME NEW n \in 0..(Len(text) + 1 - first)
      PROVE  /\ first + n \in Nat /\ first <= first + n /\ first + n <= Len(text) + 1 /\ 1 <= first + n
             /\ first + n <= first + n
  BY <1>1
<1>3. CASE U!CallConvertWhole \/ U!CallUnsafeWhole
  <2>1. Len(text) + 1 \in Nat /\ 1 <= Len(text) + 1 /\ Len(text) + 1 <= Len(text) + 1
    BY <1>1
  <2> QED BY <1>1, <1>3, <2>1, CallKeeps DEF U!CallConvertWhole, U!CallUnsafeWhole, U!Configuration
<1>4. CASE \E n \in 0..(Len(text) + 1 - first) : U!CallConvert(n) \/ U!CallUnsafe(n)
  <2>1. PICK n \in 0..(Len(text) + 1 - first) : U!CallConvert(n) \/ U!CallUnsafe(n)
    BY <1>4
  <2>2. /\ pc = "idle" /\ last' = first + n /\ limit' = first + n /\ pc' = U!Enters(n)
        /\ UNCHANGED <<form, option, keeps, text, state, first, pending>>
    BY <2>1 DEF U!CallConvert, U!CallUnsafe, U!Configuration
  <2>3. U!State(pending) # 0 <=> pending # <<>>
    BY PartialIs DEF ConversionInv, ConversionTypes
  <2>4. \/ pc' = "safe" /\ limit' = last'
        \/ pc' = "overrun" /\ limit' = last' /\ last' = first /\ pending # <<>>
    BY <1>1, <2>2, <2>3 DEF U!Enters
  <2>5. /\ last' \in Nat /\ first <= last' /\ last' <= Len(text) + 1
        /\ 1 <= limit' /\ limit' <= last' /\ limit' \in Nat
    BY <1>2, <2>2
  <2> QED BY <2>2, <2>4, <2>5, CallKeeps, Zenon
<1>5. CASE \E n \in 0..(Len(text) + 1 - first) : U!CallConvertFast(n) \/ U!CallUnsafeFast(n)
  <2>1. PICK n \in 0..(Len(text) + 1 - first) : U!CallConvertFast(n) \/ U!CallUnsafeFast(n)
    BY <1>5
  <2>2. /\ n > Threshold /\ last' = first + n /\ pc = "idle" /\ pc' = "fast" /\ limit' = U!Last1(n) /\ state' = pending
        /\ UNCHANGED <<form, option, keeps, text, first, pending>>
    BY <2>1 DEF U!CallConvertFast, U!CallUnsafeFast, U!Configuration
  <2>3. n \in Nat /\ n > 5 /\ first + Threshold < first + n
    BY <1>1, <2>2
  <2> DEFINE l == U!Last1(n)
  <2>4. /\ l \in Nat /\ first <= l /\ l + 3 <= first + n
        /\ l = first \/ ~TrailIn(form, text[l])
    BY <1>1, <1>2, <2>3, Last1Is
  <2>12. \A j \in (l + 1)..(first + n - 3) : TrailIn(form, text[j])
    BY <1>1, <1>2, <2>3, Last1Is
  <2>5. limit' = l /\ last' = first + n
    BY <2>2
  <2> HIDE DEF l
  <2>6. l <= first + n /\ 1 <= l
    BY <1>1, <2>3, <2>4
  <2>7. /\ last' \in Nat /\ first <= last' /\ last' <= Len(text) + 1
        /\ 1 <= limit' /\ limit' <= last' /\ limit' \in Nat
    BY <1>2, <2>4, <2>5, <2>6
  <2>8. /\ limit' + 3 <= last' /\ first <= limit' /\ first + Threshold < last'
        /\ limit' = first \/ ~TrailIn(form, text[limit'])
    BY <1>1, <2>3, <2>4, <2>5
  <2>11. \A j \in (limit' + 1)..(last' - 3) : TrailIn(form, text[j])
    <3> DEFINE T(a, b) == \A j \in (a + 1)..(b - 3) : TrailIn(form, text[j])
    <3>1. T(l, first + n)
      <4>1. (first + n) - 3 = first + n - 3
        BY <1>1, <2>3
      <4> QED BY <4>1, <2>12
    <3> HIDE DEF T
    <3>2. T(limit', last')
      BY <3>1, <2>5
    <3> QED BY <3>2 DEF T
  <2>9. state' \in {state, pending}
    BY <2>2
  <2>10. /\ pc' = "fast" /\ limit' + 3 <= last' /\ first <= limit' /\ first + Threshold < last'
         /\ limit' = first \/ ~TrailIn(form, text[limit'])
         /\ \A j \in (limit' + 1)..(last' - 3) : TrailIn(form, text[j])
    BY <2>2, <2>8, <2>11
  <2> QED BY <2>2, <2>7, <2>9, <2>10, CallKeeps, Zenon
<1> QED BY <1>3, <1>4, <1>5 DEF U!Call

\* The ends of the fast path, of a call, and of the range.
LEMMA EndsKeep ==
  ASSUME U!UnicodeConstants, ConversionInv,
         U!FastEnds \/ U!Rereads \/ U!PassesEnd \/ U!Returns \/ U!ReturnsPartial
  PROVE  ConversionInv'
<1> USE DEF ConversionInv
<1>1. /\ first \in Nat /\ last \in Nat /\ limit \in Nat /\ limit <= last /\ first <= last /\ Len(text) \in Nat
      /\ form \in {"utf8", "utf16", "utf32"} /\ text \in Seq(Nat) /\ last <= Len(text) + 1
      /\ Threshold \in Nat /\ Threshold >= 5
      /\ Len(pending) \in 0..3 /\ (U!State(pending) # 0 <=> pending # <<>>)
  BY PartialIs DEF ConversionTypes, U!UnicodeConstants
<1>2. Partial(<<>>)
  BY DEF Partial
<1>3. CASE U!FastEnds \/ U!Returns
  <2>1. /\ UNCHANGED <<form, option, keeps, text, first, last, pending>> /\ pending = <<>>
        /\ state' \in {state, <<>>} /\ pc \in {"fast", "safe"}
        /\ limit' = last /\ pc' \in {"safe", "idle"}
    BY <1>3 DEF U!FastEnds, U!Returns, U!Configuration, RangeInv
  <2>2. ConversionTypes'
    <3>1. Partial(state)' /\ Partial(pending)'
      BY <2>1 DEF ConversionTypes, Partial
    <3> QED BY <2>1, <3>1, <1>1 DEF ConversionTypes
  <2>3. KeptInv'
    BY <2>1 DEF KeptInv
  <2>4. CheckedFastInv'
    BY <2>1 DEF CheckedFastInv
  <2>5. UncheckedInv'
    <3>1. TextFrom(first - Len(pending))' <=> TextFrom(first - Len(pending))
      BY <2>1, TextStays
    <3> QED BY <2>1, <3>1 DEF UncheckedInv
  <2>6. RangeInv'
    BY <2>1 DEF RangeInv
  <2> QED BY <2>2, <2>3, <2>4, <2>5, <2>6
<1>4. CASE U!Rereads
  <2>1. /\ UNCHANGED <<form, option, keeps, text, state, first, last, limit>>
        /\ pc' = "rereads" /\ pending' = state /\ state # <<>> /\ option = "Unsafe"
    BY <1>4 DEF U!Rereads, U!Configuration
  <2>2. keeps
    BY <2>1 DEF KeptInv, ConversionTypes
  <2>3. ConversionTypes'
    BY <2>1 DEF ConversionTypes, Partial
  <2> QED BY <2>1, <2>2, <2>3 DEF KeptInv, CheckedFastInv, UncheckedInv, RangeInv
<1>5. CASE U!PassesEnd
  <2>1. /\ UNCHANGED <<form, option, keeps, text, state, first, last, limit, pending>>
        /\ pc = "fast" /\ pc' = "overrun" /\ first = last /\ (first # limit \/ pending # <<>>)
    BY <1>1, <1>5 DEF U!PassesEnd, U!Configuration
  <2>2. option # "Unsafe"
    <3> SUFFICES ASSUME option = "Unsafe" PROVE FALSE
      OBVIOUS
    <3>1. first <= limit /\ (limit = Len(text) + 1 \/ ~TrailIn(form, text[limit]))
      BY <2>1 DEF UncheckedInv
    <3>2. first = limit /\ pending # <<>>
      BY <1>1, <2>1, <3>1
    <3>3. first <= Len(text) /\ TrailIn(form, text[first])
      BY <2>1, <3>2, InsideCharacter
    <3> QED BY <1>1, <3>1, <3>2, <3>3
  <2>3. TrailIn(form, text[limit])
    <3> SUFFICES ASSUME ~TrailIn(form, text[limit]) PROVE FALSE
      OBVIOUS
    <3>1. first <= limit /\ limit + 3 <= last
      BY <2>1, <2>2 DEF CheckedFastInv
    <3> QED BY <1>1, <2>1, <3>1
  <2>4. /\ limit <= first /\ limit + Threshold < last
        /\ \A j \in limit..(last - 3) : TrailIn(form, text[j])
        /\ pending # <<>> \/ first > limit => keeps /\ limit >= 2
        /\ option = "None" => IF pending = <<>> THEN first <= limit + 3 ELSE first < limit + Len(pending)
    BY <2>1, <2>2, <2>3 DEF CheckedFastInv
  <2>5. keeps /\ limit \in 2..(last - Threshold)
    BY <1>1, <2>1, <2>4
  <2>6. option = "ReplaceIllFormed"
    <3>1. ASSUME option = "None" PROVE FALSE
      <4>1. first <= limit + 3
        <5>1. CASE pending = <<>>
          BY <2>4, <3>1, <5>1
        <5>2. CASE pending # <<>>
          <6>1. first < limit + Len(pending)
            BY <2>4, <3>1, <5>2
          <6>2. \A a, b \in Nat, c \in 0..3 : a < b + c => a <= b + 3
            OBVIOUS
          <6> QED BY <6>1, <6>2, <1>1
        <5> QED BY <5>1, <5>2
      <4>2. limit + Threshold < last
        BY <2>4
      <4> QED BY <4>1, <4>2, <1>1, <2>1
    <3> QED BY <2>2, <3>1 DEF ConversionTypes
  <2>7. \E i \in 2..(last - Threshold) : \A j \in i..(last - 3) : TrailIn(form, text[j])
    BY <2>4, <2>5
  <2>8. ConversionTypes'
    BY <2>1 DEF ConversionTypes, Partial
  <2>9. RangeInv'
    BY <2>1, <2>5, <2>6, <2>7 DEF RangeInv
  <2> QED BY <2>1, <2>2, <2>8, <2>9 DEF KeptInv, CheckedFastInv, UncheckedInv
<1>6. CASE U!ReturnsPartial
  <2>1. /\ UNCHANGED <<form, option, keeps, text, state, first, last, limit>>
        /\ pc = "safe" /\ pc' \in {"idle", "failed"}
        /\ \/ pending' = pending /\ (pc' = "idle" => keeps)
           \/ pending' = <<>> /\ option = "ReplaceIllFormed"
    BY <1>6 DEF U!ReturnsPartial, U!Configuration
  <2>2. ConversionTypes'
    <3>1. Partial(state)' /\ Partial(pending)'
      BY <2>1 DEF ConversionTypes, Partial
    <3> QED BY <2>1, <3>1 DEF ConversionTypes
  <2>3. KeptInv'
    <3>1. Len(<<>>) = 0
      OBVIOUS
    <3>2. Len(pending) < first
      BY <2>1 DEF KeptInv
    <3>3. Len(pending') < first
      BY <1>1, <2>1, <3>1, <3>2
    <3> QED BY <2>1, <3>3 DEF KeptInv
  <2>4. UncheckedInv'
    <3>1. option = "Unsafe" => (TextFrom(first - Len(pending))' <=> TextFrom(first - Len(pending)))
      BY <2>1, TextStays
    <3> QED BY <2>1, <3>1 DEF UncheckedInv
  <2>5. CheckedFastInv' /\ RangeInv'
    BY <2>1 DEF CheckedFastInv, RangeInv
  <2> QED BY <2>2, <2>3, <2>4, <2>5
<1> QED BY <1>3, <1>4, <1>5, <1>6

LEMMA ConversionBegins ==
  ASSUME U!UnicodeConstants, U!Init
  PROVE  ConversionInv
<1> USE DEF U!Init
<1>1. form \in {"utf8", "utf16", "utf32"} /\ text \in Seq(Nat)
  BY DEF U!UnicodeConstants
<1>2. ConversionTypes
  <2>1. option \in {"None", "ReplaceIllFormed", "Unsafe"}
    OBVIOUS
  <2>2. Partial(<<>>)
    BY DEF Partial
  <2>3. Len(text) \in Nat
    BY <1>1
  <2> QED BY <1>1, <2>1, <2>2, <2>3 DEF ConversionTypes
<1>3. Len(pending) = 0
  OBVIOUS
<1>4. UncheckedInv
  <2> SUFFICES ASSUME option = "Unsafe" PROVE TextFrom(first - Len(pending))
    BY DEF UncheckedInv
  <2>1. U!IsText
    OBVIOUS
  <2>2. TextFrom(1)
    BY <2>1 DEF U!IsText, TextFrom, Cut
  <2>3. first - Len(pending) = 1
    BY <1>3
  <2> QED BY <2>2, <2>3
<1> QED BY <1>2, <1>3, <1>4 DEF ConversionInv, KeptInv, CheckedFastInv, RangeInv

\* convert and convert_unsafe read inside the range they are given, whatever text in
\* whatever chunks they get, empty ones too, and whatever its encoding; the exceptions
\* are the four that the property names.
THEOREM ConversionStaysInRange ==
  ASSUME U!UnicodeConstants
  PROVE  U!Spec => []U!StaysInRange
<1>1. U!Init => ConversionInv
  BY ConversionBegins
<1>2. ConversionInv /\ [U!Next]_U!vars => ConversionInv'
  <2> SUFFICES ASSUME ConversionInv, [U!Next]_U!vars PROVE ConversionInv'
    OBVIOUS
  <2>1. CASE U!Call
    BY <2>1, CallsKeep
  <2>2. CASE U!Single \/ U!Lead \/ U!Continue
    BY <2>2, SingleKeeps, LeadKeeps, ContinueKeeps
  <2>3. CASE U!StartError \/ U!TrailError \/ U!CodepointError
    BY <2>3, ErrorsKeep
  <2>4. CASE U!FastEnds \/ U!Rereads \/ U!PassesEnd \/ U!Returns \/ U!ReturnsPartial
    BY <2>4, EndsKeep
  <2>5. CASE UNCHANGED U!vars
    <3>1. TextFrom(first - Len(pending))' <=> TextFrom(first - Len(pending))
      BY <2>5, TextStays DEF U!vars
    <3> QED BY <2>5, <3>1 DEF U!vars, ConversionInv, ConversionTypes, Partial, KeptInv, CheckedFastInv,
                             UncheckedInv, RangeInv
  <2> QED BY <2>1, <2>2, <2>3, <2>4, <2>5 DEF U!Next
<1>3. ConversionInv => U!StaysInRange
  <2> SUFFICES ASSUME ConversionInv PROVE U!StaysInRange
    OBVIOUS
  <2> USE DEF ConversionInv
  <2>1. /\ first \in Nat /\ last \in Nat /\ limit \in Nat /\ last <= Len(text) + 1 /\ first <= last /\ Len(text) \in Nat
        /\ form \in {"utf8", "utf16", "utf32"} /\ text \in Seq(Nat)
    BY DEF ConversionTypes
  <2>2. ASSUME pc = "overrun", ~U!EmptyChunk
        PROVE  \E i \in 2..(last - Threshold) : \A j \in i..(last - 3) : U!is_trail(text[j])
    <3>1. PICK i \in 2..(last - Threshold) : \A j \in i..(last - 3) : TrailIn(form, text[j])
      BY <2>2 DEF RangeInv, U!EmptyChunk
    <3>2. ASSUME NEW j \in i..(last - 3) PROVE U!is_trail(text[j])
      <4>1. j \in 1..Len(text)
        BY <2>1
      <4>2. text[j] \in Nat
        BY <2>1, <4>1
      <4> QED BY <2>1, <3>1, <4>2, TrailIs
    <3> QED BY <3>1, <3>2
  <2>3. pc = "safe" => first <= limit
    BY <2>1 DEF RangeInv
  <2> QED BY <2>2, <2>3 DEF RangeInv, U!StaysInRange, U!EmptyChunk
<1> QED BY <1>1, <1>2, <1>3, PTL DEF U!Spec
=============================================================================
