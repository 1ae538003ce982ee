--------------------------- MODULE DataStreambuf ---------------------------
(***************************************************************************)
(* NSDataStreambuf.hpp and NSMutableDataStreambuf.hpp: stream buffers over *)
(* memory of their own that grows.  The first takes it from malloc, the    *)
(* second from an NSMutableData.  Pointers are offsets; the bases of the   *)
(* get and the put area are null or the memory.                            *)
(***************************************************************************)
EXTENDS Integers, Sequences

CONSTANTS Chars,
          MaxLength,  \* of the content
          First       \* the first size of the memory: 32K from malloc; 8K are added to an NSMutableData

\* what the proofs need; 3 is the longest content that SetData gives
StreambufConstants == MaxLength \in Nat /\ MaxLength >= 3 /\ First \in Nat \ {0}

VARIABLES class,      \* "malloc" or "mutable"
          mode,       \* ios_base::openmode: of "in", "out", "app"
          mem,        \* the memory, 0 where nothing was written; <<>>: NULL
          eback, gptr, egptr, pbase, pptr, epptr,   \* eback and pbase: "null" or "mem"
          hm,         \* _hm, the high mark
          read, fault

vars == <<class, mode, mem, eback, gptr, egptr, pbase, pptr, epptr, hm, read, fault>>

Larger(a, b) == IF a > b THEN a ELSE b
In == "in" \in mode
Out == "out" \in mode
Fill(s, n) == [i \in 1..n |-> IF i <= Len(s) THEN s[i] ELSE 0]
Base(memory) == IF memory = <<>> THEN "null" ELSE "mem"

\* std::max(size_t(1), size_t(__byte_size > 10)) << 1, whatever the size; malloc gets 2
MallocSize(s) == 2

\* the memory data(NSData*) takes for the bytes s, nil for none
Memory(s) ==
  CASE class = "mutable" -> Fill(s, Len(s) + (IF Out THEN First ELSE 0))
    [] class = "malloc" /\ Out /\ s # <<>> -> Fill(s, MallocSize(s))
    [] class = "malloc" /\ ~Out /\ In -> s
    [] OTHER -> <<>>

\* data(NSData*): the bytes are copied, both areas are set
Load(s) ==
  /\ mem' = Memory(s)
  /\ fault' = IF s # <<>> /\ Len(s) > Len(mem') /\ (In \/ Out) THEN "overrun" ELSE fault
  /\ hm' = IF In \/ Out THEN Len(s) ELSE 0
  /\ IF Out THEN pbase' = Base(mem') /\ epptr' = Len(mem') /\ pptr' = IF "app" \in mode THEN Len(s) ELSE 0
     ELSE UNCHANGED <<pbase, pptr, epptr>>
  /\ IF In THEN eback' = Base(mem') /\ gptr' = 0 /\ egptr' = Len(s) ELSE UNCHANGED <<eback, gptr, egptr>>
  /\ UNCHANGED <<class, mode, read>>

Init ==
  /\ class \in {"malloc", "mutable"}
  /\ mode \in {{"in"}, {"out"}, {"in", "out"}, {"in", "out", "app"}}
  /\ mem = Memory(<<>>)              \* the constructor of NSMutableDataStreambuf calls data
  /\ eback = (IF In THEN Base(mem) ELSE "null") /\ pbase = (IF Out THEN Base(mem) ELSE "null")
  /\ gptr = 0 /\ egptr = 0 /\ pptr = 0 /\ epptr = (IF Out THEN Len(mem) ELSE 0) /\ hm = 0
  /\ read = 0 /\ fault = "none"

Mark == Larger(hm, pptr)
Works == fault = "none"

SetData == \E s \in UNION {[1..n -> Chars] : n \in 0..3} : Works /\ Load(s)

\* sputc, with overflow when the put area is full: the memory grows and the areas move with it
Grown == CASE class = "mutable" -> Fill(mem, 2 * Len(mem))
           [] class = "malloc" /\ mem = <<>> -> Fill(mem, First)
           [] OTHER -> Fill(mem, 2 * Len(mem))
Sputc(c) ==
  /\ Works /\ Out /\ pptr < MaxLength
  /\ LET full == pptr = epptr
         memory == IF full THEN Grown ELSE mem
     IN  /\ fault' = IF pptr < Len(memory) THEN fault ELSE "overrun"
         /\ mem' = [memory EXCEPT ![pptr + 1] = c]
         /\ pptr' = pptr + 1 /\ epptr' = Len(memory) /\ pbase' = "mem"
         /\ hm' = IF full THEN Larger(pptr + 1, hm) ELSE hm
         /\ IF full /\ In THEN eback' = "mem" /\ egptr' = hm' ELSE UNCHANGED <<eback, egptr>>
  /\ UNCHANGED <<class, mode, gptr, read>>

\* underflow: the get area reaches to what was written in the meantime
Underflow == IF In THEN Larger(egptr, Mark) ELSE egptr

\* sbumpc, with underflow at the end of the get area
Sbumpc ==
  /\ Works
  /\ LET end == IF gptr < egptr THEN egptr ELSE Underflow
     IN  /\ hm' = IF gptr < egptr THEN hm ELSE Mark
         /\ egptr' = end
         /\ IF gptr >= end THEN read' = 0 /\ UNCHANGED <<gptr, fault>>
            ELSE IF eback = "null" THEN fault' = "null" /\ UNCHANGED <<read, gptr>>
            ELSE read' = mem[gptr + 1] /\ gptr' = gptr + 1 /\ UNCHANGED fault
  /\ UNCHANGED <<class, mode, mem, eback, pbase, pptr, epptr>>

\* pbackfail: the character before gptr becomes c
Pbackfail(c) == Out /\ hm' = Mark /\ egptr' = Mark /\ mem' = [mem EXCEPT ![gptr] = c]

\* sputbackc: the character before gptr is c, or pbackfail makes it c
Sputbackc(c) ==
  /\ Works /\ gptr > 0 /\ eback = "mem"
  /\ gptr' = gptr - 1
  /\ IF mem[gptr] = c THEN UNCHANGED <<mem, egptr, hm>>
     ELSE Pbackfail(c)
  /\ UNCHANGED <<class, mode, eback, pbase, pptr, epptr, read, fault>>

\* where a seek leads, -1 for a combination that is refused
Target(off, way, which) ==
  IF which = {} \/ (which = {"in", "out"} /\ way = "cur") THEN -1
  ELSE CASE way = "beg" -> off
         [] way = "end" -> Mark + off
         [] OTHER -> (IF "in" \in which THEN gptr ELSE pptr) + off

\* Mutant: the high mark is not set before the put pointer goes back
Seekoff_noMark(off, way, which) ==
  /\ Works
  /\ LET to == Target(off, way, which)
     IN  /\ to \in 0..Mark
         /\ to # 0 => ("in" \in which => eback = "mem") /\ ("out" \in which => pbase = "mem")
         /\ IF "in" \in which THEN gptr' = to /\ egptr' = Mark ELSE UNCHANGED <<gptr, egptr>>
         /\ pptr' = IF "out" \in which THEN to ELSE pptr
  /\ UNCHANGED <<class, mode, mem, eback, pbase, epptr, hm, read, fault>>

\* pubseekoff, when it does not answer -1
Seekoff(off, way, which) ==
  /\ Works
  /\ LET to == Target(off, way, which)
     IN  /\ to \in 0..Mark
         /\ to # 0 => ("in" \in which => eback = "mem") /\ ("out" \in which => pbase = "mem")
         /\ hm' = Mark
         /\ IF "in" \in which THEN gptr' = to /\ egptr' = Mark ELSE UNCHANGED <<gptr, egptr>>
         /\ pptr' = IF "out" \in which THEN to ELSE pptr
  /\ UNCHANGED <<class, mode, mem, eback, pbase, epptr, read, fault>>

Seekpos(position, which) == Seekoff(position, "beg", which)

\* data(): the high mark is set, the content copied
GetData ==
  /\ Works /\ Out /\ hm' = Mark
  /\ UNCHANGED <<class, mode, mem, eback, gptr, egptr, pbase, pptr, epptr, read, fault>>

Next == \/ SetData \/ GetData \/ Sbumpc
        \/ \E c \in Chars : Sputc(c) \/ Sputbackc(c)
        \/ \E which \in SUBSET {"in", "out"} :
              \/ \E off \in -2..2, way \in {"cur", "end"} : Seekoff(off, way, which)
              \/ \E position \in 0..2 : Seekpos(position, which)

Spec == Init /\ [][Next]_vars
-----------------------------------------------------------------------------
\* data(): what has been written, or what there is to read
Data == IF Out THEN SubSeq(mem, 1, Mark) ELSE SubSeq(mem, 1, egptr)

Stream == INSTANCE ByteStream WITH content <- Data, get <- gptr, put <- pptr

TypeOK ==
  /\ eback \in {"null", "mem"} /\ pbase \in {"null", "mem"} /\ fault \in {"none", "overrun", "null"}
  /\ pptr \in 0..MaxLength /\ gptr \in 0..MaxLength /\ hm \in 0..MaxLength

\* Every operation does to the content and the two positions what it does to a
\* stream in memory, through every growth of the memory and every seek, until
\* the memory is found too small.
Refines == [][fault' = "none" => Stream!Next]_vars

\* The areas stay inside the memory, except: an NSDataStreambuf for output takes
\* two bytes for any data it is given, and a seek to the start of an output
\* stream's get area makes it start at NULL.
InMemory ==
  /\ fault = "none" => /\ Mark <= Len(mem) /\ gptr <= egptr
                       /\ In => egptr <= Len(mem)
                       /\ Out => epptr = Len(mem)
  /\ fault = "overrun" => class = "malloc" /\ Out /\ hm > 2
  /\ fault = "null" => ~In
=============================================================================
