---------------------------- MODULE SharedBuffer ----------------------------
(***************************************************************************)
(* ObjC/CFDataBuffer.hpp: the buffers that pass through the synchronous    *)
(* queue, each a retained CFData with a view of its bytes.  The streambuf  *)
(* of the queue assigns every buffer it gets to the one it had             *)
(* (syncqueue_streambuf.hpp, underflow).  A client owns each CFData too,   *)
(* until it has handed it over.                                            *)
(***************************************************************************)
EXTENDS Integers, FiniteSets

CONSTANTS Datas, Size,   \* Size[d]: the elements of a CFData
          Buffers,
          nil

VARIABLES data_, buffer_, size_,   \* the members, buffer_ as an offset; "dead": no object there
          refs,                    \* the retain count of each CFData, 0: freed
          client,                  \* the CFDatas the client holds
          overwritten,             \* those that a buffer held when it was assigned to
          sought                   \* the buffers, or what they are copies of, that were sought twice

vars == <<data_, buffer_, size_, refs, client, overwritten, sought>>

Bits == 4    \* of size_t

\* what the proofs need: finitely many buffers, data no larger than size_t can say, and two
\* values that are no data
SharedConstants ==
  /\ IsFiniteSet(Buffers)
  /\ Size \in [Datas -> 0..(2 ^ Bits - 1)]
  /\ nil \notin Datas /\ "dead" \notin Datas /\ nil # "dead"

Word(n) == n % (2 ^ Bits)
Live == {b \in Buffers : data_[b] # "dead"}
MaxRefs == Cardinality(Buffers) + 2   \* bounds the retain counts
Retain(d) ==
  /\ d # nil => refs[d] < MaxRefs
  /\ refs' = IF d = nil THEN refs ELSE [refs EXCEPT ![d] = @ + 1]
Released(d) == IF d = nil THEN refs ELSE [refs EXCEPT ![d] = @ - 1]
View(b, d, at, size, twice) ==
  /\ data_' = [data_ EXCEPT ![b] = d] /\ buffer_' = [buffer_ EXCEPT ![b] = at] /\ size_' = [size_ EXCEPT ![b] = size]
  /\ sought' = IF twice THEN sought \cup {b} ELSE sought \ {b}
-----------------------------------------------------------------------------
Init ==
  /\ data_ = [b \in Buffers |-> "dead"] /\ buffer_ = [b \in Buffers |-> 0] /\ size_ = [b \in Buffers |-> 0]
  /\ refs = [d \in Datas |-> 1] /\ client = Datas /\ overwritten = {} /\ sought = {}

Default(b) ==
  /\ b \notin Live
  /\ View(b, nil, 0, 0, FALSE) /\ UNCHANGED <<refs, client, overwritten>>

\* from a CFData, which is not retained when it is empty
Construct(b, d) ==
  /\ b \notin Live /\ d \in client
  /\ IF Size[d] = 0 THEN View(b, nil, 0, 0, FALSE) /\ UNCHANGED refs
     ELSE View(b, d, 0, Size[d], FALSE) /\ Retain(d)
  /\ UNCHANGED <<client, overwritten>>

\* from bytes: it makes the CFData, and is the only one to hold it
ConstructBytes(b, d) ==
  /\ b \notin Live /\ d \in client /\ refs[d] = 1 /\ Size[d] > 0
  /\ View(b, d, 0, Size[d], FALSE) /\ client' = client \ {d}
  /\ UNCHANGED <<refs, overwritten>>

CopyConstruct(b, other) ==
  /\ b \notin Live /\ other \in Live
  /\ View(b, data_[other], buffer_[other], size_[other], other \in sought)
  /\ Retain(data_[other])
  /\ UNCHANGED <<client, overwritten>>

\* Mutant: other keeps its pointer
Takes_shared(b, other) ==
  /\ data_' = [data_ EXCEPT ![b] = data_[other]]
  /\ buffer_' = [buffer_ EXCEPT ![b] = buffer_[other]]
  /\ size_' = [size_ EXCEPT ![b] = size_[other]]
  /\ UNCHANGED <<refs, client, sought>>

\* b takes over what other has, and other has nothing
Takes(b, other) ==
  /\ data_' = [data_ EXCEPT ![b] = data_[other], ![other] = nil]
  /\ buffer_' = [buffer_ EXCEPT ![b] = buffer_[other], ![other] = 0]
  /\ size_' = [size_ EXCEPT ![b] = size_[other], ![other] = 0]
  /\ sought' = (sought \ {b, other}) \cup (IF other \in sought THEN {b} ELSE {})
  /\ UNCHANGED <<refs, client>>

MoveConstruct(b, other) == b \notin Live /\ other \in Live /\ Takes(b, other) /\ UNCHANGED overwritten

\* neither assignment releases what the target has
CopyAssign(b, other) ==
  /\ {b, other} \subseteq Live /\ b # other
  /\ View(b, data_[other], buffer_[other], size_[other], other \in sought)
  /\ Retain(data_[other])
  /\ overwritten' = overwritten \cup ({data_[b]} \ {nil})
  /\ UNCHANGED client

MoveAssign(b, other) ==
  /\ {b, other} \subseteq Live /\ b # other
  /\ Takes(b, other)
  /\ overwritten' = overwritten \cup ({data_[b]} \ {nil})

Destroy(b) ==
  /\ b \in Live
  /\ View(b, "dead", 0, 0, FALSE) /\ refs' = Released(data_[b])
  /\ UNCHANGED <<client, overwritten>>

release(b) ==
  /\ b \in Live
  /\ View(b, nil, 0, 0, FALSE) /\ refs' = Released(data_[b])
  /\ UNCHANGED <<client, overwritten>>

swap(b, other) ==
  LET to(c) == IF c = b THEN other ELSE IF c = other THEN b ELSE c
      swapped(f) == [c \in Buffers |-> f[to(c)]]
  IN  /\ {b, other} \subseteq Live
      /\ data_' = swapped(data_) /\ buffer_' = swapped(buffer_) /\ size_' = swapped(size_)
      /\ sought' = {to(c) : c \in sought}
      /\ UNCHANGED <<refs, client, overwritten>>

\* the position is counted from the start of the data, the size from the last position
seek(b, n) ==
  LET pos == IF n < Size[data_[b]] THEN n ELSE Size[data_[b]]
  IN  /\ b \in Live /\ data_[b] # nil
      /\ View(b, data_[b], pos, Word(size_[b] - pos), buffer_[b] > 0 \/ b \in sought)
      /\ UNCHANGED <<refs, client, overwritten>>

ClientReleases(d) ==
  /\ d \in client
  /\ client' = client \ {d} /\ refs' = Released(d)
  /\ UNCHANGED <<data_, buffer_, size_, overwritten, sought>>

Next == \/ \E b, other \in Buffers : \/ CopyConstruct(b, other) \/ MoveConstruct(b, other)
                                     \/ CopyAssign(b, other) \/ MoveAssign(b, other) \/ swap(b, other)
        \/ \E b \in Buffers, d \in Datas : Construct(b, d) \/ ConstructBytes(b, d)
        \/ \E b \in Buffers : Default(b) \/ Destroy(b) \/ release(b) \/ \E n \in 0..3 : seek(b, n)
        \/ \E d \in Datas : ClientReleases(d)

Spec == Init /\ [][Next]_vars
-----------------------------------------------------------------------------
TypeOK ==
  /\ \A b \in Buffers : data_[b] \in Datas \cup {nil, "dead"} /\ size_[b] \in 0..(2 ^ Bits - 1)
  /\ \A d \in Datas : refs[d] \in 0..MaxRefs

Holders(d) == Cardinality({b \in Live : data_[b] = d}) + Cardinality(client \cap {d})

\* A CFData is retained for each of its holders as long as it has it, and, unless a
\* buffer that held it was assigned to, for nobody else.  A buffer shows the rest
\* of its data from its position on, unless it was moved forward and then again.
Shares ==
  /\ \A d \in Datas : refs[d] >= Holders(d) /\ (d \notin overwritten => refs[d] = Holders(d))
  /\ \A b \in Live : /\ data_[b] = nil => size_[b] = 0
                     /\ data_[b] # nil /\ b \notin sought => size_[b] = Size[data_[b]] - buffer_[b]

\* A CFData that nobody holds any more is freed: "buffer will be retained for the
\* duration of use and then released again" (JPAsyncJsonParser.h:199).
Frees == \A d \in Datas : Holders(d) = 0 => refs[d] = 0
=============================================================================
