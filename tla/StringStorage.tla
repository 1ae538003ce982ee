--------------------------- MODULE StringStorage ---------------------------
(***************************************************************************)
(* The buffers the parser collects strings and numbers in.  A string       *)
(* buffer is the record of its size and capacity in code units of the      *)
(* semantic actions' encoding, UTF-16, and of allow_partial_string_: a     *)
(* data string may be sent in chunks, a key may not.  What the units are   *)
(* is left open.  The sizes of the code are scaled down by the constants.  *)
(***************************************************************************)
EXTENDS Naturals

CONSTANTS
    InitialCapacity,  \* INITIAL_CAPACITY, 4096
    MinChunkSize,     \* MIN_CHUNK_SIZE, 4096
    MaxSize,          \* MAX_SIZE, 32768
    MaxGrowSize,      \* MAX_GROW_SIZE, 16384
    NumberSize        \* the Size of number_string_buffer, 128

ASSUME StorageAssumption ==
    {InitialCapacity, MinChunkSize, MaxSize, MaxGrowSize, NumberSize} \subseteq Nat \ {0}

Lesser(m, n) == IF m < n THEN m ELSE n
Greater(m, n) == IF m < n THEN n ELSE m

StringBuffers == [size : Nat, cap : Nat, partial : BOOLEAN]
EmptyStringBuffer == [size |-> 0, cap |-> 0, partial |-> FALSE]

Avail(b) == b.cap - b.size

\* string_buffer_.clear() and set_allow_partial_strings(partial).
Prepare(b, partial) == [b EXCEPT !.size = 0, !.partial = partial]

\* One round of the loop that raises the capacity until min units fit.
Round(c, min) == IF min <= c THEN c ELSE c + Lesser(c, MaxGrowSize)

\* The capacity after growing to hold at least min units.  A round adds one
\* unit or more and at most two are missing, see Extend: the loop ends after
\* two.  The outer Greater makes MAX_SIZE a lower bound, so the "too large"
\* exception cannot occur.
GrownCapacity(b, min) ==
    LET start == IF b.cap = 0 THEN InitialCapacity ELSE b.cap
    IN  Greater(MaxSize, Round(Round(start, min), min))

StorageGrow(b, min) == [b EXCEPT !.cap = Greater(@, GrownCapacity(b, min))]

\* Mutant: a key is sent in chunks as well.
MustSync_always(b, units) == Avail(b) < units /\ MinChunkSize <= b.size

MustSync(b, units) == Avail(b) < units /\ b.partial /\ MinChunkSize <= b.size

\* Room for that many more units: sent is the size of the chunk that had to be
\* written to the semantic actions for it, 0 when there was none.
Extend(b, units) ==
    LET synced == IF MustSync(b, units) THEN [b EXCEPT !.size = 0] ELSE b
    IN  [sent |-> IF MustSync(b, units) THEN b.size ELSE 0,
         buffer |-> IF Avail(synced) < units
                    THEN StorageGrow(synced, synced.size + units) ELSE synced]

\* Mutant: the room for a surrogate pair is not reserved before it is written.
AppendUnicode_noReserve(b, units) ==
    LET e == Extend(b, 1)
    IN  [e EXCEPT !.buffer.size = @ + units]

\* append_ascii writes one unit into a buffer with room for one;
\* append_unicode makes room for 4/sizeof(code_unit_type) units and writes one
\* or two, so that a character is never split.
AppendUnits(b, units) ==
    LET e == Extend(b, units)
    IN  [e EXCEPT !.buffer.size = @ + units]

AppendUnicode(b, units) ==
    LET e == Extend(b, 2)
    IN  [e EXCEPT !.buffer.size = @ + units]

-----------------------------------------------------------------------------
(* number_string_buffer: the number of digits and signs it holds.          *)

\* Mutant: one character more than there is room for.
NumberFits_atLimit(n) == n <= NumberSize

\* append_ascii and terminate_if throw when nothing is left.
NumberFits(n) == n < NumberSize
=============================================================================
