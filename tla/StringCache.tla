----------------------------- MODULE StringCache ----------------------------
(***************************************************************************)
(* ObjC/CFDataCache.hpp on its arena (utility/arena_allocator.hpp), as the *)
(* representation generator uses it: a map from keys, whose characters it  *)
(* copies into blocks of memory that grow but never shrink, to CFStrings   *)
(* that it shares with the generator's stack.  Sizes are in bytes.         *)
(***************************************************************************)
EXTENDS Integers, FiniteSets, Sequences

CONSTANTS Keys,          \* the strings; Length[k] characters
          Length,
          CharSize,      \* sizeof(CharT)
          MaxAlign,      \* alignof(Block), 16
          BlockHeader,   \* sizeof(Block)
          MinBlockSize,  \* of the arena, 1024 for the characters
          Granule,       \* goodMallocSize rounds up to it
          MaxBlocks, MaxStack

VARIABLES blocks,   \* the memory of the arena's blocks: for each byte the character it holds
          ptr_,     \* where the next allocation is: a block, 0 for null, and an offset
          totalAllocatedSize_, bytesUsed_,
          map_,     \* from keys to their places, block and offset, and values
          refs,     \* the retain count of each CFString that was created
          stack     \* the CFStrings the generator's stack holds

vars == <<blocks, ptr_, totalAllocatedSize_, bytesUsed_, map_, refs, stack>>

CacheConstants ==
  /\ Length \in [Keys -> Nat]
  /\ CharSize \in Nat \ {0} /\ MaxAlign \in Nat \ {0} /\ Granule \in Nat \ {0}
  /\ BlockHeader \in Nat /\ MinBlockSize \in Nat /\ MaxStack \in Nat

Null == [block |-> 0, at |-> 0]
Free == <<"free", 0>>
Up(n, unit) == ((n + unit - 1) \div unit) * unit
roundUp(size) == Up(size, MaxAlign)
goodMallocSize(size) == Up(size, Granule)
\* end_ - ptr_
Room == IF ptr_.block = 0 THEN 0 ELSE Len(blocks[ptr_.block]) - ptr_.at
-----------------------------------------------------------------------------
Init ==
  /\ blocks = <<>> /\ ptr_ = Null /\ totalAllocatedSize_ = 0 /\ bytesUsed_ = 0
  /\ map_ = [k \in {} |-> Null] /\ refs = [s \in Keys |-> 0] /\ stack = <<>>

\* Block::allocate: with slack it is as large as malloc would make it anyway
Block(size, slack) ==
  [i \in 1..(IF slack THEN goodMallocSize(BlockHeader + size) - BlockHeader ELSE size) |-> Free]

\* Mutant: the next allocation starts where the last one did, in a new block
Allocate_overlaps(size) ==
  LET new == Len(blocks) + 1 IN
  IF Room >= size THEN [place |-> ptr_, blocks |-> blocks, ptr |-> [ptr_ EXCEPT !.at = @ + size]]
  ELSE [place |-> [block |-> new, at |-> 0], blocks |-> Append(blocks, Block(MinBlockSize, TRUE)),
        ptr |-> [block |-> new, at |-> 0]]

\* arena::allocate and allocateSlow: the place, the blocks and the next place.  A large block is
\* used for this allocation only.
Allocate(size) ==
  LET new == Len(blocks) + 1 IN
  CASE Room >= size -> [place |-> ptr_, blocks |-> blocks, ptr |-> [ptr_ EXCEPT !.at = @ + size]]
    [] Room < size /\ size > MinBlockSize ->
         [place |-> [block |-> new, at |-> 0], blocks |-> Append(blocks, Block(size, FALSE)), ptr |-> ptr_]
    [] OTHER ->
         [place |-> [block |-> new, at |-> 0], blocks |-> Append(blocks, Block(MinBlockSize, TRUE)),
          ptr |-> [block |-> new, at |-> size]]

\* the key is copied into the block, a character at a time
Copied(k, place, memory) ==
  IF Length[k] = 0 THEN memory
  ELSE [memory EXCEPT ![place.block] =
          [i \in DOMAIN @ |-> LET c == i - place.at - 1
                              IN  IF c \in 0..(Length[k] * CharSize - 1) THEN <<k, c \div CharSize>> ELSE @[i]]]

\* insert: allocate(key.second * sizeof(CharT)) counts in characters, so the bytes are multiplied twice
Insert(k) ==
  LET size == roundUp(Length[k] * CharSize * CharSize)
      a == Allocate(size)
      grown == IF Len(a.blocks) > Len(blocks) THEN Len(a.blocks[Len(a.blocks)]) + BlockHeader ELSE 0
  IN  /\ Len(a.blocks) <= MaxBlocks
      /\ blocks' = Copied(k, a.place, a.blocks) /\ ptr_' = a.ptr
      /\ bytesUsed_' = bytesUsed_ + size /\ totalAllocatedSize_' = totalAllocatedSize_ + grown
      /\ map_' = [l \in DOMAIN map_ \cup {k} |-> IF l = k THEN a.place ELSE map_[l]]

\* push_string_cached: a hit retains the value for the stack, a miss creates it and the cache retains it
Hit(k) ==
  /\ k \in DOMAIN map_ /\ Len(stack) < MaxStack
  /\ refs' = [refs EXCEPT ![k] = @ + 1] /\ stack' = Append(stack, k)
  /\ UNCHANGED <<blocks, ptr_, totalAllocatedSize_, bytesUsed_, map_>>

Miss(k) ==
  /\ k \notin DOMAIN map_ /\ Len(stack) < MaxStack
  /\ refs[k] = 0         \* an older CFString of the same characters would be another object
  /\ Insert(k)
  /\ refs' = [refs EXCEPT ![k] = 2] /\ stack' = Append(stack, k)

\* the stack's reference goes when its container is built and gone
Pop ==
  /\ stack # <<>>
  /\ refs' = [refs EXCEPT ![stack[Len(stack)]] = @ - 1]
  /\ stack' = SubSeq(stack, 1, Len(stack) - 1)
  /\ UNCHANGED <<blocks, ptr_, totalAllocatedSize_, bytesUsed_, map_>>

Without(k) == [l \in DOMAIN map_ \ {k} |-> map_[l]]
Released(ks) == [k \in Keys |-> IF k \in ks THEN refs[k] - 1 ELSE refs[k]]

\* erase: the arena keeps the characters
Erase(k) ==
  /\ k \in DOMAIN map_
  /\ refs' = Released({k}) /\ map_' = Without(k)
  /\ UNCHANGED <<blocks, ptr_, totalAllocatedSize_, bytesUsed_, stack>>

ClearArena ==
  /\ blocks' = <<>> /\ ptr_' = Null /\ totalAllocatedSize_' = 0 /\ bytesUsed_' = 0

\* clear, also by the destructor
Clear ==
  /\ refs' = Released(DOMAIN map_) /\ map_' = [k \in {} |-> Null]
  /\ ClearArena
  /\ UNCHANGED stack

Next == \/ \E k \in Keys : Hit(k) \/ Miss(k) \/ Erase(k)
        \/ Pop \/ Clear

Spec == Init /\ [][Next]_vars
-----------------------------------------------------------------------------
TypeOK ==
  /\ \A k \in Keys : refs[k] \in 0..(MaxStack + 1)
  /\ ptr_.block \in 0..Len(blocks) /\ Room >= 0
  /\ DOMAIN map_ \subseteq Keys

Times(k) == Cardinality({i \in DOMAIN stack : stack[i] = k})
\* the size of the first n blocks together
Total[n \in 0..Len(blocks)] == IF n = 0 THEN 0 ELSE Total[n - 1] + Len(blocks[n]) + BlockHeader

\* Whatever was inserted, erased and cleared before, the characters of every key
\* of the cache are in a block of the arena, aligned and not overwritten, every
\* CFString is retained exactly by the cache and the places of the stack that
\* hold it, and the arena's counters say how much memory it has.
KeysIntact ==
  /\ \A k \in DOMAIN map_ :
       /\ map_[k].at % MaxAlign = 0
       /\ \A c \in 0..(Length[k] * CharSize - 1) :
            /\ map_[k].block \in DOMAIN blocks /\ map_[k].at + c + 1 \in DOMAIN blocks[map_[k].block]
            /\ blocks[map_[k].block][map_[k].at + c + 1] = <<k, c \div CharSize>>
  /\ \A k \in Keys : refs[k] = Times(k) + (IF k \in DOMAIN map_ THEN 1 ELSE 0)
  /\ totalAllocatedSize_ = Total[Len(blocks)] /\ bytesUsed_ <= totalAllocatedSize_
=============================================================================
