---------------------------- MODULE ByteStream -----------------------------
(***************************************************************************)
(* What a stream buffer in memory promises: a content, one position to     *)
(* read at and one to write at.                                            *)
(***************************************************************************)
EXTENDS Integers, Sequences

CONSTANT Chars

VARIABLES mode, content, get, put, read   \* read: what the last reading returned, 0 for the end

Reads == "in" \in mode
Writes == "out" \in mode

Put(c) ==
  /\ Writes
  /\ content' = [i \in 1..(IF put = Len(content) THEN put + 1 ELSE Len(content)) |->
                   IF i = put + 1 THEN c ELSE content[i]]
  /\ put' = put + 1 /\ UNCHANGED <<get, read>>

Get == /\ Reads /\ get < Len(content)
       /\ read' = content[get + 1] /\ get' = get + 1
       /\ UNCHANGED <<content, put>>

AtEnd == /\ Reads => get = Len(content)
         /\ read' = 0 /\ UNCHANGED <<content, get, put>>

PutBack(c) ==
  /\ Reads /\ get > 0 /\ (Writes \/ content[get] = c)
  /\ content' = [content EXCEPT ![get] = c] /\ get' = get - 1
  /\ UNCHANGED <<put, read>>

Seek(which, position) ==
  /\ position \in 0..Len(content) /\ which \subseteq {"in", "out"} /\ which # {}
  /\ get' = IF "in" \in which THEN position ELSE get
  /\ put' = IF "out" \in which THEN position ELSE put
  /\ UNCHANGED <<content, read>>

SetContent == /\ content' \in Seq(Chars) /\ get' = 0 /\ put' \in {0, Len(content')}
              /\ UNCHANGED read

Next == /\ UNCHANGED mode
        /\ \/ \E c \in Chars : Put(c) \/ PutBack(c)
           \/ Get \/ AtEnd \/ SetContent
           \/ \E which \in SUBSET {"in", "out"} : \E p \in 0..Len(content) : Seek(which, p)
=============================================================================
