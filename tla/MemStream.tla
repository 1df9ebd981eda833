------------------------------- MODULE MemStream ------------------------------
(***************************************************************************)
(* io/memstream.rs: the list of blocks that holds a preprocessed text.      *)
(* Functions without state; what a block has beyond the size is not         *)
(* initialised.  A loop is a function of the number of its iterations.      *)
(***************************************************************************)
EXTENDS Naturals, Sequences

CONSTANTS
  BlockSize,                    \* BLOCK_SIZE
  Junk                          \* the value of a byte never written

ASSUME BlockSizePositive == BlockSize \in Nat \ {0}

Least(m, n) == IF m < n THEN m ELSE n
Drop(seq, n) == SubSeq(seq, n + 1, Len(seq))

EmptyStream == [size |-> 0, blocks |-> <<>>]

\* memcpy of bytes into a block, from an offset.
Filled(block, offset, bytes) ==
  [k \in 1..BlockSize |->
     IF k > offset /\ k <= offset + Len(bytes) THEN bytes[k - offset] ELSE block[k]]

\* An iteration of write_data, after done bytes: fill the last block, or a new one.
WriteBlock(w, bytes) ==
  LET offset == w.size % BlockSize
      blocks == IF offset = 0 THEN Append(w.blocks, [k \in 1..BlockSize |-> Junk]) ELSE w.blocks
      count == Least(Len(bytes) - w.done, BlockSize - offset)
      last == Filled(blocks[Len(blocks)], offset, SubSeq(bytes, w.done + 1, w.done + count))
  IN IF w.done = Len(bytes) THEN w
     ELSE [size |-> w.size + count, blocks |-> [blocks EXCEPT ![Len(blocks)] = last],
           done |-> w.done + count]

\* write_data: each iteration writes at least a byte.
WriteData(stream, bytes) ==
  LET after[k \in 0..Len(bytes)] ==
        IF k = 0 THEN [size |-> stream.size, blocks |-> stream.blocks, done |-> 0]
        ELSE WriteBlock(after[k - 1], bytes)
      written == after[Len(bytes)]
  IN [size |-> written.size, blocks |-> written.blocks]

\* Iter::next: blocks and left are the iterator, last is the slice it has given.
NextSlice(r) ==
  LET count == Least(r.left, BlockSize)
  IN IF r.left = 0 THEN [r EXCEPT !.last = <<>>, !.offset = 0]
     ELSE [r EXCEPT !.last = SubSeq(r.blocks[1], 1, count), !.offset = 0,
                    !.blocks = Tail(@), !.left = @ - count]

\* MemStream::iter and reader: what is read goes to bytes, up to want more.
Iterator(stream) ==
  [blocks |-> stream.blocks, left |-> stream.size, last |-> <<>>, offset |-> 0, bytes |-> <<>>, want |-> 0]
Reader(stream) == NextSlice(Iterator(stream))

\* copy: what a compiler, a hash or a request is given.
CopySlice(r) == LET s == NextSlice(r) IN [s EXCEPT !.bytes = @ \o s.last]
Copied(stream) ==
  LET after[k \in 0..Len(stream.blocks)] ==
        IF k = 0 THEN Iterator(stream) ELSE CopySlice(after[k - 1])
  IN after[Len(stream.blocks)].bytes

\* Mutant: what has been read of a slice before is not skipped.
ReadSliceAgain(r) ==
  LET count == Least(r.want, Len(r.last) - r.offset)
  IN IF r.want = 0 \/ r.last = <<>> THEN r
     ELSE IF r.offset = Len(r.last) THEN NextSlice(r)
     ELSE [r EXCEPT !.offset = @ + count, !.want = @ - count, !.bytes = @ \o SubSeq(r.last, 1, count)]

\* An iteration of MemReader::read.
ReadSlice(r) ==
  LET count == Least(r.want, Len(r.last) - r.offset)
  IN IF r.want = 0 \/ r.last = <<>> THEN r
     ELSE IF r.offset = Len(r.last) THEN NextSlice(r)
     ELSE [r EXCEPT !.offset = @ + count, !.want = @ - count,
                    !.bytes = @ \o SubSeq(r.last, r.offset + 1, r.offset + count)]

\* read into a buffer: of two iterations one reads at least a byte.
ReadInto(r, size) ==
  LET after[k \in 0..(2 * size)] ==
        IF k = 0 THEN [r EXCEPT !.want = size] ELSE ReadSlice(after[k - 1])
  IN after[2 * size]

===============================================================================
