-------------------------- MODULE PreprocessProofs ---------------------------
EXTENDS Preprocess, FiniteSetTheorems, WellFoundedInduction, TLAPS

\* A set of numbers that is not empty has a least one.
LEMMA LeastNumber ==
  ASSUME NEW T \in SUBSET Nat, T # {}
  PROVE  \E x \in T : \A y \in T : x <= y
<1>1. \E x \in T : \A y \in T : ~(<<y, x>> \in OpToRel(<, Nat))
  BY NatLessThanWellFounded, WFMin, Zenon
<1>2. PICK x \in T : \A y \in T : ~(<<y, x>> \in OpToRel(<, Nat))
  BY <1>1
<1>3. \A y \in T : ~(y < x)
  BY <1>2, Zenon DEF OpToRel
<1> QED BY <1>3

\* A set with 0 that has, with a number below n, the next has n.
LEMMA Upwards ==
  ASSUME NEW n \in Nat, NEW T, 0 \in T, \A k \in 0..n : k \in T /\ k < n => k + 1 \in T
  PROVE  n \in T
<1> SUFFICES ASSUME n \notin T PROVE FALSE
  OBVIOUS
<1>1. PICK M : M = {k \in 0..n : k \notin T}
  OBVIOUS
<1>2. M \in SUBSET Nat /\ M # {}
  BY <1>1
<1>3. PICK k \in M : \A y \in M : k <= y
  BY <1>2, LeastNumber
<1>4. k # 0 /\ k - 1 \in 0..n /\ k - 1 \notin M
  BY <1>1, <1>3
<1>5. (k - 1) + 1 \in T
  BY <1>1, <1>3, <1>4
<1> QED BY <1>1, <1>3, <1>4, <1>5

\* What is a sequence, whatever its elements are.
IsSeq(s) == s \in Seq(Range(s))

\* The empty sequence is one.
LEMMA EmptyIsSeq == IsSeq(<<>>)
<1>1. PICK R : R = Range(<<>>)
  OBVIOUS
<1>2. <<>> \in Seq(R)
  OBVIOUS
<1> QED BY <1>1, <1>2 DEF IsSeq

\* What a sequence has.
LEMMA SeqDomain ==
  ASSUME NEW s, IsSeq(s)
  PROVE  Len(s) \in Nat /\ DOMAIN s = 1..Len(s)
<1>1. PICK R : R = Range(s)
  OBVIOUS
<1>2. s \in Seq(R)
  BY <1>1 DEF IsSeq
<1> QED BY <1>2

\* A listing of values by number is a sequence.
LEMMA ListIsSeq ==
  ASSUME NEW s, NEW n, n \in Nat, DOMAIN s = 1..n, s = [k \in 1..n |-> s[k]]
  PROVE  IsSeq(s) /\ Len(s) = n
<1>1. PICK R : R = Range(s)
  OBVIOUS
<1>2. \A k \in 1..n : s[k] \in R
  BY <1>1 DEF Range
<1>3. s \in Seq(R) /\ Len(s) = n
  BY <1>2
<1> QED BY <1>1, <1>3 DEF IsSeq

\* What is a sequence over some set.
LEMMA SeqIsSeq ==
  ASSUME NEW S, NEW r \in Seq(S)
  PROVE  IsSeq(r)
<1>1. \A k \in 1..Len(r) : r[k] \in Range(r)
  BY DEF Range
<1>2. r \in Seq(Range(r))
  BY <1>1
<1> QED BY <1>2 DEF IsSeq

\* Two sequences one after the other.
LEMMA CatSeq ==
  ASSUME NEW s, NEW t, IsSeq(s), IsSeq(t)
  PROVE  /\ IsSeq(s \o t) /\ Len(s \o t) = Len(s) + Len(t) /\ Len(s) \in Nat /\ Len(t) \in Nat
         /\ \A k \in 1..Len(s) : (s \o t)[k] = s[k]
         /\ \A k \in 1..Len(t) : (s \o t)[Len(s) + k] = t[k]
<1> DEFINE S == Range(s) \cup Range(t)
<1>1. s \in Seq(S) /\ t \in Seq(S)
  BY DEF IsSeq
<1> HIDE DEF S
<1>2. s \o t \in Seq(S)
  BY <1>1
<1>4. IsSeq(s \o t)
  BY <1>2, SeqIsSeq
<1>5. Len(s \o t) = Len(s) + Len(t) /\ Len(s) \in Nat /\ Len(t) \in Nat
  BY <1>1
<1>6. ASSUME NEW k \in 1..Len(s) PROVE (s \o t)[k] = s[k]
  BY <1>1, <1>6
<1>7. ASSUME NEW k \in 1..Len(t) PROVE (s \o t)[Len(s) + k] = t[k]
  <2>1. Len(s) + k \in 1..(Len(s) + Len(t)) /\ ~(Len(s) + k <= Len(s)) /\ (Len(s) + k) - Len(s) = k
    BY <1>5, <1>7
  <2> QED BY <1>1, <2>1
<1> QED BY <1>4, <1>5, <1>6, <1>7

\* A sequence of one element.
LEMMA OneSeq ==
  ASSUME NEW e
  PROVE  IsSeq(<<e>>) /\ Len(<<e>>) = 1 /\ <<e>>[1] = e
<1>1. e \in Range(<<e>>)
  BY DEF Range
<1> QED BY <1>1 DEF IsSeq

\* Appending an element.
LEMMA AppendIsCat ==
  ASSUME NEW s, NEW e, IsSeq(s)
  PROVE  Append(s, e) = s \o <<e>>
<1>1. s \in Seq(Range(s) \cup {e}) /\ <<e>> \in Seq(Range(s) \cup {e})
  BY DEF IsSeq
<1> QED BY <1>1

\* Part of a sequence.
LEMMA PartIs ==
  ASSUME NEW s, NEW m, NEW n, IsSeq(s), m \in Nat \ {0}, n \in Nat, n <= Len(s), m <= n + 1
  PROVE  /\ IsSeq(SubSeq(s, m, n)) /\ Len(SubSeq(s, m, n)) = n + 1 - m
         /\ \A k \in 1..(n + 1 - m) : SubSeq(s, m, n)[k] = s[m + k - 1]
<1>1. PICK R : R = Range(s) /\ s \in Seq(R)
  BY DEF IsSeq
<1>2. PICK t : t = SubSeq(s, m, n)
  OBVIOUS
<1>3. t \in Seq(R) /\ Len(t) = n + 1 - m
  BY <1>1, <1>2
<1>4. ASSUME NEW k \in 1..(n + 1 - m) PROVE t[k] = s[m + k - 1]
  BY <1>1, <1>2, <1>4
<1> QED BY <1>2, <1>3, <1>4, SeqIsSeq

\* Sequences with the same elements.
LEMMA SeqsEqual ==
  ASSUME NEW s, NEW t, IsSeq(s), IsSeq(t), Len(s) = Len(t), \A k \in 1..Len(s) : s[k] = t[k]
  PROVE  s = t
<1>1. PICK R : R = Range(s) \cup Range(t)
  OBVIOUS
<1>2. s \in Seq(R) /\ t \in Seq(R)
  BY <1>1 DEF IsSeq
<1> QED BY <1>2

\* A sequence with another element in a place.
Updated(s, n, e, t) == t = [s EXCEPT ![n] = e]

\* It is as long, and has the other elements.
LEMMA UpdateIsSeq ==
  ASSUME NEW s, NEW e, NEW n, NEW t, IsSeq(s), n \in 1..Len(s), Updated(s, n, e, t)
  PROVE  IsSeq(t) /\ Len(t) = Len(s) /\ \A k \in 1..Len(s) : t[k] = IF k = n THEN e ELSE s[k]
<1>1. PICK R : R = Range(s) /\ s \in Seq(R)
  BY DEF IsSeq
<1>2. PICK Q : Q = R \cup {e}
  OBVIOUS
<1>3. t \in Seq(Q) /\ Len(t) = Len(s) /\ \A k \in 1..Len(s) : t[k] = IF k = n THEN e ELSE s[k]
  BY <1>1, <1>2 DEF Updated
<1> QED BY <1>3, SeqIsSeq

\* All of a sequence but its first element.
LEMMA TailIs ==
  ASSUME NEW s, IsSeq(s), Len(s) # 0
  PROVE  /\ IsSeq(Tail(s)) /\ Len(Tail(s)) = Len(s) - 1
         /\ \A k \in 1..(Len(s) - 1) : Tail(s)[k] = s[k + 1]
<1>1. PICK R : R = Range(s) /\ s \in Seq(R)
  BY DEF IsSeq
<1>2. PICK t : t = Tail(s)
  OBVIOUS
<1>3. t \in Seq(R) /\ Len(t) = Len(s) - 1 /\ \A k \in 1..(Len(s) - 1) : t[k] = s[k + 1]
  BY <1>1, <1>2
<1> QED BY <1>2, <1>3, SeqIsSeq

-------------------------------------------------------------------------------
(* The places of blocks                                                    *)

\* What comes before block j.
Start(j) == (j - 1) * BlockSize

\* Blocks come one after the other.
LEMMA Starts ==
  ASSUME NEW j, j \in Nat \ {0}
  PROVE  Start(j) \in Nat /\ Start(1) = 0 /\ Start(j + 1) = Start(j) + BlockSize
BY BlockSizePositive DEF Start

\* An earlier block ends before a later one begins.
LEMMA StartsGrow ==
  ASSUME NEW i, NEW j, i \in Nat \ {0}, j \in Nat \ {0}, i < j
  PROVE  Start(i) + BlockSize <= Start(j)
<1>1. PICK d \in Nat : d = j - i - 1
  OBVIOUS
<1>2. d * BlockSize \in Nat
  BY BlockSizePositive
<1>3. j - 1 = (i - 1) + d + 1
  BY <1>1
<1>4. (j - 1) * BlockSize = (i - 1) * BlockSize + d * BlockSize + BlockSize
  BY <1>3, BlockSizePositive
<1>5. Start(i) \in Nat /\ Start(j) \in Nat
  BY Starts
<1> QED BY <1>2, <1>4, <1>5, BlockSizePositive DEF Start

\* Where a block begins, and where in it a byte is.
LEMMA InBlock ==
  ASSUME NEW j, NEW r, j \in Nat \ {0}, r \in 0..(BlockSize - 1)
  PROVE  (Start(j) + r) % BlockSize = r
BY BlockSizePositive DEF Start

-------------------------------------------------------------------------------
(* Writing                                                                 *)

\* The blocks hold what of c comes after from: so many bytes, and no block more.
Holds(bs, left, c, from) ==
  /\ IsSeq(bs) /\ IsSeq(c) /\ left \in Nat /\ from \in Nat /\ from + left <= Len(c)
  /\ left <= Start(Len(bs) + 1) /\ (Len(bs) # 0 => Start(Len(bs)) < left)
  /\ \A j \in 1..Len(bs) :
       /\ IsSeq(bs[j]) /\ Len(bs[j]) = BlockSize
       /\ \A k \in 1..BlockSize : Start(j) + k <= left => bs[j][k] = c[from + Start(j) + k]

\* The last block has room from offset on; the rest is as Holds says.
Ready(bs, size, offset, c) ==
  /\ IsSeq(bs) /\ Len(bs) # 0 /\ offset \in 0..(BlockSize - 1) /\ size = Start(Len(bs)) + offset
  /\ \A j \in 1..Len(bs) :
       /\ IsSeq(bs[j]) /\ Len(bs[j]) = BlockSize
       /\ \A k \in 1..BlockSize : Start(j) + k <= size => bs[j][k] = c[Start(j) + k]

\* The lesser of two numbers.
LEMMA LeastIs ==
  ASSUME NEW m, NEW n, m \in Nat, n \in Nat
  PROVE  /\ Least(m, n) \in Nat /\ Least(m, n) <= m /\ Least(m, n) <= n
         /\ m # 0 /\ n # 0 => Least(m, n) # 0
         /\ Least(m, n) = m \/ Least(m, n) = n
BY DEF Least

\* A block is as long as it is said to be.
LEMMA BlockIs ==
  ASSUME NEW b, b = [k \in 1..BlockSize |-> b[k]]
  PROVE  IsSeq(b) /\ Len(b) = BlockSize
<1>1. DOMAIN b = 1..BlockSize
  OBVIOUS
<1> QED BY <1>1, BlockSizePositive, ListIsSeq

\* The blocks with room in the last one from offset on.
Opened(bs, size, offset, blocks) ==
  /\ offset = size % BlockSize
  /\ blocks = IF offset = 0 THEN Append(bs, [k \in 1..BlockSize |-> Junk]) ELSE bs

\* What write_data finds at the beginning of an iteration.
LEMMA BlocksReady ==
  ASSUME NEW bs, NEW size, NEW c, NEW offset, NEW blocks, Holds(bs, size, c, 0),
         Opened(bs, size, offset, blocks)
  PROVE  Ready(blocks, size, offset, c)
<1>1. PICK n \in Nat : n = Len(bs)
  BY SeqDomain DEF Holds
<1>2. /\ IsSeq(bs) /\ size \in Nat
      /\ size <= Start(n + 1) /\ (n # 0 => Start(n) < size)
      /\ \A j \in 1..n :
           /\ IsSeq(bs[j]) /\ Len(bs[j]) = BlockSize
           /\ \A k \in 1..BlockSize : Start(j) + k <= size => bs[j][k] = c[0 + Start(j) + k]
  BY <1>1, Zenon DEF Holds
<1>3. \A j \in 1..(n + 1) : Start(j) \in Nat /\ Start(1) = 0 /\ Start(j + 1) = Start(j) + BlockSize
  BY Starts
<1>4. n + 1 \in 1..(n + 1) /\ Start(n + 1) \in Nat /\ Start(1) = 0 /\ BlockSize \in Nat \ {0}
  BY <1>3, BlockSizePositive
<1>5. ASSUME NEW j \in 1..n, NEW k \in 1..BlockSize, Start(j) + k <= size
      PROVE  bs[j][k] = c[Start(j) + k]
  <2>1. Start(j) \in Nat /\ 0 + Start(j) + k = Start(j) + k
    BY <1>3
  <2> QED BY <1>2, <1>5, <2>1
<1>6. CASE n # 0 /\ size < Start(n + 1)
  <2>1. PICK r \in 0..(BlockSize - 1) : size = Start(n) + r /\ r # 0
    <3>1. Start(n + 1) = Start(n) + BlockSize /\ Start(n) \in Nat
      BY <1>3, <1>6
    <3>2. size - Start(n) \in 0..(BlockSize - 1) /\ size - Start(n) # 0 /\ size = Start(n) + (size - Start(n))
      BY <1>2, <1>4, <1>6, <3>1
    <3> QED BY <3>2
  <2>2. size % BlockSize = r
    BY <1>6, <2>1, InBlock
  <2>3. offset = r /\ blocks = bs
    BY <2>1, <2>2 DEF Opened
  <2> QED BY <1>1, <1>2, <1>5, <1>6, <2>1, <2>3 DEF Ready
<1>7. CASE n = 0 \/ size = Start(n + 1)
  <2>1. size = Start(n + 1)
    BY <1>2, <1>4, <1>7
  <2>2. size % BlockSize = 0
    <3>1. (Start(n + 1) + 0) % BlockSize = 0
      BY <1>4, InBlock
    <3> QED BY <1>4, <2>1, <3>1
  <2>3. PICK fresh : fresh = [k \in 1..BlockSize |-> Junk]
    OBVIOUS
  <2>4. IsSeq(fresh) /\ Len(fresh) = BlockSize
    BY <2>3, BlockIs
  <2>5. offset = 0 /\ blocks = Append(bs, fresh)
    BY <2>2, <2>3 DEF Opened
  <2>6. blocks = bs \o <<fresh>>
    BY <1>2, <2>5, AppendIsCat
  <2>7. PICK one : one = <<fresh>> /\ IsSeq(one) /\ Len(one) = 1 /\ one[1] = fresh
    BY OneSeq
  <2>8. /\ IsSeq(blocks) /\ Len(blocks) = n + 1 /\ \A j \in 1..n : blocks[j] = bs[j]
        /\ blocks[n + 1] = fresh
    <3>1. /\ IsSeq(bs \o one) /\ Len(bs \o one) = Len(bs) + Len(one)
          /\ \A k \in 1..Len(bs) : (bs \o one)[k] = bs[k]
          /\ \A k \in 1..Len(one) : (bs \o one)[Len(bs) + k] = one[k]
      BY <1>2, <2>7, CatSeq
    <3>2. 1 \in 1..Len(one)
      BY <2>7
    <3> QED BY <1>1, <2>6, <2>7, <3>1, <3>2
  <2>9. ASSUME NEW j \in 1..(n + 1)
        PROVE  /\ IsSeq(blocks[j]) /\ Len(blocks[j]) = BlockSize
               /\ \A k \in 1..BlockSize : Start(j) + k <= size => blocks[j][k] = c[Start(j) + k]
    <3>1. CASE j = n + 1
      <4>1. \A k \in 1..BlockSize : ~(Start(j) + k <= size)
        BY <1>4, <2>1, <3>1
      <4> QED BY <2>4, <2>8, <3>1, <4>1
    <3>2. CASE j \in 1..n
      <4>1. blocks[j] = bs[j]
        BY <2>8, <3>2
      <4>2. IsSeq(bs[j]) /\ Len(bs[j]) = BlockSize
        BY <1>2, <3>2
      <4>3. \A k \in 1..BlockSize : Start(j) + k <= size => bs[j][k] = c[Start(j) + k]
        BY <1>5, <3>2
      <4> QED BY <4>1, <4>2, <4>3
    <3> QED BY <3>1, <3>2
  <2>10. size = Start(n + 1) + 0 /\ n + 1 # 0 /\ 0 \in 0..(BlockSize - 1)
    BY <1>4, <2>1
  <2> QED BY <2>5, <2>8, <2>9, <2>10 DEF Ready
<1> QED BY <1>2, <1>4, <1>6, <1>7

\* Bytes done .. of a write have come to their places.
Writing(w, c, base, bytes) ==
  /\ w.done \in 0..Len(bytes) /\ w.size = base + w.done /\ Holds(w.blocks, w.size, c, 0)
  /\ w = [size |-> w.size, blocks |-> w.blocks, done |-> w.done]

\* A text that ends in these bytes.
Ends(c, base, bytes) ==
  /\ IsSeq(c) /\ IsSeq(bytes) /\ base \in Nat /\ Len(c) = base + Len(bytes)
  /\ \A k \in 1..Len(bytes) : c[base + k] = bytes[k]

\* An iteration of write_data writes something, in its place.
LEMMA BlockWritten ==
  ASSUME NEW w, NEW c, NEW base, NEW bytes, Ends(c, base, bytes),
         Writing(w, c, base, bytes), w.done # Len(bytes)
  PROVE  Writing(WriteBlock(w, bytes), c, base, bytes) /\ WriteBlock(w, bytes).done > w.done
<1>1. PICK size \in Nat, done \in Nat, l \in Nat :
        /\ size = w.size /\ done = w.done /\ l = Len(bytes) /\ done < l /\ size = base + done
  <2>1. Len(bytes) \in Nat /\ base \in Nat
    BY SeqDomain DEF Ends
  <2>2. w.done \in 0..Len(bytes) /\ w.size = base + w.done
    BY DEF Writing
  <2>3. w.done \in Nat /\ w.size \in Nat /\ w.done < Len(bytes)
    BY <2>1, <2>2
  <2> QED BY <2>1, <2>2, <2>3
<1>0. IsSeq(c) /\ IsSeq(bytes) /\ base \in Nat /\ Len(c) = base + l
  BY <1>1 DEF Ends
<1>2. PICK offset : offset = size % BlockSize
  OBVIOUS
<1>3. PICK blocks : blocks = IF offset = 0 THEN Append(w.blocks, [k \in 1..BlockSize |-> Junk]) ELSE w.blocks
  OBVIOUS
<1>4. Ready(blocks, size, offset, c)
  <2>1. PICK bs : bs = w.blocks
    OBVIOUS
  <2>2. Holds(bs, size, c, 0)
    BY <1>1, <2>1 DEF Writing
  <2>3. Opened(bs, size, offset, blocks)
    BY <1>2, <1>3, <2>1 DEF Opened
  <2> QED BY <1>2, <2>2, <2>3, BlocksReady
<1>5. PICK count : count = Least(l - done, BlockSize - offset)
  OBVIOUS
<1>6. PICK n \in Nat \ {0} : n = Len(blocks) /\ size = Start(n) + offset /\ offset \in 0..(BlockSize - 1)
  BY <1>4, SeqDomain DEF Ready
<1>7. /\ count \in Nat \ {0} /\ done + count <= l /\ offset + count <= BlockSize /\ BlockSize \in Nat
      /\ offset \in Nat
  <2>1. PICK m \in Nat, r \in Nat : m = l - done /\ r = BlockSize - offset /\ m # 0 /\ r # 0
    BY <1>1, <1>6, BlockSizePositive
  <2>2. count \in Nat /\ count <= m /\ count <= r /\ count # 0
    BY <1>5, <2>1, LeastIs
  <2>3. done + count <= l
    BY <1>1, <2>1, <2>2
  <2>4. offset \in Nat /\ BlockSize \in Nat
    BY <1>6, BlockSizePositive
  <2>5. offset + count <= BlockSize
    BY <2>1, <2>2, <2>4
  <2> QED BY <2>2, <2>3, <2>4, <2>5
<1>8. PICK part : part = SubSeq(bytes, done + 1, done + count)
  OBVIOUS
<1>9. IsSeq(part) /\ Len(part) = count /\ \A k \in 1..count : part[k] = bytes[done + k]
  <2>1. PICK a \in Nat \ {0} : a = done + 1
    OBVIOUS
  <2>5. PICK b \in Nat : b = done + count
    BY <1>1, <1>7
  <2>6. done \in Nat /\ count \in Nat /\ done + count <= Len(bytes)
    BY <1>1, <1>7
  <2>2. b <= Len(bytes) /\ a <= b + 1 /\ b + 1 - a = count
    BY <2>1, <2>5, <2>6
  <2>3. /\ IsSeq(SubSeq(bytes, a, b)) /\ Len(SubSeq(bytes, a, b)) = b + 1 - a
        /\ \A k \in 1..(b + 1 - a) : SubSeq(bytes, a, b)[k] = bytes[a + k - 1]
    BY <1>0, <2>2, PartIs
  <2>4. \A k \in 1..count : a + k - 1 = done + k
    BY <1>7, <2>1
  <2> QED BY <1>8, <2>1, <2>2, <2>3, <2>4, <2>5
<1>10. PICK last : last = Filled(blocks[n], offset, part)
  OBVIOUS
<1>11. /\ IsSeq(last) /\ Len(last) = BlockSize
       /\ \A k \in 1..BlockSize : last[k] = IF k > offset /\ k <= offset + count THEN part[k - offset] ELSE blocks[n][k]
  <2>1. last = [k \in 1..BlockSize |->
                  IF k > offset /\ k <= offset + count THEN part[k - offset] ELSE blocks[n][k]]
    BY <1>9, <1>10 DEF Filled
  <2>2. last = [k \in 1..BlockSize |-> last[k]]
    BY <2>1
  <2> QED BY <2>1, <2>2, BlockIs
<1>12. PICK new : new = [blocks EXCEPT ![n] = last]
  OBVIOUS
<1>13. IsSeq(new) /\ Len(new) = n /\ \A k \in 1..n : new[k] = IF k = n THEN last ELSE blocks[k]
  <2>1. IsSeq(blocks) /\ n \in 1..Len(blocks)
    BY <1>4, <1>6 DEF Ready
  <2>2. IsSeq(new) /\ Len(new) = Len(blocks) /\ \A k \in 1..Len(blocks) : new[k] = IF k = n THEN last ELSE blocks[k]
    <3>1. Updated(blocks, n, last, new)
      BY <1>12, Zenon DEF Updated
    <3> QED BY <2>1, <3>1, UpdateIsSeq
  <2> QED BY <1>6, <2>2
<1>14. PICK v : v = [size |-> size + count, blocks |-> new, done |-> done + count]
  OBVIOUS
<1>15. WriteBlock(w, bytes) = v
  BY <1>1, <1>2, <1>3, <1>5, <1>6, <1>8, <1>10, <1>12, <1>14 DEF WriteBlock
<1>16. /\ Start(n) \in Nat /\ Start(n + 1) = Start(n) + BlockSize
       /\ \A j \in 1..(n - 1) : Start(j) \in Nat /\ Start(j) + BlockSize <= Start(n)
  <2>1. Start(n) \in Nat /\ Start(n + 1) = Start(n) + BlockSize
    BY <1>6, Starts
  <2>2. ASSUME NEW j \in 1..(n - 1) PROVE Start(j) \in Nat /\ Start(j) + BlockSize <= Start(n)
    <3>1. j \in Nat \ {0} /\ n \in Nat \ {0} /\ j < n
      BY <1>6, <2>2
    <3>2. Start(j) \in Nat
      BY <3>1, Starts
    <3>3. Start(j) + BlockSize <= Start(n)
      BY <3>1, StartsGrow
    <3> QED BY <3>2, <3>3
  <2> QED BY <2>1, <2>2
<1>17. ASSUME NEW j \in 1..n
       PROVE  /\ IsSeq(new[j]) /\ Len(new[j]) = BlockSize
              /\ \A k \in 1..BlockSize : Start(j) + k <= size + count => new[j][k] = c[Start(j) + k]
  <2>0. /\ IsSeq(blocks[j]) /\ Len(blocks[j]) = BlockSize
        /\ \A k \in 1..BlockSize : Start(j) + k <= size => blocks[j][k] = c[Start(j) + k]
    BY <1>4, <1>6 DEF Ready
  <2>1. CASE j # n
    <3>1. new[j] = blocks[j]
      BY <1>13, <2>1
    <3>2. \A k \in 1..BlockSize : Start(j) + k <= size
      <4>1. j \in 1..(n - 1)
        BY <1>6, <2>1
      <4>2. Start(j) \in Nat /\ Start(j) + BlockSize <= Start(n) /\ Start(n) \in Nat
        BY <1>16, <4>1
      <4>3. size = Start(n) + offset
        BY <1>6
      <4> QED BY <1>7, <4>2, <4>3
    <3> QED BY <2>0, <3>1, <3>2
  <2>2. CASE j = n
    <3>1. new[j] = last
      BY <1>13, <2>2
    <3>2. ASSUME NEW k \in 1..BlockSize, Start(j) + k <= size + count PROVE last[k] = c[Start(j) + k]
      <4>1. CASE k > offset
        <5>1. k - offset \in 1..count
          BY <1>6, <1>7, <1>16, <2>2, <3>2, <4>1
        <5>2. last[k] = part[k - offset]
          BY <1>7, <1>11, <4>1, <5>1
        <5>3. part[k - offset] = bytes[done + (k - offset)]
          BY <1>9, <5>1
        <5>4. done + (k - offset) \in 1..l
          BY <1>1, <1>7, <5>1
        <5>5. bytes[done + (k - offset)] = c[base + (done + (k - offset))]
          BY <1>1, <5>4 DEF Ends
        <5>6. base + (done + (k - offset)) = Start(j) + k
          <6>0. base \in Nat
            BY <1>0
          <6>1. size = base + done /\ size = Start(n) + offset /\ Start(n) \in Nat
            BY <1>1, <1>6, <1>16
          <6>2. base + (done + (k - offset)) = (base + done) + (k - offset)
            BY <1>1, <1>7, <6>0
          <6>3. base + (done + (k - offset)) = (Start(n) + offset) + (k - offset)
            BY <6>1, <6>2
          <6> QED BY <1>7, <2>2, <6>1, <6>3
        <5> QED BY <5>2, <5>3, <5>5, <5>6
      <4>2. CASE ~(k > offset)
        <5>1. last[k] = blocks[n][k]
          BY <1>11, <4>2
        <5>2. Start(j) + k <= size
          BY <1>6, <1>7, <1>16, <2>2, <4>2
        <5> QED BY <2>0, <2>2, <5>1, <5>2
      <4> QED BY <4>1, <4>2
    <3> QED BY <1>11, <3>1, <3>2
  <2> QED BY <2>1, <2>2
<1>18. Holds(new, size + count, c, 0)
  <2>4. size = base + done /\ done + count <= l /\ Len(c) = base + l
    BY <1>0, <1>1, <1>7
  <2>5. size \in Nat /\ count \in Nat /\ base \in Nat /\ done \in Nat /\ l \in Nat
    BY <1>0, <1>1, <1>7
  <2>6. base + done + count <= base + l
    BY <2>4, <2>5
  <2>1. size + count \in Nat /\ 0 + (size + count) <= Len(c) /\ 0 \in Nat
    BY <2>4, <2>5, <2>6
  <2>2. size + count <= Start(n + 1) /\ Start(n) < size + count
    BY <1>6, <1>7, <1>16
  <2>3. ASSUME NEW j \in 1..n, NEW k \in 1..BlockSize PROVE 0 + Start(j) + k = Start(j) + k
    <3>1. j \in Nat \ {0}
      BY <2>3
    <3>2. Start(j) \in Nat
      BY <3>1, Starts
    <3> QED BY <3>2
  <2> QED BY <1>0, <1>13, <1>17, <2>1, <2>2, <2>3 DEF Holds
<1>19. Writing(v, c, base, bytes)
  <2>1. v.size = size + count /\ v.blocks = new /\ v.done = done + count /\ v = [size |-> v.size, blocks |-> v.blocks, done |-> v.done]
    BY <1>14
  <2>3. size = base + done /\ done + count <= l /\ l = Len(bytes)
    BY <1>1, <1>7
  <2>4. count \in Nat /\ base \in Nat /\ done \in Nat /\ l \in Nat
    BY <1>0, <1>1, <1>7
  <2>2. done + count \in 0..Len(bytes) /\ size + count = base + (done + count)
    BY <2>3, <2>4
  <2> QED BY <1>18, <2>1, <2>2 DEF Writing
<1>20. v.done > w.done
  BY <1>1, <1>7, <1>14
<1> QED BY <1>15, <1>19, <1>20


-------------------------------------------------------------------------------
(* Loops                                                                   *)

\* An iteration of one of the three loops.
Iteration(loop, bytes, x) ==
  IF loop = "write" THEN WriteBlock(x, bytes) ELSE IF loop = "copy" THEN CopySlice(x) ELSE ReadSlice(x)

\* n iterations from b on.
Iterates(f, loop, bytes, b, n) ==
  /\ f = [k \in 0..n |-> f[k]] /\ f[0] = b
  /\ \A k \in 1..n : f[k] = Iteration(loop, bytes, f[k - 1])

\* A loop can be repeated as often as wanted.
LEMMA Iterated ==
  ASSUME NEW loop, NEW bytes, NEW b, NEW n, n \in Nat
  PROVE  \E f : Iterates(f, loop, bytes, b, n)
<1>1. PICK T : T = {m \in 0..n : \E f : Iterates(f, loop, bytes, b, m)}
  OBVIOUS
<1>2. 0 \in T
  <2>1. PICK f : f = [k \in 0..0 |-> b]
    OBVIOUS
  <2>2. f = [k \in 0..0 |-> f[k]] /\ f[0] = b
    BY <2>1
  <2>3. Iterates(f, loop, bytes, b, 0)
    BY <2>2 DEF Iterates
  <2> QED BY <1>1, <2>3
<1>3. ASSUME NEW m \in 0..n, m \in T, m < n PROVE m + 1 \in T
  <2>1. PICK f : Iterates(f, loop, bytes, b, m)
    BY <1>1, <1>3
  <2>2. m + 1 \in 1..n /\ m \in 0..m /\ m + 1 \in 0..n
    BY <1>3
  <2>3. PICK e : e = Iteration(loop, bytes, f[m])
    OBVIOUS
  <2>4. PICK g : g = [k \in 0..(m + 1) |-> IF k = m + 1 THEN e ELSE f[k]]
    OBVIOUS
  <2>5. g = [k \in 0..(m + 1) |-> g[k]]
    BY <2>4
  <2>6. g[0] = b
    BY <2>1, <2>4 DEF Iterates
  <2>7. ASSUME NEW k \in 1..(m + 1) PROVE g[k] = Iteration(loop, bytes, g[k - 1])
    <3>1. CASE k = m + 1
      <4>1. g[m + 1] = e /\ g[m] = f[m] /\ (m + 1) - 1 = m
        BY <2>2, <2>4
      <4> QED BY <2>3, <3>1, <4>1
    <3>2. CASE k # m + 1
      <4>1. k \in 1..m /\ k \in 0..(m + 1) /\ k - 1 \in 0..(m + 1) /\ k - 1 # m + 1
        BY <3>2
      <4>2. g[k] = f[k] /\ g[k - 1] = f[k - 1]
        BY <2>4, <3>2, <4>1
      <4> QED BY <2>1, <4>1, <4>2 DEF Iterates
    <3> QED BY <3>1, <3>2
  <2>8. Iterates(g, loop, bytes, b, m + 1)
    BY <2>5, <2>6, <2>7, Zenon DEF Iterates
  <2> QED BY <1>1, <2>2, <2>8
<1>4. n \in T
  BY <1>2, <1>3, Upwards
<1> QED BY <1>1, <1>4

\* write_data is its loop.
LEMMA WriteLoop ==
  ASSUME NEW stream, NEW bytes, IsSeq(bytes)
  PROVE  \E F : /\ Iterates(F, "write", bytes, [size |-> stream.size, blocks |-> stream.blocks, done |-> 0], Len(bytes))
                /\ WriteData(stream, bytes) = [size |-> F[Len(bytes)].size, blocks |-> F[Len(bytes)].blocks]
<1>1. PICK n \in Nat : n = Len(bytes)
  BY SeqDomain
<1>2. PICK b : b = [size |-> stream.size, blocks |-> stream.blocks, done |-> 0]
  OBVIOUS
<1>3. PICK f : Iterates(f, "write", bytes, b, n)
  BY <1>1, Iterated
<1> DEFINE Q(g) == g = [k \in 0..n |-> IF k = 0 THEN [size |-> stream.size, blocks |-> stream.blocks, done |-> 0]
                                       ELSE WriteBlock(g[k - 1], bytes)]
<1>4. Q(f)
  <2>1. ASSUME NEW k \in 0..n PROVE f[k] = IF k = 0 THEN b ELSE WriteBlock(f[k - 1], bytes)
    <3>1. f[0] = b /\ \A i \in 1..n : f[i] = Iteration("write", bytes, f[i - 1])
      BY <1>3, Zenon DEF Iterates
    <3>2. Iteration("write", bytes, f[k - 1]) = WriteBlock(f[k - 1], bytes)
      BY DEF Iteration
    <3>3. k # 0 => k \in 1..n
      OBVIOUS
    <3> QED BY <3>1, <3>2, <3>3
  <2>2. f = [k \in 0..n |-> f[k]]
    BY <1>3 DEF Iterates
  <2> QED BY <1>2, <2>1, <2>2
<1>5. PICK F : F = CHOOSE g : Q(g)
  OBVIOUS
<1>6. Q(F)
  BY <1>4, <1>5
<1>7. WriteData(stream, bytes) = [size |-> F[n].size, blocks |-> F[n].blocks]
  BY <1>1, <1>5 DEF WriteData
<1>8. Iterates(F, "write", bytes, b, n)
  <2>1. F[0] = b /\ F = [k \in 0..n |-> F[k]]
    BY <1>2, <1>6
  <2>2. ASSUME NEW k \in 1..n PROVE F[k] = Iteration("write", bytes, F[k - 1])
    <3>1. k \in 0..n /\ k # 0
      OBVIOUS
    <3> QED BY <1>6, <3>1 DEF Iteration
  <2> QED BY <2>1, <2>2 DEF Iterates
<1> QED BY <1>1, <1>2, <1>7, <1>8

\* copy is its loop.
LEMMA CopyLoop ==
  ASSUME NEW stream, IsSeq(stream.blocks)
  PROVE  \E F : /\ Iterates(F, "copy", <<>>, Iterator(stream), Len(stream.blocks))
                /\ Copied(stream) = F[Len(stream.blocks)].bytes
<1>1. PICK n \in Nat : n = Len(stream.blocks)
  BY SeqDomain
<1>2. PICK b : b = Iterator(stream)
  OBVIOUS
<1>3. PICK f : Iterates(f, "copy", <<>>, b, n)
  BY <1>1, Iterated
<1> DEFINE Q(g) == g = [k \in 0..n |-> IF k = 0 THEN Iterator(stream) ELSE CopySlice(g[k - 1])]
<1>4. Q(f)
  <2>1. ASSUME NEW k \in 0..n PROVE f[k] = IF k = 0 THEN b ELSE CopySlice(f[k - 1])
    <3>1. f[0] = b /\ \A i \in 1..n : f[i] = Iteration("copy", <<>>, f[i - 1])
      BY <1>3, Zenon DEF Iterates
    <3>2. Iteration("copy", <<>>, f[k - 1]) = CopySlice(f[k - 1])
      BY DEF Iteration
    <3>3. k # 0 => k \in 1..n
      OBVIOUS
    <3> QED BY <3>1, <3>2, <3>3
  <2>2. f = [k \in 0..n |-> f[k]]
    BY <1>3 DEF Iterates
  <2> QED BY <1>2, <2>1, <2>2
<1>5. PICK F : F = CHOOSE g : Q(g)
  OBVIOUS
<1>6. Q(F)
  BY <1>4, <1>5
<1>7. Copied(stream) = F[n].bytes
  BY <1>1, <1>5 DEF Copied
<1>8. Iterates(F, "copy", <<>>, b, n)
  <2>1. F[0] = b /\ F = [k \in 0..n |-> F[k]]
    BY <1>2, <1>6
  <2>2. ASSUME NEW k \in 1..n PROVE F[k] = Iteration("copy", <<>>, F[k - 1])
    <3>1. k \in 0..n /\ k # 0
      OBVIOUS
    <3> QED BY <1>6, <3>1 DEF Iteration
  <2> QED BY <2>1, <2>2 DEF Iterates
<1> QED BY <1>1, <1>2, <1>7, <1>8

\* read is its loop.
LEMMA ReadLoop ==
  ASSUME NEW r, NEW size, size \in Nat
  PROVE  \E F : /\ Iterates(F, "read", <<>>, [r EXCEPT !.want = size], 2 * size)
                /\ ReadInto(r, size) = F[2 * size]
<1>1. PICK n \in Nat : n = 2 * size
  OBVIOUS
<1>2. PICK b : b = [r EXCEPT !.want = size]
  OBVIOUS
<1>3. PICK f : Iterates(f, "read", <<>>, b, n)
  BY <1>1, Iterated
<1> DEFINE Q(g) == g = [k \in 0..n |-> IF k = 0 THEN [r EXCEPT !.want = size] ELSE ReadSlice(g[k - 1])]
<1>4. Q(f)
  <2>1. ASSUME NEW k \in 0..n PROVE f[k] = IF k = 0 THEN b ELSE ReadSlice(f[k - 1])
    <3>1. f[0] = b /\ \A i \in 1..n : f[i] = Iteration("read", <<>>, f[i - 1])
      BY <1>3, Zenon DEF Iterates
    <3>2. Iteration("read", <<>>, f[k - 1]) = ReadSlice(f[k - 1])
      BY DEF Iteration
    <3>3. k # 0 => k \in 1..n
      OBVIOUS
    <3> QED BY <3>1, <3>2, <3>3
  <2>2. f = [k \in 0..n |-> f[k]]
    BY <1>3 DEF Iterates
  <2> QED BY <1>2, <2>1, <2>2
<1>5. PICK F : F = CHOOSE g : Q(g)
  OBVIOUS
<1>6. Q(F)
  BY <1>4, <1>5
<1>7. ReadInto(r, size) = F[n]
  BY <1>1, <1>5 DEF ReadInto
<1>8. Iterates(F, "read", <<>>, b, n)
  <2>1. F[0] = b /\ F = [k \in 0..n |-> F[k]]
    BY <1>2, <1>6
  <2>2. ASSUME NEW k \in 1..n PROVE F[k] = Iteration("read", <<>>, F[k - 1])
    <3>1. k \in 0..n /\ k # 0
      OBVIOUS
    <3> QED BY <1>6, <3>1 DEF Iteration
  <2> QED BY <2>1, <2>2 DEF Iterates
<1> QED BY <1>1, <1>2, <1>7, <1>8

\* A stream that holds a text.
IsStream(s, c) ==
  /\ s = [size |-> s.size, blocks |-> s.blocks]
  /\ IsSeq(c) /\ s.size = Len(c) /\ Holds(s.blocks, s.size, c, 0)

\* What is repeated is the next iteration.
LEMMA Iterates1 ==
  ASSUME NEW f, NEW loop, NEW bytes, NEW b, NEW n, n \in Nat, Iterates(f, loop, bytes, b, n)
  PROVE  /\ f[0] = b
         /\ \A k \in 0..(n - 1) : f[k + 1] = Iteration(loop, bytes, f[k])
<1>1. f[0] = b /\ \A k \in 1..n : f[k] = Iteration(loop, bytes, f[k - 1])
  BY Zenon DEF Iterates
<1>2. ASSUME NEW k \in 0..(n - 1) PROVE f[k + 1] = Iteration(loop, bytes, f[k])
  <2>1. k + 1 \in 1..n /\ (k + 1) - 1 = k
    BY <1>2
  <2> QED BY <1>1, <2>1
<1> QED BY <1>1, <1>2

\* A new stream is empty.
LEMMA EmptyIsStream == IsStream(EmptyStream, <<>>)
<1>1. PICK e : e = <<>> /\ IsSeq(e) /\ Len(e) = 0
  <2>1. Len(<<>>) = 0
    OBVIOUS
  <2> QED BY <2>1, EmptyIsSeq
<1>2. Start(1) = 0 /\ Start(0 + 1) = 0
  BY Starts
<1>3. Holds(e, 0, e, 0)
  BY <1>1, <1>2 DEF Holds
<1>4. EmptyStream = [size |-> 0, blocks |-> e]
  BY <1>1 DEF EmptyStream
<1> QED BY <1>1, <1>3, <1>4 DEF IsStream

\* What a stream holds is also the beginning of a longer text.
LEMMA HoldsLonger ==
  ASSUME NEW bs, NEW size, NEW c, NEW d, Holds(bs, size, c, 0), IsSeq(c), IsSeq(d),
         size = Len(c), Len(c) <= Len(d), \A k \in 1..Len(c) : d[k] = c[k]
  PROVE  Holds(bs, size, d, 0)
<1>1. PICK n \in Nat, l \in Nat, m \in Nat : n = Len(bs) /\ l = Len(c) /\ m = Len(d)
  BY SeqDomain DEF Holds
<1>2. ASSUME NEW j \in 1..n, NEW k \in 1..BlockSize, Start(j) + k <= size
      PROVE  bs[j][k] = d[0 + Start(j) + k]
  <2>1. Start(j) \in Nat
    BY <1>2, Starts
  <2>2. 0 + Start(j) + k \in 1..l
    BY <1>1, <1>2, <2>1, BlockSizePositive
  <2>3. bs[j][k] = c[0 + Start(j) + k]
    BY <1>1, <1>2 DEF Holds
  <2> QED BY <1>1, <2>2, <2>3
<1>3. /\ IsSeq(bs) /\ size \in Nat /\ 0 \in Nat /\ 0 + size <= Len(d)
      /\ size <= Start(n + 1) /\ (n # 0 => Start(n) < size)
      /\ \A j \in 1..n : IsSeq(bs[j]) /\ Len(bs[j]) = BlockSize
  BY <1>1 DEF Holds
<1> QED BY <1>1, <1>2, <1>3 DEF Holds

\* write_data puts the bytes after what the stream holds.
LEMMA Written ==
  ASSUME NEW s, NEW c, NEW bytes, IsStream(s, c), IsSeq(bytes)
  PROVE  IsStream(WriteData(s, bytes), c \o bytes)
<1>1. PICK n \in Nat : n = Len(bytes)
  BY SeqDomain
<1>2. PICK d : d = c \o bytes
  OBVIOUS
<1>3. IsSeq(c) /\ s.size = Len(c) /\ Holds(s.blocks, s.size, c, 0)
  BY DEF IsStream
<1>4. PICK base \in Nat : base = Len(c)
  BY <1>3, SeqDomain
<1>5. /\ IsSeq(d) /\ Len(d) = base + n /\ \A k \in 1..base : d[k] = c[k]
      /\ \A k \in 1..n : d[base + k] = bytes[k]
  <2>1. /\ IsSeq(c \o bytes) /\ Len(c \o bytes) = Len(c) + Len(bytes)
        /\ \A k \in 1..Len(c) : (c \o bytes)[k] = c[k]
        /\ \A k \in 1..Len(bytes) : (c \o bytes)[Len(c) + k] = bytes[k]
    BY <1>3, CatSeq
  <2> QED BY <1>1, <1>2, <1>4, <2>1
<1>6. Ends(d, base, bytes)
  BY <1>1, <1>5 DEF Ends
<1>7. PICK b : b = [size |-> s.size, blocks |-> s.blocks, done |-> 0]
  OBVIOUS
<1>8. PICK F : /\ Iterates(F, "write", bytes, b, n)
               /\ WriteData(s, bytes) = [size |-> F[n].size, blocks |-> F[n].blocks]
  BY <1>1, <1>7, WriteLoop
<1>9. Writing(b, d, base, bytes)
  <2>1. PICK bs, size : bs = s.blocks /\ size = s.size
    OBVIOUS
  <2>2. size = Len(c) /\ Len(c) <= Len(d) /\ Holds(bs, size, c, 0)
    BY <1>3, <1>4, <1>5, <2>1
  <2>3. Holds(bs, size, d, 0)
    BY <1>3, <1>4, <1>5, <2>2, HoldsLonger
  <2>4. b = [size |-> size, blocks |-> bs, done |-> 0]
    BY <1>7, <2>1
  <2>5. 0 \in 0..Len(bytes) /\ size = base + 0
    BY <1>1, <1>4, <2>2
  <2> QED BY <2>3, <2>4, <2>5 DEF Writing
<1>10. PICK T : T = {k \in 0..n : Writing(F[k], d, base, bytes) /\ F[k].done >= k}
  OBVIOUS
<1>11. 0 \in T
  <2>1. F[0] = b
    BY <1>8, Iterates1
  <2>2. b.done = 0
    BY <1>7
  <2> QED BY <1>9, <1>10, <2>1, <2>2
<1>12. ASSUME NEW k \in 0..n, k \in T, k < n PROVE k + 1 \in T
  <2>1. PICK w : w = F[k]
    OBVIOUS
  <2>2. Writing(w, d, base, bytes) /\ w.done >= k
    BY <1>10, <1>12, <2>1
  <2>3. w.done \in Nat
    BY <1>1, <2>2 DEF Writing
  <2>4. F[k + 1] = WriteBlock(w, bytes)
    <3>1. k \in 0..(n - 1)
      BY <1>12
    <3>2. F[k + 1] = Iteration("write", bytes, F[k])
      BY <1>8, <3>1, Iterates1
    <3> QED BY <2>1, <3>2 DEF Iteration
  <2>5. k + 1 \in 0..n
    BY <1>12
  <2>6. PICK v : v = F[k + 1]
    OBVIOUS
  <2>7. Writing(v, d, base, bytes) /\ v.done >= k + 1
    <3>1. CASE w.done = Len(bytes)
      <4>1. WriteBlock(w, bytes) = w
        BY <3>1 DEF WriteBlock
      <4> QED BY <1>1, <1>12, <2>2, <2>4, <2>6, <3>1, <4>1
    <3>2. CASE w.done # Len(bytes)
      <4>1. Writing(WriteBlock(w, bytes), d, base, bytes) /\ WriteBlock(w, bytes).done > w.done
        BY <1>6, <2>2, <3>2, BlockWritten
      <4>2. Writing(v, d, base, bytes) /\ v.done > w.done
        BY <2>4, <2>6, <4>1
      <4>3. v.done \in Nat
        BY <1>1, <4>2 DEF Writing
      <4> QED BY <1>12, <2>2, <2>3, <4>2, <4>3
    <3> QED BY <3>1, <3>2
  <2> QED BY <1>10, <2>5, <2>6, <2>7
<1>13. n \in T
  BY <1>11, <1>12, Upwards
<1>14. PICK w : w = F[n]
  OBVIOUS
<1>15. Writing(w, d, base, bytes) /\ w.done >= n
  BY <1>10, <1>13, <1>14
<1>16. w.size = base + n /\ Holds(w.blocks, w.size, d, 0)
  <2>1. w.done \in 0..n /\ w.size = base + w.done
    BY <1>1, <1>15 DEF Writing
  <2>2. w.done = n
    BY <1>15, <2>1
  <2> QED BY <1>15, <2>1, <2>2 DEF Writing
<1>17. PICK r : r = [size |-> w.size, blocks |-> w.blocks]
  OBVIOUS
<1>18. IsStream(r, d)
  <2>1. r.size = w.size /\ r.blocks = w.blocks
    BY <1>17
  <2>2. r = [size |-> r.size, blocks |-> r.blocks]
    BY <1>17
  <2> QED BY <1>5, <1>16, <2>1, <2>2 DEF IsStream
<1> QED BY <1>2, <1>8, <1>14, <1>17, <1>18

-------------------------------------------------------------------------------
(* Reading                                                                 *)

\* A reader as a record.
IsReader(r) ==
  r = [blocks |-> r.blocks, left |-> r.left, last |-> r.last, offset |-> r.offset, bytes |-> r.bytes, want |-> r.want]

\* What of the text a reader's iterator has not given yet.
Rest(r, c) ==
  /\ IsReader(r) /\ IsSeq(c) /\ r.left \in Nat /\ r.left <= Len(c)
  /\ Holds(r.blocks, r.left, c, Len(c) - r.left)

\* A slice of the text, from place from on.
Slice(s, c, from) ==
  /\ IsSeq(s) /\ from \in Nat /\ from + Len(s) <= Len(c)
  /\ \A k \in 1..Len(s) : s[k] = c[from + k]

\* The first block's part that holds text, and the other blocks.
First(bs, left, count, part, t) ==
  count = Least(left, BlockSize) /\ part = SubSeq(bs[1], 1, count) /\ t = Tail(bs)

\* They are the text's next slice, and the blocks of the rest.
Parted(bs, left, c, from, count, part, others) ==
  /\ Holds(others, left - count, c, from + count) /\ Slice(part, c, from)
  /\ Len(part) = count /\ count \in 1..left /\ Len(bs) # 0 /\ Len(others) = Len(bs) - 1

\* Without the first block the others hold the rest.
LEMMA HoldsTail ==
  ASSUME NEW bs, NEW left, NEW c, NEW from, NEW count, NEW part, NEW others, Holds(bs, left, c, from),
         left # 0, First(bs, left, count, part, others)
  PROVE  Parted(bs, left, c, from, count, part, others)
<1>1. PICK n \in Nat, l \in Nat : n = Len(bs) /\ l = Len(c)
  BY SeqDomain DEF Holds
<1>2. /\ IsSeq(bs) /\ IsSeq(c) /\ left \in Nat /\ from \in Nat /\ from + left <= l
      /\ left <= Start(n + 1) /\ (n # 0 => Start(n) < left)
      /\ \A j \in 1..n : IsSeq(bs[j]) /\ Len(bs[j]) = BlockSize
  BY <1>1 DEF Holds
<1>3. Start(1) = 0 /\ Start(0 + 1) = 0 /\ Start(n + 1) \in Nat /\ (n # 0 => Start(n) \in Nat /\ Start(n + 1) = Start(n) + BlockSize)
  <2>1. n + 1 \in Nat \ {0} /\ (n # 0 => n \in Nat \ {0})
    OBVIOUS
  <2> QED BY <2>1, Starts
<1>4. n # 0
  BY <1>2, <1>3
<1>5. count \in 1..left /\ count <= BlockSize /\ (count = left \/ count = BlockSize)
  <2>1. count = Least(left, BlockSize)
    BY DEF First
  <2> QED BY <1>2, <2>1, BlockSizePositive, LeastIs
<1>6. PICK b : b = bs[1]
  OBVIOUS
<1>7. IsSeq(b) /\ Len(b) = BlockSize
  <2>1. 1 \in 1..n
    BY <1>4
  <2> QED BY <1>2, <1>6, <2>1
<1>8. PICK s : s = SubSeq(b, 1, count)
  OBVIOUS
<1>9. IsSeq(s) /\ Len(s) = count /\ \A k \in 1..count : s[k] = b[k]
  <2>1. 1 \in Nat \ {0} /\ count \in Nat /\ count <= Len(b) /\ 1 <= count + 1 /\ count + 1 - 1 = count
    BY <1>2, <1>5, <1>7
  <2>2. /\ IsSeq(SubSeq(b, 1, count)) /\ Len(SubSeq(b, 1, count)) = count + 1 - 1
        /\ \A k \in 1..(count + 1 - 1) : SubSeq(b, 1, count)[k] = b[1 + k - 1]
    BY <1>7, <2>1, PartIs
  <2>3. \A k \in 1..count : 1 + k - 1 = k
    BY <2>1
  <2> QED BY <1>8, <2>1, <2>2, <2>3
<1>10. Slice(s, c, from)
  <2>1. ASSUME NEW k \in 1..count PROVE b[k] = c[from + k]
    <3>1. k \in 1..BlockSize /\ 1 \in 1..n /\ Start(1) + k <= left /\ from + Start(1) + k = from + k
      BY <1>2, <1>3, <1>4, <1>5, <2>1, BlockSizePositive
    <3>2. bs[1][k] = c[from + Start(1) + k]
      BY <1>1, <3>1 DEF Holds
    <3> QED BY <1>6, <3>1, <3>2
  <2>2. from + count <= l
    BY <1>2, <1>5
  <2> QED BY <1>1, <1>2, <1>9, <2>1, <2>2 DEF Slice
<1>11. PICK t : t = Tail(bs)
  OBVIOUS
<1>12. IsSeq(t) /\ Len(t) = n - 1 /\ \A k \in 1..(n - 1) : t[k] = bs[k + 1]
  BY <1>1, <1>2, <1>4, <1>11, TailIs
<1>13. PICK m \in Nat, rest \in Nat, at \in Nat : m = n - 1 /\ rest = left - count /\ at = from + count
  BY <1>2, <1>4, <1>5
<1>14. Start(m + 1) = Start(n) /\ (m # 0 => m \in Nat \ {0})
  <2>1. m + 1 = n
    BY <1>13
  <2> QED BY <2>1
<1>15. m # 0 => Start(m) \in Nat /\ Start(n) = Start(m) + BlockSize /\ count = BlockSize
  <2>1. ASSUME m # 0 PROVE Start(m) \in Nat /\ Start(m + 1) = Start(m) + BlockSize
    BY <2>1, Starts
  <2>2. ASSUME m # 0 PROVE count = BlockSize
    <3>1. left > BlockSize
      <4>1. Start(m) \in Nat /\ Start(n) = Start(m) + BlockSize /\ BlockSize \in Nat
        BY <1>14, <2>1, <2>2, BlockSizePositive
      <4>2. left \in Nat /\ Start(n) < left
        BY <1>2, <1>4
      <4> QED BY <4>1, <4>2
    <3> QED BY <1>2, <1>5, <3>1, BlockSizePositive
  <2> QED BY <1>14, <2>1, <2>2
<1>16. rest <= Start(m + 1) /\ (m # 0 => Start(m) < rest) /\ at + rest <= l
  <2>4. left \in Nat /\ from \in Nat /\ from + left <= l /\ count \in Nat
    BY <1>2, <1>5
  <2>5. rest = left - count /\ at = from + count /\ rest \in Nat /\ l \in Nat
    BY <1>2, <1>13
  <2>1. at + rest <= l
    BY <2>4, <2>5
  <2>6. Start(n) \in Nat /\ left <= Start(n) + BlockSize /\ BlockSize \in Nat
    BY <1>2, <1>3, <1>4, BlockSizePositive
  <2>7. count = left \/ count = BlockSize
    BY <1>5
  <2>2. rest <= Start(n)
    BY <2>4, <2>5, <2>6, <2>7
  <2>3. m # 0 => Start(m) < rest
    <3>1. ASSUME m # 0 PROVE Start(m) < rest
      <4>1. Start(m) \in Nat /\ Start(n) = Start(m) + BlockSize /\ count = BlockSize /\ BlockSize \in Nat
        BY <1>15, <3>1, BlockSizePositive
      <4>2. left \in Nat /\ Start(n) < left /\ rest = left - BlockSize
        BY <1>2, <1>4, <1>13, <4>1
      <4> QED BY <4>1, <4>2
    <3> QED BY <3>1
  <2> QED BY <1>14, <2>1, <2>2, <2>3
<1>17. ASSUME NEW j \in 1..m
       PROVE  /\ IsSeq(t[j]) /\ Len(t[j]) = BlockSize
              /\ \A k \in 1..BlockSize : Start(j) + k <= rest => t[j][k] = c[at + Start(j) + k]
  <2>1. j + 1 \in 1..n /\ j \in 1..(n - 1) /\ j \in Nat \ {0} /\ m # 0
    BY <1>13, <1>17
  <2>2. t[j] = bs[j + 1] /\ IsSeq(bs[j + 1]) /\ Len(bs[j + 1]) = BlockSize
    BY <1>2, <1>12, <2>1
  <2>3. Start(j) \in Nat /\ Start(j + 1) = Start(j) + BlockSize
    BY <2>1, Starts
  <2>4. ASSUME NEW k \in 1..BlockSize, Start(j) + k <= rest PROVE bs[j + 1][k] = c[at + Start(j) + k]
    <3>1. Start(j + 1) + k <= left /\ from + Start(j + 1) + k = at + Start(j) + k
      <4>1. count = BlockSize /\ rest = left - BlockSize /\ at = from + BlockSize /\ BlockSize \in Nat
        BY <1>13, <1>15, <2>1, BlockSizePositive
      <4>2. k \in Nat /\ left \in Nat /\ from \in Nat
        BY <1>2, <2>4, <4>1
      <4>3. Start(j + 1) + k <= left
        BY <2>3, <2>4, <4>1, <4>2
      <4>4. from + Start(j + 1) + k = at + Start(j) + k
        BY <2>3, <4>1, <4>2
      <4> QED BY <4>3, <4>4
    <3>2. bs[j + 1][k] = c[from + Start(j + 1) + k]
      BY <1>1, <2>1, <3>1 DEF Holds
    <3> QED BY <3>1, <3>2
  <2> QED BY <2>2, <2>4
<1>18. Holds(t, rest, c, at)
  <2>1. Len(t) = m
    BY <1>12, <1>13
  <2> QED BY <1>1, <1>2, <1>12, <1>16, <1>17, <2>1 DEF Holds
<1>19. part = s /\ others = t
  BY <1>6, <1>8, <1>11 DEF First
<1> QED BY <1>1, <1>4, <1>5, <1>9, <1>10, <1>12, <1>13, <1>18, <1>19 DEF Parted

\* What Iter::next has done to a reader r.
Gives(r, s, c) ==
  /\ Rest(s, c) /\ s.offset = 0 /\ s.bytes = r.bytes /\ s.want = r.want
  /\ Slice(s.last, c, Len(c) - r.left) /\ Len(s.last) = r.left - s.left
  /\ s.left <= r.left /\ (r.left # 0 => s.left < r.left)
  /\ (r.left # 0 => Len(s.blocks) + 1 = Len(r.blocks))
  /\ (r.left = 0 => s.last = <<>>)

\* Iter::next gives the next slice of the text, until all is given.
LEMMA NextGives ==
  ASSUME NEW r, NEW c, Rest(r, c)
  PROVE  Gives(r, NextSlice(r), c)
<1>1. PICK left \in Nat, l \in Nat : left = r.left /\ l = Len(c) /\ left <= l
  BY SeqDomain DEF Rest
<1>2. PICK bs, bytes, want, slice, place :
        bs = r.blocks /\ bytes = r.bytes /\ want = r.want /\ slice = r.last /\ place = r.offset
  OBVIOUS
<1>3. PICK from \in Nat : from = l - left
  BY <1>1
<1>4. r = [blocks |-> bs, left |-> left, last |-> slice, offset |-> place, bytes |-> bytes, want |-> want]
  BY <1>1, <1>2 DEF Rest, IsReader
<1>5. Holds(bs, left, c, from) /\ IsSeq(c)
  BY <1>1, <1>2, <1>3 DEF Rest
<1>6. CASE left = 0
  <2>1. PICK s : s = [blocks |-> bs, left |-> 0, last |-> <<>>, offset |-> 0, bytes |-> bytes, want |-> want]
    OBVIOUS
  <2>2. NextSlice(r) = s
    <3>1. NextSlice(r) = [r EXCEPT !.last = <<>>, !.offset = 0]
      BY <1>1, <1>6 DEF NextSlice
    <3> QED BY <1>4, <1>6, <2>1, <3>1
  <2>3. /\ s.blocks = bs /\ s.left = 0 /\ s.last = <<>> /\ s.offset = 0 /\ s.bytes = bytes /\ s.want = want
        /\ IsReader(s)
    BY <2>1 DEF IsReader
  <2>4. IsSeq(<<>>) /\ Len(<<>>) = 0
    BY EmptyIsSeq
  <2>5. PICK e : e = <<>>
    OBVIOUS
  <2>6. Slice(e, c, from)
    BY <1>1, <1>3, <2>4, <2>5 DEF Slice
  <2>7. Rest(s, c)
    BY <1>1, <1>3, <1>5, <1>6, <2>3 DEF Rest
  <2> QED BY <1>1, <1>2, <1>3, <1>6, <2>2, <2>3, <2>4, <2>5, <2>6, <2>7 DEF Gives
<1>7. CASE left # 0
  <2>1. PICK count : count = Least(left, BlockSize)
    OBVIOUS
  <2>2. PICK t, part : t = Tail(bs) /\ part = SubSeq(bs[1], 1, count)
    OBVIOUS
  <2>3. /\ Holds(t, left - count, c, from + count) /\ Slice(part, c, from)
        /\ Len(part) = count /\ count \in 1..left /\ Len(bs) # 0 /\ Len(t) = Len(bs) - 1
    <3>1. First(bs, left, count, part, t)
      BY <2>1, <2>2 DEF First
    <3>2. Holds(bs, left, c, from) /\ left # 0
      BY <1>5, <1>7
    <3>3. Parted(bs, left, c, from, count, part, t)
      BY <3>1, <3>2, HoldsTail
    <3> QED BY <3>3, Zenon DEF Parted
  <2>11. PICK rest : rest = left - count
    OBVIOUS
  <2>4. rest \in Nat /\ rest = left - count /\ rest < left /\ from + count = l - rest /\ rest <= l
    <3>1. count \in 1..left
      BY <2>3
    <3>2. left \in Nat /\ l \in Nat /\ left <= l /\ from = l - left
      BY <1>1, <1>3
    <3> QED BY <2>11, <3>1, <3>2
  <2>5. PICK s : s = [blocks |-> t, left |-> rest, last |-> part, offset |-> 0, bytes |-> bytes, want |-> want]
    OBVIOUS
  <2>6. NextSlice(r) = s
    <3>1. NextSlice(r) = [r EXCEPT !.last = SubSeq(r.blocks[1], 1, Least(r.left, BlockSize)), !.offset = 0,
                                   !.blocks = Tail(r.blocks), !.left = r.left - Least(r.left, BlockSize)]
      BY <1>1, <1>7 DEF NextSlice
    <3>2. NextSlice(r) = [r EXCEPT !.last = part, !.offset = 0, !.blocks = t, !.left = rest]
      <4>1. SubSeq(r.blocks[1], 1, Least(r.left, BlockSize)) = part
        BY <1>1, <1>2, <2>1, <2>2
      <4>2. Tail(r.blocks) = t
        BY <1>2, <2>2
      <4>3. r.left - Least(r.left, BlockSize) = rest
        BY <1>1, <2>1, <2>11
      <4> QED BY <3>1, <4>1, <4>2, <4>3, Zenon
    <3> QED BY <1>4, <2>5, <3>2
  <2>7. /\ s.blocks = t /\ s.left = rest /\ s.last = part /\ s.offset = 0 /\ s.bytes = bytes /\ s.want = want
        /\ IsReader(s)
    BY <2>5 DEF IsReader
  <2>8. Rest(s, c)
    BY <1>1, <1>5, <2>3, <2>4, <2>7 DEF Rest
  <2>9. Len(t) + 1 = Len(bs)
    <3>1. Len(bs) \in Nat
      BY <1>5, SeqDomain DEF Holds
    <3> QED BY <2>3, <3>1
  <2>10. Len(part) = left - rest
    BY <1>1, <2>3, <2>4
  <2> QED BY <1>1, <1>2, <1>3, <1>7, <2>3, <2>4, <2>6, <2>7, <2>8, <2>9, <2>10 DEF Gives
<1> QED BY <1>6, <1>7

\* After k of n iterations copy has written the text up to the rest.
Copying(r, c, n, k) ==
  /\ Rest(r, c) /\ IsSeq(r.bytes) /\ Len(r.bytes) = Len(c) - r.left
  /\ \A i \in 1..Len(r.bytes) : r.bytes[i] = c[i]
  /\ r.left # 0 => Len(r.blocks) = n - k

\* An iteration of copy writes a slice.
LEMMA CopyStep ==
  ASSUME NEW r, NEW c, NEW n, NEW k, n \in Nat, k \in Nat, Copying(r, c, n, k)
  PROVE  Copying(CopySlice(r), c, n, k + 1)
<1>1. PICK s : s = NextSlice(r)
  OBVIOUS
<1>2. Gives(r, s, c)
  BY <1>1, NextGives DEF Copying
<1>3. PICK left \in Nat, l \in Nat, rest \in Nat : left = r.left /\ l = Len(c) /\ rest = s.left /\ left <= l /\ rest <= left
  <2>1. r.left \in Nat /\ r.left <= Len(c) /\ IsSeq(c)
    BY DEF Copying, Rest
  <2>2. Len(c) \in Nat
    BY <2>1, SeqDomain
  <2>3. s.left \in Nat /\ s.left <= r.left
    BY <1>2 DEF Gives, Rest
  <2> QED BY <2>1, <2>2, <2>3
<1>4. PICK bytes, part, bs : bytes = r.bytes /\ part = s.last /\ bs = s.blocks
  OBVIOUS
<1>15. PICK p \in Nat, d \in Nat : p = l - left /\ d = left - rest /\ l - rest = p + d
  <2>1. l - left \in Nat /\ left - rest \in Nat /\ l - rest = (l - left) + (left - rest)
    BY <1>3
  <2> QED BY <2>1
<1>5. IsSeq(bytes) /\ Len(bytes) = p /\ \A i \in 1..p : bytes[i] = c[i]
  BY <1>3, <1>4, <1>15 DEF Copying
<1>6. IsSeq(part) /\ Len(part) = d /\ \A i \in 1..d : part[i] = c[p + i]
  BY <1>2, <1>3, <1>4, <1>15 DEF Gives, Slice
<1>7. PICK cat : cat = bytes \o part
  OBVIOUS
<1>8. IsSeq(cat) /\ Len(cat) = l - rest /\ \A i \in 1..(l - rest) : cat[i] = c[i]
  <2>1. /\ IsSeq(cat) /\ Len(cat) = Len(bytes) + Len(part) /\ \A i \in 1..Len(bytes) : cat[i] = bytes[i]
        /\ \A i \in 1..Len(part) : cat[Len(bytes) + i] = part[i]
    <3>2. IsSeq(bytes) /\ IsSeq(part)
      BY <1>5, <1>6
    <3>1. /\ IsSeq(bytes \o part) /\ Len(bytes \o part) = Len(bytes) + Len(part)
          /\ \A i \in 1..Len(bytes) : (bytes \o part)[i] = bytes[i]
          /\ \A i \in 1..Len(part) : (bytes \o part)[Len(bytes) + i] = part[i]
      BY <3>2, CatSeq
    <3> QED BY <1>7, <3>1
  <2>2. ASSUME NEW i \in 1..(p + d) PROVE cat[i] = c[i]
    <3>1. CASE i <= p
      <4>1. i \in 1..p
        BY <2>2, <3>1
      <4> QED BY <1>5, <2>1, <4>1
    <3>2. CASE ~(i <= p)
      <4>1. PICK m \in 1..d : p + m = i
        <5>1. i - p \in 1..d /\ p + (i - p) = i
          BY <2>2, <3>2
        <5> QED BY <5>1
      <4>2. cat[p + m] = part[m]
        BY <1>5, <1>6, <2>1
      <4>3. part[m] = c[p + m]
        BY <1>6
      <4> QED BY <4>1, <4>2, <4>3
    <3> QED BY <3>1, <3>2
  <2>3. Len(cat) = p + d
    BY <1>5, <1>6, <2>1
  <2> QED BY <1>15, <2>1, <2>2, <2>3
<1>9. PICK v : v = [s EXCEPT !.bytes = cat]
  OBVIOUS
<1>10. CopySlice(r) = v
  <2>1. s.bytes \o s.last = cat
    BY <1>2, <1>4, <1>7 DEF Gives
  <2> QED BY <1>1, <1>9, <2>1 DEF CopySlice
<1>11. IsReader(v) /\ v.bytes = cat /\ v.left = rest /\ v.blocks = bs
  <2>1. s = [blocks |-> bs, left |-> rest, last |-> s.last, offset |-> s.offset, bytes |-> s.bytes, want |-> s.want]
    BY <1>2, <1>3, <1>4 DEF Gives, Rest, IsReader
  <2>2. v = [blocks |-> bs, left |-> rest, last |-> s.last, offset |-> s.offset, bytes |-> cat, want |-> s.want]
    BY <1>9, <2>1
  <2> QED BY <2>2 DEF IsReader
<1>12. Rest(v, c)
  <2>1. IsSeq(c) /\ s.left <= Len(c) /\ Holds(s.blocks, s.left, c, Len(c) - s.left)
    BY <1>2 DEF Gives, Rest
  <2> QED BY <1>3, <1>4, <1>11, <2>1 DEF Rest
<1>13. v.left # 0 => Len(v.blocks) = n - (k + 1)
  <2>1. ASSUME rest # 0 PROVE Len(bs) = n - (k + 1)
    <3>1. left # 0
      BY <1>3, <2>1
    <3>2. Len(bs) + 1 = Len(r.blocks)
      BY <1>2, <1>3, <1>4, <3>1 DEF Gives
    <3>3. Len(r.blocks) = n - k
      BY <1>3, <3>1 DEF Copying
    <3>4. Len(bs) \in Nat
      BY <1>2, <1>4, SeqDomain DEF Gives, Rest, Holds
    <3> QED BY <3>2, <3>3, <3>4
  <2> QED BY <1>11, <2>1
<1>14. Copying(v, c, n, k + 1)
  BY <1>3, <1>8, <1>11, <1>12, <1>13 DEF Copying
<1> QED BY <1>10, <1>14

\* An iterator has all of the text to give.
LEMMA IteratorRests ==
  ASSUME NEW s, NEW c, IsStream(s, c)
  PROVE  /\ Rest(Iterator(s), c) /\ Iterator(s).bytes = <<>> /\ Iterator(s).left = Len(c)
         /\ Iterator(s).blocks = s.blocks /\ Iterator(s).want = 0
<1>1. PICK l \in Nat : l = Len(c) /\ s.size = l /\ IsSeq(c)
  BY SeqDomain DEF IsStream
<1>2. PICK bs : bs = s.blocks
  OBVIOUS
<1>3. Holds(bs, l, c, 0)
  BY <1>1, <1>2 DEF IsStream
<1>4. PICK b : b = [blocks |-> bs, left |-> l, last |-> <<>>, offset |-> 0, bytes |-> <<>>, want |-> 0]
  OBVIOUS
<1>5. Iterator(s) = b
  BY <1>1, <1>2, <1>4 DEF Iterator
<1>6. IsReader(b) /\ b.blocks = bs /\ b.left = l /\ b.bytes = <<>> /\ b.want = 0
  BY <1>4 DEF IsReader
<1>7. Rest(b, c)
  <2>1. Len(c) - b.left = 0 /\ b.left <= Len(c)
    BY <1>1, <1>6
  <2> QED BY <1>1, <1>3, <1>6, <2>1 DEF Rest
<1> QED BY <1>1, <1>2, <1>5, <1>6, <1>7

\* copy writes the text that the stream holds.
LEMMA CopiedIs ==
  ASSUME NEW s, NEW c, IsStream(s, c)
  PROVE  Copied(s) = c
<1>1. IsSeq(s.blocks) /\ IsSeq(c)
  BY DEF IsStream, Holds
<1>2. PICK n \in Nat : n = Len(s.blocks)
  BY <1>1, SeqDomain
<1>3. PICK b : b = Iterator(s)
  OBVIOUS
<1>4. PICK F : Iterates(F, "copy", <<>>, b, n) /\ Copied(s) = F[n].bytes
  BY <1>1, <1>2, <1>3, CopyLoop
<1>5. Copying(b, c, n, 0)
  <2>1. Rest(b, c) /\ b.bytes = <<>> /\ b.left = Len(c) /\ b.blocks = s.blocks
    BY <1>3, IteratorRests
  <2>2. IsSeq(b.bytes) /\ Len(b.bytes) = 0
    BY <2>1, EmptyIsSeq
  <2>3. Len(c) - b.left = 0 /\ n - 0 = n
    <3>1. Len(c) \in Nat
      BY <1>1, SeqDomain
    <3> QED BY <2>1, <3>1
  <2> QED BY <1>2, <2>1, <2>2, <2>3 DEF Copying
<1>6. PICK T : T = {k \in 0..n : Copying(F[k], c, n, k)}
  OBVIOUS
<1>7. 0 \in T
  <2>1. F[0] = b
    BY <1>4, Iterates1
  <2> QED BY <1>5, <1>6, <2>1
<1>8. ASSUME NEW k \in 0..n, k \in T, k < n PROVE k + 1 \in T
  <2>1. PICK r : r = F[k]
    OBVIOUS
  <2>2. Copying(r, c, n, k)
    BY <1>6, <1>8, <2>1
  <2>3. F[k + 1] = CopySlice(r)
    <3>1. k \in 0..(n - 1)
      BY <1>8
    <3>2. F[k + 1] = Iteration("copy", <<>>, F[k])
      BY <1>4, <3>1, Iterates1
    <3> QED BY <2>1, <3>2 DEF Iteration
  <2>4. Copying(CopySlice(r), c, n, k + 1)
    <3>1. k \in Nat
      BY <1>8
    <3> QED BY <2>2, <3>1, CopyStep
  <2>5. k + 1 \in 0..n
    BY <1>8
  <2> QED BY <1>6, <2>3, <2>4, <2>5
<1>9. n \in T
  BY <1>7, <1>8, Upwards
<1>10. PICK r : r = F[n]
  OBVIOUS
<1>11. Copying(r, c, n, n)
  BY <1>6, <1>9, <1>10
<1>12. r.left = 0
  <2>1. r.left \in Nat /\ r.left <= Start(Len(r.blocks) + 1) /\ (r.left # 0 => Len(r.blocks) = n - n)
    BY <1>11 DEF Copying, Rest, Holds
  <2>2. Start(0 + 1) = 0
    BY Starts
  <2> QED BY <2>1, <2>2
<1>13. PICK bytes : bytes = r.bytes
  OBVIOUS
<1>14. IsSeq(bytes) /\ Len(bytes) = Len(c) /\ \A i \in 1..Len(bytes) : bytes[i] = c[i]
  <2>1. Len(c) \in Nat
    BY <1>1, SeqDomain
  <2>2. IsSeq(bytes) /\ Len(bytes) = Len(c) - r.left /\ \A i \in 1..Len(bytes) : bytes[i] = c[i]
    BY <1>11, <1>13 DEF Copying
  <2> QED BY <1>12, <2>1, <2>2
<1>15. bytes = c
  BY <1>1, <1>14, SeqsEqual
<1> QED BY <1>4, <1>10, <1>13, <1>15

\* A reader that has read the text up to its place in the slice it has.
Reading(r, c) ==
  /\ Rest(r, c) /\ r.want \in Nat
  /\ Slice(r.last, c, Len(c) - r.left - Len(r.last)) /\ r.offset \in 0..Len(r.last)
  /\ IsSeq(r.bytes) /\ Len(r.bytes) = Len(c) - r.left - Len(r.last) + r.offset
  /\ \A k \in 1..Len(r.bytes) : r.bytes[k] = c[k]
  /\ r.last = <<>> => r.left = 0

\* A sequence of no length.
LEMMA NoLength ==
  ASSUME NEW s, IsSeq(s)
  PROVE  Len(s) = 0 <=> s = <<>>
<1>1. PICK R : R = Range(s) /\ s \in Seq(R)
  BY DEF IsSeq
<1> QED BY <1>1

\* After Iter::next a reader that has read all of its slice goes on.
LEMMA NextReading ==
  ASSUME NEW r, NEW c, Rest(r, c), r.want \in Nat, IsSeq(r.bytes), Len(r.bytes) = Len(c) - r.left,
         \A k \in 1..Len(r.bytes) : r.bytes[k] = c[k]
  PROVE  Reading(NextSlice(r), c)
<1>1. PICK s : s = NextSlice(r)
  OBVIOUS
<1>2. Gives(r, s, c)
  BY <1>1, NextGives
<1>3. PICK left \in Nat, l \in Nat, rest \in Nat : left = r.left /\ l = Len(c) /\ rest = s.left /\ left <= l /\ rest <= left
  <2>1. r.left \in Nat /\ r.left <= Len(c) /\ IsSeq(c)
    BY DEF Rest
  <2>2. Len(c) \in Nat
    BY <2>1, SeqDomain
  <2>3. s.left \in Nat /\ s.left <= r.left
    BY <1>2 DEF Gives, Rest
  <2> QED BY <2>1, <2>2, <2>3
<1>4. Slice(s.last, c, l - left) /\ Len(s.last) = left - rest /\ s.offset = 0 /\ s.bytes = r.bytes /\ s.want = r.want
  BY <1>2, <1>3 DEF Gives
<1>5. Len(c) - s.left - Len(s.last) = l - left /\ 0 \in 0..Len(s.last)
  <2>1. Len(c) = l /\ s.left = rest /\ Len(s.last) = left - rest
    BY <1>3, <1>4
  <2>2. l - rest - (left - rest) = l - left /\ left - rest \in Nat
    BY <1>3
  <2> QED BY <2>1, <2>2
<1>6. Len(s.bytes) = Len(c) - s.left - Len(s.last) + s.offset
  <2>1. Len(s.bytes) = l - left /\ l - left \in Nat
    BY <1>3, <1>4
  <2> QED BY <1>4, <1>5, <2>1
<1>7. s.last = <<>> => s.left = 0
  <2>1. ASSUME s.last = <<>> PROVE rest = 0
    <3>1. left - rest = 0
      <4>1. Len(s.last) = 0
        BY <2>1
      <4> QED BY <1>4, <4>1
    <3>2. left # 0 => rest < left
      BY <1>2, <1>3 DEF Gives
    <3> QED BY <1>3, <3>1, <3>2
  <2> QED BY <1>3, <2>1
<1>8. IsSeq(s.bytes) /\ \A k \in 1..Len(s.bytes) : s.bytes[k] = c[k]
  BY <1>4
<1>9. Rest(s, c)
  BY <1>2 DEF Gives
<1>10. Reading(s, c)
  BY <1>4, <1>5, <1>6, <1>7, <1>8, <1>9 DEF Reading
<1> QED BY <1>1, <1>10

\* A new reader has the first slice.
LEMMA ReaderReads ==
  ASSUME NEW s, NEW c, IsStream(s, c)
  PROVE  Reading(Reader(s), c)
<1>1. PICK b : b = Iterator(s)
  OBVIOUS
<1>2. Rest(b, c) /\ b.bytes = <<>> /\ b.left = Len(c) /\ b.want = 0
  BY <1>1, IteratorRests
<1>3. IsSeq(b.bytes) /\ Len(b.bytes) = 0
  BY <1>2, EmptyIsSeq
<1>4. Len(b.bytes) = Len(c) - b.left
  <2>1. Len(c) \in Nat
    BY SeqDomain DEF IsStream
  <2> QED BY <1>2, <1>3, <2>1
<1>5. \A k \in 1..Len(b.bytes) : b.bytes[k] = c[k]
  BY <1>3
<1>6. Reading(NextSlice(b), c)
  BY <1>2, <1>3, <1>4, <1>5, NextReading
<1> QED BY <1>1, <1>6 DEF Reader

\* An iteration of read goes on in the slice, or takes the next.
LEMMA ReadStep ==
  ASSUME NEW r, NEW c, Reading(r, c)
  PROVE  Reading(ReadSlice(r), c)
<1>1. PICK l \in Nat, left \in Nat, want \in Nat, m \in Nat, offset \in Nat :
        /\ l = Len(c) /\ left = r.left /\ want = r.want /\ m = Len(r.last) /\ offset = r.offset /\ offset <= m
  <2>1. IsSeq(c) /\ r.left \in Nat /\ r.want \in Nat /\ IsSeq(r.last) /\ r.offset \in 0..Len(r.last)
    BY DEF Reading, Rest, Slice
  <2>2. Len(c) \in Nat /\ Len(r.last) \in Nat
    BY <2>1, SeqDomain
  <2>3. r.offset \in Nat /\ r.offset <= Len(r.last)
    BY <2>1, <2>2
  <2> QED BY <2>1, <2>2, <2>3
<1>2. PICK last, bytes, bs : last = r.last /\ bytes = r.bytes /\ bs = r.blocks
  OBVIOUS
<1>3. PICK p : p = l - left - m
  OBVIOUS
<1>4. /\ p \in Nat /\ IsSeq(last) /\ Len(last) = m /\ p + m <= l /\ \A k \in 1..m : last[k] = c[p + k]
      /\ Slice(last, c, p)
  BY <1>1, <1>2, <1>3 DEF Reading, Slice
<1>9. p \in Nat /\ Len(last) = m
  BY <1>4
<1>5. IsSeq(bytes) /\ Len(bytes) = p + offset /\ \A k \in 1..(p + offset) : bytes[k] = c[k]
  BY <1>1, <1>2, <1>3 DEF Reading
<1>6. CASE want = 0 \/ last = <<>>
  <2>1. ReadSlice(r) = r
    BY <1>1, <1>2, <1>6 DEF ReadSlice
  <2> QED BY <2>1
<1>7. CASE want # 0 /\ last # <<>> /\ offset = m
  <2>1. ReadSlice(r) = NextSlice(r)
    BY <1>1, <1>2, <1>7 DEF ReadSlice
  <2>2. Len(r.bytes) = Len(c) - r.left
    <3>1. p + m = l - left
      BY <1>1, <1>3
    <3> QED BY <1>1, <1>2, <1>5, <1>7, <3>1
  <2>3. Rest(r, c) /\ r.want \in Nat /\ IsSeq(r.bytes) /\ \A k \in 1..Len(r.bytes) : r.bytes[k] = c[k]
    BY Zenon DEF Reading
  <2>4. Reading(NextSlice(r), c)
    BY <2>2, <2>3, NextReading
  <2> QED BY <2>1, <2>4
<1>8. CASE want # 0 /\ last # <<>> /\ offset # m
  <2>1. PICK count : count = Least(want, m - offset)
    OBVIOUS
  <2>2. count \in Nat /\ count <= want /\ offset + count <= m
    <3>1. m - offset \in Nat
      BY <1>1
    <3>2. count \in Nat /\ count <= want /\ count <= m - offset
      BY <2>1, <3>1, LeastIs
    <3> QED BY <1>1, <3>2
  <2>3. PICK part : part = SubSeq(last, offset + 1, offset + count)
    OBVIOUS
  <2>4. IsSeq(part) /\ Len(part) = count /\ \A k \in 1..count : part[k] = last[offset + k]
    <3>1. PICK a, b : a = offset + 1 /\ b = offset + count
      OBVIOUS
    <3>2. a \in Nat \ {0} /\ b \in Nat /\ b <= Len(last) /\ a <= b + 1 /\ b + 1 - a = count
      BY <1>9, <2>2, <3>1
    <3>3. /\ IsSeq(SubSeq(last, a, b)) /\ Len(SubSeq(last, a, b)) = b + 1 - a
          /\ \A k \in 1..(b + 1 - a) : SubSeq(last, a, b)[k] = last[a + k - 1]
      <4>1. IsSeq(last)
        BY <1>4
      <4>2. a \in Nat \ {0} /\ b \in Nat /\ b <= Len(last) /\ a <= b + 1
        BY <3>2
      <4> QED BY <4>1, <4>2, PartIs
    <3>4. \A k \in 1..count : a + k - 1 = offset + k
      BY <1>1, <2>2, <3>1
    <3> QED BY <2>3, <3>1, <3>2, <3>3, <3>4
  <2>5. PICK cat : cat = bytes \o part
    OBVIOUS
  <2>6. /\ IsSeq(cat) /\ Len(cat) = Len(bytes) + Len(part) /\ \A i \in 1..Len(bytes) : cat[i] = bytes[i]
        /\ \A i \in 1..Len(part) : cat[Len(bytes) + i] = part[i]
    <3>1. IsSeq(bytes) /\ IsSeq(part)
      BY <1>5, <2>4
    <3>2. /\ IsSeq(bytes \o part) /\ Len(bytes \o part) = Len(bytes) + Len(part)
          /\ \A i \in 1..Len(bytes) : (bytes \o part)[i] = bytes[i]
          /\ \A i \in 1..Len(part) : (bytes \o part)[Len(bytes) + i] = part[i]
      BY <3>1, CatSeq
    <3> QED BY <2>5, <3>2
  <2>7. Len(cat) = p + (offset + count)
    <3>1. Len(cat) = (p + offset) + count
      BY <1>5, <2>4, <2>6
    <3>2. p \in Nat /\ offset \in Nat /\ count \in Nat
      BY <1>1, <1>4, <2>2
    <3> QED BY <3>1, <3>2
  <2>8. ASSUME NEW i \in 1..(p + (offset + count)) PROVE cat[i] = c[i]
    <3>1. PICK q \in Nat : q = p + offset
      BY <1>1, <1>4
    <3>2. CASE i <= q
      <4>1. i \in 1..q
        BY <2>8, <3>2
      <4> QED BY <1>5, <2>6, <3>1, <4>1
    <3>3. CASE ~(i <= q)
      <4>1. PICK k \in 1..count : q + k = i
        <5>1. i - q \in 1..count /\ q + (i - q) = i
          BY <1>9, <2>2, <2>8, <3>1, <3>3
        <5> QED BY <5>1
      <4>2. cat[q + k] = part[k] /\ part[k] = last[offset + k]
        BY <1>5, <2>4, <2>6, <3>1
      <4>3. offset + k \in 1..m /\ p + (offset + k) = q + k
        BY <1>9, <2>2, <3>1
      <4>4. last[offset + k] = c[p + (offset + k)]
        BY <1>4, <4>3
      <4> QED BY <4>1, <4>2, <4>3, <4>4
    <3> QED BY <3>2, <3>3
  <2>9. PICK v : v = [blocks |-> bs, left |-> left, last |-> last, offset |-> offset + count, bytes |-> cat,
                      want |-> want - count]
    OBVIOUS
  <2>10. ReadSlice(r) = v
    <3>1. ReadSlice(r) = [r EXCEPT !.offset = offset + count, !.want = want - count, !.bytes = cat]
      <4>1. ReadSlice(r) = [r EXCEPT !.offset = r.offset + Least(r.want, Len(r.last) - r.offset),
                                     !.want = r.want - Least(r.want, Len(r.last) - r.offset),
                                     !.bytes = r.bytes \o SubSeq(r.last, r.offset + 1,
                                                 r.offset + Least(r.want, Len(r.last) - r.offset))]
        BY <1>1, <1>2, <1>8 DEF ReadSlice
      <4>2. Least(r.want, Len(r.last) - r.offset) = count
        BY <1>1, <2>1
      <4>3. r.offset = offset /\ r.want = want /\ r.last = last /\ r.bytes = bytes
        BY <1>1, <1>2
      <4> QED BY <2>3, <2>5, <4>1, <4>2, <4>3, Zenon
    <3>2. r = [blocks |-> bs, left |-> left, last |-> last, offset |-> offset, bytes |-> bytes, want |-> want]
      BY <1>1, <1>2 DEF Reading, Rest, IsReader
    <3> QED BY <2>9, <3>1, <3>2
  <2>11. /\ v.blocks = bs /\ v.left = left /\ v.last = last /\ v.offset = offset + count /\ v.bytes = cat
         /\ v.want = want - count /\ IsReader(v)
    BY <2>9 DEF IsReader
  <2>12. Rest(v, c)
    <3>1. IsSeq(c) /\ left <= Len(c) /\ Holds(bs, left, c, Len(c) - left)
      BY <1>1, <1>2 DEF Reading, Rest
    <3> QED BY <1>1, <2>11, <3>1 DEF Rest
  <2>13. Slice(v.last, c, Len(c) - v.left - Len(v.last)) /\ Len(v.last) = m
    BY <1>1, <1>3, <1>4, <2>11
  <2>14. v.want \in Nat /\ v.offset \in 0..m /\ Len(v.bytes) = Len(c) - v.left - Len(v.last) + v.offset
    <3>1. want - count \in Nat /\ offset + count \in 0..m
      BY <1>1, <2>2
    <3> QED BY <1>1, <1>3, <1>4, <2>7, <2>11, <3>1
  <2>15. IsSeq(v.bytes) /\ \A i \in 1..Len(v.bytes) : v.bytes[i] = c[i]
    BY <2>6, <2>7, <2>8, <2>11
  <2>16. v.last # <<>>
    BY <1>8, <2>11
  <2>17. Reading(v, c)
    BY <2>12, <2>13, <2>14, <2>15, <2>16 DEF Reading
  <2> QED BY <2>10, <2>17
<1> QED BY <1>6, <1>7, <1>8

\* read goes on, whatever the size of the buffer.
LEMMA ReadIntoReads ==
  ASSUME NEW r, NEW c, NEW size, size \in Nat, Reading(r, c)
  PROVE  Reading(ReadInto(r, size), c)
<1>1. PICK n \in Nat : n = 2 * size
  OBVIOUS
<1>2. PICK b : b = [r EXCEPT !.want = size]
  OBVIOUS
<1>3. PICK F : Iterates(F, "read", <<>>, b, n) /\ ReadInto(r, size) = F[n]
  BY <1>1, <1>2, ReadLoop
<1>4. Reading(b, c)
  <2>1. PICK bs, left, last, offset, bytes, want :
          /\ bs = r.blocks /\ left = r.left /\ last = r.last /\ offset = r.offset /\ bytes = r.bytes /\ want = r.want
    OBVIOUS
  <2>2. r = [blocks |-> bs, left |-> left, last |-> last, offset |-> offset, bytes |-> bytes, want |-> want]
    BY <2>1 DEF Reading, Rest, IsReader
  <2>3. b = [blocks |-> bs, left |-> left, last |-> last, offset |-> offset, bytes |-> bytes, want |-> size]
    BY <1>2, <2>2
  <2>4. /\ b.blocks = bs /\ b.left = left /\ b.last = last /\ b.offset = offset /\ b.bytes = bytes /\ b.want = size
        /\ IsReader(b)
    BY <2>3 DEF IsReader
  <2>5. IsSeq(c) /\ left \in Nat /\ left <= Len(c) /\ Holds(bs, left, c, Len(c) - left)
    BY <2>1 DEF Reading, Rest
  <2>6. Rest(b, c)
    BY <2>4, <2>5 DEF Rest
  <2>7. /\ Slice(last, c, Len(c) - left - Len(last)) /\ offset \in 0..Len(last)
        /\ IsSeq(bytes) /\ Len(bytes) = Len(c) - left - Len(last) + offset
        /\ \A k \in 1..Len(bytes) : bytes[k] = c[k]
        /\ last = <<>> => left = 0
    BY <2>1, Zenon DEF Reading
  <2> QED BY <2>4, <2>6, <2>7 DEF Reading
<1>5. PICK T : T = {k \in 0..n : Reading(F[k], c)}
  OBVIOUS
<1>6. 0 \in T
  <2>1. F[0] = b
    BY <1>3, Iterates1
  <2> QED BY <1>4, <1>5, <2>1
<1>7. ASSUME NEW k \in 0..n, k \in T, k < n PROVE k + 1 \in T
  <2>1. PICK x : x = F[k]
    OBVIOUS
  <2>2. Reading(x, c)
    BY <1>5, <1>7, <2>1
  <2>3. F[k + 1] = ReadSlice(x)
    <3>1. k \in 0..(n - 1)
      BY <1>7
    <3>2. F[k + 1] = Iteration("read", <<>>, F[k])
      BY <1>3, <3>1, Iterates1
    <3> QED BY <2>1, <3>2 DEF Iteration
  <2>4. Reading(ReadSlice(x), c)
    BY <2>2, ReadStep
  <2>5. k + 1 \in 0..n
    BY <1>7
  <2> QED BY <1>5, <2>3, <2>4, <2>5
<1>8. n \in T
  BY <1>6, <1>7, Upwards
<1> QED BY <1>3, <1>5, <1>8

\* What a reader has read is the beginning of the text, and all of it at the end.
LEMMA ReadingShows ==
  ASSUME NEW r, NEW c, Reading(r, c)
  PROVE  IsPrefix(r.bytes, c) /\ (r.last = <<>> => r.bytes = c)
<1>1. PICK bytes : bytes = r.bytes
  OBVIOUS
<1>2. PICK l \in Nat, n \in Nat : l = Len(c) /\ n = Len(bytes)
  BY <1>1, SeqDomain DEF Reading, Rest
<1>3. IsSeq(bytes) /\ IsSeq(c) /\ \A k \in 1..n : bytes[k] = c[k]
  BY <1>1, <1>2 DEF Reading, Rest
<1>4. n <= l /\ (r.last = <<>> => n = l)
  <2>1. PICK m \in Nat : m = Len(r.last)
    BY SeqDomain DEF Reading, Slice
  <2>2. PICK left \in Nat, offset \in Nat : left = r.left /\ offset = r.offset /\ offset <= m
    <3>1. r.left \in Nat /\ r.offset \in 0..m
      BY <2>1 DEF Reading, Rest
    <3>2. r.offset \in Nat /\ r.offset <= m
      BY <2>1, <3>1
    <3> QED BY <3>1, <3>2
  <2>3. n = l - left - m + offset
    <3>1. Len(r.bytes) = Len(c) - r.left - Len(r.last) + r.offset
      BY DEF Reading
    <3> QED BY <1>1, <1>2, <2>1, <2>2, <3>1
  <2>4. n <= l
    <3>1. l \in Nat /\ m \in Nat /\ left \in Nat /\ offset \in Nat /\ offset <= m
      BY <1>2, <2>1, <2>2
    <3> QED BY <2>3, <3>1
  <2>5. ASSUME r.last = <<>> PROVE n = l
    <3>1. left = 0
      BY <2>2, <2>5 DEF Reading
    <3>2. m = 0
      BY <2>1, <2>5
    <3> QED BY <1>2, <2>2, <2>3, <3>1, <3>2
  <2> QED BY <2>4, <2>5
<1>5. PICK s, t : s = SubSeq(bytes, 1, n) /\ t = SubSeq(c, 1, n)
  OBVIOUS
<1>6. s = t
  <2>1. 1 \in Nat \ {0} /\ n \in Nat /\ n <= Len(bytes) /\ n <= Len(c) /\ 1 <= n + 1 /\ n + 1 - 1 = n
    BY <1>2, <1>4
  <2>2. /\ IsSeq(SubSeq(bytes, 1, n)) /\ Len(SubSeq(bytes, 1, n)) = n + 1 - 1
        /\ \A k \in 1..(n + 1 - 1) : SubSeq(bytes, 1, n)[k] = bytes[1 + k - 1]
    BY <1>3, <2>1, PartIs
  <2>3. /\ IsSeq(SubSeq(c, 1, n)) /\ Len(SubSeq(c, 1, n)) = n + 1 - 1
        /\ \A k \in 1..(n + 1 - 1) : SubSeq(c, 1, n)[k] = c[1 + k - 1]
    BY <1>3, <2>1, PartIs
  <2>4. \A k \in 1..n : 1 + k - 1 = k
    BY <2>1
  <2>5. IsSeq(s) /\ IsSeq(t) /\ Len(s) = n /\ Len(t) = n
    BY <1>5, <2>1, <2>2, <2>3
  <2>6. \A k \in 1..n : s[k] = t[k]
    BY <1>3, <1>5, <2>1, <2>2, <2>3, <2>4
  <2> QED BY <2>5, <2>6, SeqsEqual
<1>7. IsPrefix(bytes, c)
  BY <1>2, <1>4, <1>5, <1>6 DEF IsPrefix
<1>8. r.last = <<>> => bytes = c
  BY <1>2, <1>3, <1>4, SeqsEqual
<1> QED BY <1>1, <1>7, <1>8

-------------------------------------------------------------------------------
(* The filter and the child                                                *)

\* A stream that holds what copy writes of it.
Whole(s) == IsStream(s, Copied(s))

\* write_data adds to what copy writes.
LEMMA WriteWhole ==
  ASSUME NEW s, NEW bytes, Whole(s), IsSeq(bytes)
  PROVE  Whole(WriteData(s, bytes)) /\ Copied(WriteData(s, bytes)) = Copied(s) \o bytes
<1>1. PICK c, d, w : c = Copied(s) /\ d = c \o bytes /\ w = WriteData(s, bytes)
  OBVIOUS
<1>2. IsStream(s, c)
  BY <1>1 DEF Whole
<1>3. IsStream(w, d)
  BY <1>1, <1>2, Written
<1>4. Copied(w) = d
  BY <1>3, CopiedIs
<1> QED BY <1>1, <1>3, <1>4 DEF Whole

\* A new stream, too.
LEMMA EmptyWhole == Whole(EmptyStream) /\ Copied(EmptyStream) = <<>>
<1>1. Copied(EmptyStream) = <<>>
  BY EmptyIsStream, CopiedIs
<1> QED BY <1>1, EmptyIsStream DEF Whole

\* The writer and its reader.
StreamOK(s, r, res) == Whole(s) /\ (res = "Ok" => Reading(r, Copied(s)))

\* Where the pointers are, and what is put into the text again.
Placed ==
  /\ input \in Inputs /\ IsSeq(text)
  /\ copy \in Nat /\ pos \in Nat /\ end \in Nat
  /\ copy <= pos /\ pos <= end /\ end <= Len(text)
Sequences ==
  IsSeq(token) /\ IsSeq(number) /\ IsSeq(raw) /\ IsSeq(outPipe)

IndInv == Placed /\ Sequences /\ StreamOK(out, back, result)

\* A call that writes nothing, and has not returned Ok now.
LEMMA StreamStays ==
  ASSUME NEW s, NEW r, NEW res, NEW new, StreamOK(s, r, res), new = res \/ new # "Ok"
  PROVE  StreamOK(s, r, new)
BY DEF StreamOK

\* What is written of the text, from the pointer copy on.
LEMMA PartOfText ==
  ASSUME NEW t, NEW m, NEW n, IsSeq(t), m \in Nat, n \in Nat, m <= n, n <= Len(t)
  PROVE  IsSeq(SubSeq(t, m + 1, n))
<1>1. PICK a : a = m + 1
  OBVIOUS
<1>2. a \in Nat \ {0} /\ a <= n + 1
  BY <1>1
<1>3. IsSeq(SubSeq(t, a, n))
  BY <1>2, PartIs
<1> QED BY <1>1, <1>3

\* flush writes a part of the text, or nothing.
LEMMA FlushWhole ==
  ASSUME Placed, Whole(out), NEW to, to \in Nat, copy <= to, to <= Len(text)
  PROVE  Whole(Flushed(to))
<1>1. IsSeq(SubSeq(text, copy + 1, to))
  BY PartOfText DEF Placed
<1>2. Whole(WriteData(out, SubSeq(text, copy + 1, to)))
  BY <1>1, WriteWhole
<1> QED BY <1>2 DEF Flushed

\* Sequences of two and more.
LEMMA TupleSeq ==
  ASSUME NEW a, NEW b
  PROVE  IsSeq(<<a, b>>)
<1>1. PICK S : S = {a, b}
  OBVIOUS
<1>2. <<a, b>> \in Seq(S)
  BY <1>1
<1> QED BY <1>2, SeqIsSeq

\* hdrstop and the beginning of a line directive.
LEMMA MarksAreSeq == IsSeq(Hdrstop) /\ IsSeq(<<"#", "li", "ne", " ">>) /\ IsSeq(<<" ">>)
<1>1. PICK S : S = {"#", "pra", "gma", " ", "hdr", "stop", "li", "ne"}
  OBVIOUS
<1>2. PICK a, b, d, e, f, g : a = "#" /\ b = "pra" /\ d = "gma" /\ e = " " /\ f = "hdr" /\ g = "stop"
  OBVIOUS
<1>3. a \in S /\ b \in S /\ d \in S /\ e \in S /\ f \in S /\ g \in S
  BY <1>1, <1>2
<1>4. <<a, b, d, e, f, g>> \in Seq(S)
  BY <1>3
<1>5. IsSeq(Hdrstop)
  BY <1>2, <1>4, SeqIsSeq DEF Hdrstop
<1>6. PICK m, n : m = "li" /\ n = "ne"
  OBVIOUS
<1>7. m \in S /\ n \in S
  BY <1>1, <1>6
<1>8. <<a, m, n, e>> \in Seq(S) /\ <<e>> \in Seq(S)
  BY <1>3, <1>7
<1>9. IsSeq(<<a, m, n, e>>) /\ IsSeq(<<e>>)
  BY <1>8, SeqIsSeq
<1> QED BY <1>2, <1>5, <1>6, <1>9

\* Two sequences make one.
LEMMA CatIsSeq ==
  ASSUME NEW s, NEW t, IsSeq(s), IsSeq(t)
  PROVE  IsSeq(s \o t)
BY CatSeq

\* Appending makes one.
LEMMA AppendIsSeq ==
  ASSUME NEW s, NEW e, IsSeq(s)
  PROVE  IsSeq(Append(s, e))
BY AppendIsCat, CatIsSeq, OneSeq

\* The mark of the headers' end is a sequence.
LEMMA MarkIsSeq ==
  ASSUME Sequences, NEW eol, IsSeq(eol)
  PROVE  IsSeq(Hdrstop \o eol \o <<"#", "li", "ne", " ">> \o number \o <<" ">> \o raw \o eol)
<1>1. PICK a, b, d : a = Hdrstop /\ b = <<"#", "li", "ne", " ">> /\ d = <<" ">>
  OBVIOUS
<1>2. IsSeq(a) /\ IsSeq(b) /\ IsSeq(d) /\ IsSeq(number) /\ IsSeq(raw)
  BY <1>1, MarksAreSeq DEF Sequences
<1>3. IsSeq(a \o eol)
  BY <1>2, CatIsSeq
<1>4. IsSeq(a \o eol \o b)
  BY <1>2, <1>3, CatIsSeq
<1>5. IsSeq(a \o eol \o b \o number)
  BY <1>2, <1>4, CatIsSeq
<1>6. IsSeq(a \o eol \o b \o number \o d)
  BY <1>2, <1>5, CatIsSeq
<1>7. IsSeq(a \o eol \o b \o number \o d \o raw)
  BY <1>2, <1>6, CatIsSeq
<1>8. IsSeq(a \o eol \o b \o number \o d \o raw \o eol)
  BY <1>7, CatIsSeq
<1> QED BY <1>1, <1>8

-------------------------------------------------------------------------------
(* Steps                                                                   *)

\* The pointers and the text when only the place of reading moves.
LEMMA PlacedStays ==
  ASSUME Placed, input' = input, text' = text, copy' = copy, end' = end,
         pos' = pos \/ (pos' = pos + 1 /\ pos < end)
  PROVE  Placed'
BY DEF Placed

\* What a call is in does not matter to what it has written.
LEMMA OutStays ==
  ASSUME StreamOK(out, back, result), out' = out, back' = back,
         result' = result \/ result' # "Ok"
  PROVE  StreamOK(out, back, result)'
<1>1. StreamOK(out, back, result')
  BY StreamStays
<1> QED BY <1>1 DEF StreamOK

\* What was written more, before a call returns.
LEMMA OutGrows ==
  ASSUME Whole(out)', result' # "Ok"
  PROVE  StreamOK(out, back, result)'
BY DEF StreamOK

\* What was written more, and is read.
LEMMA OutIsRead ==
  ASSUME NEW s, NEW r, NEW res, Whole(s), r = Reader(s)
  PROVE  StreamOK(s, r, res)
<1>1. Reading(r, Copied(s))
  BY ReaderReads DEF Whole
<1> QED BY <1>1 DEF StreamOK

\* The functions that move through the buffer.
LEMMA ScanSteps ==
  ASSUME IndInv, UNCHANGED child,
         \/ ParseBom \/ ParseLine \/ NextLine \/ ParseSpaces \/ ParseToken \/ TokenEnds
         \/ ParseQuote \/ ParsePath \/ ParseEscape
  PROVE  IndInv'
<1>1. Placed /\ Sequences /\ StreamOK(out, back, result) /\ outPipe' = outPipe
  BY DEF IndInv, child
<1>2. IsSeq(token) /\ IsSeq(number) /\ IsSeq(raw) /\ IsSeq(outPipe)
  BY <1>1, Zenon DEF Sequences
<1>3. IsSeq(Append(token, Byte)) /\ IsSeq(Append(raw, Byte)) /\ IsSeq(<<Byte>>) /\ IsSeq(<<>>)
      /\ IsSeq(raw \o <<"\\", "\\">>)
  <2>1. IsSeq(<<"\\", "\\">>)
    BY TupleSeq
  <2> QED BY <1>2, <2>1, AppendIsSeq, OneSeq, EmptyIsSeq, CatIsSeq
<1>4. CASE ParseBom
  <2>1. /\ input' = input /\ text' = text /\ copy' = copy /\ end' = end
        /\ pos' = pos \/ (pos' = pos + 1 /\ pos < end)
        /\ token' = token /\ number' = number /\ raw' = raw
        /\ out' = out /\ back' = back /\ result' = result
    BY <1>4 DEF ParseBom, At, directive, scanner
  <2> QED BY <1>1, <1>2, <2>1, PlacedStays, OutStays DEF IndInv, Sequences
<1>5. CASE ParseLine
  <2>1. /\ input' = input /\ text' = text /\ copy' = copy /\ end' = end
        /\ pos' = pos \/ (pos' = pos + 1 /\ pos < end)
        /\ token' = token /\ number' = number /\ raw' = raw
        /\ out' = out /\ back' = back /\ result' = result
    BY <1>5 DEF ParseLine, At, scanner
  <2> QED BY <1>1, <1>2, <2>1, PlacedStays, OutStays DEF IndInv, Sequences
<1>6. CASE NextLine
  <2>1. /\ input' = input /\ text' = text /\ copy' = copy /\ end' = end
        /\ pos' = pos \/ (pos' = pos + 1 /\ pos < end)
        /\ token' = token /\ number' = number /\ raw' = raw
        /\ out' = out /\ back' = back /\ result' = result
    BY <1>6 DEF NextLine, At, directive, scanner
  <2> QED BY <1>1, <1>2, <2>1, PlacedStays, OutStays DEF IndInv, Sequences
<1>7. CASE ParseSpaces
  <2>1. /\ input' = input /\ text' = text /\ copy' = copy /\ end' = end
        /\ pos' = pos \/ (pos' = pos + 1 /\ pos < end)
        /\ token' = token \/ token' = <<>>
        /\ number' = number /\ raw' = raw
        /\ out' = out /\ back' = back /\ result' = result
    BY <1>7 DEF ParseSpaces, At, scanner
  <2> QED BY <1>1, <1>2, <1>3, <2>1, PlacedStays, OutStays DEF IndInv, Sequences
<1>8. CASE ParseToken
  <2>1. /\ input' = input /\ text' = text /\ copy' = copy /\ end' = end
        /\ pos' = pos \/ (pos' = pos + 1 /\ pos < end)
        /\ token' = token \/ token' = Append(token, Byte)
        /\ number' = number /\ raw' = raw
        /\ out' = out /\ back' = back /\ (result' = result \/ result' # "Ok")
    BY <1>8 DEF ParseToken, At
  <2>2. Placed'
    BY <1>1, <2>1, PlacedStays
  <2>3. StreamOK(out, back, result)'
    BY <1>1, <2>1, OutStays
  <2>4. Sequences'
    BY <1>1, <1>2, <1>3, <2>1 DEF Sequences
  <2> QED BY <2>2, <2>3, <2>4 DEF IndInv
<1>9. CASE TokenEnds
  <2>1. /\ input' = input /\ text' = text /\ copy' = copy /\ end' = end
        /\ pos' = pos \/ (pos' = pos + 1 /\ pos < end)
        /\ token' = token /\ number' \in {token, number} /\ raw' = raw
        /\ out' = out /\ back' = back /\ result' = result
    BY <1>9 DEF TokenEnds, At, scanner
  <2> QED BY <1>1, <1>2, <2>1, PlacedStays, OutStays DEF IndInv, Sequences
<1>10. CASE ParseQuote
  <2>1. /\ input' = input /\ text' = text /\ copy' = copy /\ end' = end
        /\ pos' = pos \/ (pos' = pos + 1 /\ pos < end)
        /\ token' = token /\ number' = number /\ raw' = <<Byte>>
        /\ out' = out /\ back' = back /\ result' = result
    BY <1>10 DEF ParseQuote, At, scanner
  <2> QED BY <1>1, <1>2, <1>3, <2>1, PlacedStays, OutStays DEF IndInv, Sequences
<1>11. CASE ParsePath
  <2>1. /\ input' = input /\ text' = text /\ copy' = copy /\ end' = end
        /\ pos' = pos \/ (pos' = pos + 1 /\ pos < end)
        /\ token' = token /\ number' = number
        /\ raw' = raw \/ raw' = Append(raw, Byte) \/ raw' = raw \o <<"\\", "\\">>
        /\ out' = out /\ back' = back /\ (result' = result \/ result' # "Ok")
    BY <1>11 DEF ParsePath, At
  <2>2. Placed'
    BY <1>1, <2>1, PlacedStays
  <2>3. StreamOK(out, back, result)'
    BY <1>1, <2>1, OutStays
  <2>4. Sequences'
    BY <1>1, <1>2, <1>3, <2>1 DEF Sequences
  <2> QED BY <2>2, <2>3, <2>4 DEF IndInv
<1>12. CASE ParseEscape
  <2>1. /\ input' = input /\ text' = text /\ copy' = copy /\ end' = end
        /\ pos' = pos \/ (pos' = pos + 1 /\ pos < end)
        /\ token' = token /\ number' = number /\ raw' = raw
        /\ out' = out /\ back' = back /\ (result' = result \/ result' # "Ok")
    BY <1>12 DEF ParseEscape, At
  <2>2. Placed'
    BY <1>1, <2>1, PlacedStays
  <2>3. StreamOK(out, back, result)'
    BY <1>1, <2>1, OutStays
  <2>4. Sequences'
    BY <1>1, <1>2, <1>3, <2>1 DEF Sequences
  <2> QED BY <2>2, <2>3, <2>4 DEF IndInv
<1> QED BY <1>4, <1>5, <1>6, <1>7, <1>8, <1>9, <1>10, <1>11, <1>12

\* A line directive, with what it writes.
LEMMA LineSteps ==
  ASSUME IndInv, NEW eol, IsSeq(eol), NEW to, to \in Nat, pos <= to, to <= end, result = "run",
         UNCHANGED <<input, text, end, token, number, raw, result, back, outPipe>>,
         LineDirective(eol, to)
  PROVE  IndInv'
<1>1. Placed /\ Sequences /\ Whole(out)
  BY DEF IndInv, StreamOK
<1>2. PICK mark : mark = Hdrstop \o eol \o <<"#", "li", "ne", " ">> \o number \o <<" ">> \o raw \o eol
  OBVIOUS
<1>3. pos' = to /\ ((out' = out /\ copy' = copy) \/ (out' = WriteData(Flushed(to), mark) /\ copy' = to))
  BY <1>2 DEF LineDirective
<1>4. copy <= to /\ to <= Len(text)
  <2>1. Len(text) \in Nat
    BY <1>1, SeqDomain DEF Placed
  <2> QED BY <1>1, <2>1 DEF Placed
<1>5. Whole(WriteData(Flushed(to), mark))
  BY <1>1, <1>2, <1>4, FlushWhole, MarkIsSeq, WriteWhole
<1>6. Whole(out)'
  BY <1>1, <1>3, <1>5
<1>7. StreamOK(out, back, result)'
  BY <1>6, OutGrows
<1>8. Placed'
  BY <1>1, <1>3, <1>4 DEF Placed
<1>9. Sequences'
  BY <1>1 DEF Sequences
<1> QED BY <1>7, <1>8, <1>9 DEF IndInv

\* Line ends, as they are written.
LEMMA EolsAreSeq == IsSeq(<<"\r", "\n">>) /\ IsSeq(<<"\n">>) /\ IsSeq(<<>>)
BY TupleSeq, OneSeq, EmptyIsSeq

\* The functions that write.
LEMMA WriteSteps ==
  ASSUME IndInv, UNCHANGED child, Refill \/ PragmaEnds \/ NextLineEol \/ LineCut \/ TextEnds \/ CopyToEnd
  PROVE  IndInv'
<1>1. Placed /\ Sequences /\ Whole(out) /\ StreamOK(out, back, result)
  BY DEF IndInv, StreamOK
<1>2. PICK l \in Nat : l = Len(text)
  BY <1>1, SeqDomain DEF Placed
<1>3. outPipe' = outPipe
  BY DEF child
<1>4. /\ input \in Inputs /\ IsSeq(text) /\ copy \in Nat /\ pos \in Nat /\ end \in Nat
      /\ copy <= pos /\ pos <= end /\ end <= l
  BY <1>1, <1>2 DEF Placed
<1>5. pos \in Nat /\ copy <= pos /\ pos <= Len(text) /\ copy <= end /\ end <= Len(text)
  BY <1>2, <1>4
<1>6. Whole(Flushed(pos))
  BY <1>1, <1>5, FlushWhole
<1>7. PICK more \in Nat : more = Least(end + input.buf, l) /\ end <= more /\ more <= l
  <2>1. input.buf \in Nat
    BY <1>4, InputsTyped
  <2>2. end + input.buf \in Nat /\ end <= end + input.buf
    BY <1>4, <2>1
  <2>3. /\ Least(end + input.buf, l) \in Nat /\ Least(end + input.buf, l) <= l
        /\ Least(end + input.buf, l) = end + input.buf \/ Least(end + input.buf, l) = l
    BY <2>2, LeastIs
  <2> QED BY <1>4, <2>2, <2>3
<1>8. CASE Refill
  <2>1. /\ out' = Flushed(pos) /\ end' = more /\ copy' = pos /\ result = "run"
        /\ UNCHANGED <<input, text, pos, token, number, raw, result, back>>
    BY <1>2, <1>7, <1>8 DEF Refill, directive
  <2>2. StreamOK(out, back, result)'
    BY <1>6, <2>1, OutGrows
  <2>3. Placed'
    BY <1>2, <1>4, <1>7, <2>1 DEF Placed
  <2>4. Sequences'
    BY <1>1, <1>3, <2>1 DEF Sequences
  <2> QED BY <2>2, <2>3, <2>4 DEF IndInv
<1>9. CASE PragmaEnds
  <2>1. /\ result = "run" /\ UNCHANGED <<input, text, pos, end, token, number, raw, result, back>>
        /\ (out' = out /\ copy' = copy) \/ (out' = WriteData(Flushed(pos), Hdrstop) /\ copy' = pos)
    BY <1>9 DEF PragmaEnds, At, directive
  <2>2. Whole(out)'
    BY <1>1, <1>6, <2>1, MarksAreSeq, WriteWhole
  <2>3. StreamOK(out, back, result)'
    BY <2>1, <2>2, OutGrows
  <2>4. Placed'
    BY <1>2, <1>4, <2>1 DEF Placed
  <2>5. Sequences'
    BY <1>1, <1>3, <2>1 DEF Sequences
  <2> QED BY <2>3, <2>4, <2>5 DEF IndInv
<1>10. CASE NextLineEol
  <2>1. result = "run" /\ pos < end /\ UNCHANGED <<input, text, end, token, number, raw, result, back>>
    BY <1>10 DEF NextLineEol, At, directive
  <2>2. CASE Byte = "\n"
    <3>1. PICK eol : eol = IF text[pos] = "\r" THEN <<"\r", "\n">> ELSE <<"\n">>
      OBVIOUS
    <3>2. IsSeq(eol)
      BY <3>1, EolsAreSeq
    <3>3. LineDirective(eol, pos + 1)
      BY <1>10, <2>2, <3>1 DEF NextLineEol
    <3>4. pos + 1 \in Nat /\ pos <= pos + 1 /\ pos + 1 <= end
      BY <1>4, <2>1
    <3> QED BY <1>3, <2>1, <3>2, <3>3, <3>4, LineSteps
  <2>3. CASE Byte # "\n"
    <3>1. pos' = pos + 1 /\ copy' = copy /\ out' = out
      BY <1>10, <2>3 DEF NextLineEol
    <3>2. StreamOK(out, back, result)'
      BY <1>1, <2>1, <3>1, OutStays
    <3>3. Placed'
      BY <1>1, <2>1, <3>1, PlacedStays
    <3>4. Sequences'
      BY <1>1, <1>3, <2>1 DEF Sequences
    <3> QED BY <3>2, <3>3, <3>4 DEF IndInv
  <2> QED BY <2>2, <2>3
<1>11. CASE LineCut
  <2>1. /\ result = "run" /\ LineDirective(<<>>, pos)
        /\ UNCHANGED <<input, text, end, token, number, raw, result, back>>
    BY <1>11 DEF LineCut, directive
  <2> QED BY <1>3, <1>4, <2>1, EolsAreSeq, LineSteps
<1>12. CASE TextEnds
  <2>1. /\ out' = Flushed(pos) /\ copy' = pos /\ result' # "Ok"
        /\ UNCHANGED <<input, text, pos, end, token, number, raw, back>>
    BY <1>12 DEF TextEnds, directive
  <2>2. StreamOK(out, back, result)'
    BY <1>6, <2>1, OutGrows
  <2>3. Placed'
    BY <1>2, <1>4, <2>1 DEF Placed
  <2>4. Sequences'
    BY <1>1, <1>3, <2>1 DEF Sequences
  <2> QED BY <2>2, <2>3, <2>4 DEF IndInv
<1>13. CASE CopyToEnd
  <2>1. /\ out' = WriteData(out, SubSeq(text, copy + 1, end))
        /\ copy' = end /\ pos' = end /\ end' = more /\ result = "run"
        /\ (result' = "Ok" /\ back' = Reader(out')) \/ (result' = result /\ back' = back)
        /\ UNCHANGED <<input, text, token, number, raw>>
    BY <1>2, <1>7, <1>13 DEF CopyToEnd, directive
  <2>2. IsSeq(SubSeq(text, copy + 1, end))
    BY <1>4, <1>5, PartOfText
  <2>3. Whole(out)'
    BY <1>1, <2>1, <2>2, WriteWhole
  <2>4. StreamOK(out, back, result)'
    <3>1. CASE result' = "Ok" /\ back' = Reader(out')
      BY <2>3, <3>1, OutIsRead
    <3>2. CASE result' = result
      BY <2>1, <2>3, <3>2, OutGrows
    <3> QED BY <2>1, <3>1, <3>2
  <2>5. Placed'
    BY <1>2, <1>4, <1>7, <2>1 DEF Placed
  <2>6. Sequences'
    BY <1>1, <1>3, <2>1 DEF Sequences
  <2> QED BY <2>4, <2>5, <2>6 DEF IndInv
<1> QED BY <1>8, <1>9, <1>10, <1>11, <1>12, <1>13

\* The first state.
LEMMA InitHolds == Init => IndInv
<1> SUFFICES ASSUME Init PROVE IndInv
  OBVIOUS
<1>1. /\ input \in Inputs /\ text = TextOf(input) /\ pos = 0 /\ copy = 0 /\ end = 0
      /\ token = <<>> /\ number = <<>> /\ raw = <<>> /\ outPipe = <<>>
      /\ out = EmptyStream /\ result = "run"
  BY DEF Init, FilterInit
<1>2. IsSeq(text)
  BY <1>1, InputsTyped DEF IsSeq
<1>3. Len(text) \in Nat
  BY <1>2, SeqDomain
<1>4. Placed
  BY <1>1, <1>2, <1>3 DEF Placed
<1>5. Sequences
  BY <1>1, EmptyIsSeq DEF Sequences
<1>6. StreamOK(out, back, result)
  BY <1>1, EmptyWhole DEF StreamOK
<1> QED BY <1>4, <1>5, <1>6 DEF IndInv

\* The steps of the preprocessor's caller and of its child.
LEMMA CallSteps ==
  ASSUME IndInv,
         \/ VsPreprocess \/ Spawn \/ ChildWrites \/ ChildExits \/ ReadStdout \/ StdoutEnds
         \/ StdoutFails \/ StderrFails \/ WaitFails \/ ReadStderr \/ Wait \/ Receive
  PROVE  IndInv'
<1>1. Placed /\ Sequences /\ Whole(out) /\ StreamOK(out, back, result)
  BY DEF IndInv, StreamOK
<1>2. IsSeq(token) /\ IsSeq(number) /\ IsSeq(raw) /\ IsSeq(outPipe) /\ IsSeq(text)
  BY <1>1, Zenon DEF Sequences, Placed
<1>3. CASE VsPreprocess
  <2>1. /\ UNCHANGED <<input, text, pos, copy, end, token, number, raw, outPipe>>
        /\ \/ out' = out /\ back' = back /\ (result' = result \/ result' # "Ok")
           \/ out' = WriteData(out, text) /\ back' = Reader(out')
    BY <1>3 DEF VsPreprocess, directive, child
  <2>2. StreamOK(out, back, result)'
    <3>1. CASE out' = out /\ back' = back /\ (result' = result \/ result' # "Ok")
      BY <1>1, <3>1, OutStays
    <3>2. CASE out' = WriteData(out, text) /\ back' = Reader(out')
      <4>1. Whole(out)'
        BY <1>1, <1>2, <3>2, WriteWhole
      <4> QED BY <3>2, <4>1, OutIsRead
    <3> QED BY <2>1, <3>1, <3>2
  <2> QED BY <1>1, <2>1, <2>2 DEF IndInv, Placed, Sequences
<1>4. CASE Spawn
  <2>1. /\ UNCHANGED <<input, text, pos, copy, end, token, number, raw, outPipe, out, back>>
        /\ result' = result \/ result' # "Ok"
    BY <1>4 DEF Spawn, directive
  <2>2. StreamOK(out, back, result)'
    BY <1>1, <2>1, OutStays
  <2> QED BY <1>1, <2>1, <2>2 DEF IndInv, Placed, Sequences
<1>5. CASE ChildWrites
  <2>1. /\ UNCHANGED <<input, text, pos, copy, end, token, number, raw, out, back, result>>
        /\ outPipe' = outPipe \/ outPipe' = Append(outPipe, text[wrote + 1])
    BY <1>5 DEF ChildWrites, filter, scanner, directive
  <2>2. IsSeq(Append(outPipe, text[wrote + 1]))
    BY <1>2, AppendIsSeq
  <2>3. StreamOK(out, back, result)'
    BY <1>1, <2>1, OutStays
  <2> QED BY <1>1, <2>1, <2>2, <2>3 DEF IndInv, Placed, Sequences
<1>6. CASE ReadStdout
  <2>1. UNCHANGED <<input, text, pos, copy, end, token, number, raw, back, result>> /\ result = "run"
    BY <1>6 DEF ReadStdout, directive
  <2>2. PICK n : /\ n \in 1..Len(outPipe)
                 /\ out' = WriteData(out, SubSeq(outPipe, 1, n)) /\ outPipe' = SubSeq(outPipe, n + 1, Len(outPipe))
    BY <1>6 DEF ReadStdout, Drop
  <2>3. PICK l \in Nat : l = Len(outPipe)
    BY <1>2, SeqDomain
  <2>4. n \in Nat /\ n <= l /\ 0 \in Nat /\ 0 <= n
    BY <2>2, <2>3
  <2>5. IsSeq(SubSeq(outPipe, 0 + 1, n)) /\ IsSeq(SubSeq(outPipe, n + 1, l))
    <3>1. IsSeq(outPipe) /\ l <= Len(outPipe) /\ n <= Len(outPipe)
      BY <1>2, <2>3, <2>4
    <3>2. IsSeq(SubSeq(outPipe, n + 1, l))
      BY <2>4, <3>1, PartOfText
    <3>3. IsSeq(SubSeq(outPipe, 0 + 1, n))
      BY <2>4, <3>1, PartOfText
    <3> QED BY <3>2, <3>3
  <2>6. IsSeq(SubSeq(outPipe, 1, n)) /\ IsSeq(outPipe')
    BY <2>2, <2>3, <2>5
  <2>7. Whole(out)'
    BY <1>1, <2>2, <2>6, WriteWhole
  <2>8. StreamOK(out, back, result)'
    BY <2>1, <2>7, OutGrows
  <2>9. Placed'
    BY <1>1, <2>1 DEF Placed
  <2>10. Sequences'
    BY <1>2, <2>1, <2>6 DEF Sequences
  <2> QED BY <2>8, <2>9, <2>10 DEF IndInv
<1>7. CASE StdoutFails
  <2>1. /\ UNCHANGED <<input, text, pos, copy, end, token, number, raw, back, result>> /\ result = "run"
        /\ out' = EmptyStream /\ outPipe' = <<>>
    BY <1>7 DEF StdoutFails, directive
  <2>2. Whole(out)' /\ IsSeq(outPipe)'
    BY <2>1, EmptyWhole, EmptyIsSeq
  <2>3. StreamOK(out, back, result)'
    BY <2>1, <2>2, OutGrows
  <2> QED BY <1>1, <2>1, <2>2, <2>3 DEF IndInv, Placed, Sequences
<1>8. CASE Receive
  <2>1. /\ UNCHANGED <<input, text, pos, copy, end, token, number, raw, out, outPipe>>
        /\ (result' = "Ok" /\ back' = Reader(out)) \/ (result' # "Ok" /\ back' = back)
    BY <1>8 DEF Receive, directive, child
  <2>2. StreamOK(out, back, result)'
    <3>1. CASE result' = "Ok" /\ back' = Reader(out)
      <4>1. Whole(out)' /\ back' = Reader(out')
        BY <1>1, <2>1, <3>1
      <4> QED BY <4>1, OutIsRead
    <3>2. CASE result' # "Ok" /\ back' = back
      BY <1>1, <2>1, <3>2, OutStays
    <3> QED BY <2>1, <3>1, <3>2
  <2> QED BY <1>1, <2>1, <2>2 DEF IndInv, Placed, Sequences
<1>9. CASE ChildExits \/ StdoutEnds \/ ReadStderr \/ StderrFails \/ Wait
  <2>1. UNCHANGED <<input, text, pos, copy, end, token, number, raw, out, back, result, outPipe>>
    BY <1>9 DEF ChildExits, StdoutEnds, ReadStderr, StderrFails, Wait, filter, scanner, directive, child
  <2>2. StreamOK(out, back, result)'
    BY <1>1, <2>1, OutStays
  <2> QED BY <1>1, <2>1, <2>2 DEF IndInv, Placed, Sequences
<1>10. CASE WaitFails
  <2>1. /\ UNCHANGED <<input, text, pos, copy, end, token, number, raw, out, back, outPipe>>
        /\ result' = "Err"
    BY <1>10 DEF WaitFails, directive, child
  <2>2. StreamOK(out, back, result)'
    BY <1>1, <2>1, OutStays
  <2> QED BY <1>1, <2>1, <2>2 DEF IndInv, Placed, Sequences
<1> QED BY <1>3, <1>4, <1>5, <1>6, <1>7, <1>8, <1>9, <1>10

\* Reading what was written.
LEMMA ReadSteps ==
  ASSUME IndInv, UNCHANGED child, ReadBack \/ FilterReturned
  PROVE  IndInv'
<1>1. Placed /\ Sequences /\ StreamOK(out, back, result) /\ outPipe' = outPipe
  BY DEF IndInv, child
<1>2. CASE ReadBack
  <2>1. /\ UNCHANGED <<input, text, pos, copy, end, token, number, raw, out, result>>
        /\ result = "Ok" /\ back' = ReadInto(back, input.buf)
    BY <1>2 DEF ReadBack, scanner, directive
  <2>2. input.buf \in Nat
    BY <1>1, InputsTyped DEF Placed
  <2>3. Reading(back, Copied(out)) /\ Whole(out)
    BY <1>1, <2>1 DEF StreamOK
  <2>4. Reading(ReadInto(back, input.buf), Copied(out))
    BY <2>2, <2>3, ReadIntoReads
  <2>5. StreamOK(out, back, result)'
    BY <2>1, <2>3, <2>4 DEF StreamOK
  <2> QED BY <1>1, <2>1, <2>5 DEF IndInv, Placed, Sequences
<1>3. CASE FilterReturned
  <2>1. UNCHANGED <<input, text, pos, copy, end, token, number, raw, out, back, result>>
    BY <1>3 DEF FilterReturned, filter, scanner, directive
  <2>2. StreamOK(out, back, result)'
    BY <1>1, <2>1, OutStays
  <2> QED BY <1>1, <2>1, <2>2 DEF IndInv, Placed, Sequences
<1> QED BY <1>2, <1>3

\* Every step keeps the invariant.
LEMMA NextHolds == IndInv /\ [Next]_vars => IndInv'
<1> SUFFICES ASSUME IndInv, [Next]_vars PROVE IndInv'
  OBVIOUS
<1>1. CASE \/ VsPreprocess \/ Spawn \/ ChildWrites \/ ChildExits \/ ReadStdout \/ StdoutEnds
           \/ StdoutFails \/ StderrFails \/ WaitFails \/ ReadStderr \/ Wait \/ Receive
  BY <1>1, CallSteps
<1>2. CASE FilterNext /\ UNCHANGED child
  <2>1. CASE \/ ParseBom \/ ParseLine \/ NextLine \/ ParseSpaces \/ ParseToken \/ TokenEnds
             \/ ParseQuote \/ ParsePath \/ ParseEscape
    BY <1>2, <2>1, ScanSteps
  <2>2. CASE Refill \/ PragmaEnds \/ NextLineEol \/ LineCut \/ TextEnds \/ CopyToEnd
    BY <1>2, <2>2, WriteSteps
  <2>3. CASE ReadBack \/ FilterReturned
    BY <1>2, <2>3, ReadSteps
  <2> QED BY <1>2, <2>1, <2>2, <2>3 DEF FilterNext
<1>3. CASE UNCHANGED vars
  <2>1. UNCHANGED <<input, text, pos, copy, end, token, number, raw, out, back, result, outPipe>>
    BY <1>3 DEF vars, filter, scanner, directive, child
  <2>2. StreamOK(out, back, result)'
    BY <2>1, OutStays DEF IndInv
  <2> QED BY <2>1, <2>2 DEF IndInv, Placed, Sequences
<1> QED BY <1>1, <1>2, <1>3 DEF Next, Execute, Faults

\* The stream holds what copy writes of it and the reader has read the
\* beginning of that, whatever was written in which pieces.
THEOREM StreamInvariant == Spec => []IndInv
BY InitHolds, NextHolds, PTL DEF Spec

\* A reader of a MemStream gets exactly what copy writes, for every size of the
\* blocks, of the pieces that were written and of the reader's buffer.
THEOREM ReadsWhatWasWrittenAlways == Spec => []ReadsWhatWasWritten
<1>1. IndInv => ReadsWhatWasWritten
  <2> SUFFICES ASSUME IndInv, result = "Ok"
               PROVE  IsPrefix(back.bytes, Copied(out)) /\ (back.last = <<>> => back.bytes = Copied(out))
    BY DEF ReadsWhatWasWritten
  <2>1. Reading(back, Copied(out))
    BY DEF IndInv, StreamOK
  <2> QED BY <2>1, ReadingShows
<1> QED BY <1>1, StreamInvariant, PTL

-------------------------------------------------------------------------------
(* Texts that are not filtered                                             *)

\* Of the first p bytes a child writes, those that are text.
Texts(s, p) == {k \in 1..p : s[k] = "out"}

\* What a child has still to write, and how much of its text it has written.
Scripted(s, n, whole) ==
  \E p \in Nat : /\ IsSeq(s) /\ p + Len(s) = Len(whole) /\ \A k \in 1..Len(s) : s[k] = whole[p + k]
                 /\ n = Cardinality(Texts(whole, p))

\* What was read, and then what is in the pipe, is the text as far as it was written.
Flows(c, pipe, n, t) ==
  /\ IsSeq(c) /\ IsSeq(pipe) /\ n = Len(c) + Len(pipe)
  /\ \A k \in 1..Len(c) : c[k] = t[k]
  /\ \A k \in 1..Len(pipe) : pipe[k] = t[Len(c) + k]

\* A call that has not begun, or has failed to.
NotBegun ==
  /\ st = "run" /\ result # "Ok" /\ out = EmptyStream /\ outPipe = <<>> /\ wrote = 0
  /\ script = input.script /\ status = "none" /\ errThread = "none" /\ ~readError

\* Visual Studio's call has returned.
Returned == st = "run" /\ result = "Ok" /\ input.driver = "vs" /\ errThread = "none" /\ Copied(out) = text

\* clang's child was started.
Begun ==
  /\ input.driver = "clang" /\ st \in {"stdout", "wait", "stderr"}
  /\ Scripted(script, wrote, input.script)
  /\ ~readError => Flows(Copied(out), outPipe, wrote, text)
  /\ ~readError /\ st # "stdout" => outPipe = <<>>
  /\ st # "stdout" => readError \/ status # "none"
  /\ status = "success" => script = <<>>
  /\ result = "Ok" => status = "success" /\ st # "stdout"

Called == text = TextOf(input) /\ (Filtered \/ NotBegun \/ Returned \/ Begun)

\* Without its first element a script is of the next place.
LEMMA ScriptMoves ==
  ASSUME NEW s, NEW n, NEW whole, Scripted(s, n, whole), s # <<>>
  PROVE  Scripted(Tail(s), IF Head(s) = "out" THEN n + 1 ELSE n, whole)
<1>1. PICK p \in Nat : /\ IsSeq(s) /\ p + Len(s) = Len(whole) /\ \A k \in 1..Len(s) : s[k] = whole[p + k]
                       /\ n = Cardinality(Texts(whole, p))
  BY DEF Scripted
<1>2. PICK l \in Nat : l = Len(s)
  BY <1>1, SeqDomain
<1>3. l # 0
  BY <1>1, <1>2, NoLength
<1>4. PICK q \in Nat : q = p + 1
  OBVIOUS
<1>5. PICK t : t = Tail(s)
  OBVIOUS
<1>6. IsSeq(t) /\ Len(t) = l - 1 /\ \A k \in 1..(l - 1) : t[k] = s[k + 1]
  BY <1>1, <1>2, <1>3, <1>5, TailIs
<1>7. Head(s) = whole[q]
  <2>1. 1 \in 1..Len(s)
    BY <1>2, <1>3
  <2>2. s[1] = whole[p + 1]
    BY <1>1, <2>1
  <2>3. Head(s) = s[1]
    <3>1. PICK R : R = Range(s) /\ s \in Seq(R)
      BY <1>1 DEF IsSeq
    <3> QED BY <3>1
  <2> QED BY <1>4, <2>2, <2>3
<1>8. PICK A, B : A = Texts(whole, p) /\ B = Texts(whole, q)
  OBVIOUS
<1>9. IsFiniteSet(A) /\ q \notin A
  <2>1. IsFiniteSet(1..p)
    BY FS_Interval
  <2>2. A \subseteq 1..p
    BY <1>8 DEF Texts
  <2>3. IsFiniteSet(A)
    BY <2>1, <2>2, FS_Subset
  <2>4. q \notin 1..p
    BY <1>4
  <2> QED BY <2>2, <2>3, <2>4
<1>10. B = IF Head(s) = "out" THEN A \cup {q} ELSE A
  <2>1. 1..q = (1..p) \cup {q}
    BY <1>4
  <2> QED BY <1>7, <1>8, <2>1 DEF Texts
<1>11. Cardinality(B) = IF Head(s) = "out" THEN n + 1 ELSE n
  BY <1>1, <1>8, <1>9, <1>10, FS_AddElement
<1>12. q + Len(t) = Len(whole)
  <2>1. p + l = Len(whole) /\ Len(t) = l - 1
    BY <1>1, <1>2, <1>6
  <2>2. PICK w : w = Len(whole) /\ p + l = w
    BY <2>1
  <2>3. q + (l - 1) = p + l
    BY <1>2, <1>4
  <2> QED BY <2>1, <2>3
<1>13. ASSUME NEW k \in 1..Len(t) PROVE t[k] = whole[q + k]
  <2>1. k \in 1..(l - 1) /\ k + 1 \in 1..l /\ p + (k + 1) = q + k
    BY <1>2, <1>3, <1>4, <1>6, <1>13
  <2>2. s[k + 1] = whole[p + (k + 1)]
    BY <1>1, <1>2, <2>1
  <2> QED BY <1>6, <2>1, <2>2
<1>14. Scripted(t, Cardinality(B), whole)
  <2>1. PICK v : v = Cardinality(B) /\ v = Cardinality(Texts(whole, q))
    BY <1>8
  <2>2. IsSeq(t)
    BY <1>6
  <2>3. Scripted(t, v, whole)
    BY <1>4, <1>12, <1>13, <2>1, <2>2 DEF Scripted
  <2> QED BY <2>1, <2>3
<1> QED BY <1>5, <1>11, <1>14

\* At the end all of the text was written.
LEMMA ScriptEnds ==
  ASSUME NEW n, NEW in, in \in Inputs, in.driver = "clang", Scripted(<<>>, n, in.script)
  PROVE  n = Len(TextOf(in))
<1>1. PICK whole : whole = in.script /\ whole \in Seq({"out", "err"})
  BY ScriptsWrite
<1>2. PICK p \in Nat : p + Len(<<>>) = Len(whole) /\ n = Cardinality(Texts(whole, p))
  BY <1>1 DEF Scripted
<1>3. p = Len(whole)
  <2>1. Len(<<>>) = 0
    OBVIOUS
  <2> QED BY <1>1, <1>2, <2>1
<1>4. Cardinality({k \in 1..Len(in.script) : in.script[k] = "out"}) = Len(TextOf(in))
  BY ScriptsWrite
<1> QED BY <1>1, <1>2, <1>3, <1>4 DEF Texts

\* At the beginning nothing is.
LEMMA ScriptBegins ==
  ASSUME NEW in, in \in Inputs
  PROVE  Scripted(in.script, 0, in.script)
<1>1. PICK whole : whole = in.script /\ whole \in Seq({"out", "err"})
  BY ScriptsWrite
<1>2. IsSeq(whole) /\ Len(whole) \in Nat
  BY <1>1, SeqIsSeq, SeqDomain
<1>3. Texts(whole, 0) = {}
  BY DEF Texts
<1>4. Cardinality(Texts(whole, 0)) = 0
  BY <1>3, FS_EmptySet
<1>5. 0 \in Nat /\ 0 + Len(whole) = Len(whole) /\ \A k \in 1..Len(whole) : whole[k] = whole[0 + k]
  BY <1>2
<1> QED BY <1>1, <1>2, <1>4, <1>5 DEF Scripted

\* The child puts the next byte of its text into the pipe.
LEMMA FlowsIn ==
  ASSUME NEW c, NEW pipe, NEW n, NEW t, Flows(c, pipe, n, t)
  PROVE  Flows(c, Append(pipe, t[n + 1]), n + 1, t)
<1>1. PICK l \in Nat, m \in Nat : l = Len(c) /\ m = Len(pipe) /\ n = l + m /\ IsSeq(c) /\ IsSeq(pipe)
  BY SeqDomain DEF Flows
<1>2. PICK e, one, q : e = t[n + 1] /\ one = <<e>> /\ q = Append(pipe, e)
  OBVIOUS
<1>3. IsSeq(one) /\ Len(one) = 1 /\ one[1] = e
  BY <1>2, OneSeq
<1>4. q = pipe \o one
  BY <1>1, <1>2, AppendIsCat
<1>5. /\ IsSeq(q) /\ Len(q) = Len(pipe) + Len(one) /\ \A i \in 1..Len(pipe) : q[i] = pipe[i]
      /\ \A i \in 1..Len(one) : q[Len(pipe) + i] = one[i]
  <2>1. /\ IsSeq(pipe \o one) /\ Len(pipe \o one) = Len(pipe) + Len(one)
        /\ \A i \in 1..Len(pipe) : (pipe \o one)[i] = pipe[i]
        /\ \A i \in 1..Len(one) : (pipe \o one)[Len(pipe) + i] = one[i]
    BY <1>1, <1>3, CatSeq
  <2> QED BY <1>4, <2>1
<1>6. Len(q) = m + 1 /\ q[m + 1] = e /\ \A i \in 1..m : q[i] = pipe[i]
  <2>1. 1 \in 1..Len(one)
    BY <1>3
  <2> QED BY <1>1, <1>3, <1>5, <2>1
<1>7. ASSUME NEW k \in 1..(m + 1) PROVE q[k] = t[l + k]
  <2>1. CASE k = m + 1
    <3>1. l + k = n + 1
      BY <1>1, <2>1
    <3> QED BY <1>2, <1>6, <2>1, <3>1
  <2>2. CASE k # m + 1
    <3>1. k \in 1..m
      BY <1>7, <2>2
    <3>2. pipe[k] = t[l + k]
      BY <1>1, <3>1 DEF Flows
    <3> QED BY <1>6, <3>1, <3>2
  <2> QED BY <2>1, <2>2
<1>8. n + 1 = Len(c) + Len(q) /\ \A k \in 1..Len(c) : c[k] = t[k]
  <2>1. \A k \in 1..Len(c) : c[k] = t[k]
    BY DEF Flows
  <2> QED BY <1>1, <1>6, <2>1
<1>9. Flows(c, q, n + 1, t)
  BY <1>1, <1>5, <1>6, <1>7, <1>8 DEF Flows
<1> QED BY <1>2, <1>9

\* The caller takes a part of the pipe.
LEMMA FlowsOut ==
  ASSUME NEW c, NEW pipe, NEW n, NEW t, NEW m, Flows(c, pipe, n, t), m \in 1..Len(pipe)
  PROVE  Flows(c \o SubSeq(pipe, 1, m), SubSeq(pipe, m + 1, Len(pipe)), n, t)
<1>1. PICK l \in Nat, h \in Nat : l = Len(c) /\ h = Len(pipe) /\ n = l + h /\ IsSeq(c) /\ IsSeq(pipe)
  BY SeqDomain DEF Flows
<1>2. m \in Nat \ {0} /\ m <= h /\ (\A k \in 1..l : c[k] = t[k]) /\ (\A k \in 1..h : pipe[k] = t[l + k])
  <2>1. (\A k \in 1..l : c[k] = t[k]) /\ (\A k \in 1..h : pipe[k] = t[l + k])
    BY <1>1 DEF Flows
  <2>2. m \in 1..h
    BY <1>1
  <2> QED BY <2>1, <2>2
<1>3. PICK a, b, d : a = SubSeq(pipe, 1, m) /\ b = SubSeq(pipe, m + 1, h) /\ d = c \o a
  OBVIOUS
<1>4. IsSeq(a) /\ Len(a) = m /\ \A k \in 1..m : a[k] = pipe[k]
  <2>1. 1 \in Nat \ {0} /\ m \in Nat /\ m <= Len(pipe) /\ 1 <= m + 1 /\ m + 1 - 1 = m
    BY <1>1, <1>2
  <2>2. IsSeq(pipe)
    BY <1>1
  <2>3. /\ IsSeq(SubSeq(pipe, 1, m)) /\ Len(SubSeq(pipe, 1, m)) = m + 1 - 1
        /\ \A k \in 1..(m + 1 - 1) : SubSeq(pipe, 1, m)[k] = pipe[1 + k - 1]
    BY <2>1, <2>2, PartIs
  <2>4. \A k \in 1..m : 1 + k - 1 = k
    BY <2>1
  <2> QED BY <1>3, <2>1, <2>3, <2>4
<1>5. IsSeq(b) /\ Len(b) = h - m /\ \A k \in 1..(h - m) : b[k] = pipe[m + k]
  <2>1. PICK f : f = m + 1
    OBVIOUS
  <2>2. f \in Nat \ {0} /\ h \in Nat /\ h <= Len(pipe) /\ f <= h + 1 /\ h + 1 - f = h - m
    BY <1>1, <1>2, <2>1
  <2>3. IsSeq(pipe)
    BY <1>1
  <2>4. /\ IsSeq(SubSeq(pipe, f, h)) /\ Len(SubSeq(pipe, f, h)) = h + 1 - f
        /\ \A k \in 1..(h + 1 - f) : SubSeq(pipe, f, h)[k] = pipe[f + k - 1]
    BY <2>2, <2>3, PartIs
  <2>5. \A k \in 1..(h - m) : f + k - 1 = m + k
    BY <1>1, <1>2, <2>1
  <2> QED BY <1>3, <2>1, <2>2, <2>4, <2>5
<1>6. /\ IsSeq(d) /\ Len(d) = l + m /\ \A i \in 1..l : d[i] = c[i]
      /\ \A i \in 1..m : d[l + i] = a[i]
  <2>1. IsSeq(c) /\ IsSeq(a)
    BY <1>1, <1>4
  <2>2. /\ IsSeq(c \o a) /\ Len(c \o a) = Len(c) + Len(a)
        /\ \A i \in 1..Len(c) : (c \o a)[i] = c[i]
        /\ \A i \in 1..Len(a) : (c \o a)[Len(c) + i] = a[i]
    BY <2>1, CatSeq
  <2> QED BY <1>1, <1>3, <1>4, <2>2
<1>7. ASSUME NEW k \in 1..(l + m) PROVE d[k] = t[k]
  <2>1. CASE k <= l
    <3>1. k \in 1..l
      BY <1>7, <2>1
    <3> QED BY <1>2, <1>6, <3>1
  <2>2. CASE ~(k <= l)
    <3>1. PICK i \in 1..m : l + i = k
      <4>1. k - l \in 1..m /\ l + (k - l) = k
        BY <1>2, <1>7, <2>2
      <4> QED BY <4>1
    <3>2. i \in 1..h
      BY <1>1, <1>2, <3>1
    <3>3. d[l + i] = a[i] /\ a[i] = pipe[i] /\ pipe[i] = t[l + i]
      BY <1>2, <1>4, <1>6, <3>1, <3>2
    <3> QED BY <3>1, <3>3
  <2> QED BY <2>1, <2>2
<1>8. ASSUME NEW k \in 1..(h - m) PROVE b[k] = t[(l + m) + k]
  <2>1. m + k \in 1..h /\ l + (m + k) = (l + m) + k
    BY <1>1, <1>2, <1>8
  <2>2. b[k] = pipe[m + k] /\ pipe[m + k] = t[l + (m + k)]
    BY <1>2, <1>5, <1>8, <2>1
  <2> QED BY <2>1, <2>2
<1>9. n = Len(d) + Len(b)
  BY <1>1, <1>2, <1>5, <1>6
<1>10. Flows(d, b, n, t)
  BY <1>5, <1>6, <1>7, <1>8, <1>9 DEF Flows
<1> QED BY <1>1, <1>3, <1>10

\* The first state of a call.
LEMMA InitCalled == Init => Called
BY DEF Init, FilterInit, Called, NotBegun

\* A text that is not filtered never comes to the filter.
LEMMA NotFiltered ==
  ASSUME Called, ~Filtered, FilterNext, UNCHANGED child
  PROVE  Called'
<1>1. NotBegun \/ Returned \/ Begun
  BY DEF Called
<1>2. st \in Outside
  BY <1>1 DEF NotBegun, Returned, Begun, Outside
<1>3. st \notin {"bom", "empty", "skip", "spaces", "token", "quote", "path", "escape", "eol", "copy"}
  BY <1>2 DEF Outside
<1>4. ~(Refill \/ TextEnds \/ CopyToEnd \/ LineCut)
  BY <1>2, <1>3 DEF Refill, TextEnds, CopyToEnd, LineCut
<1>5. ~(ParseBom \/ ParseLine \/ NextLine \/ ParseSpaces \/ ParseToken \/ TokenEnds \/ PragmaEnds
        \/ ParseQuote \/ ParsePath \/ ParseEscape \/ NextLineEol)
  BY <1>3 DEF ParseBom, ParseLine, NextLine, ParseSpaces, ParseToken, TokenEnds, PragmaEnds, ParseQuote, ParsePath,
              ParseEscape, NextLineEol, At
<1>6. ReadBack \/ FilterReturned
  BY <1>4, <1>5 DEF FilterNext
<1>7. UNCHANGED <<input, text, st, out, result, script, wrote, outPipe, status, errThread, readError>>
  BY <1>6 DEF ReadBack, FilterReturned, filter, scanner, child
<1> QED BY <1>7 DEF Called, Filtered, NotBegun, Returned, Begun

\* The steps of a call without a filter.
LEMMA CallStep ==
  ASSUME Called, IndInv, ~Filtered,
         \/ VsPreprocess \/ Spawn \/ ChildWrites \/ ChildExits \/ ReadStdout \/ StdoutEnds
         \/ StdoutFails \/ StderrFails \/ WaitFails \/ ReadStderr \/ Wait \/ Receive
  PROVE  Called'
<1>1. NotBegun \/ Returned \/ Begun
  BY DEF Called
<1>2. /\ input \in Inputs /\ text = TextOf(input) /\ IsSeq(text) /\ IsSeq(outPipe) /\ IsSeq(token) /\ Whole(out)
  BY DEF IndInv, Placed, Sequences, StreamOK, Called
<1>3. input' = input /\ text' = text
  BY DEF VsPreprocess, Spawn, ChildWrites, ChildExits, ReadStdout, StdoutEnds, StdoutFails, StderrFails, WaitFails,
         ReadStderr, Wait, Receive,
         filter
<1>4. CASE VsPreprocess
  <2>1. NotBegun /\ input.driver = "vs"
    BY <1>1, <1>4 DEF VsPreprocess, Returned, Begun
  <2>2. UNCHANGED <<script, wrote, outPipe, status, errThread, readError>>
    BY <1>4 DEF VsPreprocess, child
  <2>3. CASE out' = out /\ st' = st /\ result' # "Ok"
    BY <1>2, <1>3, <2>1, <2>2, <2>3 DEF Called, NotBegun
  <2>4. CASE out' = WriteData(out, text) /\ result' = "Ok" /\ st' = st
    <3>1. out = EmptyStream
      BY <2>1 DEF NotBegun
    <3>2. Copied(WriteData(out, text)) = Copied(out) \o text
      BY <1>2, WriteWhole
    <3>3. Copied(out) = <<>>
      BY <3>1, EmptyWhole
    <3>4. <<>> \o text = text
      <4>1. PICK R : R = Range(text) /\ text \in Seq(R)
        BY <1>2 DEF IsSeq
      <4> QED BY <4>1
    <3>5. Copied(out') = text
      BY <2>4, <3>2, <3>3, <3>4
    <3> QED BY <1>2, <1>3, <2>1, <2>2, <2>4, <3>5 DEF Called, NotBegun, Returned
  <2> QED BY <1>4, <2>3, <2>4, <2>1 DEF VsPreprocess, Filtered, NotBegun
<1>5. CASE Spawn
  <2>1. NotBegun /\ input.driver = "clang"
    BY <1>1, <1>5 DEF Spawn, Returned, Begun
  <2>2. UNCHANGED <<out, script, wrote, outPipe, status, readError>>
    BY <1>5 DEF Spawn
  <2>3. CASE result' = "Err" /\ st' = st /\ errThread' = errThread
    BY <1>2, <1>3, <2>1, <2>2, <2>3 DEF Called, NotBegun
  <2>4. CASE st' = "stdout" /\ result' = result
    <3>1. Scripted(script, wrote, input.script)
      BY <1>2, <2>1, ScriptBegins DEF NotBegun
    <3>2. Flows(Copied(out), outPipe, wrote, text)
      <4>1. PICK e : e = <<>> /\ IsSeq(e) /\ Len(e) = 0
        <5>1. Len(<<>>) = 0
          OBVIOUS
        <5> QED BY <5>1, EmptyIsSeq
      <4>2. Copied(out) = e /\ outPipe = e /\ wrote = 0
        BY <2>1, <4>1, EmptyWhole DEF NotBegun
      <4> QED BY <4>1, <4>2 DEF Flows
    <3>3. result # "Ok" /\ status # "success"
      BY <2>1 DEF NotBegun
    <3>4. Begun'
      BY <1>3, <2>1, <2>2, <2>4, <3>1, <3>2, <3>3 DEF Begun
    <3> QED BY <1>2, <1>3, <3>4 DEF Called
  <2> QED BY <1>5, <2>3, <2>4 DEF Spawn
<1>6. CASE ChildWrites
  <2>1. Begun
    BY <1>1, <1>6 DEF ChildWrites, NotBegun, Returned
  <2>2. /\ status = "none" /\ script # <<>>
        /\ UNCHANGED <<out, st, result, readError>>
    BY <1>6 DEF ChildWrites, filter, scanner
  <2>3. CASE Head(script) = "out" /\ ~readError
    <3>1. /\ outPipe' = Append(outPipe, text[wrote + 1]) /\ wrote' = wrote + 1 /\ script' = Tail(script)
          /\ status' = status
      BY <1>6, <2>3 DEF ChildWrites
    <3>2. Scripted(script', wrote', input.script)
      BY <2>1, <2>2, <2>3, <3>1, ScriptMoves DEF Begun
    <3>3. Flows(Copied(out), outPipe', wrote', text)
      BY <2>1, <2>3, <3>1, FlowsIn DEF Begun
    <3>4. st = "stdout" /\ result # "Ok"
      BY <2>1, <2>2, <2>3 DEF Begun
    <3>5. Begun'
      BY <1>3, <2>1, <2>2, <3>1, <3>2, <3>3, <3>4 DEF Begun
    <3> QED BY <1>2, <1>3, <3>5 DEF Called
  <2>4. CASE Head(script) = "err" /\ script' = Tail(script)
    <3>1. outPipe' = outPipe /\ wrote' = wrote /\ status' = status
      BY <1>6, <2>4 DEF ChildWrites
    <3>2. Scripted(script', wrote', input.script)
      BY <2>1, <2>2, <2>4, <3>1, ScriptMoves DEF Begun
    <3>3. Begun'
      BY <1>3, <2>1, <2>2, <3>1, <3>2 DEF Begun
    <3> QED BY <1>2, <1>3, <3>3 DEF Called
  <2>5. CASE status' = "failure" /\ UNCHANGED <<script, wrote, outPipe>>
    <3>1. Begun'
      BY <1>3, <2>1, <2>2, <2>5 DEF Begun
    <3> QED BY <1>2, <1>3, <3>1 DEF Called
  <2> QED BY <1>6, <2>3, <2>4, <2>5 DEF ChildWrites
<1>7. CASE ChildExits
  <2>1. Begun
    BY <1>1, <1>7 DEF ChildExits, NotBegun, Returned
  <2>2. /\ script = <<>> /\ status = "none" /\ status' # "none"
        /\ UNCHANGED <<out, st, result, readError, script, wrote, outPipe>>
    BY <1>7 DEF ChildExits, filter, scanner
  <2>3. Begun'
    BY <1>3, <2>1, <2>2 DEF Begun
  <2> QED BY <1>2, <1>3, <2>3 DEF Called
<1>8. CASE ReadStdout
  <2>1. Begun /\ st = "stdout" /\ UNCHANGED <<st, result, readError, script, wrote, status>>
    BY <1>1, <1>8 DEF ReadStdout, NotBegun, Returned
  <2>2. PICK n : /\ n \in 1..Len(outPipe)
                 /\ out' = WriteData(out, SubSeq(outPipe, 1, n)) /\ outPipe' = SubSeq(outPipe, n + 1, Len(outPipe))
    BY <1>8 DEF ReadStdout, Drop
  <2>3. Copied(out') = Copied(out) \o SubSeq(outPipe, 1, n)
    <3>1. PICK l \in Nat : l = Len(outPipe)
      BY <1>2, SeqDomain
    <3>2. 1 \in Nat \ {0} /\ n \in Nat /\ n <= Len(outPipe) /\ 1 <= n + 1
      BY <2>2, <3>1
    <3>3. IsSeq(SubSeq(outPipe, 1, n))
      <4>1. IsSeq(outPipe)
        BY <1>2
      <4> QED BY <3>2, <4>1, PartIs
    <3> QED BY <1>2, <2>2, <3>3, WriteWhole
  <2>4. ~readError => Flows(Copied(out'), outPipe', wrote, text)
    <3>1. ASSUME ~readError PROVE Flows(Copied(out'), outPipe', wrote, text)
      <4>1. Flows(Copied(out), outPipe, wrote, text)
        BY <2>1, <3>1 DEF Begun
      <4>2. Flows(Copied(out) \o SubSeq(outPipe, 1, n), SubSeq(outPipe, n + 1, Len(outPipe)), wrote, text)
        BY <2>2, <4>1, FlowsOut
      <4> QED BY <2>2, <2>3, <4>2
    <3> QED BY <3>1
  <2>5. Begun'
    BY <1>3, <2>1, <2>4 DEF Begun
  <2> QED BY <1>2, <1>3, <2>5 DEF Called
<1>9. CASE StdoutEnds
  <2>1. Begun /\ st = "stdout" /\ outPipe = <<>> /\ status # "none" /\ st' = "wait" /\ result = "run"
        /\ UNCHANGED <<out, result, readError, script, wrote, status, outPipe>>
    BY <1>1, <1>9 DEF StdoutEnds, NotBegun, Returned, scanner, child
  <2>2. Begun'
    BY <1>3, <2>1 DEF Begun
  <2> QED BY <1>2, <1>3, <2>2 DEF Called
<1>10. CASE StdoutFails
  <2>1. Begun /\ st' = "wait" /\ result = "run" /\ readError' = TRUE
        /\ UNCHANGED <<result, script, wrote, status>>
    BY <1>1, <1>10 DEF StdoutFails, NotBegun, Returned
  <2>2. Begun'
    BY <1>3, <2>1 DEF Begun
  <2> QED BY <1>2, <1>3, <2>2 DEF Called
<1>11. CASE ReadStderr
  <2>1. Begun /\ UNCHANGED <<st, out, result, readError, script, wrote, status, outPipe>>
    BY <1>1, <1>11 DEF ReadStderr, NotBegun, Returned, filter, scanner
  <2>2. Begun'
    BY <1>3, <2>1 DEF Begun
  <2> QED BY <1>2, <1>3, <2>2 DEF Called
<1>12. CASE Wait
  <2>1. Begun /\ st = "wait" /\ status # "none" /\ st' = "stderr"
        /\ UNCHANGED <<out, result, readError, script, wrote, status, outPipe>>
    BY <1>1, <1>12 DEF Wait, NotBegun, Returned, scanner, child
  <2>2. Begun'
    BY <1>3, <2>1 DEF Begun
  <2> QED BY <1>2, <1>3, <2>2 DEF Called
<1>13. CASE Receive
  <2>1. Begun /\ st = "stderr" /\ (result' = "Ok" => status = "success")
        /\ UNCHANGED <<st, out, readError, script, wrote, status, outPipe>>
    BY <1>1, <1>13 DEF Receive, NotBegun, Returned, child
  <2>2. Begun'
    BY <1>3, <2>1 DEF Begun
  <2> QED BY <1>2, <1>3, <2>2 DEF Called
<1>14. CASE StderrFails
  <2>1. Begun /\ UNCHANGED <<st, out, result, readError, script, wrote, status, outPipe>>
    BY <1>1, <1>14 DEF StderrFails, NotBegun, Returned, filter, scanner
  <2>2. Begun'
    BY <1>3, <2>1 DEF Begun
  <2> QED BY <1>2, <1>3, <2>2 DEF Called
<1>15. CASE WaitFails
  <2>1. /\ Begun /\ st' = st /\ result' = "Err"
        /\ UNCHANGED <<out, readError, script, wrote, status, outPipe>>
    BY <1>1, <1>15 DEF WaitFails, NotBegun, Returned, child
  <2>2. Begun'
    BY <1>3, <2>1 DEF Begun
  <2> QED BY <1>2, <1>3, <2>2 DEF Called
<1> QED BY <1>4, <1>5, <1>6, <1>7, <1>8, <1>9, <1>10, <1>11, <1>12, <1>13, <1>14, <1>15

\* Every step keeps what is known of a call.
LEMMA NextCalled == Called /\ IndInv /\ [Next]_vars => Called'
<1> SUFFICES ASSUME Called, IndInv, [Next]_vars PROVE Called'
  OBVIOUS
<1>1. CASE UNCHANGED vars
  BY <1>1 DEF vars, filter, scanner, child, Called, Filtered, NotBegun, Returned, Begun
<1>2. CASE Filtered /\ Next
  <2>1. input' = input /\ text' = text
    BY <1>2 DEF Next, Execute, Faults, FilterNext, VsPreprocess, Spawn, ChildWrites, ChildExits, ReadStdout, StdoutEnds,
                StdoutFails, StderrFails, WaitFails, ReadStderr, Wait, Receive, filter, Refill, ParseBom, ParseLine, NextLine, ParseSpaces,
                ParseToken, TokenEnds, PragmaEnds, ParseQuote, ParsePath, ParseEscape, NextLineEol, LineCut, TextEnds,
                CopyToEnd, ReadBack, FilterReturned
  <2> QED BY <1>2, <2>1 DEF Called, Filtered
<1>3. CASE ~Filtered /\ Next
  <2>1. CASE \/ VsPreprocess \/ Spawn \/ ChildWrites \/ ChildExits \/ ReadStdout \/ StdoutEnds
             \/ StdoutFails \/ StderrFails \/ WaitFails \/ ReadStderr \/ Wait \/ Receive
    BY <1>3, <2>1, CallStep
  <2>2. CASE FilterNext /\ UNCHANGED child
    BY <1>3, <2>2, NotFiltered
  <2> QED BY <1>3, <2>1, <2>2 DEF Next, Execute, Faults
<1> QED BY <1>1, <1>2, <1>3

\* Without a filter all of the text arrives: what is under way is in the pipe,
\* and the call ends only when that is empty and the child has ended.
THEOREM TextWholeAlways == Spec => []TextWhole
<1>1. Called /\ IndInv => TextWhole
  <2> SUFFICES ASSUME Called, IndInv, result = "Ok", ~Filtered, ~readError PROVE Copied(out) = text
    BY DEF TextWhole
  <2>1. CASE Returned
    BY <2>1 DEF Returned
  <2>2. CASE Begun
    <3>1. script = <<>> /\ outPipe = <<>> /\ Scripted(script, wrote, input.script)
          /\ Flows(Copied(out), outPipe, wrote, text) /\ input.driver = "clang"
      BY <2>2 DEF Begun
    <3>2. wrote = Len(text)
      <4>1. input \in Inputs /\ text = TextOf(input)
        BY DEF IndInv, Placed, Called
      <4>2. wrote = Len(TextOf(input))
        BY <3>1, <4>1, ScriptEnds
      <4> QED BY <4>1, <4>2
    <3>3. PICK c : c = Copied(out)
      OBVIOUS
    <3>4. IsSeq(c) /\ wrote = Len(c) + Len(outPipe) /\ \A k \in 1..Len(c) : c[k] = text[k]
      BY <3>1, <3>3 DEF Flows
    <3>5. Len(c) \in Nat /\ Len(outPipe) = 0
      BY <3>1, <3>4, SeqDomain
    <3>6. Len(c) = Len(text) /\ IsSeq(text)
      BY <3>2, <3>4, <3>5 DEF IndInv, Placed
    <3>7. c = text
      BY <3>4, <3>6, SeqsEqual
    <3> QED BY <3>3, <3>7
  <2> QED BY <2>1, <2>2 DEF Called, NotBegun
<1> QED BY <1>1, InitHolds, NextHolds, InitCalled, NextCalled, PTL DEF Spec

===============================================================================
