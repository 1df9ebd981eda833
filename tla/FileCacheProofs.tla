---------------------------- MODULE FileCacheProofs ---------------------------
(***************************************************************************)
(* For any number of calls of run_cached on one entry, any number and size  *)
(* of output files, any compilers, crashes and I/O errors: what a call      *)
(* reports as a success is whole, no output is partial, and a lone writer   *)
(* repairs the entry.                                                       *)
(***************************************************************************)
EXTENDS FileCache, SequenceTheorems, TLAPS

-------------------------------------------------------------------------------
(* The inductive invariant                                                 *)

\* The blocks of output file i among the blocks read.
Piece(blocks, i) == [k \in 1..(Ends[i] - Start(i) + 1) |-> blocks[Start(i) + k - 1]]

\* The beginning of output file i, up to the block before place k.
Begun(blocks, i, k) == [j \in 1..(k - Start(i)) |-> blocks[Start(i) + j - 1]]

Places == {"open", "touch", "read", "remove", "rename", "compile", "create", "write", "done"}
Reading == {"read", "remove", "rename"}

\* A call in the midst of read_cache: what it has read, what it has put into
\* "~tmp~" and what it has renamed.
ReaderInv(p) ==
  /\ pos[p] \in 1..Blocks /\ Len(got[p]) = pos[p] - 1
  /\ \A i \in DOMAIN Ends :
       Ends[i] < (IF pc[p] = "rename" THEN pos[p] - 1 ELSE pos[p]) => out[p][i] = Piece(got[p], i)
  /\ pc[p] = "read" =>
       \/ pos[p] \in {1, Blocks} /\ temp[p] = <<>>
       \/ \E i \in DOMAIN Ends : pos[p] \in Start(i)..Ends[i] /\ temp[p] = Begun(got[p], i, pos[p])
  /\ pc[p] = "remove" => temp[p] = <<>> /\ \E i \in DOMAIN Ends : pos[p] = Start(i)
  /\ pc[p] = "rename" => \E i \in DOMAIN Ends : pos[p] = Ends[i] + 1 /\ temp[p] = Piece(got[p], i)

\* One call, whatever it does.
CallInv(p) ==
  /\ pc[p] \in Reading \cup {"touch", "write"} => fd[p] \in Procs
  /\ pc[p] \in Reading => ReaderInv(p)
  /\ pc[p] \notin Reading => temp[p] = <<>> \/ result[p] = "killed" \/ p \in stuck
  /\ pc[p] \in {"open", "touch"} \cup Reading => p \notin stuck
  /\ pc[p] = "done" <=> result[p] # "none"
  /\ pc[p] \in {"create", "write"} => object[p] \in Objects /\ out[p] = Whole(object[p])
  /\ pc[p] = "write" => pos[p] \in 1..Blocks
  /\ result[p] \in {"hit", "miss"} => \E o \in Objects : out[p] = Whole(o)
  /\ \A i \in DOMAIN Ends : Len(out[p][i]) \in {0, Ends[i] - Start(i) + 1}

\* A call that writes alone: nobody else writes the file, and it holds what the
\* call has written and at most the byte of touch.
SoleInv(p) ==
  pc[p] = "write" /\ alone[p] =>
    /\ \A q \in Procs \ {p} : pc[q] = "write" => fd[q] # fd[p]
    /\ Len(disk[fd[p]]) = pos[p] - 1 \/ (pos[p] = 1 /\ Len(disk[fd[p]]) = 1)
    /\ \A k \in 1..(pos[p] - 1) : disk[fd[p]][k] = object[p]

IndInv ==
  /\ TypeOK
  /\ \A p \in Procs : CallInv(p)
  /\ \A p \in Procs : SoleInv(p)

-------------------------------------------------------------------------------
(* Where the packed files begin and end                                    *)

\* Every output file has at least one block, between header and footer.
LEMMA EndsFacts ==
  /\ Len(Ends) \in Nat \ {0} /\ DOMAIN Ends = 1..Len(Ends)
  /\ Ends[Len(Ends)] = Blocks - 1
  /\ \A i \in DOMAIN Ends : Ends[i] \in 2..(Blocks - 1) /\ Start(i) \in 2..Ends[i]
<1>1. Len(Ends) \in Nat /\ DOMAIN Ends = 1..Len(Ends)
  BY EndsAscend
<1>2. \A i \in DOMAIN Ends : Ends[i] \in 2..(Blocks - 1)
  <2> DEFINE S == 2..(Blocks - 1)
  <2>1. Ends \in Seq(S)
    BY EndsAscend
  <2>2. \A i \in 1..Len(Ends) : Ends[i] \in S
    <3> HIDE DEF S
    <3> QED BY <2>1
  <2> QED BY <2>2, <1>1
<1>3. Len(Ends) # 0
  BY <1>1, EndsAscend
<1>4. ASSUME NEW i \in DOMAIN Ends PROVE Start(i) \in 2..Ends[i]
  <2>1. CASE i = 1
    BY <2>1, <1>2, BlocksEnough DEF Start
  <2>2. CASE i # 1
    <3>1. i - 1 \in DOMAIN Ends /\ i - 1 < i
      BY <1>1, <2>2
    <3>2. Ends[i - 1] < Ends[i]
      BY <3>1, EndsAscend
    <3> QED BY <2>2, <3>1, <3>2, <1>2, BlocksEnough DEF Start
  <2> QED BY <2>1, <2>2
<1> QED BY <1>1, <1>2, <1>3, <1>4, EndsAscend

\* No block belongs to two files.
LEMMA FilesDisjoint ==
  ASSUME NEW i \in DOMAIN Ends, NEW j \in DOMAIN Ends, i < j
  PROVE  Ends[i] < Start(j)
<1>1. i \in Nat \ {0} /\ j \in Nat \ {0} /\ j - 1 \in DOMAIN Ends
  BY EndsFacts
<1>2. i = j - 1 \/ i < j - 1
  BY <1>1
<1>3. Ends[i] <= Ends[j - 1]
  BY SMTT(30), <1>1, <1>2, EndsAscend, EndsFacts, BlocksEnough
<1> QED BY <1>1, <1>3, EndsFacts, BlocksEnough DEF Start

\* The file a block belongs to is the one it lies in.
LEMMA PackedIs ==
  ASSUME NEW i \in DOMAIN Ends, NEW k \in Start(i)..Ends[i]
  PROVE  Packed(k) = i
<1>1. ASSUME NEW j \in DOMAIN Ends, k \in Start(j)..Ends[j] PROVE i = j
  <2>1. i \in Nat /\ j \in Nat
    BY EndsFacts
  <2>2. ~(i < j) /\ ~(j < i)
    BY <1>1, FilesDisjoint, EndsFacts, BlocksEnough
  <2> QED BY <2>1, <2>2
<1> QED BY <1>1 DEF Packed

-------------------------------------------------------------------------------
(* Files as sequences of blocks                                            *)

\* A function on an interval from 1 is a sequence.
LEMMA IntervalSeq ==
  ASSUME NEW S, NEW n \in Nat, NEW f \in [1..n -> S]
  PROVE  f \in Seq(S) /\ Len(f) = n
BY SeqDef

\* What a write leaves of a file.
LEMMA WrittenFacts ==
  ASSUME NEW S, NEW f \in Seq(S), NEW k \in Nat \ {0}, NEW b \in S, Hole \in S
  PROVE  /\ Written(f, k, b) \in Seq(S)
         /\ k > Len(f) => Len(Written(f, k, b)) = k
         /\ k <= Len(f) => Len(Written(f, k, b)) = Len(f)
         /\ Written(f, k, b)[k] = b
         /\ \A j \in 1..Len(f) : j # k => Written(f, k, b)[j] = f[j]
<1> DEFINE n == IF k > Len(f) THEN k ELSE Len(f)
<1>1. n \in Nat /\ k \in 1..n /\ 1..Len(f) \subseteq 1..n
  OBVIOUS
<1>2. Written(f, k, b) \in [1..n -> S]
  BY ElementOfSeq DEF Written
<1>3. Written(f, k, b) \in Seq(S) /\ Len(Written(f, k, b)) = n
  BY <1>1, <1>2, IntervalSeq
<1>4. Written(f, k, b)[k] = b /\ \A j \in 1..Len(f) : j # k => Written(f, k, b)[j] = f[j]
  BY <1>1 DEF Written
<1> QED BY <1>3, <1>4

\* The output files of one compilation.
LEMMA WholeFacts ==
  ASSUME NEW S, NEW o \in S
  PROVE  /\ Whole(o) \in [DOMAIN Ends -> Seq(S)]
         /\ \A i \in DOMAIN Ends : Len(Whole(o)[i]) = Ends[i] - Start(i) + 1
<1> SUFFICES ASSUME NEW i \in DOMAIN Ends
             PROVE  Whole(o)[i] \in Seq(S) /\ Len(Whole(o)[i]) = Ends[i] - Start(i) + 1
  BY DEF Whole
<1> DEFINE n == Ends[i] - Start(i) + 1
<1>1. n \in Nat
  BY EndsFacts, BlocksEnough
<1>2. Whole(o)[i] \in [1..n -> S]
  BY DEF Whole
<1> HIDE DEF n
<1>3. Whole(o)[i] \in Seq(S) /\ Len(Whole(o)[i]) = n
  BY <1>1, <1>2, IntervalSeq
<1> QED BY <1>3 DEF n

\* A piece of what was read is a sequence of the size of its file.
LEMMA PieceFacts ==
  ASSUME NEW s \in Seq(Objects), NEW i \in DOMAIN Ends, Ends[i] <= Len(s)
  PROVE  Piece(s, i) \in Seq(Objects) /\ Len(Piece(s, i)) = Ends[i] - Start(i) + 1
<1> DEFINE n == Ends[i] - Start(i) + 1
<1>1. n \in Nat
  BY EndsFacts, BlocksEnough
<1>2. ASSUME NEW k \in 1..n PROVE s[Start(i) + k - 1] \in Objects
  <2>1. Start(i) + k - 1 \in 1..Len(s)
    BY EndsFacts, BlocksEnough
  <2> QED BY <2>1, ElementOfSeq
<1>3. Piece(s, i) \in [1..n -> Objects]
  BY <1>2 DEF Piece
<1> HIDE DEF n
<1>4. Piece(s, i) \in Seq(Objects) /\ Len(Piece(s, i)) = n
  BY <1>1, <1>3, IntervalSeq
<1> QED BY <1>4 DEF n

-------------------------------------------------------------------------------
(* Types                                                                   *)

\* Who has a file open, and at which block it is.
LEMMA OpenFacts ==
  ASSUME IndInv, NEW p \in Procs, pc[p] \in Reading \cup {"touch", "write"}
  PROVE  /\ fd[p] \in Procs /\ disk[fd[p]] \in Seq(Objects \cup {Hole, Touched})
         /\ pc[p] # "touch" => pos[p] \in 1..Blocks
BY DEF IndInv, CallInv, ReaderInv, TypeOK, Reading

\* A call's own locals after it returned.
LEMMA FinishTypes ==
  ASSUME TypeOK, NEW p \in Procs, NEW r \in {"hit", "miss", "failed", "Err", "killed"}, Finish(p, r)
  PROVE  /\ pc' \in [Procs -> Places] /\ fd' \in [Procs -> Procs \cup {None}]
         /\ pos' \in [Procs -> 0..Blocks] /\ got' \in [Procs -> Seq(Objects)]
         /\ object' \in [Procs -> Objects \cup {Old}]
         /\ result' \in [Procs -> {"none", "hit", "miss", "failed", "Err", "killed"}]
BY BlocksEnough DEF TypeOK, Finish, Go, Places

\* Replacing one output file keeps the types.
LEMMA OutTypes ==
  ASSUME TypeOK, NEW p \in Procs, NEW i, NEW f \in Seq(Objects \cup {Old})
  PROVE  [out EXCEPT ![p][i] = f] \in [Procs -> [DOMAIN Ends -> Seq(Objects \cup {Old})]]
<1> DEFINE S == Seq(Objects \cup {Old})
<1>1. out \in [Procs -> [DOMAIN Ends -> S]] /\ f \in S
  BY DEF TypeOK
<1> HIDE DEF S
<1>2. [out EXCEPT ![p][i] = f] \in [Procs -> [DOMAIN Ends -> S]]
  BY <1>1
<1> QED BY <1>2 DEF S

\* The steps of read_cache keep the types.
LEMMA ReadTypes ==
  ASSUME IndInv, NEW p \in Procs,
         \/ OpenMissing(p) \/ Open(p) \/ Touch(p) \/ ReadHeader(p) \/ RemoveOld(p)
         \/ ReadData(p) \/ Rename(p) \/ ReadTail(p) \/ ReadError(p)
  PROVE  TypeOK'
<1>0. TypeOK
  BY DEF IndInv
<1>1. CASE OpenMissing(p)
  BY <1>0, <1>1 DEF TypeOK, OpenMissing, Go, io, local, files
<1>2. CASE Open(p)
  BY <1>0, <1>2 DEF TypeOK, Open, Go, io, files
<1>3. CASE Touch(p)
  <2>1. disk' \in [Procs -> Seq(Objects \cup {Hole, Touched})]
    <3>1. <<Touched>> \in Seq(Objects \cup {Hole, Touched})
      OBVIOUS
    <3> QED BY <1>0, <1>3, <3>1 DEF TypeOK, Touch
  <2> QED BY SMTT(30), <1>0, <1>3, <2>1, BlocksEnough DEF TypeOK, Touch, Go, files
<1>4. ASSUME Fetch(p), pos[p] < Blocks
      PROVE  /\ got' \in [Procs -> Seq(Objects)] /\ pos' \in [Procs -> 0..Blocks]
             /\ disk[fd[p]][pos[p]] \in Objects
  BY <1>0, <1>4, BlocksEnough DEF TypeOK, Fetch, Readable
<1>5. CASE ReadHeader(p)
  <2>1. pos[p] < Blocks
    BY <1>5, BlocksEnough DEF ReadHeader
  <2> QED BY <1>0, <1>4, <1>5, <2>1 DEF TypeOK, ReadHeader, Fetch, Go, io, files
<1>6. CASE RemoveOld(p)
  <2>1. out' \in [Procs -> [DOMAIN Ends -> Seq(Objects \cup {Old})]]
    <3>1. <<>> \in Seq(Objects \cup {Old})
      OBVIOUS
    <3>2. [out EXCEPT ![p][Packed(pos[p])] = <<>>] \in [Procs -> [DOMAIN Ends -> Seq(Objects \cup {Old})]]
      BY <1>0, <3>1, OutTypes
    <3> QED BY <1>0, <1>6, <3>2 DEF TypeOK, RemoveOld
  <2> QED BY <1>0, <1>6, <2>1 DEF TypeOK, RemoveOld, Go, io, local
<1>7. CASE ReadData(p)
  <2>1. pos[p] < Blocks
    BY <1>7, BlocksEnough DEF ReadData
  <2>2. temp' \in [Procs -> Seq(Objects)]
    BY <1>0, <1>4, <1>7, <2>1 DEF TypeOK, ReadData
  <2> QED BY <1>0, <1>4, <1>7, <2>1, <2>2 DEF TypeOK, ReadData, Fetch, Go, io
<1>8. CASE Rename(p)
  <2>1. temp[p] \in Seq(Objects \cup {Old})
    BY <1>0, SeqMonotonic DEF TypeOK
  <2>2. [out EXCEPT ![p][Packed(pos[p] - 1)] = temp[p]] \in [Procs -> [DOMAIN Ends -> Seq(Objects \cup {Old})]]
    BY <1>0, <2>1, OutTypes
  <2>3. temp' \in [Procs -> Seq(Objects)]
    BY <1>0, <1>8 DEF TypeOK, Rename
  <2> QED BY <1>0, <1>8, <2>2, <2>3 DEF TypeOK, Rename, Go, io, local
<1>9. CASE ReadTail(p)
  BY <1>0, <1>9, FinishTypes DEF TypeOK, ReadTail, io, files, Places
<1>10. CASE ReadError(p)
  <2>1. temp' \in [Procs -> Seq(Objects)] /\ stuck' \subseteq Procs
    <3>1. CASE temp' = [temp EXCEPT ![p] = <<>>] /\ UNCHANGED stuck
      BY <1>0, <3>1 DEF TypeOK
    <3>2. CASE stuck' = stuck \cup {p} /\ UNCHANGED temp
      BY <1>0, <3>2 DEF TypeOK
    <3> QED BY <1>10, <3>1, <3>2 DEF ReadError
  <2>2. /\ fd' = [fd EXCEPT ![p] = None] /\ pos' = [pos EXCEPT ![p] = 0]
        /\ got' = [got EXCEPT ![p] = <<>>] /\ pc' = [pc EXCEPT ![p] = "compile"]
        /\ UNCHANGED <<tool, entry, disk, object, out, result, alone>>
    BY <1>10 DEF ReadError, Go, io
  <2>3. got' \in [Procs -> Seq(Objects)]
    BY <1>0, <2>2 DEF TypeOK
  <2> QED BY <1>0, <2>1, <2>2, <2>3, BlocksEnough DEF TypeOK
<1> QED BY <1>1, <1>2, <1>3, <1>5, <1>6, <1>7, <1>8, <1>9, <1>10

\* So do those of the compilation and of write_cache, a kill and an eviction.
LEMMA WriteTypes ==
  ASSUME IndInv, NEW p \in Procs,
         \/ Compile(p) \/ CompileFails(p) \/ Create(p) \/ Write(p) \/ WriteError(p) \/ Crash(p)
  PROVE  TypeOK'
<1>0. TypeOK
  BY DEF IndInv
<1>1. CASE Compile(p)
  <2>1. PICK v \in Variants :
          /\ object' = [object EXCEPT ![p] = [tool |-> tool[p], variant |-> v]]
          /\ out' = [out EXCEPT ![p] = Whole([tool |-> tool[p], variant |-> v])]
    BY <1>1 DEF Compile
  <2>2. [tool |-> tool[p], variant |-> v] \in Objects
    BY <1>0 DEF TypeOK, Objects
  <2>3. Whole([tool |-> tool[p], variant |-> v]) \in [DOMAIN Ends -> Seq(Objects \cup {Old})]
    BY <2>2, WholeFacts
  <2> QED BY <1>0, <1>1, <2>1, <2>2, <2>3 DEF TypeOK, Compile, Go, io
<1>2. CASE CompileFails(p)
  BY <1>0, <1>2, FinishTypes DEF TypeOK, CompileFails, io, files, Places
<1>3. CASE Create(p)
  <2> DEFINE inode == IF entry = None THEN p ELSE entry
  <2>1. inode \in Procs
    BY <1>0 DEF TypeOK
  <2>2. /\ entry' = inode /\ disk' = [disk EXCEPT ![inode] = <<>>]
        /\ fd' = [fd EXCEPT ![p] = inode] /\ pos' = [pos EXCEPT ![p] = 1]
        /\ pc' = [pc EXCEPT ![p] = "write"]
        /\ UNCHANGED <<tool, got, object, out, temp, stuck, result>>
    BY <1>3 DEF Create, Go, files
  <2>3. alone' \in [Procs -> BOOLEAN]
    BY <1>0, <1>3 DEF TypeOK, Create
  <2> HIDE DEF inode
  <2>4. disk' \in [Procs -> Seq(Objects \cup {Hole, Touched})]
    <3>1. <<>> \in Seq(Objects \cup {Hole, Touched})
      OBVIOUS
    <3> QED BY <1>0, <2>2, <3>1 DEF TypeOK
  <2> QED BY SMTT(30), <1>0, <2>1, <2>2, <2>3, <2>4, BlocksEnough DEF TypeOK
<1>4. CASE Write(p)
  <2>1. disk' \in [Procs -> Seq(Objects \cup {Hole, Touched})]
    <3>1. object[p] \in Objects /\ pos[p] \in Nat \ {0} /\ fd[p] \in Procs
      BY <1>4, BlocksEnough DEF IndInv, CallInv, Write, Reading
    <3>2. Written(disk[fd[p]], pos[p], object[p]) \in Seq(Objects \cup {Hole, Touched})
      BY <1>0, <3>1, WrittenFacts DEF TypeOK
    <3> QED BY <1>0, <1>4, <3>1, <3>2 DEF TypeOK, Write
  <2>2. CASE pos[p] = Blocks
    BY <1>0, <1>4, <2>1, <2>2, FinishTypes DEF TypeOK, Write, files, Places
  <2>3. CASE pos[p] # Blocks
    <3>1. pos[p] + 1 \in 0..Blocks
      BY <1>0, <2>3, BlocksEnough DEF TypeOK
    <3>2. /\ pos' = [pos EXCEPT ![p] = @ + 1]
          /\ UNCHANGED <<tool, entry, pc, fd, got, object, out, temp, stuck, result, alone>>
      BY <1>4, <2>3 DEF Write, files
    <3> QED BY <1>0, <2>1, <3>1, <3>2 DEF TypeOK
  <2> QED BY <2>2, <2>3
<1>5. CASE WriteError(p)
  BY <1>0, <1>5, FinishTypes DEF TypeOK, WriteError, io, files, Places
<1>6. CASE Crash(p)
  BY <1>0, <1>6, FinishTypes DEF TypeOK, Crash, io, files, Places
<1> QED BY <1>1, <1>2, <1>3, <1>4, <1>5, <1>6

-------------------------------------------------------------------------------
(* The call itself                                                         *)

\* A call whose own state stays the same stays sound.
LEMMA CallFrame ==
  ASSUME NEW q \in Procs, CallInv(q),
         pc'[q] = pc[q], fd'[q] = fd[q], pos'[q] = pos[q], got'[q] = got[q], object'[q] = object[q],
         out'[q] = out[q], temp'[q] = temp[q], q \in stuck' <=> q \in stuck, result'[q] = result[q]
  PROVE  CallInv(q)'
BY DEF CallInv, ReaderInv

\* No call touches the locals or the output files of another one.
LEMMA OthersKeep ==
  ASSUME TypeOK, NEW p \in Procs, RunCached(p) \/ Crash(p), NEW q \in Procs \ {p}
  PROVE  /\ pc'[q] = pc[q] /\ fd'[q] = fd[q] /\ pos'[q] = pos[q] /\ got'[q] = got[q]
         /\ object'[q] = object[q] /\ out'[q] = out[q] /\ temp'[q] = temp[q] /\ result'[q] = result[q]
         /\ q \in stuck' <=> q \in stuck
<1> USE DEF TypeOK, Go, Finish, files, local
<1>1. CASE OpenMissing(p) \/ Open(p) \/ Touch(p)
  BY <1>1 DEF OpenMissing, Open, Touch
<1>2. CASE ReadHeader(p) \/ RemoveOld(p)
  BY <1>2 DEF ReadHeader, Fetch, RemoveOld
<1>3. CASE ReadData(p) \/ Rename(p)
  BY <1>3 DEF ReadData, Fetch, Rename
<1>4. CASE ReadTail(p) \/ ReadError(p)
  BY <1>4 DEF ReadTail, ReadError
<1>5. CASE Compile(p) \/ CompileFails(p)
  BY <1>5 DEF Compile, CompileFails
<1>6. CASE Create(p) \/ Write(p)
  BY <1>6 DEF Create, Write
<1>7. CASE WriteError(p) \/ Crash(p)
  BY <1>7 DEF WriteError, Crash
<1> QED BY <1>1, <1>2, <1>3, <1>4, <1>5, <1>6, <1>7 DEF RunCached

\* A call that returns anything but a hit or a miss leaves its outputs as they are.
LEMMA FinishCall ==
  ASSUME TypeOK, NEW p \in Procs, CallInv(p), NEW r \in {"failed", "Err", "killed"}, Finish(p, r),
         out'[p] = out[p], temp'[p] = temp[p], stuck' = stuck, temp[p] = <<>> \/ r = "killed" \/ p \in stuck
  PROVE  CallInv(p)'
BY DEF TypeOK, CallInv, Finish, Go, Reading

\* Opening the entry or not finding it.
LEMMA OpenCall ==
  ASSUME TypeOK, NEW p \in Procs, CallInv(p), OpenMissing(p) \/ Open(p)
  PROVE  CallInv(p)'
<1>1. CASE OpenMissing(p)
  BY <1>1 DEF TypeOK, CallInv, OpenMissing, Go, local, files, Reading
<1>2. CASE Open(p)
  BY <1>2 DEF TypeOK, CallInv, Open, Go, files, Reading
<1> QED BY <1>1, <1>2

\* Before the first block nothing was read.
LEMMA TouchCall ==
  ASSUME TypeOK, NEW p \in Procs, CallInv(p), Touch(p)
  PROVE  CallInv(p)'
<1>1. /\ pc[p] = "touch" /\ pc'[p] = "read" /\ pos'[p] = 1 /\ got'[p] = <<>> /\ fd'[p] = fd[p]
      /\ out'[p] = out[p] /\ temp'[p] = temp[p] /\ result'[p] = result[p] /\ object'[p] = object[p]
      /\ stuck' = stuck
  BY DEF TypeOK, Touch, Go, files
<1>2. temp'[p] = <<>>
  BY <1>1 DEF CallInv, Reading
<1>3. ReaderInv(p)'
  BY <1>1, <1>2, EndsFacts, BlocksEnough DEF ReaderInv
<1> QED BY <1>1, <1>2, <1>3 DEF CallInv, Reading

\* What Fetch does to the call.
LEMMA FetchFacts ==
  ASSUME TypeOK, NEW p \in Procs, CallInv(p), Fetch(p), pos[p] < Blocks
  PROVE  /\ pc[p] = "read" /\ ReaderInv(p) /\ pos'[p] = pos[p] + 1
         /\ got'[p] = Append(got[p], disk[fd[p]][pos[p]]) /\ got'[p] \in Seq(Objects)
         /\ Len(got'[p]) = pos[p] /\ got'[p][pos[p]] = disk[fd[p]][pos[p]]
         /\ \A k \in 1..(pos[p] - 1) : got'[p][k] = got[p][k]
         /\ fd'[p] = fd[p] /\ object'[p] = object[p] /\ result'[p] = result[p]
<1>1. pc[p] = "read" /\ ReaderInv(p)
  BY DEF Fetch, CallInv, Reading
<1>2. disk[fd[p]][pos[p]] \in Objects /\ got[p] \in Seq(Objects) /\ Len(got[p]) = pos[p] - 1 /\ pos[p] \in 1..Blocks
  BY <1>1 DEF Fetch, Readable, TypeOK, ReaderInv
<1>3. got'[p] = Append(got[p], disk[fd[p]][pos[p]]) /\ pos'[p] = pos[p] + 1
  BY DEF Fetch, TypeOK
<1> QED BY <1>1, <1>2, <1>3, BlocksEnough DEF Fetch, TypeOK

\* More blocks at the end leave the pieces before them alone.
LEMMA PieceStays ==
  ASSUME NEW s, NEW t, NEW n \in Nat, \A k \in 1..n : t[k] = s[k],
         NEW i \in DOMAIN Ends, Ends[i] <= n
  PROVE  Piece(t, i) = Piece(s, i)
<1>1. \A k \in 1..(Ends[i] - Start(i) + 1) : Start(i) + k - 1 \in 1..n
  BY EndsFacts, BlocksEnough
<1> QED BY <1>1 DEF Piece

\* The header: the first packed file is next.
LEMMA HeaderCall ==
  ASSUME TypeOK, NEW p \in Procs, CallInv(p), ReadHeader(p)
  PROVE  CallInv(p)'
<1>1. pos[p] = 1 /\ Fetch(p) /\ pos[p] < Blocks
  BY BlocksEnough DEF ReadHeader
<1>2. pc'[p] = "remove" /\ out'[p] = out[p] /\ temp'[p] = temp[p] /\ stuck' = stuck
  BY DEF ReadHeader, Go, files, TypeOK
<1>3. temp[p] = <<>>
  BY <1>1, FetchFacts, EndsFacts, BlocksEnough DEF ReaderInv
<1>4. 1 \in DOMAIN Ends /\ Start(1) = 2
  BY EndsFacts DEF Start
<1>5. ReaderInv(p)'
  <2>0. pos'[p] = pos[p] + 1 /\ Len(got'[p]) = pos[p]
    BY <1>1, FetchFacts
  <2>1. pos'[p] = 2 /\ Len(got'[p]) = 1
    BY <1>1, <2>0
  <2>2. \A i \in DOMAIN Ends : ~(Ends[i] < 2)
    BY EndsFacts, BlocksEnough
  <2>3. \E i \in DOMAIN Ends : pos'[p] = Start(i)
    BY <1>4, <2>1
  <2> QED BY <1>2, <1>3, <2>1, <2>2, <2>3, BlocksEnough DEF ReaderInv
<1> QED BY <1>1, <1>2, <1>5, FetchFacts DEF CallInv, Reading

\* The place of the file that comes next becomes free, or stays occupied.
LEMMA RemoveCall ==
  ASSUME TypeOK, NEW p \in Procs, CallInv(p), RemoveOld(p)
  PROVE  CallInv(p)'
<1>1. /\ pc[p] = "remove" /\ pc'[p] = "read" /\ pos'[p] = pos[p] /\ got'[p] = got[p] /\ fd'[p] = fd[p]
      /\ temp'[p] = temp[p] /\ result'[p] = result[p] /\ object'[p] = object[p] /\ stuck' = stuck
  BY DEF TypeOK, RemoveOld, Go, local
<1>2. ReaderInv(p) /\ temp[p] = <<>>
  BY <1>1 DEF CallInv, ReaderInv, Reading
<1>3. PICK i \in DOMAIN Ends : pos[p] = Start(i)
  BY <1>1, <1>2 DEF ReaderInv
<1>4. Packed(pos[p]) = i
  <2>1. pos[p] \in Start(i)..Ends[i]
    BY <1>3, EndsFacts, BlocksEnough
  <2> QED BY <2>1, PackedIs
<1>5. out'[p] = out[p] \/ out'[p] = [out[p] EXCEPT ![i] = <<>>]
  BY <1>4 DEF TypeOK, RemoveOld
<1>6. \A j \in DOMAIN Ends : Ends[j] < pos[p] => out'[p][j] = out[p][j]
  <2>1. ASSUME NEW j \in DOMAIN Ends, Ends[j] < pos[p] PROVE j # i
    BY <1>3, <2>1, EndsFacts, BlocksEnough
  <2> QED BY <1>5, <2>1 DEF TypeOK
<1>7. \A j \in DOMAIN Ends : Len(out'[p][j]) \in {0, Ends[j] - Start(j) + 1}
  BY <1>5 DEF TypeOK, CallInv
<1>8. temp'[p] = Begun(got'[p], i, pos'[p])
  <2>1. Begun(got[p], i, pos[p]) = <<>>
    BY <1>3, EndsFacts, BlocksEnough DEF Begun
  <2> QED BY <1>1, <1>2, <2>1
<1>9. ReaderInv(p)'
  <2>1. pos'[p] \in Start(i)..Ends[i]
    BY <1>1, <1>3, EndsFacts, BlocksEnough
  <2> QED BY <1>1, <1>2, <1>6, <1>8, <2>1 DEF ReaderInv
<1> QED BY <1>1, <1>7, <1>9 DEF CallInv, Reading

\* A further block of the packed file.
LEMMA DataCall ==
  ASSUME TypeOK, NEW p \in Procs, CallInv(p), ReadData(p)
  PROVE  CallInv(p)'
<1>1. Fetch(p) /\ pos[p] \in 2..(Blocks - 1) /\ pos[p] < Blocks
  BY BlocksEnough DEF ReadData
<1> DEFINE b == disk[fd[p]][pos[p]]
<1>2. /\ pc[p] = "read" /\ ReaderInv(p) /\ pos'[p] = pos[p] + 1
      /\ got'[p] \in Seq(Objects) /\ Len(got'[p]) = pos[p] /\ got'[p][pos[p]] = b
      /\ \A k \in 1..(pos[p] - 1) : got'[p][k] = got[p][k]
      /\ fd'[p] = fd[p] /\ object'[p] = object[p] /\ result'[p] = result[p]
  BY <1>1, FetchFacts
<1>3. out'[p] = out[p] /\ temp'[p] = Append(temp[p], b) /\ stuck' = stuck
  BY DEF ReadData, TypeOK
<1>4. PICK i \in DOMAIN Ends : pos[p] \in Start(i)..Ends[i] /\ temp[p] = Begun(got[p], i, pos[p])
  BY <1>1, <1>2, BlocksEnough DEF ReaderInv
<1>5. Start(i) \in 2..Ends[i] /\ Ends[i] \in 2..(Blocks - 1) /\ pos[p] \in Nat
  BY <1>1, EndsFacts, BlocksEnough
<1>6. temp'[p] = Begun(got'[p], i, pos[p] + 1)
  <2> DEFINE n == pos[p] - Start(i)
  <2>1. n \in Nat /\ (pos[p] + 1) - Start(i) = n + 1 /\ Start(i) + (n + 1) - 1 = pos[p]
    BY <1>4, <1>5
  <2>2. temp[p] \in [1..n -> Objects] /\ b \in Objects
    <3>0. Len(got[p]) = pos[p] - 1
      BY <1>2 DEF ReaderInv
    <3>1. \A j \in 1..n : Start(i) + j - 1 \in 1..Len(got[p])
      BY <3>0, <1>5
    <3>2. \A j \in 1..n : got[p][Start(i) + j - 1] \in Objects
      BY <3>1, ElementOfSeq DEF TypeOK
    <3> QED BY <1>1, <1>4, <3>2 DEF Begun, Fetch, Readable
  <2>3. temp[p] \in Seq(Objects) /\ Len(temp[p]) = n
    BY <2>1, <2>2, IntervalSeq
  <2>4. temp'[p] = [j \in 1..(n + 1) |-> IF j = n + 1 THEN b ELSE temp[p][j]]
    BY <1>3, <2>1, <2>2, <2>3
  <2>5. ASSUME NEW j \in 1..(n + 1)
        PROVE  got'[p][Start(i) + j - 1] = IF j = n + 1 THEN b ELSE temp[p][j]
    <3>1. CASE j = n + 1
      BY <1>2, <2>1, <3>1
    <3>2. CASE j # n + 1
      <4>1. j \in 1..n /\ Start(i) + j - 1 \in 1..(pos[p] - 1)
        BY <1>5, <2>1, <3>2
      <4> QED BY <1>2, <1>4, <3>2, <4>1 DEF Begun
    <3> QED BY <3>1, <3>2
  <2> HIDE DEF n, b
  <2>6. temp'[p] = [j \in 1..(n + 1) |-> got'[p][Start(i) + j - 1]]
    BY <2>4, <2>5
  <2>7. 1..((pos[p] + 1) - Start(i)) = 1..(n + 1)
    BY <2>1
  <2>8. Begun(got'[p], i, pos[p] + 1) = [j \in 1..((pos[p] + 1) - Start(i)) |-> got'[p][Start(i) + j - 1]]
    BY DEF Begun
  <2> QED BY <2>6, <2>7, <2>8, Zenon
<1>7. \A j \in DOMAIN Ends : Ends[j] < pos[p] => out'[p][j] = Piece(got'[p], j)
  <2> SUFFICES ASSUME NEW j \in DOMAIN Ends, Ends[j] < pos[p] PROVE out'[p][j] = Piece(got'[p], j)
    OBVIOUS
  <2>1. out[p][j] = Piece(got[p], j)
    BY <1>2 DEF ReaderInv
  <2>2. Piece(got'[p], j) = Piece(got[p], j)
    <3>1. pos[p] - 1 \in Nat /\ Ends[j] <= pos[p] - 1
      BY <1>1, EndsFacts, BlocksEnough
    <3> QED BY <1>2, <3>1, PieceStays
  <2> QED BY <1>3, <2>1, <2>2
<1>8. CASE pos[p] = Ends[i]
  <2>1. pc'[p] = "rename"
    BY <1>8 DEF ReadData, LastOf, Go, TypeOK
  <2>2. temp'[p] = Piece(got'[p], i)
    <3>1. 1..((pos[p] + 1) - Start(i)) = 1..(Ends[i] - Start(i) + 1)
      BY <1>5, <1>8
    <3>2. Begun(got'[p], i, pos[p] + 1) = [j \in 1..((pos[p] + 1) - Start(i)) |-> got'[p][Start(i) + j - 1]]
      BY DEF Begun
    <3>3. Piece(got'[p], i) = [j \in 1..(Ends[i] - Start(i) + 1) |-> got'[p][Start(i) + j - 1]]
      BY DEF Piece
    <3> QED BY <1>6, <3>1, <3>2, <3>3, Zenon
  <2>3. ReaderInv(p)'
    <3>1. pos'[p] \in 1..Blocks /\ pos'[p] - 1 = pos[p] /\ pos'[p] = Ends[i] + 1
      BY <1>2, <1>5, <1>8, BlocksEnough
    <3>2. Len(got'[p]) = pos'[p] - 1
      BY <1>2, <3>1
    <3> QED BY <1>7, <2>1, <2>2, <3>1, <3>2 DEF ReaderInv
  <2> QED BY <1>2, <1>3, <2>1, <2>3 DEF CallInv, Reading
<1>9. CASE pos[p] # Ends[i]
  <2>1. ~LastOf(pos[p])
    <3>1. ASSUME NEW j \in DOMAIN Ends, pos[p] = Ends[j] PROVE FALSE
      <4>1. pos[p] \in Start(j)..Ends[j]
        BY <3>1, EndsFacts, BlocksEnough
      <4>2. Packed(pos[p]) = j /\ Packed(pos[p]) = i
        BY <1>4, <4>1, PackedIs
      <4> QED BY <1>9, <3>1, <4>2
    <3> QED BY <3>1 DEF LastOf
  <2>2. pc'[p] = "read"
    BY <1>2, <2>1 DEF ReadData, TypeOK
  <2>3. pos'[p] \in Start(i)..Ends[i]
    BY <1>2, <1>4, <1>5, <1>9
  <2>4. \A j \in DOMAIN Ends : Ends[j] < pos'[p] => out'[p][j] = Piece(got'[p], j)
    <3>1. ASSUME NEW j \in DOMAIN Ends, Ends[j] < pos[p] + 1 PROVE Ends[j] < pos[p]
      BY <1>1, <2>1, <3>1, EndsFacts, BlocksEnough DEF LastOf
    <3> QED BY <1>2, <1>7, <3>1
  <2>5. ReaderInv(p)'
    <3>1. pos'[p] \in 1..Blocks /\ Len(got'[p]) = pos'[p] - 1
      BY SMTT(30), <1>1, <1>2, <1>5, BlocksEnough
    <3>2. temp'[p] = Begun(got'[p], i, pos'[p])
      BY <1>2, <1>6
    <3> QED BY <2>2, <2>3, <2>4, <3>1, <3>2 DEF ReaderInv
  <2> QED BY <1>2, <1>3, <2>2, <2>5 DEF CallInv, Reading
<1> QED BY <1>8, <1>9

\* The complete file takes its place; the next one begins where it ended.
LEMMA RenameCall ==
  ASSUME TypeOK, NEW p \in Procs, CallInv(p), Rename(p)
  PROVE  CallInv(p)'
<1>1. /\ pc[p] = "rename" /\ pc'[p] = (IF pos[p] < Blocks THEN "remove" ELSE "read")
      /\ pos'[p] = pos[p] /\ got'[p] = got[p] /\ fd'[p] = fd[p] /\ temp'[p] = <<>>
      /\ result'[p] = result[p] /\ object'[p] = object[p] /\ stuck' = stuck
  BY DEF TypeOK, Rename, Go, local
<1>2. ReaderInv(p)
  BY <1>1 DEF CallInv, Reading
<1>3. PICK i \in DOMAIN Ends : pos[p] = Ends[i] + 1 /\ temp[p] = Piece(got[p], i)
  BY <1>1, <1>2 DEF ReaderInv
<1>4. Start(i) \in 2..Ends[i] /\ Ends[i] \in 2..(Blocks - 1) /\ pos[p] - 1 = Ends[i]
  BY <1>3, EndsFacts, BlocksEnough
<1>5. Packed(pos[p] - 1) = i
  <2>1. Ends[i] \in Start(i)..Ends[i]
    BY <1>4, BlocksEnough
  <2> QED BY <1>4, <2>1, PackedIs
<1>6. out'[p] = [out[p] EXCEPT ![i] = Piece(got[p], i)]
  BY <1>3, <1>5 DEF TypeOK, Rename
<1>7. \A j \in DOMAIN Ends : Ends[j] < pos[p] => out'[p][j] = Piece(got[p], j)
  <2> SUFFICES ASSUME NEW j \in DOMAIN Ends, Ends[j] < pos[p] PROVE out'[p][j] = Piece(got[p], j)
    OBVIOUS
  <2>1. CASE j = i
    BY <1>6, <2>1 DEF TypeOK
  <2>2. CASE j # i
    <3>1. Ends[j] # Ends[i]
      <4>1. i \in Nat /\ j \in Nat
        BY EndsFacts
      <4>2. i < j \/ j < i
        BY <4>1, <2>2
      <4> QED BY <4>2, EndsAscend, EndsFacts, BlocksEnough
    <3>2. Ends[j] < pos[p] - 1
      BY <1>3, <1>4, <3>1, EndsFacts, BlocksEnough
    <3>3. out[p][j] = Piece(got[p], j)
      BY <1>1, <1>2, <3>2 DEF ReaderInv
    <3> QED BY <1>6, <2>2, <3>3 DEF TypeOK
  <2> QED BY <2>1, <2>2
<1>8. \A j \in DOMAIN Ends : Len(out'[p][j]) \in {0, Ends[j] - Start(j) + 1}
  <2>1. Len(Piece(got[p], i)) = Ends[i] - Start(i) + 1
    <3>1. Ends[i] <= Len(got[p])
      BY <1>2, <1>4, BlocksEnough DEF ReaderInv
    <3> QED BY <3>1, PieceFacts DEF TypeOK
  <2> QED BY <1>6, <2>1 DEF TypeOK, CallInv
<1>9. ReaderInv(p)'
  <2>1. CASE pos[p] < Blocks
    <3>1. i + 1 \in DOMAIN Ends /\ Start(i + 1) = pos[p]
      <4>1. i \in Nat /\ i \in 1..Len(Ends) /\ Len(Ends) \in Nat
        BY EndsFacts
      <4>2. i # Len(Ends)
        BY <1>3, <2>1, EndsAscend, BlocksEnough
      <4> QED BY <1>3, <4>1, <4>2, EndsFacts DEF Start
    <3> QED BY <1>1, <1>2, <1>7, <2>1, <3>1 DEF ReaderInv
  <2>2. CASE ~(pos[p] < Blocks)
    <3>1. pos[p] = Blocks
      BY <1>2, <2>2, BlocksEnough DEF ReaderInv
    <3> QED BY <1>1, <1>2, <1>7, <2>2, <3>1 DEF ReaderInv
  <2> QED BY <2>1, <2>2
<1> QED BY <1>1, <1>8, <1>9 DEF CallInv, Reading

\* The checksum makes all blocks those of one compilation: so are the files.
LEMMA TailCall ==
  ASSUME TypeOK, NEW p \in Procs, CallInv(p), ReadTail(p)
  PROVE  CallInv(p)'
<1>1. /\ pc[p] = "read" /\ pos[p] = Blocks /\ Accepted(p)
      /\ pc'[p] = "done" /\ result'[p] = "hit" /\ out'[p] = out[p] /\ temp'[p] = temp[p]
      /\ stuck' = stuck
  BY DEF TypeOK, ReadTail, Finish, Go, files
<1>2. ReaderInv(p)
  BY <1>1 DEF CallInv, Reading
<1> DEFINE o == disk[fd[p]][Blocks]
<1>3. o \in Objects /\ \A k \in 1..(Blocks - 1) : got[p][k] = o
  <2>1. got[p] \in Seq(Objects) /\ Len(got[p]) = Blocks - 1
    BY <1>1, <1>2 DEF TypeOK, ReaderInv
  <2> QED BY <1>1, <2>1 DEF Accepted, Readable, Verified
<1>4. temp[p] = <<>>
  BY <1>1, <1>2, EndsFacts, BlocksEnough DEF ReaderInv
<1>5. out[p] = Whole(o)
  <2>1. ASSUME NEW i \in DOMAIN Ends PROVE out[p][i] = Whole(o)[i]
    <3>1. out[p][i] = Piece(got[p], i)
      BY <1>1, <1>2, EndsFacts, BlocksEnough DEF ReaderInv
    <3>2. \A k \in 1..(Ends[i] - Start(i) + 1) : got[p][Start(i) + k - 1] = o
      <4>1. \A k \in 1..(Ends[i] - Start(i) + 1) : Start(i) + k - 1 \in 1..(Blocks - 1)
        BY EndsFacts, BlocksEnough
      <4> QED BY <1>3, <4>1
    <3> HIDE DEF o
    <3> QED BY <3>1, <3>2 DEF Piece, Whole
  <2> HIDE DEF o
  <2>2. out[p] = [i \in DOMAIN Ends |-> out[p][i]]
    BY DEF TypeOK
  <2> QED BY <2>1, <2>2 DEF Whole
<1>6. \E w \in Objects : out'[p] = Whole(w)
  BY <1>1, <1>3, <1>5
<1> QED BY <1>1, <1>4, <1>6 DEF CallInv, Reading

\* An error on the way removes "~tmp~", or the call is one that could not.
LEMMA ErrorCall ==
  ASSUME TypeOK, NEW p \in Procs, CallInv(p), ReadError(p)
  PROVE  CallInv(p)'
<1>1. /\ pc[p] \in {"touch", "read", "rename"} /\ pc'[p] = "compile"
      /\ temp'[p] = <<>> \/ p \in stuck'
      /\ out'[p] = out[p] /\ result'[p] = result[p] /\ object'[p] = object[p]
  BY DEF TypeOK, ReadError, Go
<1> QED BY <1>1 DEF CallInv, Reading

\* The compiler replaces every output file.
LEMMA CompileCall ==
  ASSUME TypeOK, NEW p \in Procs, CallInv(p), Compile(p)
  PROVE  CallInv(p)'
<1>1. PICK v \in Variants :
        /\ object' = [object EXCEPT ![p] = [tool |-> tool[p], variant |-> v]]
        /\ out' = [out EXCEPT ![p] = Whole([tool |-> tool[p], variant |-> v])]
  BY DEF Compile
<1>2. /\ pc[p] = "compile" /\ pc'[p] = "create" /\ temp'[p] = temp[p] /\ result'[p] = result[p]
      /\ stuck' = stuck
      /\ object'[p] = [tool |-> tool[p], variant |-> v] /\ out'[p] = Whole(object'[p])
  BY <1>1 DEF TypeOK, Compile, Go
<1>3. object'[p] \in Objects
  BY <1>2 DEF TypeOK, Objects
<1>4. \A i \in DOMAIN Ends : Len(out'[p][i]) = Ends[i] - Start(i) + 1
  BY <1>2, <1>3, WholeFacts
<1> QED BY <1>2, <1>3, <1>4 DEF CallInv, Reading

\* Saving leaves the output files alone.
LEMMA CreateCall ==
  ASSUME TypeOK, NEW p \in Procs, CallInv(p), Create(p)
  PROVE  CallInv(p)'
<1>1. /\ pc[p] = "create" /\ pc'[p] = "write" /\ fd'[p] \in Procs /\ pos'[p] = 1
      /\ out'[p] = out[p] /\ temp'[p] = temp[p] /\ result'[p] = result[p] /\ object'[p] = object[p]
      /\ stuck' = stuck
  BY DEF TypeOK, Create, Go, files
<1> QED BY <1>1, BlocksEnough DEF CallInv, Reading

\* A step of write_cache keeps the invariant of its own call.
LEMMA WriteCall ==
  ASSUME TypeOK, NEW p \in Procs, CallInv(p), Write(p)
  PROVE  CallInv(p)'
<1>1. /\ pc[p] = "write" /\ out'[p] = out[p] /\ temp'[p] = temp[p] /\ pos[p] \in 1..Blocks
      /\ stuck' = stuck
  BY DEF TypeOK, Write, files, CallInv
<1>2. object[p] \in Objects /\ out[p] = Whole(object[p])
  BY <1>1 DEF CallInv
<1>3. CASE pos[p] = Blocks
  <2>1. pc'[p] = "done" /\ result'[p] = "miss"
    BY <1>3 DEF TypeOK, Write, Finish, Go
  <2> QED BY <1>1, <1>2, <2>1 DEF CallInv, Reading
<1>4. CASE pos[p] # Blocks
  <2>1. /\ pc'[p] = pc[p] /\ fd'[p] = fd[p] /\ result'[p] = result[p] /\ object'[p] = object[p]
        /\ pos'[p] = pos[p] + 1
    BY <1>4 DEF TypeOK, Write
  <2>2. pos'[p] \in 1..Blocks
    BY <1>1, <1>4, <2>1, BlocksEnough
  <2> QED BY <1>1, <1>2, <2>1, <2>2 DEF CallInv, Reading
<1> QED BY <1>3, <1>4

\* Every step of a call leaves it sound.
LEMMA CallSteps ==
  ASSUME TypeOK, NEW p \in Procs, CallInv(p), RunCached(p) \/ Crash(p)
  PROVE  CallInv(p)'
<1>1. CASE CompileFails(p)
  <2>1. PICK r \in {"failed", "Err"} : Finish(p, r)
    BY <1>1 DEF CompileFails
  <2>2. /\ temp[p] = <<>> \/ p \in stuck
        /\ out'[p] = out[p] /\ temp'[p] = temp[p] /\ stuck' = stuck
    BY <1>1 DEF CompileFails, CallInv, Reading, files
  <2> QED BY <2>1, <2>2, FinishCall
<1>2. CASE WriteError(p)
  <2>1. /\ Finish(p, "Err") /\ (temp[p] = <<>> \/ p \in stuck)
        /\ out'[p] = out[p] /\ temp'[p] = temp[p] /\ stuck' = stuck
    BY <1>2 DEF WriteError, CallInv, Reading, files
  <2> QED BY <2>1, FinishCall
<1>3. CASE Crash(p)
  <2>1. Finish(p, "killed") /\ out'[p] = out[p] /\ temp'[p] = temp[p] /\ stuck' = stuck
    BY <1>3 DEF Crash, files
  <2> QED BY <2>1, FinishCall
<1> QED BY <1>1, <1>2, <1>3, OpenCall, TouchCall, HeaderCall, RemoveCall, DataCall, RenameCall,
           TailCall, ErrorCall, CompileCall, CreateCall, WriteCall DEF RunCached

-------------------------------------------------------------------------------
(* Who writes the entry                                                    *)

\* A lone writer whose own state and whose file stay the same, with nobody
\* joining it, stays one.
LEMMA SoleFrame ==
  ASSUME NEW p \in Procs, SoleInv(p), pc'[p] = pc[p], fd'[p] = fd[p], pos'[p] = pos[p],
         object'[p] = object[p], alone'[p] => alone[p], disk'[fd[p]] = disk[fd[p]],
         \A q \in Procs \ {p} : pc'[q] = "write" => pc[q] = "write" /\ fd'[q] = fd[q]
  PROVE  SoleInv(p)'
BY DEF SoleInv

\* Steps that write nothing disturb no writer, but for their own.
LEMMA SoleElsewhere ==
  ASSUME IndInv, NEW p \in Procs, RunCached(p) \/ Crash(p), ~Touch(p), ~Create(p), ~Write(p),
         NEW q \in Procs
  PROVE  SoleInv(q)'
<1> USE DEF TypeOK, Go, Finish, files, local, io
<1>0. TypeOK /\ SoleInv(q)
  BY DEF IndInv
<1>1. disk' = disk /\ alone' = alone /\ pc'[p] # "write"
  BY SMTT(30), <1>0 DEF RunCached, OpenMissing, Open, ReadHeader, Fetch, RemoveOld, ReadData, Rename, ReadTail,
              ReadError, Compile, CompileFails, WriteError, Crash
<1>2. CASE q = p
  BY <1>1, <1>2 DEF SoleInv
<1>3. CASE q # p
  <2>1. \A r \in Procs \ {p} : pc'[r] = pc[r] /\ fd'[r] = fd[r] /\ pos'[r] = pos[r] /\ object'[r] = object[r]
    BY <1>0, OthersKeep
  <2> QED BY <1>0, <1>1, <1>3, <2>1, SoleFrame
<1> QED BY <1>2, <1>3

\* touch changes an empty file only, which its lone writer has not begun.
LEMMA SoleTouch ==
  ASSUME IndInv, NEW p \in Procs, Touch(p), NEW q \in Procs
  PROVE  SoleInv(q)'
<1>0. TypeOK /\ SoleInv(q) /\ pc'[p] = "read" /\ fd' = fd /\ object' = object /\ alone' = alone
  BY DEF IndInv, TypeOK, Touch, Go
<1>1. \A r \in Procs \ {p} : pc'[r] = pc[r] /\ pos'[r] = pos[r]
  BY <1>0 DEF TypeOK, Touch, Go
<1>2. CASE q = p
  BY <1>0, <1>2 DEF SoleInv
<1>3. CASE q # p /\ disk'[fd[q]] = disk[fd[q]]
  BY <1>0, <1>1, <1>3, SoleFrame
<1>4. CASE q # p /\ disk'[fd[q]] # disk[fd[q]] /\ pc[q] = "write" /\ alone[q]
  <2>1. fd[p] \in Procs /\ fd[q] \in Procs /\ pos[q] \in 1..Blocks
    BY <1>4, OpenFacts DEF Touch, Reading
  <2>2. disk[fd[q]] = <<>> /\ disk'[fd[q]] = <<Touched>>
    BY <1>0, <1>4, <2>1 DEF TypeOK, Touch
  <2>3. pos[q] = 1
    BY <1>0, <1>4, <2>1, <2>2 DEF SoleInv
  <2> QED BY <1>0, <1>1, <1>4, <2>2, <2>3 DEF SoleInv
<1>5. CASE q # p /\ ~(pc[q] = "write" /\ alone[q])
  BY <1>0, <1>1, <1>5 DEF SoleInv
<1> QED BY <1>2, <1>3, <1>4, <1>5

\* Whoever truncates the file ends the solitude of those who write it; it is
\* alone itself if nobody does.
LEMMA SoleCreate ==
  ASSUME IndInv, NEW p \in Procs, Create(p), NEW q \in Procs
  PROVE  SoleInv(q)'
<1> DEFINE inode == IF entry = None THEN p ELSE entry
<1>0. TypeOK /\ SoleInv(q) /\ CallInv(q)
  BY DEF IndInv
<1>1. /\ inode \in Procs /\ pc[p] = "create" /\ disk' = [disk EXCEPT ![inode] = <<>>]
      /\ fd' = [fd EXCEPT ![p] = inode] /\ pos' = [pos EXCEPT ![p] = 1]
      /\ pc' = [pc EXCEPT ![p] = "write"] /\ object' = object
      /\ alone' = [r \in Procs |-> IF r = p THEN Writers(inode) = {} ELSE alone[r] /\ fd[r] # inode]
  BY <1>0 DEF TypeOK, Create, Go
<1> HIDE DEF inode
<1>2. CASE q = p
  <2> SUFFICES ASSUME Writers(inode) = {} PROVE SoleInv(p)'
    BY <1>1, <1>2 DEF SoleInv
  <2>1. \A r \in Procs \ {p} : pc'[r] = "write" => fd'[r] # inode
    BY <1>0, <1>1 DEF Writers, TypeOK
  <2>2. fd'[p] = inode /\ pos'[p] = 1 /\ disk'[inode] = <<>>
    BY <1>0, <1>1 DEF TypeOK
  <2> QED BY <2>1, <2>2 DEF SoleInv
<1>3. CASE q # p
  <2> SUFFICES ASSUME pc[q] = "write", alone[q], fd[q] # inode PROVE SoleInv(q)'
    BY <1>0, <1>1, <1>3 DEF SoleInv, TypeOK
  <2>1. \A r \in Procs \ {q} : pc'[r] = "write" => fd'[r] # fd[q]
    BY <1>0, <1>1, <1>3 DEF SoleInv, TypeOK
  <2>2. /\ fd'[q] = fd[q] /\ pos'[q] = pos[q] /\ object'[q] = object[q]
        /\ disk'[fd[q]] = disk[fd[q]]
    BY <1>0, <1>1, <1>3 DEF TypeOK
  <2> QED BY <1>0, <2>1, <2>2 DEF SoleInv
<1> QED BY <1>2, <1>3

\* A lone writer appends its block, and the others write elsewhere.
LEMMA SoleWrite ==
  ASSUME IndInv, NEW p \in Procs, Write(p), NEW q \in Procs
  PROVE  SoleInv(q)'
<1>0. TypeOK /\ SoleInv(q) /\ CallInv(q) /\ pc[p] = "write" /\ alone' = alone
      /\ disk' = [disk EXCEPT ![fd[p]] = Written(@, pos[p], object[p])]
  BY DEF IndInv, Write
<1>1. fd[p] \in Procs /\ pos[p] \in 1..Blocks /\ disk[fd[p]] \in Seq(Objects \cup {Hole, Touched})
  BY <1>0, OpenFacts DEF Reading
<1>2. \A r \in Procs \ {p} : pc'[r] = pc[r] /\ fd'[r] = fd[r] /\ pos'[r] = pos[r] /\ object'[r] = object[r]
  BY <1>0, OthersKeep DEF RunCached
<1>3. pc'[p] = "write" => fd'[p] = fd[p] /\ object'[p] = object[p] /\ pos'[p] = pos[p] + 1 /\ pos[p] # Blocks
  BY <1>0 DEF TypeOK, Write, Finish, Go
<1>4. CASE q # p
  <2> SUFFICES ASSUME pc[q] = "write", alone[q] PROVE SoleInv(q)'
    BY <1>0, <1>2, <1>4 DEF SoleInv
  <2>1. fd[p] # fd[q]
    BY <1>0, <1>4 DEF SoleInv
  <2>2. disk'[fd[q]] = disk[fd[q]]
    BY <1>0, <1>4, <2>1 DEF TypeOK
  <2>3. \A r \in Procs \ {q} : pc'[r] = "write" => pc[r] = "write" /\ fd'[r] = fd[r]
    BY <1>0, <1>2, <1>3
  <2> QED BY <1>0, <1>2, <1>4, <2>2, <2>3, SoleFrame
<1>5. CASE q = p
  <2> SUFFICES ASSUME pc'[p] = "write", alone[p] PROVE SoleInv(p)'
    BY <1>0, <1>5 DEF SoleInv
  <2> DEFINE f == disk[fd[p]]
  <2>1. object[p] \in Objects
    BY <1>0, <1>5 DEF CallInv
  <2>2. /\ Len(f) = pos[p] - 1 \/ (pos[p] = 1 /\ Len(f) = 1)
        /\ \A k \in 1..(pos[p] - 1) : f[k] = object[p]
    BY <1>0, <1>5 DEF SoleInv
  <2>3. disk'[fd[p]] = Written(f, pos[p], object[p])
    BY <1>0, <1>1 DEF TypeOK
  <2>4. /\ pos[p] > Len(f) => Len(disk'[fd[p]]) = pos[p]
        /\ pos[p] <= Len(f) => Len(disk'[fd[p]]) = Len(f)
        /\ disk'[fd[p]][pos[p]] = object[p]
        /\ \A j \in 1..Len(f) : j # pos[p] => disk'[fd[p]][j] = f[j]
    <3> DEFINE S == Objects \cup {Hole, Touched}
               k == pos[p]
               b == object[p]
    <3>1. k \in Nat \ {0}
      BY <1>1, BlocksEnough
    <3>2. f \in Seq(S) /\ b \in S /\ Hole \in S
      BY <1>1, <2>1
    <3>3. disk'[fd[p]] = Written(f, k, b)
      BY <2>3
    <3> HIDE DEF f, S, k, b
    <3>4. /\ k > Len(f) => Len(Written(f, k, b)) = k
          /\ k <= Len(f) => Len(Written(f, k, b)) = Len(f)
          /\ Written(f, k, b)[k] = b
          /\ \A j \in 1..Len(f) : j # k => Written(f, k, b)[j] = f[j]
      <4>1. k > Len(f) => Len(Written(f, k, b)) = k
        BY <3>1, <3>2, WrittenFacts
      <4>2. k <= Len(f) => Len(Written(f, k, b)) = Len(f)
        BY <3>1, <3>2, WrittenFacts
      <4>3. Written(f, k, b)[k] = b /\ \A j \in 1..Len(f) : j # k => Written(f, k, b)[j] = f[j]
        BY <3>1, <3>2, WrittenFacts
      <4> QED BY <4>1, <4>2, <4>3
    <3> QED BY <3>3, <3>4 DEF k, b
  <2> HIDE DEF f
  <2>5. Len(disk'[fd[p]]) = pos[p]
    BY <1>1, <2>2, <2>4, BlocksEnough
  <2>6. \A k \in 1..pos[p] : disk'[fd[p]][k] = object[p]
    <3> SUFFICES ASSUME NEW k \in 1..pos[p] PROVE disk'[fd[p]][k] = object[p]
      OBVIOUS
    <3>1. CASE k = pos[p]
      BY <2>4, <3>1
    <3>2. CASE k # pos[p]
      <4>1. k \in 1..(pos[p] - 1) /\ k \in 1..Len(f)
        BY <1>1, <2>2, <3>2, BlocksEnough
      <4> QED BY <2>2, <2>4, <3>2, <4>1
    <3> QED BY <3>1, <3>2
  <2>7. \A r \in Procs \ {p} : pc'[r] = "write" => fd'[r] # fd[p]
    BY <1>0, <1>2, <1>5 DEF SoleInv
  <2>8. pos'[p] - 1 = pos[p]
    BY <1>1, <1>3, BlocksEnough
  <2> QED BY <1>3, <2>5, <2>6, <2>7, <2>8 DEF SoleInv
<1> QED BY <1>4, <1>5

-------------------------------------------------------------------------------
(* The theorems                                                            *)

\* No call has begun; whatever lies at the path was there before.
LEMMA InitEstablishes == Init => IndInv
<1> SUFFICES ASSUME Init PROVE IndInv
  OBVIOUS
<1>1. NoFiles \in [DOMAIN Ends -> Seq(Objects \cup {Old})] /\ Whole(Old) \in [DOMAIN Ends -> Seq(Objects \cup {Old})]
  <2>1. NoFiles \in [DOMAIN Ends -> Seq(Objects \cup {Old})]
    BY DEF NoFiles
  <2> QED BY <2>1, WholeFacts
<1>2. TypeOK
  <2>1. out \in [Procs -> [DOMAIN Ends -> Seq(Objects \cup {Old})]]
    BY <1>1 DEF Init
  <2>2. /\ disk \in [Procs -> Seq(Objects \cup {Hole, Touched})] /\ got \in [Procs -> Seq(Objects)]
        /\ temp \in [Procs -> Seq(Objects)]
    BY DEF Init
  <2> QED BY <2>1, <2>2, BlocksEnough DEF Init, TypeOK
<1>3. ASSUME NEW p \in Procs PROVE CallInv(p)
  <2>1. \A i \in DOMAIN Ends : Len(out[p][i]) \in {0, Ends[i] - Start(i) + 1}
    <3>1. CASE out[p] = NoFiles
      BY <3>1 DEF NoFiles
    <3>2. CASE out[p] = Whole(Old)
      BY <3>2, WholeFacts
    <3> QED BY <3>1, <3>2 DEF Init
  <2> QED BY <2>1 DEF Init, CallInv, Reading
<1>4. \A p \in Procs : SoleInv(p)
  BY DEF Init, SoleInv
<1> QED BY <1>2, <1>3, <1>4 DEF IndInv

\* Every step keeps the invariant.
LEMMA NextPreserves ==
  ASSUME IndInv, [Next]_vars
  PROVE  IndInv'
<1>0. TypeOK /\ \A p \in Procs : CallInv(p) /\ SoleInv(p)
  BY DEF IndInv
<1>1. ASSUME NEW p \in Procs, RunCached(p) \/ Crash(p) PROVE IndInv'
  <2>1. TypeOK'
    BY <1>1, ReadTypes, WriteTypes DEF RunCached
  <2>2. ASSUME NEW q \in Procs PROVE CallInv(q)'
    <3>1. CASE q = p
      BY <1>0, <1>1, <3>1, CallSteps
    <3>2. CASE q # p
      BY <1>0, <1>1, <3>2, OthersKeep, CallFrame
    <3> QED BY <3>1, <3>2
  <2>3. ASSUME NEW q \in Procs PROVE SoleInv(q)'
    BY <1>1, SoleElsewhere, SoleTouch, SoleCreate, SoleWrite
  <2> QED BY <2>1, <2>2, <2>3 DEF IndInv
<1>2. CASE Evict
  <2>1. TypeOK'
    BY <1>0, <1>2 DEF TypeOK, Evict, local, files
  <2>2. \A q \in Procs : CallInv(q)'
    BY <1>0, <1>2, CallFrame DEF Evict, local, files
  <2>3. \A q \in Procs : SoleInv(q)'
    BY <1>0, <1>2 DEF SoleInv, Evict, local
  <2> QED BY <2>1, <2>2, <2>3 DEF IndInv
<1>3. CASE UNCHANGED vars
  <2>1. TypeOK'
    BY <1>0, <1>3 DEF TypeOK, vars, io, local, files
  <2>2. \A q \in Procs : CallInv(q)'
    BY <1>0, <1>3, CallFrame DEF vars, io, local, files
  <2>3. \A q \in Procs : SoleInv(q)'
    BY <1>0, <1>3 DEF SoleInv, vars, io, local
  <2> QED BY <2>1, <2>2, <2>3 DEF IndInv
<1> QED BY <1>1, <1>2, <1>3 DEF Next, AllDone

\* The invariant of the calls of run_cached that share an entry.
THEOREM CacheInvariant == Spec => []IndInv
<1>1. Init => IndInv
  BY InitEstablishes
<1>2. IndInv /\ [Next]_vars => IndInv'
  BY NextPreserves
<1> QED BY <1>1, <1>2, PTL DEF Spec

\* A hit or a miss of run_cached leaves the whole output files of one
\* compilation, for any number of writers, readers, crashes and evictions.
THEOREM SuccessIsWholeAlways == Spec => []SuccessIsWhole
<1>1. IndInv => SuccessIsWhole
  BY DEF IndInv, CallInv, SuccessIsWhole
<1> QED BY <1>1, CacheInvariant, PTL

\* read_cache never leaves a part of a file at an output path, nor a "~tmp~"
\* file after it returned.
THEOREM OutputNeverPartialAlways == Spec => []OutputNeverPartial
<1>1. IndInv => OutputNeverPartial
  BY DEF IndInv, CallInv, OutputNeverPartial, Reading
<1> QED BY <1>1, CacheInvariant, PTL

\* write_cache without another writer leaves an entry that every later reader
\* accepts, whatever file it found there.
THEOREM SoleWriterHealsAlways == Spec => SoleWriterHeals
<1>1. ASSUME IndInv, [Next]_vars, NEW p \in Procs, pc[p] = "write", result'[p] = "miss", alone[p]
      PROVE  disk'[fd[p]] = [k \in 1..Blocks |-> object[p]]
  <2>1. TypeOK /\ CallInv(p) /\ SoleInv(p) /\ result[p] = "none" /\ object[p] \in Objects
    BY <1>1 DEF IndInv, CallInv
  <2>2. Write(p)
    <3>1. ASSUME NEW q \in Procs, RunCached(q) \/ Crash(q) PROVE q = p
      BY <1>1, <2>1, <3>1, OthersKeep
    <3>2. RunCached(p) \/ Crash(p)
      BY <1>1, <2>1, <3>1 DEF Next, Evict, AllDone, vars
    <3>3. ~Crash(p) /\ ~WriteError(p)
      BY <1>1, <2>1 DEF Crash, WriteError, Finish, TypeOK
    <3> QED BY <1>1, <3>2, <3>3 DEF RunCached, OpenMissing, Open, Touch, ReadHeader, Fetch, RemoveOld,
              ReadData, Rename, ReadTail, ReadError, Compile, CompileFails, Create
  <2>3. pos[p] = Blocks
    BY <1>1, <2>1, <2>2 DEF Write
  <2> DEFINE S == Objects \cup {Hole, Touched}
             f == disk[fd[p]]
  <2>4. fd[p] \in Procs /\ f \in Seq(S) /\ object[p] \in S /\ Hole \in S
    BY <1>1, <2>1, OpenFacts DEF Reading
  <2>5. disk'[fd[p]] = Written(f, Blocks, object[p])
    BY <2>1, <2>2, <2>3, <2>4 DEF Write, TypeOK
  <2>6. Len(f) = Blocks - 1 /\ \A k \in 1..(Blocks - 1) : f[k] = object[p]
    BY <1>1, <2>1, <2>3, BlocksEnough DEF SoleInv
  <2> HIDE DEF f, S
  <2>7. Written(f, Blocks, object[p]) = [k \in 1..Blocks |-> object[p]]
    BY <2>6, BlocksEnough DEF Written
  <2> QED BY <2>5, <2>7
<1>2. IndInv /\ [Next]_vars =>
        [\A p \in Procs : pc[p] = "write" /\ result'[p] = "miss" /\ alone[p] =>
           disk'[fd[p]] = [k \in 1..Blocks |-> object[p]]]_vars
  BY <1>1
<1> QED BY <1>2, CacheInvariant, PTL DEF Spec, SoleWriterHeals

===============================================================================
