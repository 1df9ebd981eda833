------------------------------- MODULE FileCache ------------------------------
(***************************************************************************)
(* One entry of the on-disk compilation cache (src/io/filecache.rs): what  *)
(* run_cached does when several octobuild processes compile something with *)
(* the same key, without any lock, on the same file <hash>.lz4.  A file is *)
(* an inode that stays readable after it was unlinked; it is written block *)
(* by block by everybody who opened it, and read block by block meanwhile. *)
(*                                                                         *)
(* A process writes its i-th block at the i-th place.  Block 1 holds the   *)
(* header, then come the packed output files, the object file and perhaps  *)
(* a precompiled header, of which Ends has the last blocks, and block      *)
(* Blocks is the footer with the end mark and checksum of the LZ4 frame,   *)
(* which the encoder's finish() writes at once.  The key covers the        *)
(* preprocessed text and the arguments (compile_step_cached), not the      *)
(* toolchain.                                                              *)
(***************************************************************************)
EXTENDS Naturals, Sequences, FiniteSets

CONSTANTS
  Procs,                        \* calls of run_cached with this key
  Toolchains,                   \* compilers that give the same key
  Variants,                     \* what one compiler may produce for one input
  Blocks,                       \* blocks of a cache file
  Ends,                         \* the last block of each packed output file
  MaxCrashes,                   \* bound on the processes that are killed
  MaxStuck,                     \* bound on the removals of "~tmp~" that fail
  Faults,                       \* whether I/O may fail
  None, Hole, Touched, Old      \* no inode; unwritten block; a file of the
                                \* single byte of touch; an older object file

ASSUME ProcsFinite == IsFiniteSet(Procs)
ASSUME NoneIsNoProc == None \notin Procs
ASSUME BlocksEnough == Blocks \in Nat /\ Blocks >= 3
ASSUME EndsAscend ==
  /\ Ends \in Seq(2..(Blocks - 1)) /\ Ends # <<>>
  /\ \A i, j \in DOMAIN Ends : i < j => Ends[i] < Ends[j]
  /\ Ends[Len(Ends)] = Blocks - 1
ASSUME BoundsNatural == MaxCrashes \in Nat /\ MaxStuck \in Nat
ASSUME FaultsBoolean == Faults \in BOOLEAN

\* The object file a compilation produces: which compiler, which variant.
Objects == [tool : Toolchains, variant : Variants]
ASSUME MarksAreNoObjects == {Hole, Touched, Old} \cap Objects = {}

VARIABLES
  tool,                         \* the compiler each call uses
  entry, disk,                  \* the inode behind the path; inode contents
  pc, fd, pos, got,             \* a call: place, open inode, next block, blocks read
  object,                       \* what its own compilation produced
  out, temp,                    \* the output files and the "~tmp~" file of the call
  stuck,                        \* history: calls that could not remove "~tmp~"
  result,                       \* what run_cached returned
  alone                         \* history: nobody else truncated or wrote the
                                \* inode since this call created it

io == <<entry, disk>>
local == <<fd, pos, got, object>>
files == <<out, temp, stuck>>
vars == <<tool, io, pc, local, files, result, alone>>

\* The output files of a compilation o, as blocks.
Start(i) == IF i = 1 THEN 2 ELSE Ends[i - 1] + 1
Whole(o) == [i \in DOMAIN Ends |-> [k \in 1..(Ends[i] - Start(i) + 1) |-> o]]
NoFiles == [i \in DOMAIN Ends |-> <<>>]

\* The output file that block k belongs to.
Packed(k) == CHOOSE i \in DOMAIN Ends : k \in Start(i)..Ends[i]
LastOf(k) == \E i \in DOMAIN Ends : k = Ends[i]

\* What is in the file after block b was written at place k: past the end the
\* places before are a hole.
Written(file, k, b) ==
  [j \in 1..(IF k > Len(file) THEN k ELSE Len(file)) |->
     IF j = k THEN b ELSE IF j <= Len(file) THEN file[j] ELSE Hole]

\* The decoder can deliver block k of the file.
Readable(file, k) == k <= Len(file) /\ file[k] \in Objects

Init ==
  /\ tool \in [Procs -> Toolchains]
  /\ entry = None
  /\ disk = [p \in Procs |-> <<>>]
  /\ pc = [p \in Procs |-> "open"]
  /\ fd = [p \in Procs |-> None]
  /\ pos = [p \in Procs |-> 0]
  /\ got = [p \in Procs |-> <<>>]
  /\ object = [p \in Procs |-> Old]
  /\ out \in [Procs -> {NoFiles, Whole(Old)}]
  /\ temp = [p \in Procs |-> <<>>]
  /\ stuck = {}
  /\ result = [p \in Procs |-> "none"]
  /\ alone = [p \in Procs |-> FALSE]

Go(p, place) == pc' = [pc EXCEPT ![p] = place]

\* The call returns r; its locals and the open file are gone.
Finish(p, r) ==
  /\ Go(p, "done")
  /\ result' = [result EXCEPT ![p] = r]
  /\ fd' = [fd EXCEPT ![p] = None]
  /\ pos' = [pos EXCEPT ![p] = 0]
  /\ got' = [got EXCEPT ![p] = <<>>]
  /\ object' = [object EXCEPT ![p] = Old]

-------------------------------------------------------------------------------
(* read_cache                                                              *)

\* No such file: a miss.
OpenMissing(p) ==
  /\ pc[p] = "open" /\ entry = None
  /\ Go(p, "compile")
  /\ UNCHANGED <<tool, io, local, files, result, alone>>

Open(p) ==
  /\ pc[p] = "open" /\ entry # None
  /\ fd' = [fd EXCEPT ![p] = entry]
  /\ Go(p, "touch")
  /\ UNCHANGED <<tool, io, pos, got, object, files, result, alone>>

\* Mutant: another byte than the first one of the frame.
TouchDamages(p) ==
  /\ pc[p] = "touch"
  /\ disk' = [disk EXCEPT ![fd[p]] = Written(@, 1, Touched)]
  /\ pos' = [pos EXCEPT ![p] = 1]
  /\ got' = [got EXCEPT ![p] = <<>>]
  /\ Go(p, "read")
  /\ UNCHANGED <<tool, entry, fd, object, files, result, alone>>

\* write_all(&[4]) at offset 0 renews the modification time.  4 is the first
\* byte of every LZ4 frame, so only an empty file changes.
Touch(p) ==
  /\ pc[p] = "touch"
  /\ disk' = IF disk[fd[p]] = <<>> THEN [disk EXCEPT ![fd[p]] = <<Touched>>] ELSE disk
  /\ pos' = [pos EXCEPT ![p] = 1]
  /\ got' = [got EXCEPT ![p] = <<>>]
  /\ Go(p, "read")
  /\ UNCHANGED <<tool, entry, fd, object, files, result, alone>>

\* Reads the next block into got.
Fetch(p) ==
  /\ pc[p] = "read"
  /\ Readable(disk[fd[p]], pos[p])
  /\ got' = [got EXCEPT ![p] = Append(@, disk[fd[p]][pos[p]])]
  /\ pos' = [pos EXCEPT ![p] = @ + 1]
  /\ UNCHANGED <<tool, io, fd, object, result, alone>>

\* Header and count.
ReadHeader(p) ==
  /\ pos[p] = 1 /\ Fetch(p)
  /\ Go(p, "remove")
  /\ UNCHANGED files

\* The old output is removed before the new one is read; that it cannot be is
\* ignored.
RemoveOld(p) ==
  /\ pc[p] = "remove"
  /\ \/ out' = [out EXCEPT ![p][Packed(pos[p])] = <<>>]
     \/ Faults /\ out' = out
  /\ Go(p, "read")
  /\ UNCHANGED <<tool, io, local, temp, stuck, result, alone>>

\* Mutant: unpacking straight to the output path.
ReadDataInPlace(p) ==
  /\ pos[p] \in 2..(Blocks - 1) /\ Fetch(p)
  /\ out' = [out EXCEPT ![p][Packed(pos[p])] =
       Append(IF pos[p] = Start(Packed(pos[p])) THEN <<>> ELSE @, disk[fd[p]][pos[p]])]
  /\ IF LastOf(pos[p]) /\ pos[p] < Blocks - 1 THEN Go(p, "remove") ELSE UNCHANGED pc
  /\ UNCHANGED <<temp, stuck>>

\* A piece of the packed file goes to "~tmp~", which is renamed when complete.
ReadData(p) ==
  /\ pos[p] \in 2..(Blocks - 1) /\ Fetch(p)
  /\ temp' = [temp EXCEPT ![p] = Append(@, disk[fd[p]][pos[p]])]
  /\ IF LastOf(pos[p]) THEN Go(p, "rename") ELSE UNCHANGED pc
  /\ UNCHANGED <<out, stuck>>

\* The file takes its place, and the next one follows.
Rename(p) ==
  /\ pc[p] = "rename"
  /\ out' = [out EXCEPT ![p][Packed(pos[p] - 1)] = temp[p]]
  /\ temp' = [temp EXCEPT ![p] = <<>>]
  /\ Go(p, IF pos[p] < Blocks THEN "remove" ELSE "read")
  /\ UNCHANGED <<tool, io, local, stuck, result, alone>>

\* Mutant: a frame without content checksum.
VerifiedNever(blocks, last) == TRUE

\* The checksum of the last block is that of the blocks it was written with.
Verified(blocks, last) == \A k \in DOMAIN blocks : blocks[k] = last

\* The decoder and the comparisons of read_cache accept the next block.
Accepted(p) ==
  /\ Readable(disk[fd[p]], pos[p])
  /\ pos[p] = Blocks => Verified(got[p], disk[fd[p]][Blocks])

\* Footer, end mark, checksum and end of file: a hit.
ReadTail(p) ==
  /\ pc[p] = "read" /\ pos[p] = Blocks /\ Accepted(p)
  /\ Finish(p, "hit")
  /\ UNCHANGED <<tool, io, files, alone>>

\* A truncated or unwritten block, a bad checksum, or an I/O error: "~tmp~" is
\* removed, unless that fails too, and the call goes on as after a miss.
ReadError(p) ==
  /\ pc[p] \in {"touch", "read", "rename"}
  /\ Faults \/ (pc[p] = "read" /\ ~Accepted(p))
  /\ \/ temp' = [temp EXCEPT ![p] = <<>>] /\ UNCHANGED stuck
     \/ /\ Faults /\ temp[p] # <<>> /\ Cardinality(stuck) < MaxStuck
        /\ stuck' = stuck \cup {p} /\ UNCHANGED temp
  /\ fd' = [fd EXCEPT ![p] = None]
  /\ pos' = [pos EXCEPT ![p] = 0]
  /\ got' = [got EXCEPT ![p] = <<>>]
  /\ Go(p, "compile")
  /\ UNCHANGED <<tool, io, object, out, result, alone>>

-------------------------------------------------------------------------------
(* worker() and write_cache                                                *)

\* The compiler succeeds and leaves its object file at the output path.
Compile(p) ==
  /\ pc[p] = "compile"
  /\ \E v \in Variants :
       /\ object' = [object EXCEPT ![p] = [tool |-> tool[p], variant |-> v]]
       /\ out' = [out EXCEPT ![p] = Whole([tool |-> tool[p], variant |-> v])]
  /\ Go(p, "create")
  /\ UNCHANGED <<tool, io, fd, pos, got, temp, stuck, result, alone>>

\* It reports an error (nothing is cached) or cannot be run.
CompileFails(p) ==
  /\ pc[p] = "compile"
  /\ \E r \in {"failed", "Err"} : Finish(p, r)
  /\ UNCHANGED <<tool, io, files, alone>>

\* The calls that have the inode open for writing.
Writers(inode) == {q \in Procs : pc[q] = "write" /\ fd[q] = inode}

\* File::create: a new inode, or the existing one truncated under its users.
Create(p) ==
  LET inode == IF entry = None THEN p ELSE entry IN
  /\ pc[p] = "create"
  /\ entry' = inode
  /\ disk' = [disk EXCEPT ![inode] = <<>>]
  /\ fd' = [fd EXCEPT ![p] = inode]
  /\ pos' = [pos EXCEPT ![p] = 1]
  /\ alone' = [q \in Procs |-> IF q = p THEN Writers(inode) = {} ELSE alone[q] /\ fd[q] # inode]
  /\ Go(p, "write")
  /\ UNCHANGED <<tool, got, object, files, result>>

Write(p) ==
  /\ pc[p] = "write"
  /\ disk' = [disk EXCEPT ![fd[p]] = Written(@, pos[p], object[p])]
  /\ IF pos[p] = Blocks
       THEN Finish(p, "miss")
       ELSE pos' = [pos EXCEPT ![p] = @ + 1] /\ UNCHANGED <<pc, fd, got, object, result>>
  /\ UNCHANGED <<tool, entry, files, alone>>

\* Saving fails: run_cached returns the error although the compiler succeeded.
WriteError(p) ==
  /\ Faults /\ pc[p] \in {"create", "write"}
  /\ Finish(p, "Err")
  /\ UNCHANGED <<tool, io, files, alone>>

-------------------------------------------------------------------------------
(* What happens around the call                                            *)

\* The process is killed; files stay as they are.
Crash(p) ==
  /\ pc[p] # "done"
  /\ Cardinality({q \in Procs : result[q] = "killed"}) < MaxCrashes
  /\ Finish(p, "killed")
  /\ UNCHANGED <<tool, io, files, alone>>

\* Some process's cleanup() unlinks the entry; who has it open keeps it.
Evict ==
  /\ entry # None
  /\ entry' = None
  /\ UNCHANGED <<tool, disk, pc, local, files, result, alone>>

RunCached(p) ==
  \/ OpenMissing(p) \/ Open(p) \/ Touch(p) \/ ReadHeader(p) \/ RemoveOld(p) \/ ReadData(p) \/ Rename(p)
  \/ ReadTail(p) \/ ReadError(p)
  \/ Compile(p) \/ CompileFails(p) \/ Create(p) \/ Write(p) \/ WriteError(p)

AllDone == (\A p \in Procs : pc[p] = "done") /\ UNCHANGED vars

Next == (\E p \in Procs : RunCached(p) \/ Crash(p)) \/ Evict \/ AllDone

Spec == Init /\ [][Next]_vars

-------------------------------------------------------------------------------
\* Types.  Inodes are named after the call that created them.
TypeOK ==
  /\ tool \in [Procs -> Toolchains]
  /\ entry \in Procs \cup {None}
  /\ disk \in [Procs -> Seq(Objects \cup {Hole, Touched})]
  /\ pc \in [Procs -> {"open", "touch", "read", "remove", "rename", "compile", "create", "write", "done"}]
  /\ fd \in [Procs -> Procs \cup {None}]
  /\ pos \in [Procs -> 0..Blocks]
  /\ got \in [Procs -> Seq(Objects)]
  /\ object \in [Procs -> Objects \cup {Old}]
  /\ out \in [Procs -> [DOMAIN Ends -> Seq(Objects \cup {Old})]]
  /\ temp \in [Procs -> Seq(Objects)]
  /\ stuck \subseteq Procs
  /\ result \in [Procs -> {"none", "hit", "miss", "failed", "Err", "killed"}]
  /\ alone \in [Procs -> BOOLEAN]

\* A call that reports success leaves the whole output files of one
\* compilation, never a mixture of two, whatever writers, crashes and evictions
\* met in the cache file and whichever file could not be replaced.
SuccessIsWhole ==
  \A p \in Procs : result[p] \in {"hit", "miss"} => \E o \in Objects : out[p] = Whole(o)

\* An output path never holds a part of a file, not even after a crash
\* (CHANGELOG 0.1.5: "Fix partially saved files from cache on IO-errors"), and
\* a call that returns leaves no "~tmp~" file behind, but one whose removal,
\* which the code tries once and does not check, failed.
OutputNeverPartial ==
  \A p \in Procs :
    /\ \A i \in DOMAIN Ends : Len(out[p][i]) \in {0, Ends[i] - Start(i) + 1}
    /\ pc[p] = "done" /\ result[p] # "killed" /\ p \notin stuck => temp[p] = <<>>

\* A call that saved its result without another writer leaves an entry the
\* next reader will accept: neither the torn file of a killed process nor the
\* byte written by concurrent readers spoils it.
SoleWriterHeals ==
  [][\A p \in Procs :
       pc[p] = "write" /\ result'[p] = "miss" /\ alone[p] =>
         disk'[fd[p]] = [k \in 1..Blocks |-> object[p]]]_vars

\* "detecting when the same compilation is being done again" (README.adoc:24):
\* a hit delivers what the call's own compiler would have produced.
SameCompilation ==
  \A p \in Procs : result[p] = "hit" => \E v \in Variants :
    out[p] = Whole([tool |-> tool[p], variant |-> v])

===============================================================================
