------------------------------- MODULE FileHash -------------------------------
(***************************************************************************)
(* Cache::file_hash of cache.rs on MemCache::run_cached of io/memcache.rs:  *)
(* the hashes of files, kept in memory with the size and the modification   *)
(* time they were computed for, one lock per file.  Compilations hash their *)
(* precompiled header with it to form cache keys and to name uploads, while *)
(* other processes may write the file.                                      *)
(*                                                                         *)
(* A hash is the content it was computed from.  The clock counts the ticks  *)
(* in which file systems keep modification times: several writes may get    *)
(* the same one.  A process that sets the time of a file back is left out.  *)
(***************************************************************************)
EXTENDS Naturals

CONSTANTS
  Threads, Paths,
  Contents, Size,               \* what a file may hold, and how long that is
  None, Mixed,                  \* nothing; a file read while it is written
  MaxClock,                     \* bound on the time
  MaxWrites                     \* bound: changes of files

ASSUME Distinct == None # Mixed /\ None \notin Contents /\ Mixed \notin Contents
ASSUME NoneIsNoThread == None \notin Threads
ASSUME SizesNatural == Size \in [Contents -> Nat]
ASSUME BoundsNatural == MaxClock \in Nat /\ MaxWrites \in Nat

VARIABLES
  clock, writes,
  file,                         \* each file's content and modification time
  entry, lock,                  \* MemCache: value and Mutex of each path's entry
  pc, path,                     \* where a thread is, and the path it asks for
  cached, stat, read,           \* the worker's locals: the entry it took, the
                                \* metadata, the content it has begun to read
  result,                       \* what file_hash returned
  changed,                      \* history: at which steps of a call its file
                                \* changed
  fresh                         \* history: the file has not changed since its
                                \* hash was stored

disk == <<clock, writes, file>>
worker == <<path, cached, stat, read, result>>
vars == <<disk, entry, lock, pc, worker, changed, fresh>>

\* fs::metadata, and when it was read.
Metadata(p) == [size |-> Size[file[p].content], modified |-> file[p].modified, at |-> clock]

Init ==
  /\ clock = 0 /\ writes = 0
  /\ file \in [Paths -> [content : Contents, modified : {0}] \cup {None}]
  /\ entry = [p \in Paths |-> None]
  /\ lock = [p \in Paths |-> None]
  /\ pc = [t \in Threads |-> "idle"]
  /\ path \in [Threads -> Paths]
  /\ cached = [t \in Threads |-> None]
  /\ stat = [t \in Threads |-> None]
  /\ read = [t \in Threads |-> None]
  /\ result = [t \in Threads |-> None]
  /\ changed = [t \in Threads |-> {}]
  /\ fresh = [p \in Paths |-> FALSE]

-------------------------------------------------------------------------------
Goto(t, label) == pc' = [pc EXCEPT ![t] = label]

\* A thread calls file_hash: run_cached finds or makes the path's entry.
Call(t) ==
  /\ pc[t] \in {"idle", "done"}
  /\ \E p \in Paths : path' = [path EXCEPT ![t] = p]
  /\ changed' = [changed EXCEPT ![t] = {}]
  /\ result' = [result EXCEPT ![t] = None]
  /\ Goto(t, "lock")
  /\ UNCHANGED <<disk, entry, lock, cached, stat, read, fresh>>

\* Mutant: the entry is looked at without its lock.
Unguarded(p) == TRUE

\* The Mutex of the entry is free.
CanLock(p) == lock[p] = None

\* entry_lock.lock() and entry.take().
Lock(t) ==
  LET p == path[t] IN
  /\ pc[t] = "lock" /\ CanLock(p)
  /\ lock' = [lock EXCEPT ![p] = t]
  /\ cached' = [cached EXCEPT ![t] = entry[p]]
  /\ entry' = [entry EXCEPT ![p] = None]
  /\ Goto(t, "stat")
  /\ UNCHANGED <<disk, path, stat, read, result, changed, fresh>>

\* The value is stored and returned, and the lock released.
Store(t, value) ==
  /\ entry' = [entry EXCEPT ![path[t]] = value]
  /\ lock' = [lock EXCEPT ![path[t]] = None]
  /\ result' = [result EXCEPT ![t] = value]
  /\ cached' = [cached EXCEPT ![t] = None]
  /\ stat' = [stat EXCEPT ![t] = None]
  /\ read' = [read EXCEPT ![t] = None]
  /\ Goto(t, "done")

Err == [ok |-> FALSE]
Ok(hash, meta) == [ok |-> TRUE, hash |-> hash, size |-> meta.size, modified |-> meta.modified, at |-> meta.at]

\* The cached value is for a file of this size and modification time.
Valid(value, meta) ==
  value # None /\ value.ok /\ value.size = meta.size /\ value.modified = meta.modified

\* What reading the opened file gives: its content, or a mixture if it is
\* overwritten meanwhile.
ReadOf(t) == {read[t]} \cup (IF "read" \in changed[t] THEN {Mixed} ELSE {})

\* Mutant: the metadata is that of the file after it was read.
StatAfter(t) ==
  IF file[path[t]] = None THEN stat[t] ELSE Metadata(path[t])

\* The metadata the hash is stored with: read before the hash is computed.
StatOf(t) == stat[t]

\* fs::metadata, and the cached value if it is valid.
Stat(t) ==
  LET p == path[t] IN
  /\ pc[t] = "stat"
  /\ IF file[p] = None
       THEN Store(t, Err) /\ fresh' = [fresh EXCEPT ![p] = FALSE]
       ELSE IF Valid(cached[t], Metadata(p))
              THEN Store(t, cached[t]) /\ UNCHANGED fresh
              ELSE /\ stat' = [stat EXCEPT ![t] = Metadata(p)]
                   /\ Goto(t, "open")
                   /\ UNCHANGED <<entry, lock, result, cached, read, fresh>>
  /\ UNCHANGED <<disk, path, changed>>

\* generate_file_hash opens the file, which may be gone, and begins to read.
Open(t) ==
  LET p == path[t] IN
  /\ pc[t] = "open"
  /\ IF file[p] = None
       THEN Store(t, Err) /\ fresh' = [fresh EXCEPT ![p] = FALSE]
       ELSE /\ read' = [read EXCEPT ![t] = file[p].content]
            /\ Goto(t, "read")
            /\ UNCHANGED <<entry, lock, result, cached, stat, fresh>>
  /\ UNCHANGED <<disk, path, changed>>

\* It reads on to the end, or to an I/O error.
Finish(t) ==
  LET p == path[t] IN
  /\ pc[t] = "read"
  /\ \/ /\ \E h \in ReadOf(t) : Store(t, Ok(h, StatOf(t)))
        /\ fresh' = [fresh EXCEPT ![p] = changed[t] \cap {"open", "read"} = {}]
     \/ Store(t, Err) /\ fresh' = [fresh EXCEPT ![p] = FALSE]
  /\ UNCHANGED <<disk, path, changed>>

-------------------------------------------------------------------------------
\* Another process writes or removes the file.
Change(p, f) ==
  /\ writes < MaxWrites /\ f # file[p]
  /\ writes' = writes + 1
  /\ file' = [file EXCEPT ![p] = f]
  /\ changed' = [t \in Threads |-> IF path[t] = p THEN changed[t] \cup {pc[t]} ELSE changed[t]]
  /\ fresh' = [fresh EXCEPT ![p] = FALSE]
  /\ UNCHANGED <<clock, entry, lock, pc, worker>>

Tick ==
  /\ clock < MaxClock
  /\ clock' = clock + 1
  /\ UNCHANGED <<writes, file, entry, lock, pc, worker, changed, fresh>>

Thread(t) == Call(t) \/ Lock(t) \/ Stat(t) \/ Open(t) \/ Finish(t)

Next ==
  \/ \E t \in Threads : Thread(t)
  \/ \E p \in Paths, f \in [content : Contents, modified : {clock}] \cup {None} : Change(p, f)
  \/ Tick

Spec == Init /\ [][Next]_vars

-------------------------------------------------------------------------------
Hashes == {Err} \cup [ok : {TRUE}, hash : Contents \cup {Mixed}, size : Nat, modified : Nat, at : Nat]
ASSUME NoneIsNoHash == None \notin Hashes

\* Types.
TypeOK ==
  /\ clock \in 0..MaxClock /\ writes \in 0..MaxWrites
  /\ file \in [Paths -> [content : Contents, modified : Nat] \cup {None}]
  /\ entry \in [Paths -> Hashes \cup {None}]
  /\ lock \in [Paths -> Threads \cup {None}]
  /\ pc \in [Threads -> {"idle", "lock", "stat", "open", "read", "done"}]
  /\ path \in [Threads -> Paths]
  /\ cached \in [Threads -> Hashes \cup {None}]
  /\ read \in [Threads -> Contents \cup {None}]
  /\ result \in [Threads -> Hashes \cup {None}]

\* Computed in a later tick than the file's modification: any write after it
\* gets another modification time.
Settled(value) == value.at > value.modified

\* file_hash returns the hash of the file, unless that has changed after its
\* metadata was read or in the very tick in which its hash was computed.
ResultCurrent ==
  \A t \in Threads :
    pc[t] = "done" /\ changed[t] \subseteq {"lock", "stat"} /\ result[t].ok /\ Settled(result[t]) =>
      file[path[t]] # None /\ result[t].hash = file[path[t]].content

\* A file whose hash is known is not read again: threads that ask at the same
\* time wait for the one that computes it.
HashedOnce == \A t \in Threads : pc[t] = "open" => ~fresh[path[t]]

===============================================================================
