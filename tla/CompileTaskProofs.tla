--------------------------- MODULE CompileTaskProofs --------------------------
(***************************************************************************)
(* For any number of threads, files, headers and writes: what file_hash     *)
(* returns to compile_task is the hash of the file, computed once, and no   *)
(* more child processes run than the limit allows.                          *)
(***************************************************************************)
EXTENDS CompileTask, FiniteSetTheorems, TLAPS

-------------------------------------------------------------------------------
(* The inductive invariant of file_hash                                    *)

Steps == {"idle", "lock", "stat", "open", "read", "done"}

\* The types of what the worker keeps.
LocalsTyped ==
  /\ changed \in [Threads -> SUBSET Steps] /\ fresh \in [Paths -> BOOLEAN]
  /\ stat \in [Threads -> [size : Nat, modified : Nat, at : Nat] \cup {None}]
  /\ \A t \in Threads :
       /\ pc[t] \in {"open", "read"} => stat[t] \in [size : Nat, modified : Nat, at : Nat]
       /\ pc[t] = "read" => read[t] \in Contents
       /\ pc[t] = "done" => result[t] \in Hashes

\* The lock is held from entry_lock.lock() until the value is stored.
LockHeld ==
  /\ \A t \in Threads : pc[t] \in {"stat", "open", "read"} => lock[path[t]] = t
  /\ \A p \in Paths : lock[p] # None => path[lock[p]] = p /\ pc[lock[p]] \in {"stat", "open", "read"}

\* What changed before the metadata was read does not count.
ChangedSoFar ==
  \A t \in Threads :
    /\ pc[t] = "lock" => changed[t] \subseteq {"lock"}
    /\ pc[t] = "stat" => changed[t] \subseteq {"lock", "stat"}

\* The value is for the file as it is.
Describes(value, p) ==
  file[p] # None /\ value.size = Size[file[p].content] /\ value.modified = file[p].modified

\* If it is, and was computed in a later tick than the modification, its hash
\* is the file's.
Sound(value, p) ==
  value # None /\ value.ok =>
    /\ value.at <= clock
    /\ Settled(value) /\ Describes(value, p) => value.hash = file[p].content

EntriesSound ==
  /\ \A p \in Paths : Sound(entry[p], p)
  /\ \A t \in Threads : pc[t] = "stat" => Sound(cached[t], path[t])

\* While the file is read: its metadata and content are those of the file if
\* that has not changed; and it has changed if it has another modification time.
ReadSound ==
  \A t \in Threads : pc[t] \in {"open", "read"} =>
    /\ stat[t].at <= clock
    /\ changed[t] \cap {"open", "read"} = {} =>
         Describes(stat[t], path[t]) /\ (pc[t] = "read" => read[t] = file[path[t]].content)
    /\ Settled(stat[t]) /\ Describes(stat[t], path[t]) => changed[t] \cap {"open", "read"} = {}

\* A hash is known as long as its value is valid, and then nobody computes it.
FreshKnown ==
  \A p \in Paths : fresh[p] =>
    /\ lock[p] = None => entry[p] # None /\ entry[p].ok /\ Describes(entry[p], p)
    /\ lock[p] # None =>
         pc[lock[p]] = "stat" /\ cached[lock[p]] # None /\ cached[lock[p]].ok /\ Describes(cached[lock[p]], p)

HashInv ==
  /\ TypeOK /\ LocalsTyped /\ LockHeld /\ ChangedSoFar
  /\ EntriesSound /\ ReadSound /\ FreshKnown /\ ResultCurrent

-------------------------------------------------------------------------------
(* The steps of file_hash                                                  *)

\* Nothing is known and nobody asks.
LEMMA InitHash == Init => HashInv
<1> SUFFICES ASSUME Init PROVE HashInv
  OBVIOUS
<1> USE BoundsNatural DEF Init
<1>1. TypeOK
  BY DEF TypeOK
<1>2. LocalsTyped
  BY DEF LocalsTyped, Steps
<1>3. LockHeld /\ ChangedSoFar
  BY NoneIsNoThread DEF LockHeld, ChangedSoFar
<1>4. EntriesSound /\ ReadSound /\ FreshKnown /\ ResultCurrent
  BY DEF EntriesSound, ReadSound, FreshKnown, ResultCurrent, Sound
<1> QED BY <1>1, <1>2, <1>3, <1>4 DEF HashInv

\* A call begins with a clean slate.
LEMMA CallPreserves ==
  ASSUME HashInv, NEW t \in Threads, Call(t)
  PROVE  HashInv'
<1> USE DEF HashInv
<1>0. /\ pc[t] \in {"idle", "done"} /\ path' \in [Threads -> Paths] /\ pc' = [pc EXCEPT ![t] = "lock"]
      /\ changed' = [changed EXCEPT ![t] = {}] /\ result' = [result EXCEPT ![t] = None]
      /\ \A u \in Threads \ {t} : path'[u] = path[u]
      /\ UNCHANGED <<clock, writes, file, entry, lock, cached, stat, read, fresh>>
  BY DEF Call, Goto, disk, TypeOK
<1>1. /\ pc'[t] = "lock" /\ changed'[t] = {}
      /\ \A u \in Threads \ {t} : pc'[u] = pc[u] /\ changed'[u] = changed[u] /\ result'[u] = result[u]
  BY <1>0 DEF TypeOK, LocalsTyped
<1>2. TypeOK'
  BY <1>0 DEF TypeOK
<1>3. LocalsTyped'
  BY <1>0, <1>1 DEF LocalsTyped
<1>4. LockHeld'
  <2>1. \A p \in Paths : lock[p] # t
    BY <1>0, NoneIsNoThread DEF LockHeld
  <2> QED BY <1>0, <1>1, <2>1 DEF LockHeld, TypeOK
<1>5. ChangedSoFar'
  BY <1>1 DEF ChangedSoFar
<1>6. EntriesSound'
  BY <1>0, <1>1 DEF EntriesSound, Sound, Describes, Settled
<1>7. ReadSound'
  BY <1>0, <1>1 DEF ReadSound, Describes, Settled
<1>8. FreshKnown'
  <2>1. \A p \in Paths : lock[p] # t
    BY <1>0, NoneIsNoThread DEF LockHeld
  <2> QED BY <1>0, <1>1, <2>1 DEF FreshKnown, TypeOK, Describes
<1>9. ResultCurrent'
  BY <1>0, <1>1 DEF ResultCurrent, Settled
<1> QED BY <1>2, <1>3, <1>4, <1>5, <1>6, <1>7, <1>8, <1>9

\* Who has the lock has what was known.
LEMMA LockPreserves ==
  ASSUME HashInv, NEW t \in Threads, Lock(t)
  PROVE  HashInv'
<1> USE DEF HashInv
<1> DEFINE p == path[t]
<1>0. /\ pc[t] = "lock" /\ lock[p] = None /\ p \in Paths
      /\ lock' = [lock EXCEPT ![p] = t] /\ cached' = [cached EXCEPT ![t] = entry[p]]
      /\ entry' = [entry EXCEPT ![p] = None] /\ pc' = [pc EXCEPT ![t] = "stat"]
      /\ UNCHANGED <<clock, writes, file, path, stat, read, result, changed, fresh>>
  BY DEF Lock, CanLock, Goto, disk, TypeOK
<1>p. path[t] = p
  OBVIOUS
<1> HIDE DEF p
<1>1. /\ pc'[t] = "stat" /\ lock'[p] = t /\ cached'[t] = entry[p] /\ entry'[p] = None
      /\ \A u \in Threads \ {t} : pc'[u] = pc[u] /\ cached'[u] = cached[u]
      /\ \A q \in Paths \ {p} : lock'[q] = lock[q] /\ entry'[q] = entry[q]
  BY <1>0 DEF TypeOK
<1>2. TypeOK'
  BY <1>0 DEF TypeOK
<1>3. LocalsTyped'
  BY <1>0, <1>1 DEF LocalsTyped
<1>4. LockHeld'
  <2>1. \A u \in Threads \ {t} : pc[u] \in {"stat", "open", "read"} => path[u] # p
    BY <1>0, NoneIsNoThread DEF LockHeld
  <2>2. \A q \in Paths \ {p} : lock[q] # t
    BY <1>0, <1>p, NoneIsNoThread DEF LockHeld
  <2> QED BY <1>0, <1>1, <1>p, <2>1, <2>2 DEF LockHeld, TypeOK
<1>5. ChangedSoFar'
  BY <1>0, <1>1 DEF ChangedSoFar
<1>6. EntriesSound'
  <2>1. Sound(entry[p], p)
    BY <1>0 DEF EntriesSound
  <2>2. \A q \in Paths : Sound(entry'[q], q)
    BY <1>1 DEF EntriesSound, Sound
  <2>3. \A u \in Threads : pc'[u] = "stat" => Sound(cached'[u], path[u])
    BY <1>0, <1>1, <1>p, <2>1 DEF EntriesSound
  <2> QED BY <1>0, <2>2, <2>3 DEF EntriesSound, Sound, Describes, Settled
<1>7. ReadSound'
  BY <1>0, <1>1 DEF ReadSound, Describes, Settled
<1>8. FreshKnown'
  <2> SUFFICES ASSUME NEW q \in Paths, fresh[q]
               PROVE  /\ lock'[q] = None => entry'[q] # None /\ entry'[q].ok /\ Describes(entry'[q], q)
                      /\ lock'[q] # None => /\ pc'[lock'[q]] = "stat" /\ cached'[lock'[q]] # None
                                            /\ cached'[lock'[q]].ok /\ Describes(cached'[lock'[q]], q)
    BY <1>0 DEF FreshKnown, Describes
  <2>1. CASE q = p
    BY <1>0, <1>1, <2>1, NoneIsNoThread DEF FreshKnown
  <2>2. CASE q # p
    <3>1. lock[q] # t
      BY <1>0, <1>p, <2>2, NoneIsNoThread DEF LockHeld
    <3> QED BY <1>1, <2>2, <3>1 DEF FreshKnown, TypeOK
  <2> QED BY <2>1, <2>2
<1>9. ResultCurrent'
  BY <1>0, <1>1 DEF ResultCurrent, Settled
<1> QED BY <1>2, <1>3, <1>4, <1>5, <1>6, <1>7, <1>8, <1>9

\* A value is stored and returned, and the lock released.
LEMMA StorePreserves ==
  ASSUME HashInv, NEW t \in Threads, NEW p \in Paths, path[t] = p, pc[t] \in {"stat", "open", "read"},
         NEW value \in Hashes, Store(t, value), Sound(value, p),
         value.ok /\ changed[t] \subseteq {"lock", "stat"} /\ Settled(value) =>
           file[p] # None /\ value.hash = file[p].content,
         NEW known \in BOOLEAN, fresh' = [fresh EXCEPT ![p] = known],
         known => value.ok /\ Describes(value, p),
         UNCHANGED <<disk, path, changed>>
  PROVE  HashInv'
<1> USE DEF HashInv
<1>0. /\ entry' = [entry EXCEPT ![p] = value] /\ lock' = [lock EXCEPT ![p] = None]
      /\ result' = [result EXCEPT ![t] = value] /\ cached' = [cached EXCEPT ![t] = None]
      /\ stat' = [stat EXCEPT ![t] = None] /\ read' = [read EXCEPT ![t] = None]
      /\ pc' = [pc EXCEPT ![t] = "done"]
      /\ UNCHANGED <<clock, writes, file, path, changed>>
  BY DEF Store, Goto, disk
<1>1. /\ pc'[t] = "done" /\ lock'[p] = None /\ entry'[p] = value /\ result'[t] = value
      /\ \A u \in Threads \ {t} : pc'[u] = pc[u] /\ cached'[u] = cached[u] /\ result'[u] = result[u]
      /\ \A q \in Paths \ {p} : lock'[q] = lock[q] /\ entry'[q] = entry[q] /\ fresh'[q] = fresh[q]
      /\ fresh'[p] = known
  BY <1>0 DEF TypeOK, LocalsTyped
<1>2. \A u \in Threads \ {t} : stat'[u] = stat[u] /\ read'[u] = read[u]
  BY <1>0 DEF TypeOK, LocalsTyped
<1>3. value # None
  BY NoneIsNoHash
<1>4. \A q \in Paths \ {p} : lock[q] # t
  BY NoneIsNoThread DEF LockHeld
<1>5. lock[p] = t /\ \A u \in Threads \ {t} : pc[u] \in {"stat", "open", "read"} => path[u] # p
  BY DEF LockHeld
<1>6. TypeOK'
  BY <1>0 DEF TypeOK
<1>7. LocalsTyped'
  <2>1. stat' \in [Threads -> [size : Nat, modified : Nat, at : Nat] \cup {None}] /\ fresh' \in [Paths -> BOOLEAN]
    BY <1>0 DEF LocalsTyped
  <2> QED BY <1>0, <1>1, <1>2, <2>1 DEF LocalsTyped
<1>8. LockHeld'
  BY <1>0, <1>1, <1>4, <1>5 DEF LockHeld, TypeOK
<1>9. ChangedSoFar'
  BY <1>0, <1>1 DEF ChangedSoFar
<1>10. EntriesSound'
  <2>1. \A q \in Paths : Sound(entry'[q], q)
    BY <1>1 DEF EntriesSound
  <2>2. \A u \in Threads : pc'[u] = "stat" => Sound(cached'[u], path[u])
    BY <1>1 DEF EntriesSound
  <2> QED BY <1>0, <2>1, <2>2 DEF EntriesSound, Sound, Describes, Settled
<1>11. ReadSound'
  BY <1>0, <1>1, <1>2 DEF ReadSound, Describes, Settled
<1>12. FreshKnown'
  <2> SUFFICES ASSUME NEW q \in Paths, fresh'[q]
               PROVE  /\ lock'[q] = None => entry'[q] # None /\ entry'[q].ok /\ Describes(entry'[q], q)
                      /\ lock'[q] # None => /\ pc'[lock'[q]] = "stat" /\ cached'[lock'[q]] # None
                                            /\ cached'[lock'[q]].ok /\ Describes(cached'[lock'[q]], q)
    BY <1>0 DEF FreshKnown, Describes
  <2>1. CASE q = p
    BY <1>1, <1>3, <2>1
  <2>2. CASE q # p
    BY <1>1, <1>4, <2>2 DEF FreshKnown, TypeOK
  <2> QED BY <2>1, <2>2
<1>13. ResultCurrent'
  BY <1>0, <1>1 DEF ResultCurrent, Settled
<1> QED BY <1>6, <1>7, <1>8, <1>9, <1>10, <1>11, <1>12, <1>13

\* An error says nothing about the file.
LEMMA ErrIsSound ==
  ASSUME NEW p PROVE Err \in Hashes /\ ~Err.ok /\ Sound(Err, p)
BY DEF Err, Hashes, Sound

\* The metadata is read: a valid value is used again, and its hash is current.
LEMMA StatPreserves ==
  ASSUME HashInv, NEW t \in Threads, Stat(t)
  PROVE  HashInv'
<1> USE DEF HashInv
<1>0. PICK p \in Paths : p = path[t]
  BY DEF TypeOK
<1>1. pc[t] = "stat" /\ UNCHANGED <<disk, path, changed>> /\ Sound(cached[t], p)
  BY <1>0 DEF Stat, EntriesSound
<1>2. CASE file[p] = None
  <2>1. Store(t, Err) /\ fresh' = [fresh EXCEPT ![p] = FALSE]
    BY <1>0, <1>2 DEF Stat
  <2> QED BY <1>0, <1>1, <2>1, ErrIsSound, StorePreserves
<1>3. CASE file[p] # None /\ Valid(cached[t], Metadata(p))
  <2>1. Store(t, cached[t]) /\ UNCHANGED fresh
    BY <1>0, <1>3 DEF Stat
  <2>2. /\ cached[t] # None /\ cached[t].ok /\ Describes(cached[t], p)
        /\ cached[t] \in Hashes
    BY <1>3 DEF Valid, Metadata, Describes, TypeOK
  <2>3. Settled(cached[t]) => file[p] # None /\ cached[t].hash = file[p].content
    BY <1>1, <2>2, <1>3 DEF Sound
  <2>4. fresh' = [fresh EXCEPT ![p] = fresh[p]] /\ fresh[p] \in BOOLEAN
    BY <2>1 DEF LocalsTyped
  <2>5. PICK value \in Hashes : value = cached[t]
    BY <2>2
  <2>6. PICK known \in BOOLEAN : known = fresh[p]
    BY <2>4
  <2> QED BY <1>0, <1>1, <2>1, <2>2, <2>3, <2>4, <2>5, <2>6, StorePreserves
<1>4. CASE file[p] # None /\ ~Valid(cached[t], Metadata(p))
  <2>1. /\ stat' = [stat EXCEPT ![t] = Metadata(p)] /\ pc' = [pc EXCEPT ![t] = "open"]
        /\ UNCHANGED <<clock, writes, file, path, changed, entry, lock, result, cached, read, fresh>>
    BY <1>0, <1>1, <1>4 DEF Stat, Goto, disk
  <2>2. /\ Metadata(p) \in [size : Nat, modified : Nat, at : Nat]
        /\ Describes(Metadata(p), p) /\ Metadata(p).at = clock
    BY <1>4, SizesNatural, BoundsNatural DEF Metadata, Describes, TypeOK
  <2>3. /\ pc'[t] = "open" /\ stat'[t] = Metadata(p)
        /\ \A u \in Threads \ {t} : pc'[u] = pc[u] /\ stat'[u] = stat[u]
    BY <2>1 DEF TypeOK, LocalsTyped
  <2>4. TypeOK'
    BY <2>1 DEF TypeOK
  <2>5. LocalsTyped'
    BY <2>1, <2>2, <2>3 DEF LocalsTyped
  <2>6. LockHeld'
    BY <1>1, <2>1, <2>3 DEF LockHeld, TypeOK
  <2>7. ChangedSoFar'
    BY <2>1, <2>3 DEF ChangedSoFar
  <2>8. EntriesSound'
    BY <2>1, <2>3 DEF EntriesSound, Sound, Describes, Settled
  <2>9. ReadSound'
    <3>1. changed[t] \cap {"open", "read"} = {}
      BY <1>1 DEF ChangedSoFar
    <3>2. stat'[t].at <= clock /\ Describes(stat'[t], p)
      BY <2>2, <2>3 DEF TypeOK
    <3> QED BY <1>0, <2>1, <2>3, <3>1, <3>2 DEF ReadSound, Describes, Settled
  <2>10. FreshKnown'
    <3>1. lock[p] = t
      BY <1>0, <1>1 DEF LockHeld
    <3>2. ~fresh[p]
      BY <1>4, <3>1, NoneIsNoThread DEF FreshKnown, Valid, Metadata, Describes
    <3>3. \A q \in Paths \ {p} : lock[q] # t
      BY <1>0, NoneIsNoThread DEF LockHeld
    <3> QED BY <2>1, <2>3, <3>2, <3>3 DEF FreshKnown, TypeOK, Describes
  <2>11. ResultCurrent'
    BY <2>1, <2>3 DEF ResultCurrent, Settled
  <2> QED BY <2>4, <2>5, <2>6, <2>7, <2>8, <2>9, <2>10, <2>11
<1> QED BY <1>2, <1>3, <1>4

\* What is about to be read is the file as it is now.
LEMMA OpenPreserves ==
  ASSUME HashInv, NEW t \in Threads, Open(t)
  PROVE  HashInv'
<1> USE DEF HashInv
<1>0. PICK p \in Paths : p = path[t]
  BY DEF TypeOK
<1>1. pc[t] = "open" /\ UNCHANGED <<disk, path, changed>>
  BY DEF Open
<1>2. CASE file[p] = None
  <2>1. Store(t, Err) /\ fresh' = [fresh EXCEPT ![p] = FALSE]
    BY <1>0, <1>2 DEF Open
  <2> QED BY <1>0, <1>1, <2>1, ErrIsSound, StorePreserves
<1>3. CASE file[p] # None
  <2>1. /\ read' = [read EXCEPT ![t] = file[p].content] /\ pc' = [pc EXCEPT ![t] = "read"]
        /\ UNCHANGED <<clock, writes, file, path, changed, entry, lock, result, cached, stat, fresh>>
    BY <1>0, <1>1, <1>3 DEF Open, Goto, disk
  <2>2. /\ pc'[t] = "read" /\ read'[t] = file[p].content /\ read'[t] \in Contents
        /\ \A u \in Threads \ {t} : pc'[u] = pc[u] /\ read'[u] = read[u]
    BY <1>3, <2>1 DEF TypeOK
  <2>3. TypeOK'
    BY <1>3, <2>1 DEF TypeOK
  <2>4. LocalsTyped'
    BY <1>1, <2>1, <2>2 DEF LocalsTyped
  <2>5. LockHeld'
    BY <1>1, <2>1, <2>2 DEF LockHeld, TypeOK
  <2>6. ChangedSoFar'
    BY <2>1, <2>2 DEF ChangedSoFar
  <2>7. EntriesSound'
    BY <2>1, <2>2 DEF EntriesSound, Sound, Describes, Settled
  <2>8. ReadSound'
    BY <1>0, <1>1, <2>1, <2>2 DEF ReadSound, Describes, Settled
  <2>9. FreshKnown'
    <3>1. \A q \in Paths : fresh[q] => lock[q] # t
      BY <1>1, NoneIsNoThread DEF FreshKnown
    <3> QED BY <2>1, <2>2, <3>1 DEF FreshKnown, TypeOK, Describes
  <2>10. ResultCurrent'
    BY <2>1, <2>2 DEF ResultCurrent, Settled
  <2> QED BY <2>3, <2>4, <2>5, <2>6, <2>7, <2>8, <2>9, <2>10
<1> QED BY <1>2, <1>3

\* The hash is stored with the metadata read before: if that is still the
\* file's, and of an earlier tick, it is the file's hash.
LEMMA FinishPreserves ==
  ASSUME HashInv, NEW t \in Threads, Finish(t)
  PROVE  HashInv'
<1> USE DEF HashInv
<1>0. PICK p \in Paths : p = path[t]
  BY DEF TypeOK
<1>1. pc[t] = "read" /\ UNCHANGED <<disk, path, changed>>
  BY DEF Finish
<1>2. CASE Store(t, Err) /\ fresh' = [fresh EXCEPT ![p] = FALSE]
  BY <1>0, <1>1, <1>2, ErrIsSound, StorePreserves
<1>3. CASE /\ \E h \in ReadOf(t) : Store(t, Ok(h, StatOf(t)))
           /\ fresh' = [fresh EXCEPT ![p] = changed[t] \cap {"open", "read"} = {}]
  <2>1. PICK h \in ReadOf(t) : Store(t, Ok(h, stat[t]))
    BY <1>3 DEF StatOf
  <2>2. /\ read[t] \in Contents /\ stat[t] \in [size : Nat, modified : Nat, at : Nat]
        /\ h \in Contents \cup {Mixed} /\ (changed[t] \cap {"open", "read"} = {} => h = read[t])
    BY <1>1 DEF LocalsTyped, ReadOf
  <2>3. PICK value : value = Ok(h, stat[t])
    OBVIOUS
  <2>4. /\ value \in Hashes /\ value.ok /\ value.hash = h /\ value.size = stat[t].size
        /\ value.modified = stat[t].modified /\ value.at = stat[t].at
    BY <2>2, <2>3 DEF Ok, Hashes
  <2>5. /\ Settled(value) <=> Settled(stat[t])
        /\ Describes(value, p) <=> Describes(stat[t], p)
    BY <2>4 DEF Settled, Describes
  <2>6. /\ stat[t].at <= clock
        /\ changed[t] \cap {"open", "read"} = {} => Describes(stat[t], p) /\ read[t] = file[p].content
        /\ Settled(stat[t]) /\ Describes(stat[t], p) => changed[t] \cap {"open", "read"} = {}
    BY <1>0, <1>1 DEF ReadSound
  <2>7. Sound(value, p)
    BY <2>2, <2>4, <2>5, <2>6 DEF Sound
  <2>8. changed[t] \subseteq {"lock", "stat"} => file[p] # None /\ value.hash = file[p].content
    <3> SUFFICES ASSUME changed[t] \subseteq {"lock", "stat"}
                 PROVE  file[p] # None /\ value.hash = file[p].content
      OBVIOUS
    <3>1. changed[t] \cap {"open", "read"} = {}
      OBVIOUS
    <3> QED BY <2>2, <2>4, <2>6, <3>1 DEF Describes
  <2>9. PICK known \in BOOLEAN : known <=> changed[t] \cap {"open", "read"} = {}
    OBVIOUS
  <2>10. fresh' = [fresh EXCEPT ![p] = known]
    BY <1>3, <2>9
  <2>11. known => value.ok /\ Describes(value, p)
    BY <2>4, <2>5, <2>6, <2>9
  <2>12. Store(t, value)
    BY <2>1, <2>3
  <2> QED BY <1>0, <1>1, <2>4, <2>7, <2>8, <2>10, <2>11, <2>12, StorePreserves
<1> QED BY <1>0, <1>2, <1>3 DEF Finish

\* A hash has the time at which its file's metadata was read.
LEMMA OkTimed ==
  ASSUME NEW value \in Hashes, value.ok
  PROVE  value.at \in Nat /\ value.hash \in Contents \cup {Mixed}
<1>1. value # Err
  BY DEF Err
<1> QED BY <1>1 DEF Hashes

\* A write or a removal, by another process or by a task that makes the header:
\* later than, or in the same tick as, all that is known of the file.
LEMMA ChangedPreserves ==
  ASSUME HashInv, NEW p \in Paths, NEW f \in [content : Contents, modified : {clock}] \cup {None},
         file' = [file EXCEPT ![p] = f], writes' \in 0..MaxWrites,
         changed' = [t \in Threads |-> IF path[t] = p THEN changed[t] \cup {pc[t]} ELSE changed[t]],
         fresh' = [fresh EXCEPT ![p] = FALSE],
         UNCHANGED <<clock, entry, lock, pc, worker>>
  PROVE  HashInv'
<1> USE DEF HashInv, worker
<1>1. /\ file'[p] = f /\ (f # None => f.modified = clock) /\ ~fresh'[p]
      /\ \A q \in Paths \ {p} : file'[q] = file[q] /\ fresh'[q] = fresh[q]
      /\ \A t \in Threads : path[t] # p => changed'[t] = changed[t]
      /\ \A t \in Threads : path[t] = p => changed'[t] = changed[t] \cup {pc[t]}
      /\ clock \in Nat
  BY BoundsNatural DEF TypeOK, LocalsTyped
<1>2. TypeOK'
  <2>1. f \in [content : Contents, modified : Nat] \cup {None}
    BY <1>1
  <2>2. file' \in [Paths -> [content : Contents, modified : Nat] \cup {None}]
    BY <2>1 DEF TypeOK
  <2> QED BY <2>2 DEF TypeOK
<1>3. LocalsTyped'
  <2>1. changed' \in [Threads -> SUBSET Steps]
    BY DEF TypeOK, LocalsTyped, Steps
  <2>2. fresh' \in [Paths -> BOOLEAN]
    BY DEF LocalsTyped
  <2> QED BY <2>1, <2>2 DEF LocalsTyped
<1>4. LockHeld'
  BY DEF LockHeld
<1>5. ChangedSoFar'
  BY <1>1 DEF ChangedSoFar
<1>6. ASSUME NEW value \in Hashes \cup {None}, NEW q \in Paths, Sound(value, q)
      PROVE  Sound(value, q)'
  <2>1. CASE q # p
    BY <1>1, <1>6, <2>1 DEF Sound, Describes, Settled
  <2>2. CASE q = p
    <3> SUFFICES ASSUME value # None, value.ok, Settled(value), Describes(value, p)'
                 PROVE  FALSE
      BY <1>6, <2>2 DEF Sound, Settled
    <3>1. value.at <= clock /\ value.modified = clock /\ value.at > value.modified
      BY <1>1, <1>6 DEF Sound, Describes, Settled
    <3>2. value.at \in Nat
      BY OkTimed
    <3> QED BY <1>1, <3>1, <3>2
  <2> QED BY <2>1, <2>2
<1>7. EntriesSound'
  <2>1. ASSUME NEW q \in Paths PROVE Sound(entry[q], q)'
    <3>1. PICK value \in Hashes \cup {None} : value = entry[q]
      BY DEF TypeOK
    <3>2. Sound(value, q)'
      BY <1>6, <3>1 DEF EntriesSound
    <3> QED BY <3>1, <3>2 DEF Sound
  <2>2. ASSUME NEW t \in Threads, pc[t] = "stat" PROVE Sound(cached[t], path[t])'
    <3>1. PICK value \in Hashes \cup {None} : value = cached[t]
      BY DEF TypeOK
    <3>2. PICK q \in Paths : q = path[t]
      BY DEF TypeOK
    <3>3. Sound(value, q)'
      BY <1>6, <2>2, <3>1, <3>2 DEF EntriesSound
    <3> QED BY <3>1, <3>2, <3>3 DEF Sound, Describes
  <2> QED BY <2>1, <2>2 DEF EntriesSound
<1>8. ReadSound'
  <2> SUFFICES ASSUME NEW t \in Threads, pc[t] \in {"open", "read"}
               PROVE  /\ stat[t].at <= clock
                      /\ changed'[t] \cap {"open", "read"} = {} =>
                           Describes(stat[t], path[t])' /\ (pc[t] = "read" => read[t] = file'[path[t]].content)
                      /\ Settled(stat[t]) /\ Describes(stat[t], path[t])' => changed'[t] \cap {"open", "read"} = {}
    BY DEF ReadSound, Settled
  <2>1. CASE path[t] # p
    <3>1. path[t] \in Paths
      BY DEF TypeOK
    <3> QED BY <1>1, <2>1, <3>1 DEF ReadSound, Describes
  <2>2. CASE path[t] = p
    <3>1. changed'[t] \cap {"open", "read"} # {}
      BY <1>1, <2>2
    <3>2. stat[t].at \in Nat /\ stat[t].modified \in Nat /\ stat[t].at <= clock
      BY DEF LocalsTyped, ReadSound
    <3>3. ~(Settled(stat[t]) /\ Describes(stat[t], path[t])')
      BY <1>1, <2>2, <3>2 DEF Settled, Describes
    <3> QED BY <3>1, <3>2, <3>3
  <2> QED BY <2>1, <2>2
<1>9. FreshKnown'
  BY <1>1 DEF FreshKnown, Describes
<1>10. ResultCurrent'
  <2>1. \A t \in Threads : pc[t] = "done" /\ changed'[t] \subseteq {"lock", "stat"} =>
          path[t] # p /\ changed'[t] = changed[t]
    BY <1>1
  <2>2. \A t \in Threads : path[t] \in Paths
    BY DEF TypeOK
  <2> SUFFICES ASSUME NEW t \in Threads, pc[t] = "done", changed'[t] \subseteq {"lock", "stat"},
                      result[t].ok, Settled(result[t])
               PROVE  file'[path[t]] # None /\ result[t].hash = file'[path[t]].content
    BY DEF ResultCurrent, Settled
  <2>3. path[t] # p /\ changed[t] \subseteq {"lock", "stat"}
    BY <2>1
  <2>4. file[path[t]] # None /\ result[t].hash = file[path[t]].content
    BY <2>3 DEF ResultCurrent
  <2>5. file'[path[t]] = file[path[t]]
    BY <2>2, <2>3 DEF TypeOK
  <2> QED BY <2>4, <2>5
<1> QED BY <1>2, <1>3, <1>4, <1>5, <1>7, <1>8, <1>9, <1>10

\* A change from outside is remembered for every call for that path.
LEMMA ChangePreserves ==
  ASSUME HashInv, NEW p \in Paths, NEW f \in [content : Contents, modified : {clock}] \cup {None},
         Change(p, f)
  PROVE  HashInv'
<1>1. writes' \in 0..MaxWrites
  BY BoundsNatural DEF Change, HashInv, TypeOK
<1> QED BY <1>1, ChangedPreserves DEF Change

\* Time passes: what was settled stays so.
LEMMA TickPreserves ==
  ASSUME HashInv, Tick
  PROVE  HashInv'
<1> USE BoundsNatural DEF HashInv, Tick, worker
<1>0. clock \in Nat /\ clock' = clock + 1
  BY DEF TypeOK
<1>1. TypeOK'
  BY DEF TypeOK
<1>2. LocalsTyped'
  BY DEF LocalsTyped
<1>3. LockHeld' /\ ChangedSoFar'
  BY DEF LockHeld, ChangedSoFar
<1>4. EntriesSound'
  <2>1. ASSUME NEW value \in Hashes \cup {None}, NEW q, Sound(value, q) PROVE Sound(value, q)'
    <3>1. value # None /\ value.ok => value.at \in Nat
      BY OkTimed
    <3> QED BY <1>0, <2>1, <3>1 DEF Sound, Describes, Settled
  <2>2. \A p \in Paths : Sound(entry[p], p)'
    <3> SUFFICES ASSUME NEW p \in Paths PROVE Sound(entry[p], p)'
      OBVIOUS
    <3>1. PICK value \in Hashes \cup {None} : value = entry[p]
      BY DEF TypeOK
    <3>2. Sound(value, p)'
      BY <2>1, <3>1 DEF EntriesSound
    <3> QED BY <3>1, <3>2 DEF Sound
  <2>3. \A t \in Threads : pc[t] = "stat" => Sound(cached[t], path[t])'
    <3> SUFFICES ASSUME NEW t \in Threads, pc[t] = "stat" PROVE Sound(cached[t], path[t])'
      OBVIOUS
    <3>1. PICK value \in Hashes \cup {None} : value = cached[t]
      BY DEF TypeOK
    <3>2. PICK q : q = path[t]
      OBVIOUS
    <3>3. Sound(value, q)'
      BY <2>1, <3>1, <3>2 DEF EntriesSound
    <3> QED BY <3>1, <3>2, <3>3 DEF Sound, Describes
  <2> QED BY <2>2, <2>3 DEF EntriesSound
<1>5. ReadSound'
  <2>1. \A t \in Threads : pc[t] \in {"open", "read"} => stat[t].at \in Nat
    BY DEF LocalsTyped
  <2>2. \A t \in Threads : pc[t] \in {"open", "read"} => stat[t].at <= clock + 1
    BY <1>0, <2>1 DEF ReadSound
  <2> QED BY <1>0, <2>2 DEF ReadSound, Describes, Settled
<1>6. FreshKnown' /\ ResultCurrent'
  BY DEF FreshKnown, ResultCurrent, Describes, Settled
<1> QED BY <1>1, <1>2, <1>3, <1>4, <1>5, <1>6

\* Nothing of file_hash changes, nor does its invariant.
LEMMA HashStutter ==
  ASSUME HashInv, UNCHANGED vars
  PROVE  HashInv'
<1> USE DEF HashInv, vars, disk, worker
<1>1. TypeOK' /\ LocalsTyped'
  BY DEF TypeOK, LocalsTyped
<1>2. LockHeld' /\ ChangedSoFar'
  BY DEF LockHeld, ChangedSoFar
<1>3. EntriesSound' /\ ReadSound'
  BY DEF EntriesSound, ReadSound, Sound, Describes, Settled
<1>4. FreshKnown' /\ ResultCurrent'
  BY DEF FreshKnown, ResultCurrent, Describes, Settled
<1> QED BY <1>1, <1>2, <1>3, <1>4

-------------------------------------------------------------------------------
(* The steps of compile_task                                               *)

Running == {t \in Threads : stage[t] \in {"preprocessing", "compiling"}}

Limit == IF ProcessLimit = 0 THEN 1 ELSE ProcessLimit

Stages == {"idle", "preprocess", "preprocessing", "hash", "lookup", "compile", "compiling", "save"}

\* Every child process has a permit, and all others are free.
PermitsInv ==
  /\ permits \in Nat /\ permits + Cardinality(Running) = Limit
  /\ stage \in [Threads -> Stages]

\* The hash that is part of the key.
HeaderHash(t) == IF Uses(job[t]) THEN result[t].hash ELSE None

\* An entry, or what is about to be one, of job i with text x and hash g: unless
\* the header was rewritten it was compiled with the header of that hash.
Genuine(e, i, x, g) ==
  \E hd, md, r :
    /\ e = [key |-> KeyOf(i, x, g), text |-> x, args |-> CompileArgs(i), header |-> hd, made |-> md, raced |-> r]
    /\ Uses(i) => hd = g \/ r

\* Once the key is computed the hash of the header stays as it is.
CallInv(t) ==
  /\ stage[t] \in {"hash", "lookup", "compile", "compiling", "save"} => text[t] \in Texts
  /\ stage[t] = "hash" => path[t] = job[t].input_precompiled
  /\ stage[t] \in {"lookup", "compile", "compiling", "save"} /\ Uses(job[t]) =>
       pc[t] = "done" /\ path[t] = job[t].input_precompiled /\ result[t].ok
  /\ stage[t] = "save" => Genuine(object[t], job[t], text[t], HeaderHash(t))

TasksTyped ==
  /\ job \in [Threads -> Jobs] /\ text \in [Threads -> Texts \cup {<<>>}]
  /\ DOMAIN object = Threads /\ DOMAIN outcome = Threads

StoreInv ==
  \A e \in store :
    /\ e.made \in Contents \cup {None}
    /\ \E i \in Jobs, x \in Texts, g \in Contents \cup {Mixed, None} : Genuine(e, i, x, g)

TaskInv == HashInv /\ PermitsInv /\ TasksTyped /\ StoreInv /\ \A t \in Threads : CallInv(t)

\* All permits are free and nothing is stored.
LEMMA InitTask == TaskInit => TaskInv
<1> SUFFICES ASSUME TaskInit PROVE TaskInv
  OBVIOUS
<1>1. HashInv
  BY InitHash DEF TaskInit
<1>2. Running = {}
  BY DEF TaskInit, Running
<1>3. PermitsInv
  BY <1>2, LimitsNatural, FS_EmptySet DEF TaskInit, PermitsInv, Limit, Stages
<1>4. TasksTyped
  <2>1. (CHOOSE j \in Jobs : TRUE) \in Jobs
    BY JobsKnown
  <2> QED BY <2>1 DEF TaskInit, TasksTyped
<1>5. StoreInv /\ \A t \in Threads : CallInv(t)
  BY DEF TaskInit, StoreInv, CallInv
<1> QED BY <1>1, <1>3, <1>4, <1>5 DEF TaskInv

\* A thread that starts no child and ends none.
LEMMA PermitsKept ==
  ASSUME PermitsInv, NEW t \in Threads, NEW s \in Stages, Stage(t, s), UNCHANGED permits,
         stage[t] \notin {"preprocessing", "compiling"}, s \notin {"preprocessing", "compiling"}
  PROVE  PermitsInv'
<1>1. stage' \in [Threads -> Stages]
  BY DEF PermitsInv, Stage
<1>2. Running' = Running
  BY DEF PermitsInv, Stage, Running
<1> QED BY <1>1, <1>2 DEF PermitsInv

\* A child ends, and its permit is given back.
LEMMA PermitReturned ==
  ASSUME PermitsInv, NEW t \in Threads, NEW s \in Stages, Stage(t, s), permits' = permits + 1,
         stage[t] \in {"preprocessing", "compiling"}, s \notin {"preprocessing", "compiling"}
  PROVE  PermitsInv'
<1>1. stage' \in [Threads -> Stages]
  BY DEF PermitsInv, Stage
<1>2. Running' = Running \ {t} /\ t \in Running
  BY DEF PermitsInv, Stage, Running
<1>3. IsFiniteSet(Running)
  BY ThreadsFinite, FS_Subset DEF Running
<1>4. Cardinality(Running') = Cardinality(Running) - 1 /\ Cardinality(Running) \in Nat
  BY <1>2, <1>3, FS_RemoveElement, FS_CardinalityType
<1> QED BY <1>1, <1>4 DEF PermitsInv

\* A child starts with a permit.
LEMMA PermitTaken ==
  ASSUME PermitsInv, NEW t \in Threads, NEW s \in {"preprocessing", "compiling"}, Stage(t, s),
         permits > 0, permits' = permits - 1, stage[t] \notin {"preprocessing", "compiling"}
  PROVE  PermitsInv'
<1>1. stage' \in [Threads -> Stages]
  BY DEF PermitsInv, Stage, Stages
<1>2. Running' = Running \cup {t} /\ t \notin Running
  BY DEF PermitsInv, Stage, Running
<1>3. IsFiniteSet(Running)
  BY ThreadsFinite, FS_Subset DEF Running
<1>4. Cardinality(Running') = Cardinality(Running) + 1 /\ Cardinality(Running) \in Nat
  BY <1>2, <1>3, FS_AddElement, FS_CardinalityType
<1> QED BY <1>1, <1>4 DEF PermitsInv

\* What another thread does leaves a call alone.
LEMMA CallFrame ==
  ASSUME TaskInv, NEW u \in Threads, stage'[u] = stage[u], job'[u] = job[u], text'[u] = text[u],
         object'[u] = object[u], path'[u] = path[u],
         pc[u] = "done" => pc'[u] = "done" /\ result'[u] = result[u]
  PROVE  CallInv(u)'
<1>1. CallInv(u)
  BY DEF TaskInv
<1>2. stage[u] = "save" => HeaderHash(u)' = HeaderHash(u)
  BY <1>1 DEF CallInv, HeaderHash
<1>3. stage[u] = "save" => Genuine(object[u], job[u], text[u], HeaderHash(u))
  BY <1>1 DEF CallInv
<1>4. stage[u] = "save" => Genuine(object[u], job[u], text[u], HeaderHash(u))'
  BY <1>2, <1>3
<1> QED BY <1>1, <1>4 DEF CallInv

\* A step of one call, as the others see it.
LEMMA ThreadLocal ==
  ASSUME TaskInv, NEW t \in Threads, StartTask(t) \/ CompileThread(t)
  PROVE  \A u \in Threads \ {t} :
           /\ stage'[u] = stage[u] /\ job'[u] = job[u] /\ text'[u] = text[u] /\ object'[u] = object[u]
           /\ outcome'[u] = outcome[u] /\ path'[u] = path[u] /\ pc'[u] = pc[u] /\ result'[u] = result[u]
<1> USE DEF TaskInv, PermitsInv, TasksTyped, HashInv, TypeOK, vars, worker, Stage, Return
<1>1. CASE StartTask(t)
  BY <1>1 DEF StartTask
<1>2. CASE Acquire(t)
  BY <1>2 DEF Acquire
<1>3. CASE Preprocessed(t)
  BY <1>3 DEF Preprocessed, Call, Goto
<1>4. CASE ChildFails(t) \/ Hashed(t) \/ Miss(t) \/ TempFails(t)
  BY <1>4 DEF ChildFails, Hashed, Miss, TempFails
<1>5. CASE HashStep(t)
  BY <1>5 DEF HashStep, task, Lock, Stat, Open, Finish, Store, Goto
<1>6. CASE Hit(t)
  BY <1>6 DEF Hit, Rewrite
<1>7. CASE Compiled(t)
  BY <1>7 DEF Compiled, Rewrite
<1>8. CASE Save(t)
  BY <1>8 DEF Save
<1> QED BY <1>1, <1>2, <1>3, <1>4, <1>5, <1>6, <1>7, <1>8 DEF CompileThread

\* A step of one call of compile_task leaves the other calls as they were.
LEMMA OthersKept ==
  ASSUME TaskInv, NEW t \in Threads, StartTask(t) \/ CompileThread(t)
  PROVE  \A u \in Threads \ {t} : CallInv(u)'
BY ThreadLocal, CallFrame

\* A call moves on without touching a file, an entry or its hash.
LEMMA QuietStep ==
  ASSUME TaskInv, NEW t \in Threads, StartTask(t) \/ CompileThread(t),
         NEW s \in Stages, Stage(t, s), PermitsInv',
         job' \in [Threads -> Jobs], DOMAIN object' = Threads, DOMAIN outcome' = Threads,
         s \notin {"hash", "save"},
         s \in {"lookup", "compile", "compiling"} =>
           /\ UNCHANGED job
           /\ stage[t] \in {"lookup", "compile", "compiling"} \/ (stage[t] = "hash" /\ pc[t] = "done" /\ result[t].ok),
         UNCHANGED <<vars, text, store>>
  PROVE  TaskInv'
<1>1. HashInv'
  BY HashStutter DEF TaskInv
<1>2. TasksTyped' /\ StoreInv'
  BY DEF TaskInv, TasksTyped, StoreInv
<1>3. \A u \in Threads \ {t} : CallInv(u)'
  BY OthersKept
<1>4. CallInv(t)'
  <2>1. stage'[t] = s /\ CallInv(t) /\ UNCHANGED <<pc, path, result>>
    BY DEF Stage, TaskInv, PermitsInv, vars, worker
  <2>2. CASE s \in {"lookup", "compile", "compiling"}
    BY <2>1, <2>2 DEF CallInv
  <2>3. CASE s \in {"idle", "preprocess", "preprocessing"}
    BY <2>1, <2>3 DEF CallInv
  <2> QED BY <2>2, <2>3 DEF Stages
<1> QED BY <1>1, <1>2, <1>3, <1>4 DEF TaskInv

\* A new call holds no permit and has no text.
LEMMA StartTaskPreserves ==
  ASSUME TaskInv, NEW t \in Threads, StartTask(t)
  PROVE  TaskInv'
<1>1. /\ Stage(t, "preprocess") /\ UNCHANGED <<vars, text, permits, store>> /\ stage[t] = "idle"
      /\ job' \in [Threads -> Jobs] /\ DOMAIN object' = Threads /\ DOMAIN outcome' = Threads
  BY DEF StartTask, TaskInv, TasksTyped
<1>2. PermitsInv'
  BY <1>1, PermitsKept DEF TaskInv, Stages
<1> QED BY <1>1, <1>2, QuietStep DEF Stages

\* A permit is taken only if one is left.
LEMMA AcquirePreserves ==
  ASSUME TaskInv, NEW t \in Threads, Acquire(t)
  PROVE  TaskInv'
<1>0. PICK s \in {"preprocessing", "compiling"} : Stage(t, s) /\ (s = "compiling" => stage[t] = "compile")
  BY DEF Acquire
<1>1. /\ UNCHANGED <<vars, job, text, store, object, outcome>>
      /\ stage[t] \in {"preprocess", "compile"} /\ permits > 0 /\ permits' = permits - 1
      /\ job' \in [Threads -> Jobs] /\ DOMAIN object' = Threads /\ DOMAIN outcome' = Threads
  BY DEF Acquire, MayRun, TaskInv, TasksTyped
<1>2. PermitsInv'
  BY <1>0, <1>1, PermitTaken DEF TaskInv
<1> QED BY <1>0, <1>1, <1>2, QuietStep DEF Stages, CompileThread

\* A child that fails gives its permit back.
LEMMA ChildFailsPreserves ==
  ASSUME TaskInv, NEW t \in Threads, ChildFails(t)
  PROVE  TaskInv'
<1>1. /\ Stage(t, "idle") /\ UNCHANGED <<vars, job, text, store, object>>
      /\ stage[t] \in {"preprocessing", "compiling"} /\ permits' = permits + 1
      /\ job' \in [Threads -> Jobs] /\ DOMAIN object' = Threads /\ DOMAIN outcome' = Threads
  BY DEF ChildFails, Return, TaskInv, TasksTyped
<1>2. PermitsInv'
  BY <1>1, PermitReturned DEF TaskInv, Stages
<1> QED BY <1>1, <1>2, QuietStep DEF Stages, CompileThread

\* The call goes on with the hash file_hash returned.
LEMMA HashedPreserves ==
  ASSUME TaskInv, NEW t \in Threads, Hashed(t)
  PROVE  TaskInv'
<1>0. PICK s \in {"lookup", "idle"} : Stage(t, s) /\ (s = "lookup" => result[t].ok)
  BY DEF Hashed, Return
<1>1. /\ UNCHANGED <<vars, job, text, permits, store, object>> /\ stage[t] = "hash" /\ pc[t] = "done"
      /\ job' \in [Threads -> Jobs] /\ DOMAIN object' = Threads /\ DOMAIN outcome' = Threads
  BY DEF Hashed, Return, TaskInv, TasksTyped
<1>2. PermitsInv'
  BY <1>0, <1>1, PermitsKept DEF TaskInv, Stages
<1> QED BY <1>0, <1>1, <1>2, QuietStep DEF Stages, CompileThread

\* A miss changes nothing but the place in the call.
LEMMA MissPreserves ==
  ASSUME TaskInv, NEW t \in Threads, Miss(t) \/ TempFails(t)
  PROVE  TaskInv'
<1>0. PICK s \in {"compile", "idle"} : Stage(t, s) /\ (s = "compile" => stage[t] = "lookup")
  BY DEF Miss, TempFails, Return
<1>1. /\ UNCHANGED <<vars, job, text, permits, store, object>> /\ stage[t] \in {"lookup", "compile"}
      /\ job' \in [Threads -> Jobs] /\ DOMAIN object' = Threads /\ DOMAIN outcome' = Threads
  BY DEF Miss, TempFails, Return, TaskInv, TasksTyped
<1>2. PermitsInv'
  BY <1>0, <1>1, PermitsKept DEF TaskInv, Stages
<1> QED BY <1>0, <1>1, <1>2, QuietStep DEF Stages, CompileThread

\* The text is there; the hash of the header is asked for if there is one.
LEMMA PreprocessedPreserves ==
  ASSUME TaskInv, NEW t \in Threads, Preprocessed(t)
  PROVE  TaskInv'
<1>1. /\ stage[t] = "preprocessing" /\ permits' = permits + 1
      /\ \E source \in Sources : text' = [text EXCEPT ![t] = PreprocessedText(job[t], source)]
      /\ UNCHANGED <<calls, job, store, object, outcome>>
  BY DEF Preprocessed
<1>2. text' \in [Threads -> Texts \cup {<<>>}] /\ text'[t] \in Texts
  <2>1. job[t] \in Jobs
    BY DEF TaskInv, TasksTyped
  <2>2. \A source \in Sources : PreprocessedText(job[t], source) \in Texts
    BY <2>1 DEF Texts
  <2> HIDE DEF Texts
  <2> QED BY <1>1, <2>2 DEF TaskInv, TasksTyped
<1>3. TasksTyped' /\ StoreInv'
  BY <1>1, <1>2 DEF TaskInv, TasksTyped, StoreInv
<1>4. \A u \in Threads \ {t} : CallInv(u)'
  BY OthersKept DEF CompileThread
<1>5. CASE Uses(job[t])
  <2>1. Stage(t, "hash") /\ Call(t) /\ path'[t] = job[t].input_precompiled
    BY <1>5 DEF Preprocessed
  <2>2. HashInv'
    BY <2>1, CallPreserves DEF TaskInv
  <2>3. PermitsInv'
    BY <1>1, <2>1, PermitReturned DEF TaskInv, Stages
  <2>4. CallInv(t)'
    BY <1>1, <1>2, <2>1 DEF CallInv, Stage, TaskInv, PermitsInv
  <2> QED BY <1>3, <1>4, <2>2, <2>3, <2>4 DEF TaskInv
<1>6. CASE ~Uses(job[t])
  <2>1. Stage(t, "lookup") /\ UNCHANGED vars
    BY <1>6 DEF Preprocessed
  <2>2. HashInv'
    BY <2>1, HashStutter DEF TaskInv
  <2>3. PermitsInv'
    BY <1>1, <2>1, PermitReturned DEF TaskInv, Stages
  <2>4. CallInv(t)'
    BY <1>1, <1>2, <1>6, <2>1 DEF CallInv, Stage, TaskInv, PermitsInv
  <2> QED BY <1>3, <1>4, <2>2, <2>3, <2>4 DEF TaskInv
<1> QED BY <1>5, <1>6

\* A call writes the header it makes.
LEMMA RewritePreserves ==
  ASSUME HashInv, NEW p \in Paths, NEW c \in Contents, Rewrite(p, c)
  PROVE  HashInv'
<1>1. PICK f \in [content : Contents, modified : {clock}] : f = [content |-> c, modified |-> clock]
  OBVIOUS
<1>2. writes' \in 0..MaxWrites
  BY DEF Rewrite, HashInv, TypeOK
<1> QED BY <1>1, <1>2, ChangedPreserves DEF Rewrite

\* Output files are restored.
LEMMA HitPreserves ==
  ASSUME TaskInv, NEW t \in Threads, Hit(t)
  PROVE  TaskInv'
<1>1. PICK e \in store : /\ e.made # None <=> Makes(job[t])
                         /\ object' = [object EXCEPT ![t] = e]
                         /\ IF Makes(job[t]) THEN Rewrite(job[t].output_precompiled, e.made) ELSE UNCHANGED vars
  BY DEF Hit
<1>2. /\ stage[t] = "lookup" /\ Return(t, "hit") /\ Stage(t, "idle")
      /\ UNCHANGED <<calls, job, text, permits, store>>
  BY DEF Hit, Return
<1>3. HashInv'
  <2>1. CASE Makes(job[t])
    <3>1. job[t].output_precompiled \in Paths /\ e.made \in Contents
      BY <1>1, <2>1, JobsKnown DEF TaskInv, TasksTyped, StoreInv
    <3> QED BY <1>1, <2>1, <3>1, RewritePreserves DEF TaskInv
  <2>2. CASE ~Makes(job[t])
    BY <1>1, <2>2, HashStutter DEF TaskInv
  <2> QED BY <2>1, <2>2
<1>4. PermitsInv'
  BY <1>2, PermitsKept DEF TaskInv, Stages
<1>5. TasksTyped' /\ StoreInv'
  BY <1>1, <1>2 DEF TaskInv, TasksTyped, StoreInv, Return
<1>6. \A u \in Threads \ {t} : CallInv(u)'
  BY OthersKept DEF CompileThread
<1>7. CallInv(t)'
  BY <1>2 DEF CallInv, Stage, TaskInv, PermitsInv
<1> QED BY <1>3, <1>4, <1>5, <1>6, <1>7 DEF TaskInv

\* The compiler has read the header: it is the hashed one, or was rewritten.
LEMMA CompiledPreserves ==
  ASSUME TaskInv, NEW t \in Threads, Compiled(t)
  PROVE  TaskInv'
<1> DEFINE p == job[t].input_precompiled
           raced == Uses(job[t]) /\ ~(changed[t] \subseteq {"lock", "stat"} /\ Settled(result[t]))
           hd == IF Uses(job[t]) THEN file[p].content ELSE None
<1>1. PICK made \in (IF Makes(job[t]) THEN Contents ELSE {None}) :
        /\ object' = [object EXCEPT ![t] =
             [key |-> Key(t), text |-> text[t], args |-> CompileArgs(job[t]),
              header |-> hd, made |-> made, raced |-> raced]]
        /\ IF Makes(job[t]) THEN Rewrite(job[t].output_precompiled, made) ELSE UNCHANGED vars
  BY DEF Compiled
<1>2. /\ stage[t] = "compiling" /\ permits' = permits + 1 /\ Stage(t, "save")
      /\ UNCHANGED <<calls, job, text, store, outcome>>
  BY DEF Compiled
<1>3. HashInv'
  <2>1. CASE Makes(job[t])
    <3>1. job[t].output_precompiled \in Paths /\ made \in Contents
      BY <2>1, JobsKnown DEF TaskInv, TasksTyped
    <3> QED BY <1>1, <2>1, <3>1, RewritePreserves DEF TaskInv
  <2>2. CASE ~Makes(job[t])
    BY <1>1, <2>2, HashStutter DEF TaskInv
  <2> QED BY <2>1, <2>2
<1>4. PermitsInv'
  BY <1>2, PermitReturned DEF TaskInv, Stages
<1>5. TasksTyped' /\ StoreInv'
  BY <1>1, <1>2 DEF TaskInv, TasksTyped, StoreInv
<1>6. \A u \in Threads \ {t} : CallInv(u)'
  BY OthersKept DEF CompileThread
<1>7. CallInv(t) /\ UNCHANGED <<pc, path, result>>
  BY <1>1 DEF TaskInv, Rewrite, vars, worker
<1>8. Uses(job[t]) => hd = result[t].hash \/ raced
  BY <1>2, <1>7 DEF TaskInv, HashInv, ResultCurrent, CallInv
<1>9. Genuine(object'[t], job[t], text[t], HeaderHash(t))
  <2>1. object'[t] = [key |-> KeyOf(job[t], text[t], HeaderHash(t)), text |-> text[t],
                      args |-> CompileArgs(job[t]), header |-> hd, made |-> made, raced |-> raced]
    BY <1>1 DEF TaskInv, TasksTyped, Key, HeaderHash
  <2>2. Uses(job[t]) => hd = HeaderHash(t) \/ raced
    BY <1>8 DEF HeaderHash
  <2> HIDE DEF hd, raced
  <2> QED BY <2>1, <2>2 DEF Genuine
<1>10. CallInv(t)'
  <2>1. stage'[t] = "save" /\ HeaderHash(t)' = HeaderHash(t)
    BY <1>2, <1>7 DEF Stage, TaskInv, PermitsInv, HeaderHash
  <2>2. Genuine(object[t], job[t], text[t], HeaderHash(t))'
    BY <1>2, <1>9, <2>1
  <2> QED BY <1>2, <1>7, <2>1, <2>2 DEF CallInv
<1> QED BY <1>3, <1>4, <1>5, <1>6, <1>10 DEF TaskInv

\* The hash in a key is one file_hash has returned, or none.
LEMMA HeaderHashTyped ==
  ASSUME TaskInv, NEW t \in Threads, stage[t] \in {"lookup", "compile", "compiling", "save"}
  PROVE  HeaderHash(t) \in Contents \cup {Mixed, None}
<1>1. CASE Uses(job[t])
  <2>1. result[t].ok /\ pc[t] = "done"
    BY <1>1 DEF TaskInv, CallInv
  <2>2. result[t] \in Hashes
    BY <2>1 DEF TaskInv, HashInv, LocalsTyped
  <2> QED BY <1>1, <2>1, <2>2, OkTimed DEF HeaderHash
<1>2. CASE ~Uses(job[t])
  BY <1>2 DEF HeaderHash
<1> QED BY <1>1, <1>2

\* What is saved is what was compiled, with the header as it is now.
LEMMA SavePreserves ==
  ASSUME TaskInv, NEW t \in Threads, Save(t)
  PROVE  TaskInv'
<1>1. /\ stage[t] = "save" /\ Stage(t, "idle") /\ UNCHANGED <<vars, calls, job, text, permits, object>>
      /\ DOMAIN outcome' = Threads
  BY DEF Save, Return, TaskInv, TasksTyped
<1>2. HashInv'
  BY <1>1, HashStutter DEF TaskInv
<1>3. PermitsInv'
  BY <1>1, PermitsKept DEF TaskInv, Stages
<1>4. TasksTyped'
  BY <1>1 DEF TaskInv, TasksTyped
<1>5. StoreInv'
  <2>1. PICK made \in Contents \cup {None} :
          \A e \in store' : e \in store \/ e = [object[t] EXCEPT !.made = made]
    <3> DEFINE p == job[t].output_precompiled
               made == IF Makes(job[t]) THEN file[p].content ELSE None
    <3>1. CASE store' = store
      BY <3>1
    <3>2. CASE /\ Makes(job[t]) => file[p] # None
               /\ store' = {e \in store : e.key # Key(t)} \cup {[object[t] EXCEPT !.made = made]}
      <4>1. made \in Contents \cup {None}
        BY <3>2, JobsKnown DEF TaskInv, TasksTyped, HashInv, TypeOK
      <4> HIDE DEF made
      <4> QED BY <3>2, <4>1
    <3> QED BY <3>1, <3>2 DEF Save
  <2>2. Genuine(object[t], job[t], text[t], HeaderHash(t)) /\ text[t] \in Texts /\ job[t] \in Jobs
    BY <1>1 DEF TaskInv, CallInv, TasksTyped
  <2>3. HeaderHash(t) \in Contents \cup {Mixed, None}
    BY <1>1, HeaderHashTyped
  <2>4. PICK e : e = [object[t] EXCEPT !.made = made]
    OBVIOUS
  <2>5. e.made = made /\ Genuine(e, job[t], text[t], HeaderHash(t))
    <3>1. PICK hd, md, r :
            /\ object[t] = [key |-> KeyOf(job[t], text[t], HeaderHash(t)), text |-> text[t],
                            args |-> CompileArgs(job[t]), header |-> hd, made |-> md, raced |-> r]
            /\ Uses(job[t]) => hd = HeaderHash(t) \/ r
      BY <2>2 DEF Genuine
    <3>2. e = [key |-> KeyOf(job[t], text[t], HeaderHash(t)), text |-> text[t],
               args |-> CompileArgs(job[t]), header |-> hd, made |-> made, raced |-> r]
      BY <2>4, <3>1
    <3>3. e.made = made
      BY <3>2
    <3> QED BY <3>1, <3>2, <3>3 DEF Genuine
  <2> SUFFICES ASSUME NEW d \in store'
               PROVE  /\ d.made \in Contents \cup {None}
                      /\ \E i \in Jobs, x \in Texts, g \in Contents \cup {Mixed, None} :
                           Genuine(d, i, x, g)
    BY DEF StoreInv, Genuine
  <2>6. CASE d \in store
    BY <2>6 DEF TaskInv, StoreInv
  <2>7. CASE d = e
    BY <2>2, <2>3, <2>5, <2>7
  <2> QED BY <2>1, <2>4, <2>6, <2>7
<1>6. \A u \in Threads \ {t} : CallInv(u)'
  BY OthersKept DEF CompileThread
<1>7. CallInv(t)'
  BY <1>1 DEF CallInv, Stage, TaskInv, PermitsInv
<1> QED BY <1>2, <1>3, <1>4, <1>5, <1>6, <1>7 DEF TaskInv

\* file_hash runs only for the call that waits for it.
LEMMA HashStepPreserves ==
  ASSUME TaskInv, NEW t \in Threads, HashStep(t)
  PROVE  TaskInv'
<1>1. UNCHANGED <<stage, calls, job, text, permits, store, object, outcome>>
  BY DEF HashStep, task
<1>2. HashInv'
  BY LockPreserves, StatPreserves, OpenPreserves, FinishPreserves DEF HashStep, TaskInv
<1>3. PermitsInv' /\ TasksTyped' /\ StoreInv'
  BY <1>1 DEF TaskInv, PermitsInv, Running, TasksTyped, StoreInv
<1>4. \A u \in Threads \ {t} : CallInv(u)'
  BY OthersKept DEF CompileThread
<1>5. pc[t] # "done" /\ path' = path
  BY DEF HashStep, Lock, Stat, Open, Finish
<1>6. CallInv(t)'
  BY <1>1, <1>5, CallFrame
<1> QED BY <1>2, <1>3, <1>4, <1>6 DEF TaskInv

\* Files change and time passes around the calls.
LEMMA AroundPreserves ==
  ASSUME TaskInv, Around, UNCHANGED task
  PROVE  TaskInv'
<1>1. UNCHANGED <<stage, calls, job, text, permits, store, object, outcome>>
  BY DEF task
<1>2. HashInv'
  BY ChangePreserves, TickPreserves DEF Around, TaskInv
<1>3. PermitsInv' /\ TasksTyped' /\ StoreInv'
  BY <1>1 DEF TaskInv, PermitsInv, Running, TasksTyped, StoreInv
<1>4. UNCHANGED <<pc, path, result>>
  BY DEF Around, Change, Tick, worker
<1>5. \A u \in Threads : CallInv(u)'
  BY <1>1, <1>4, CallFrame
<1> QED BY <1>2, <1>3, <1>5 DEF TaskInv

\* Nothing changes, nor does the invariant.
LEMMA TaskStutter ==
  ASSUME TaskInv, UNCHANGED taskVars
  PROVE  TaskInv'
<1>1. UNCHANGED <<stage, calls, job, text, permits, store, object, outcome>> /\ UNCHANGED vars
  BY DEF taskVars, task
<1>2. HashInv'
  BY <1>1, HashStutter DEF TaskInv
<1>3. PermitsInv' /\ TasksTyped' /\ StoreInv'
  BY <1>1 DEF TaskInv, PermitsInv, Running, TasksTyped, StoreInv
<1>4. \A u \in Threads : CallInv(u)'
  BY <1>1, CallFrame DEF vars, worker
<1> QED BY <1>2, <1>3, <1>4 DEF TaskInv

\* Every step keeps the invariant of the tasks.
LEMMA TaskNextPreserves == TaskInv /\ [TaskNext]_taskVars => TaskInv'
<1> SUFFICES ASSUME TaskInv, [TaskNext]_taskVars PROVE TaskInv'
  OBVIOUS
<1>1. ASSUME NEW t \in Threads, CompileThread(t) PROVE TaskInv'
  BY <1>1, AcquirePreserves, PreprocessedPreserves, ChildFailsPreserves, HashedPreserves, HashStepPreserves,
     HitPreserves, MissPreserves, CompiledPreserves, SavePreserves DEF CompileThread
<1> QED BY <1>1, StartTaskPreserves, AroundPreserves, TaskStutter DEF TaskNext, AllReturned

-------------------------------------------------------------------------------
(* What a hit restores                                                     *)

\* A call that was a hit has ended, and keeps the hash of its header until the
\* next one.
HitInv(t) ==
  outcome[t] = "hit" =>
    /\ stage[t] = "idle" /\ (Uses(job[t]) => pc[t] = "done")
    /\ object[t].text = text[t] /\ object[t].args = CompileArgs(job[t])
    /\ Uses(job[t]) => object[t].header = result[t].hash \/ object[t].raced

\* The entry that is found under the key of a call was made of the same parts.
LEMMA HitRestores ==
  ASSUME KeyTells, TaskInv, NEW t \in Threads, Hit(t)
  PROVE  HitInv(t)'
<1>1. PICK e \in store : /\ e.key = Key(t) /\ object' = [object EXCEPT ![t] = e]
                         /\ Rewrite(job[t].output_precompiled, e.made) \/ UNCHANGED vars
  BY DEF Hit
<1>2. /\ stage[t] = "lookup" /\ stage'[t] = "idle" /\ UNCHANGED <<job, text>> /\ object'[t] = e
  BY <1>1 DEF Hit, Return, Stage, TaskInv, PermitsInv, TasksTyped
<1>3. UNCHANGED <<pc, result>>
  BY <1>1 DEF Rewrite, vars, worker
<1>4. PICK i \in Jobs, x \in Texts, g \in Contents \cup {Mixed, None} : Genuine(e, i, x, g)
  BY DEF TaskInv, StoreInv
<1>5. /\ e.key = KeyOf(i, x, g) /\ e.text = x /\ e.args = CompileArgs(i)
      /\ Uses(i) => e.header = g \/ e.raced
  <2>1. PICK hd, md, r :
          /\ e = [key |-> KeyOf(i, x, g), text |-> x, args |-> CompileArgs(i), header |-> hd, made |-> md, raced |-> r]
          /\ Uses(i) => hd = g \/ r
    BY <1>4 DEF Genuine
  <2> QED BY <2>1
<1>6. HeaderHash(t) \in Contents \cup {Mixed, None} /\ text[t] \in Texts /\ job[t] \in Jobs
  BY <1>2, HeaderHashTyped DEF TaskInv, CallInv, TasksTyped
<1>7. KeyOf(i, x, g) = KeyOf(job[t], text[t], HeaderHash(t))
  BY <1>1, <1>5 DEF Key, HeaderHash
<1>8. /\ x = text[t] /\ CompileArgs(i) = CompileArgs(job[t]) /\ (Uses(i) <=> Uses(job[t]))
      /\ Uses(i) => g = HeaderHash(t)
  BY <1>6, <1>7 DEF KeyTells
<1>9. Uses(job[t]) => pc[t] = "done" /\ HeaderHash(t) = result[t].hash
  BY <1>2 DEF TaskInv, CallInv, HeaderHash
<1> QED BY <1>2, <1>3, <1>5, <1>8, <1>9 DEF HitInv

\* Nothing else makes a hit, or disturbs one.
LEMMA HitKept ==
  ASSUME TaskInv, NEW u \in Threads, HitInv(u), outcome'[u] = outcome[u], stage'[u] = stage[u], job'[u] = job[u],
         text'[u] = text[u], object'[u] = object[u], pc[u] = "done" => pc'[u] = "done" /\ result'[u] = result[u]
  PROVE  HitInv(u)'
BY DEF HitInv

\* Every step keeps hits genuine: a hit is an entry of the store, and the key
\* tells what it was made from.
LEMMA HitNextPreserves ==
  ASSUME KeyTells, TaskInv, \A t \in Threads : HitInv(t), [TaskNext]_taskVars
  PROVE  \A t \in Threads : HitInv(t)'
<1>1. ASSUME NEW t \in Threads, StartTask(t) \/ CompileThread(t) PROVE \A u \in Threads : HitInv(u)'
  <2>1. \A u \in Threads \ {t} : HitInv(u)'
    BY <1>1, ThreadLocal, HitKept
  <2>2. HitInv(t)'
    <3> USE DEF TaskInv, TasksTyped, PermitsInv
    <3>1. CASE StartTask(t)
      BY <3>1 DEF StartTask, HitInv
    <3>2. CASE Acquire(t)
      BY <3>2 DEF Acquire, HitInv
    <3>3. CASE Preprocessed(t)
      BY <3>3 DEF Preprocessed, HitInv
    <3>4. CASE ChildFails(t) \/ TempFails(t)
      BY <3>4 DEF ChildFails, TempFails, Return, HitInv
    <3>5. CASE Hashed(t)
      BY <3>5 DEF Hashed, Return, HitInv
    <3>6. CASE Miss(t) \/ Compiled(t)
      BY <3>6 DEF Miss, Compiled, HitInv
    <3>7. CASE Save(t)
      BY <3>7 DEF Save, Return, HitInv
    <3>8. CASE Hit(t)
      BY <3>8, HitRestores
    <3>9. CASE HashStep(t)
      <4>1. UNCHANGED <<stage, job, text, object, outcome>> /\ pc[t] # "done"
        BY <3>9 DEF HashStep, task, Lock, Stat, Open, Finish
      <4> QED BY <4>1, HitKept
    <3> QED BY <1>1, <3>1, <3>2, <3>3, <3>4, <3>5, <3>6, <3>7, <3>8, <3>9 DEF CompileThread
  <2> QED BY <2>1, <2>2
<1>2. ASSUME Around /\ UNCHANGED task PROVE \A u \in Threads : HitInv(u)'
  BY <1>2, HitKept DEF Around, Change, Tick, worker, task
<1>3. ASSUME UNCHANGED taskVars PROVE \A u \in Threads : HitInv(u)'
  BY <1>3, HitKept DEF taskVars, vars, worker, task
<1> QED BY <1>1, <1>2, <1>3 DEF TaskNext, AllReturned

-------------------------------------------------------------------------------
(* The theorems                                                            *)

\* The inductive invariant of compile_task, file_hash and the process limit.
THEOREM TaskInvariant == TaskSpec => []TaskInv
<1>1. TaskInit => TaskInv
  BY InitTask
<1>2. TaskInv /\ [TaskNext]_taskVars => TaskInv'
  BY TaskNextPreserves
<1> QED BY <1>1, <1>2, PTL DEF TaskSpec

\* file_hash returns the hash of the file as it is, unless it has changed since
\* its metadata was read, or within the tick in which its hash was computed.
THEOREM ResultCurrentAlways == TaskSpec => []ResultCurrent
<1>1. TaskInv => ResultCurrent
  BY DEF TaskInv, HashInv
<1> QED BY <1>1, TaskInvariant, PTL

\* No file is read for its hash while its hash is known: who waits for the lock
\* of the entry finds it there.
THEOREM HashedOnceAlways == TaskSpec => []HashedOnce
<1>1. TaskInv => HashedOnce
  <2> SUFFICES ASSUME TaskInv, NEW t \in Threads, pc[t] = "open" PROVE ~fresh[path[t]]
    BY DEF HashedOnce
  <2>1. path[t] \in Paths /\ lock[path[t]] = t
    BY DEF TaskInv, HashInv, TypeOK, LockHeld
  <2> QED BY <2>1, NoneIsNoThread DEF TaskInv, HashInv, FreshKnown
<1> QED BY <1>1, TaskInvariant, PTL

\* No error path of a child process leaks a permit or takes one too many:
\* wrap_slow never lets more children run than the limit.
THEOREM ChildrenBoundedAlways == TaskSpec => []ChildrenBounded
<1>1. TaskInv => ChildrenBounded
  <2> SUFFICES ASSUME TaskInv PROVE Cardinality(Running) <= Limit
    BY DEF ChildrenBounded, Running, Limit
  <2>1. IsFiniteSet(Running)
    BY ThreadsFinite, FS_Subset DEF Running
  <2>2. Cardinality(Running) \in Nat /\ Limit \in Nat
    BY <2>1, FS_CardinalityType, LimitsNatural DEF Limit
  <2> QED BY <2>2 DEF TaskInv, PermitsInv
<1> QED BY <1>1, TaskInvariant, PTL

\* If the key tells its parts apart, a hit of run_file_cached is what the call
\* would have compiled, unless the header was rewritten under the call that
\* saved it.
THEOREM HitGenuineAlways ==
  ASSUME KeyTells
  PROVE  TaskSpec => []HitGenuine
<1> DEFINE I == TaskInv /\ \A t \in Threads : HitInv(t)
<1>1. TaskInit => I
  BY InitTask DEF TaskInit, HitInv
<1>2. I /\ [TaskNext]_taskVars => I'
  BY TaskNextPreserves, HitNextPreserves
<1>3. I => HitGenuine
  BY DEF HitInv, HitGenuine
<1> HIDE DEF I
<1> QED BY <1>1, <1>2, <1>3, PTL DEF TaskSpec

===============================================================================
