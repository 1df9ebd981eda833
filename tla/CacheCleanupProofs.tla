-------------------------- MODULE CacheCleanupProofs --------------------------
(***************************************************************************)
(* What concurrent clean-ups of one cache directory guarantee, for any       *)
(* number of cleaners, files and compilations: an Ok means that the cache is *)
(* within its limit, each keeps the newest files of its list, and of several *)
(* with no compilation between them one gets through.                        *)
(***************************************************************************)
EXTENDS CacheCleanup, FiniteSetTheorems, TLAPS

\* Of two files the sort puts i before j.
Before(i, j) ==
  \/ i.accessed > j.accessed
  \/ i.accessed = j.accessed /\ i.path < j.path

\* The locals of a call are those of a list being made or trimmed: nothing is
\* decided before the list is sorted, and nothing is left once it returned.
Locals(c) ==
  /\ pc[c] \in {"idle", "done"} => files[c] = {}
  /\ pc[c] # "trim" => kept[c] = {} /\ removed[c] = {}
  /\ pc[c] = "stat" => at[c] \in Files
  /\ result[c] # "none" => pc[c] = "done"

\* Trimming walks the sorted list: what was kept is no older than what is still
\* to come, and the size only grows, so that after the first file that did not
\* fit none fits.
Trimmed(c) ==
  /\ \A k \in kept[c], i \in files[c] : k.accessed >= i.accessed
  /\ \A k \in kept[c], r \in removed[c] : k.accessed >= r.accessed
  /\ removed[c] # {} => cacheSize[c] > CacheLimit

\* The part of the cache a file of a list stands for, and that of all it keeps.
Units(item) == {item.path} \X (1..item.size)
KeptUnits(c) == UNION {Units(item) : item \in kept[c]}

\* The list of a clean-up has the file, at least as large as it is.
Lists(c, f) == \E item \in files[c] \cup kept[c] : item.path = f /\ item.size >= size[f]

\* What a clean-up keeps fits; and unless entries were saved since it began, it
\* has listed whatever there is, up to where its scan has come.
Counted(c) ==
  /\ Cardinality(KeptUnits(c)) <= cacheSize[c] /\ Cardinality(KeptUnits(c)) <= CacheLimit
  /\ pc[c] = "idle" => at[c] = 1
  /\ ~saved[c] /\ pc[c] \in {"list", "stat", "trim"} =>
       \A f \in Files : size[f] > 0 => (pc[c] # "trim" /\ at[c] <= f) \/ Lists(c, f)

\* With no compilation since the first clean-up began, the lists agree on the
\* time of a file, and with the disk while it is there.
Agree ==
  ~disturbed =>
    /\ \A c, d \in Cleaners : \A i \in files[c], j \in files[d] :
         i.path = j.path => i.accessed = j.accessed
    /\ \A c \in Cleaners : \A i \in files[c] : i.path \in exists => modified[i.path] = i.accessed

\* Nobody has removed a file that another one counts on.
Untouched ==
  \A c \in Cleaners :
    /\ pc[c] # "done"
    /\ pc[c] = "stat" => at[c] \in exists
    /\ \A i \in files[c] : i.path \in exists

\* The cleaner whose walk is furthest: every listed file that is gone comes
\* before the whole rest of its list.
Leads(c) ==
  /\ pc[c] = "trim"
  /\ \A d \in Cleaners : \A i \in files[d] :
       i.path \notin exists => \A j \in files[c] : Before(i, j)

\* Someone got through, is certain to, or nobody is in another's way yet.
Progress ==
  made /\ ~disturbed =>
    \/ \E c \in Cleaners : result[c] = "Ok"
    \/ \E c \in Cleaners : Leads(c)
    \/ Untouched

IndInv ==
  /\ TypeOK
  /\ \A c \in Cleaners : Locals(c) /\ Trimmed(c) /\ Counted(c)
  /\ OkWithinLimit
  /\ Agree /\ Progress

-------------------------------------------------------------------------------
(* Types and frames                                                        *)

\* Nothing has begun.
LEMMA InitEstablishes == Init => IndInv
<1> SUFFICES ASSUME Init PROVE IndInv
  OBVIOUS
<1>1. TypeOK
  <2>1. modified \in [Files -> 0..MaxClock] /\ clock \in 0..MaxClock /\ uses \in 0..MaxUses
    BY BoundsNatural DEF Init
  <2>2. at \in [Cleaners -> 1..(NumFiles + 1)]
    BY BoundsNatural DEF Init
  <2>3. /\ made \in BOOLEAN /\ exists \subseteq Files /\ writing \subseteq exists
        /\ size \in [Files -> 0..MaxSize]
        /\ \A f \in Files \ exists : size[f] = 0 /\ modified[f] = 0
    BY BoundsNatural DEF Init
  <2> QED BY <2>1, <2>2, <2>3 DEF Init, TypeOK
<1>2. \A c \in Cleaners : Locals(c) /\ Trimmed(c)
  BY DEF Init, Locals, Trimmed
<1>3. Agree /\ Progress
  BY DEF Init, Agree, Progress, Untouched
<1>4. ASSUME NEW c \in Cleaners PROVE Counted(c)
  <2>1. KeptUnits(c) = {} /\ cacheSize[c] = 0
    BY DEF Init, KeptUnits
  <2>2. Cardinality(KeptUnits(c)) <= cacheSize[c] /\ Cardinality(KeptUnits(c)) <= CacheLimit
    BY <2>1, FS_EmptySet, BoundsNatural
  <2> QED BY <2>2 DEF Init, Counted
<1>5. OkWithinLimit
  BY DEF Init, OkWithinLimit
<1> QED BY <1>1, <1>2, <1>3, <1>4, <1>5 DEF IndInv

\* A clean-up leaves the other clean-ups alone, and of the disk it only takes
\* files away.
LEMMA CleanupFrame ==
  ASSUME TypeOK, NEW c \in Cleaners, Cleanup(c)
  PROVE  /\ \A d \in Cleaners \ {c} :
              /\ pc'[d] = pc[d] /\ at'[d] = at[d] /\ files'[d] = files[d]
              /\ cacheSize'[d] = cacheSize[d] /\ result'[d] = result[d]
              /\ kept'[d] = kept[d] /\ removed'[d] = removed[d]
         /\ UNCHANGED <<made, clock, uses, saved, disturbed>>
         /\ exists' \subseteq exists
         /\ \A f \in exists' : modified'[f] = modified[f]
         /\ \A f \in Files : size'[f] = size[f] \/ size'[f] = 0
<1>1. CASE Begin(c)
  BY <1>1 DEF Begin, Go, Finish, disk, env, TypeOK
<1>2. CASE List(c)
  BY <1>2 DEF List, Go, disk, env, TypeOK
<1>3. CASE Stat(c)
  BY <1>3 DEF Stat, Go, Finish, disk, env, TypeOK
<1>4. CASE Sort(c)
  BY <1>4 DEF Sort, Go, disk, env, TypeOK
<1>5. CASE Keep(c)
  BY <1>5 DEF Keep, disk, env, TypeOK
<1>6. CASE Remove(c)
  BY <1>6 DEF Remove, Unlink, env, TypeOK
<1>7. CASE RemoveFails(c)
  BY <1>7 DEF RemoveFails, Go, Finish, disk, env, TypeOK
<1>8. CASE Return(c)
  BY <1>8 DEF Return, Go, Finish, disk, env, TypeOK
<1> QED BY <1>1, <1>2, <1>3, <1>4, <1>5, <1>6, <1>7, <1>8 DEF Cleanup

\* A call that returns has no locals any more.
LEMMA FinishLocals ==
  ASSUME TypeOK, NEW c \in Cleaners, NEW r \in {"Ok", "Err"}, Finish(c, r)
  PROVE  /\ pc' = [pc EXCEPT ![c] = "done"] /\ pc'[c] = "done" /\ result'[c] = r
         /\ files'[c] = {} /\ kept'[c] = {} /\ removed'[c] = {}
         /\ pc' \in [Cleaners -> {"idle", "list", "stat", "trim", "done"}]
         /\ at' \in [Cleaners -> 1..(NumFiles + 1)]
         /\ files' \in [Cleaners -> SUBSET CacheFile]
         /\ cacheSize' \in [Cleaners -> Nat]
         /\ result' \in [Cleaners -> {"none", "Ok", "Err"}]
         /\ kept' \in [Cleaners -> SUBSET CacheFile] /\ removed' \in [Cleaners -> SUBSET CacheFile]
<1>1. 1 \in 1..(NumFiles + 1)
  BY BoundsNatural
<1> QED BY <1>1 DEF Finish, Go, TypeOK

\* What Stat reads is an entry of the list.
LEMMA ItemTyped ==
  ASSUME TypeOK, NEW f \in Files
  PROVE  [path |-> f, size |-> size[f], accessed |-> modified[f]] \in CacheFile
BY DEF TypeOK, CacheFile

\* The types are kept by a clean-up.
LEMMA CleanupTypes ==
  ASSUME TypeOK, NEW c \in Cleaners, Locals(c), Cleanup(c)
  PROVE  TypeOK'
<1>1. CASE Begin(c)
  <2>1. CASE Finish(c, "Err")
    BY <1>1, <2>1, FinishLocals DEF Begin, disk, env, TypeOK
  <2>2. CASE Go(c, "list") /\ UNCHANGED <<at, files, cacheSize, result, kept, removed>>
    BY <1>1, <2>2 DEF Begin, Go, disk, env, TypeOK
  <2> QED BY <1>1, <2>1, <2>2 DEF Begin
<1>2. CASE List(c)
  <2>1. at' \in [Cleaners -> 1..(NumFiles + 1)]
    <3>1. at[c] \in 1..(NumFiles + 1) /\ at[c] <= NumFiles
      BY <1>2 DEF List, TypeOK
    <3>2. at[c] + 1 \in 1..(NumFiles + 1)
      BY <3>1, BoundsNatural
    <3> QED BY <1>2, <3>2 DEF List, TypeOK
  <2>2. pc' \in [Cleaners -> {"idle", "list", "stat", "trim", "done"}]
    BY <1>2 DEF List, Go, TypeOK
  <2> QED BY <1>2, <2>1, <2>2 DEF List, disk, env, TypeOK
<1>3. CASE Stat(c)
  <2>1. CASE Finish(c, "Err")
    BY <1>3, <2>1, FinishLocals DEF Stat, disk, env, TypeOK
  <2>2. CASE ~Finish(c, "Err")
    <3>1. at[c] \in Files
      BY <1>3 DEF Stat, Locals
    <3>2. PICK item : item = [path |-> at[c], size |-> size[at[c]], accessed |-> modified[at[c]]]
      OBVIOUS
    <3>3. files' = [files EXCEPT ![c] = @ \cup {item}] /\ item \in CacheFile
      BY <1>3, <2>2, <3>1, <3>2, ItemTyped DEF Stat
    <3>4. files' \in [Cleaners -> SUBSET CacheFile]
      BY <3>3 DEF TypeOK
    <3>5. at' \in [Cleaners -> 1..(NumFiles + 1)]
      <4>1. at[c] + 1 \in 1..(NumFiles + 1)
        BY <3>1, BoundsNatural DEF Files
      <4>2. at' = [at EXCEPT ![c] = at[c] + 1]
        BY <1>3, <2>2 DEF Stat
      <4> QED BY <4>1, <4>2 DEF TypeOK
    <3>6. pc' \in [Cleaners -> {"idle", "list", "stat", "trim", "done"}]
      BY <1>3, <2>2 DEF Stat, Go, TypeOK
    <3> QED BY <1>3, <2>2, <3>4, <3>5, <3>6 DEF Stat, disk, env, TypeOK
  <2> QED BY <2>1, <2>2
<1>4. CASE Sort(c)
  BY <1>4 DEF Sort, Go, disk, env, TypeOK
<1>5. CASE Keep(c)
  <2>1. PICK item \in files[c] :
          /\ cacheSize' = [cacheSize EXCEPT ![c] = @ + item.size]
          /\ files' = [files EXCEPT ![c] = @ \ {item}]
          /\ kept' = [kept EXCEPT ![c] = @ \cup {item}]
    BY <1>5 DEF Keep
  <2>2. item \in CacheFile /\ item.size \in Nat
    BY BoundsNatural DEF TypeOK, CacheFile
  <2>3. cacheSize' \in [Cleaners -> Nat]
    BY <2>1, <2>2 DEF TypeOK
  <2>4. files' \in [Cleaners -> SUBSET CacheFile] /\ kept' \in [Cleaners -> SUBSET CacheFile]
    BY <2>1, <2>2 DEF TypeOK
  <2> QED BY <1>5, <2>3, <2>4 DEF Keep, disk, env, TypeOK
<1>6. CASE Remove(c)
  <2>1. PICK item \in files[c] :
          /\ Unlink(item.path)
          /\ cacheSize' = [cacheSize EXCEPT ![c] = @ + item.size]
          /\ files' = [files EXCEPT ![c] = @ \ {item}]
          /\ removed' = [removed EXCEPT ![c] = @ \cup {item}]
    BY <1>6 DEF Remove
  <2>2. item \in CacheFile /\ item.size \in Nat /\ item.path \in Files
    BY BoundsNatural DEF TypeOK, CacheFile
  <2>3. cacheSize' \in [Cleaners -> Nat]
    BY <2>1, <2>2 DEF TypeOK
  <2>4. files' \in [Cleaners -> SUBSET CacheFile] /\ removed' \in [Cleaners -> SUBSET CacheFile]
    BY <2>1, <2>2 DEF TypeOK
  <2>5. /\ exists' \subseteq Files /\ writing' \subseteq exists'
        /\ size' \in [Files -> 0..MaxSize] /\ modified' \in [Files -> 0..MaxClock]
        /\ \A f \in Files \ exists' : size'[f] = 0 /\ modified'[f] = 0
    BY <2>1, <2>2, BoundsNatural DEF Unlink, TypeOK
  <2> QED BY <1>6, <2>1, <2>3, <2>4, <2>5 DEF Remove, Unlink, env, TypeOK
<1>7. CASE RemoveFails(c)
  BY <1>7, FinishLocals DEF RemoveFails, disk, env, TypeOK
<1>8. CASE Return(c)
  BY <1>8, FinishLocals DEF Return, disk, env, TypeOK
<1> QED BY <1>1, <1>2, <1>3, <1>4, <1>5, <1>6, <1>7, <1>8 DEF Cleanup

\* The types are kept by compilations and by the clock.
LEMMA OthersTypes ==
  ASSUME TypeOK, (\E f \in Files : Touch(f) \/ Create(f) \/ Grow(f)) \/ Tick \/ AllDone
  PROVE  TypeOK'
<1>1. ASSUME NEW f \in Files, Use(f)
      PROVE  /\ modified' \in [Files -> 0..MaxClock] /\ uses' \in 0..MaxUses
             /\ clock' = clock /\ disturbed' \in BOOLEAN /\ UNCHANGED cleaner
             /\ \A g \in Files \ {f} : modified'[g] = modified[g]
  <2>1. uses' \in 0..MaxUses
    BY <1>1, BoundsNatural DEF Use, TypeOK
  <2>2. modified' \in [Files -> 0..MaxClock] /\ \A g \in Files \ {f} : modified'[g] = modified[g]
    BY <1>1 DEF Use, TypeOK
  <2> QED BY <1>1, <2>1, <2>2 DEF Use
<1>2. ASSUME NEW f \in Files, Touch(f) PROVE TypeOK'
  BY <1>1, <1>2 DEF Touch, TypeOK, cleaner
<1>3. ASSUME NEW f \in Files, Create(f) PROVE TypeOK'
  <2>1. size' \in [Files -> 0..MaxSize] /\ \A g \in Files \ {f} : size'[g] = size[g]
    BY <1>3, BoundsNatural DEF Create, TypeOK
  <2> QED BY <1>1, <1>3, <2>1 DEF Create, Saving, TypeOK, cleaner
<1>4. ASSUME NEW f \in Files, Grow(f) PROVE TypeOK'
  <2>1. size' \in [Files -> 0..MaxSize] /\ \A g \in Files \ {f} : size'[g] = size[g]
    <3>1. size[f] + 1 \in 0..MaxSize
      BY <1>4, BoundsNatural DEF Grow, TypeOK
    <3> QED BY <1>4, <3>1 DEF Grow, TypeOK
  <2> QED BY <1>1, <1>4, <2>1 DEF Grow, Saving, TypeOK, cleaner
<1>5. CASE Tick
  <2>1. clock' \in 0..MaxClock
    BY <1>5, BoundsNatural DEF Tick, TypeOK
  <2> QED BY <1>5, <2>1 DEF Tick, TypeOK, disk, cleaner
<1>6. CASE AllDone
  BY <1>6 DEF AllDone, TypeOK, vars, disk, env, cleaner
<1> QED BY <1>2, <1>3, <1>4, <1>5, <1>6

-------------------------------------------------------------------------------
(* One clean-up by itself                                                  *)

\* The head of the sorted list comes before the rest of it.
LEMMA FirstBefore ==
  ASSUME NEW list, NEW item \in list, First(list, item), NEW other \in list \ {item}
  PROVE  Before(item, other)
BY DEF First, Before

\* Before orders files strictly and totally.
LEMMA BeforeOrder ==
  ASSUME NEW i \in CacheFile, NEW j \in CacheFile, NEW k \in CacheFile
  PROVE  /\ ~Before(i, i)
         /\ Before(i, j) => i.accessed >= j.accessed
         /\ Before(i, j) /\ Before(j, k) => Before(i, k)
         /\ Before(i, j) \/ Before(j, i) \/ (i.path = j.path /\ i.accessed = j.accessed)
<1>1. \A x \in {i, j, k} : x.path \in Int /\ x.accessed \in Int
  BY BoundsNatural DEF CacheFile, Files
<1> QED BY <1>1 DEF Before

\* Each step of a clean-up keeps the order in which its list is walked.
LEMMA CleanupTrims ==
  ASSUME TypeOK, NEW c \in Cleaners, Locals(c), Trimmed(c), Cleanup(c)
  PROVE  Locals(c)' /\ Trimmed(c)'
<1>0. ASSUME NEW r \in {"Ok", "Err"}, Finish(c, r) PROVE Locals(c)' /\ Trimmed(c)'
  BY <1>0, FinishLocals DEF Locals, Trimmed
<1>1. CASE Begin(c)
  BY <1>0, <1>1 DEF Begin, Go, TypeOK, Locals, Trimmed
<1>2. CASE List(c)
  BY <1>2, BoundsNatural DEF List, Go, TypeOK, Locals, Trimmed, Files
<1>3. CASE Stat(c)
  <2>1. CASE ~Finish(c, "Err")
    <3>1. pc'[c] = "list" /\ kept'[c] = {} /\ removed'[c] = {} /\ result'[c] = "none"
      BY <1>3, <2>1 DEF Stat, Go, TypeOK, Locals
    <3> QED BY <3>1 DEF Locals, Trimmed
  <2> QED BY <1>0, <2>1
<1>4. CASE Sort(c)
  BY <1>4 DEF Sort, Go, TypeOK, Locals, Trimmed
<1>5. CASE Keep(c)
  <2>1. PICK item \in files[c] :
          /\ First(files[c], item) /\ ~Over(c, item)
          /\ cacheSize' = [cacheSize EXCEPT ![c] = @ + item.size]
          /\ files' = [files EXCEPT ![c] = @ \ {item}]
          /\ kept' = [kept EXCEPT ![c] = @ \cup {item}]
    BY <1>5 DEF Keep
  <2>2. item \in CacheFile /\ item.size \in Nat /\ cacheSize[c] \in Nat
    BY BoundsNatural DEF TypeOK, CacheFile
  <2>3. removed[c] = {}
    BY <2>1, <2>2, BoundsNatural DEF Over, Trimmed
  <2>4. files'[c] = files[c] \ {item} /\ kept'[c] = kept[c] \cup {item} /\ removed'[c] = {}
    BY <1>5, <2>1, <2>3 DEF Keep, TypeOK
  <2>5. ASSUME NEW k \in kept'[c], NEW i \in files'[c] PROVE k.accessed >= i.accessed
    <3>1. CASE k \in kept[c]
      BY <2>4, <2>5, <3>1 DEF Trimmed
    <3>2. CASE k = item
      <4>1. Before(k, i) /\ k \in CacheFile /\ i \in CacheFile
        BY <2>1, <2>2, <2>4, <2>5, <3>2, FirstBefore DEF TypeOK
      <4> QED BY <4>1, BeforeOrder
    <3> QED BY <2>4, <2>5, <3>1, <3>2
  <2>6. pc'[c] = "trim" /\ result'[c] = "none"
    BY <1>5 DEF Keep, Locals
  <2> QED BY <2>4, <2>5, <2>6 DEF Locals, Trimmed
<1>6. CASE Remove(c)
  <2>1. PICK item \in files[c] :
          /\ First(files[c], item) /\ Over(c, item)
          /\ cacheSize' = [cacheSize EXCEPT ![c] = @ + item.size]
          /\ files' = [files EXCEPT ![c] = @ \ {item}]
          /\ removed' = [removed EXCEPT ![c] = @ \cup {item}]
    BY <1>6 DEF Remove
  <2>2. cacheSize'[c] > CacheLimit
    BY <2>1 DEF Over, TypeOK
  <2>3. /\ files'[c] = files[c] \ {item} /\ kept'[c] = kept[c]
        /\ removed'[c] = removed[c] \cup {item} /\ pc'[c] = "trim" /\ result'[c] = "none"
    BY <1>6, <2>1 DEF Remove, TypeOK, Locals
  <2> QED BY <2>1, <2>2, <2>3 DEF Locals, Trimmed
<1>7. CASE RemoveFails(c)
  BY <1>0, <1>7 DEF RemoveFails
<1>8. CASE Return(c)
  BY <1>0, <1>8 DEF Return
<1> QED BY <1>1, <1>2, <1>3, <1>4, <1>5, <1>6, <1>7, <1>8 DEF Cleanup

-------------------------------------------------------------------------------
(* Several clean-ups at once                                               *)

\* A list only grows by a file that is there, with the time the disk has of it.
LEMMA ListGrows ==
  ASSUME TypeOK, NEW c \in Cleaners, Cleanup(c), NEW d \in Cleaners, NEW i \in files'[d]
  PROVE  \/ i \in files[d]
         \/ i.path \in exists /\ i.path \in exists' /\ i.accessed = modified[i.path]
<1>0. ASSUME d = c, NEW r \in {"Ok", "Err"}, Finish(c, r) PROVE FALSE
  BY <1>0, FinishLocals
<1>1. CASE d # c
  BY <1>1, CleanupFrame
<1>2. CASE d = c /\ Begin(c)
  BY <1>0, <1>2 DEF Begin
<1>3. CASE d = c /\ Stat(c)
  <2>1. at[c] \in exists /\ exists' = exists
    BY <1>0, <1>3 DEF Stat, disk
  <2>2. PICK item : item = [path |-> at[c], size |-> size[at[c]], accessed |-> modified[at[c]]]
    OBVIOUS
  <2>3. files' = [files EXCEPT ![c] = @ \cup {item}]
    BY <1>3, <2>1, <2>2 DEF Stat
  <2>4. i \in files[d] \/ i = item
    BY <1>3, <2>3 DEF TypeOK
  <2> QED BY <2>1, <2>2, <2>4
<1>4. CASE d = c /\ (List(c) \/ Sort(c))
  BY <1>4 DEF List, Sort
<1>5. CASE d = c /\ Keep(c)
  BY <1>5 DEF Keep, TypeOK
<1>6. CASE d = c /\ Remove(c)
  BY <1>6 DEF Remove, TypeOK
<1>7. CASE d = c /\ (RemoveFails(c) \/ Return(c))
  BY <1>0, <1>7 DEF RemoveFails, Return
<1> QED BY <1>1, <1>2, <1>3, <1>4, <1>5, <1>6, <1>7 DEF Cleanup

\* So the lists go on to agree.
LEMMA CleanupAgrees ==
  ASSUME TypeOK, Agree, NEW c \in Cleaners, Cleanup(c)
  PROVE  Agree'
<1> SUFFICES ASSUME ~disturbed
             PROVE  /\ \A b, d \in Cleaners : \A i \in files'[b], j \in files'[d] :
                         i.path = j.path => i.accessed = j.accessed
                    /\ \A b \in Cleaners : \A i \in files'[b] :
                         i.path \in exists' => modified'[i.path] = i.accessed
  BY CleanupFrame DEF Agree
<1>1. ASSUME NEW b \in Cleaners, NEW i \in files'[b]
      PROVE  i.path \in exists => modified[i.path] = i.accessed
  BY <1>1, ListGrows DEF Agree
<1>2. ASSUME NEW b \in Cleaners, NEW i \in files'[b], i.path \in exists'
      PROVE  modified'[i.path] = i.accessed
  BY <1>1, <1>2, CleanupFrame
<1>3. ASSUME NEW b \in Cleaners, NEW d \in Cleaners, NEW i \in files'[b], NEW j \in files'[d],
             i.path = j.path
      PROVE  i.accessed = j.accessed
  <2>1. CASE i.path \in exists
    BY <1>1, <1>3, <2>1
  <2>2. CASE i.path \notin exists
    <3>1. i \in files[b] /\ j \in files[d]
      BY <1>3, <2>2, ListGrows
    <3> QED BY <1>3, <3>1 DEF Agree
  <2> QED BY <2>1, <2>2
<1> QED BY <1>2, <1>3

\* A compilation that meets a clean-up disturbs it; before that there are no
\* lists.
LEMMA UseAgrees ==
  ASSUME TypeOK, \A c \in Cleaners : Locals(c), NEW f \in Files, Touch(f) \/ Create(f) \/ Grow(f)
  PROVE  Agree' /\ Progress'
<1>1. Use(f) /\ UNCHANGED cleaner
  BY DEF Touch, Create, Grow, Saving, Use
<1>2. CASE disturbed'
  BY <1>2 DEF Agree, Progress
<1>3. CASE ~disturbed'
  <2>1. \A c \in Cleaners : pc'[c] = "idle" /\ files'[c] = {}
    BY <1>1, <1>3 DEF Use, Active, cleaner, Locals
  <2> QED BY <2>1 DEF Agree, Progress, Untouched
<1> QED BY <1>2, <1>3

\* The leader stays ahead as long as no file of its list is removed and nothing
\* that is gone gets listed.
LEMMA LeaderStays ==
  ASSUME TypeOK, NEW c \in Cleaners, Cleanup(c), exists' = exists,
         NEW l \in Cleaners, Leads(l), pc'[l] = "trim", files'[l] \subseteq files[l]
  PROVE  Leads(l)'
<1> SUFFICES ASSUME NEW d \in Cleaners, NEW i \in files'[d], i.path \notin exists,
                    NEW j \in files'[l]
             PROVE  Before(i, j)
  BY DEF Leads, Before
<1>1. i \in files[d]
  BY ListGrows
<1> QED BY <1>1 DEF Leads

\* A leader finds every file it has to remove.
LEMMA LeaderFinds ==
  ASSUME TypeOK, NEW l \in Cleaners, Leads(l), NEW i \in files[l]
  PROVE  i.path \in exists
<1>1. i \in CacheFile
  BY DEF TypeOK
<1>2. ~Before(i, i)
  BY <1>1, BeforeOrder
<1> QED BY <1>2 DEF Leads

\* Who removes a file leads from then on, or someone else already did.
LEMMA RemoveLeads ==
  ASSUME TypeOK, Agree, ~disturbed, NEW c \in Cleaners, Remove(c),
         Untouched \/ \E l \in Cleaners : Leads(l)
  PROVE  \E l \in Cleaners : Leads(l)'
<1>1. PICK item \in files[c] :
        /\ First(files[c], item) /\ item.path \in exists
        /\ exists' = exists \ {item.path}
        /\ files' = [files EXCEPT ![c] = @ \ {item}]
  BY DEF Remove, Unlink
<1>2. item \in CacheFile /\ pc[c] = "trim" /\ pc' = pc
  BY DEF Remove, TypeOK
<1>3. \A d \in Cleaners : files'[d] \subseteq files[d] /\ files'[d] \subseteq CacheFile
  BY <1>1 DEF TypeOK
<1>4. \A j \in files'[c] : Before(item, j)
  BY <1>1, FirstBefore DEF TypeOK
<1>5. ASSUME NEW d \in Cleaners, NEW i \in files'[d], i.path \notin exists', i.path \in exists
      PROVE  /\ i \in CacheFile
             /\ \A j \in CacheFile : Before(i, j) <=> Before(item, j)
  <2>1. i \in CacheFile /\ i \in files[d] /\ i.path = item.path
    BY <1>1, <1>3, <1>5
  <2>2. i.accessed = item.accessed
    BY <1>1, <2>1 DEF Agree
  <2> QED BY <2>1, <2>2 DEF Before
<1>6. CASE Untouched
  <2>1. ASSUME NEW d \in Cleaners, NEW i \in files'[d], i.path \notin exists', NEW j \in files'[c]
        PROVE  Before(i, j)
    <3>1. i.path \in exists /\ j \in CacheFile
      BY <1>3, <1>6, <2>1 DEF Untouched
    <3> QED BY <1>4, <1>5, <2>1, <3>1
  <2>2. Leads(c)'
    BY <1>2, <2>1 DEF Leads, Before
  <2> QED BY <2>2
<1>7. CASE \E l \in Cleaners : Leads(l)
  <2>1. PICK l \in Cleaners : Leads(l)
    BY <1>7
  <2>2. CASE \A j \in files'[l] : Before(item, j)
    <3>1. ASSUME NEW d \in Cleaners, NEW i \in files'[d], i.path \notin exists', NEW j \in files'[l]
          PROVE  Before(i, j)
      <4>1. CASE i.path \in exists
        BY <1>3, <1>5, <2>2, <3>1, <4>1
      <4>2. CASE i.path \notin exists
        BY <1>3, <2>1, <3>1, <4>2 DEF Leads
      <4> QED BY <4>1, <4>2
    <3>2. Leads(l)'
      BY <1>2, <2>1, <3>1 DEF Leads, Before
    <3> QED BY <3>2
  <2>3. CASE \E m \in files'[l] : ~Before(item, m)
    <3>1. PICK m \in files'[l] : ~Before(item, m)
      BY <2>3
    <3>2. m \in CacheFile /\ m \in files[l]
      BY <1>3
    <3>3. ASSUME NEW d \in Cleaners, NEW i \in files'[d], i.path \notin exists', NEW j \in files'[c]
          PROVE  Before(i, j)
      <4>1. j \in CacheFile /\ i \in CacheFile /\ i \in files[d] /\ Before(item, j)
        BY <1>3, <1>4, <3>3
      <4>2. CASE i.path \in exists
        BY <1>5, <3>3, <4>1, <4>2
      <4>3. CASE i.path \notin exists
        <5>1. Before(i, m)
          BY <2>1, <3>2, <4>1, <4>3 DEF Leads
        <5>2. Before(m, item) \/ (m.path = item.path /\ m.accessed = item.accessed)
          BY <1>2, <3>1, <3>2, BeforeOrder
        <5>3. CASE Before(m, item)
          <6>1. Before(i, item)
            BY <1>2, <3>2, <4>1, <5>1, <5>3, BeforeOrder
          <6> QED BY <1>2, <4>1, <6>1, BeforeOrder
        <5>4. CASE m.path = item.path /\ m.accessed = item.accessed
          <6>1. Before(m, j)
            BY <4>1, <5>4 DEF Before
          <6> QED BY <3>2, <4>1, <5>1, <6>1, BeforeOrder
        <5> QED BY <5>2, <5>3, <5>4
      <4> QED BY <4>2, <4>3
    <3>4. Leads(c)'
      BY <1>2, <3>3 DEF Leads, Before
    <3> QED BY <3>4
  <2> QED BY <2>2, <2>3
<1> QED BY <1>6, <1>7

\* Nobody but a leader, or who nothing was taken from, has to get through: so
\* after every step of a clean-up someone has, or will.
LEMMA CleanupProgress ==
  ASSUME IndInv, NEW c \in Cleaners, Cleanup(c)
  PROVE  Progress'
<1> SUFFICES ASSUME made, ~disturbed
             PROVE  \/ \E d \in Cleaners : result'[d] = "Ok"
                    \/ \E d \in Cleaners : Leads(d)'
                    \/ Untouched'
  BY CleanupFrame DEF IndInv, Progress
<1>0. pc[c] # "done"
  BY DEF Cleanup, Begin, List, Stat, Sort, Keep, Remove, RemoveFails, Return
<1>1. CASE \E d \in Cleaners : result[d] = "Ok"
  <2>1. PICK d \in Cleaners : result[d] = "Ok"
    BY <1>1
  <2>2. d # c
    BY <1>0, <2>1 DEF IndInv, Locals
  <2>3. result'[d] = "Ok"
    BY <2>1, <2>2, CleanupFrame DEF IndInv
  <2> QED BY <2>3
<1>2. CASE Return(c)
  <2>1. result'[c] = "Ok"
    BY <1>2, FinishLocals DEF Return, IndInv
  <2> QED BY <2>1
<1>3. CASE Remove(c) /\ ((\E l \in Cleaners : Leads(l)) \/ Untouched)
  BY <1>3, RemoveLeads DEF IndInv
<1>4. CASE (\E l \in Cleaners : Leads(l)) /\ ~Remove(c) /\ ~Return(c)
  <2>1. PICK l \in Cleaners : Leads(l)
    BY <1>4
  <2>2. exists' = exists
    BY <1>4 DEF Cleanup, Begin, List, Stat, Sort, Keep, RemoveFails, disk
  <2>3. pc'[l] = "trim" /\ files'[l] \subseteq files[l]
    <3>1. CASE l # c
      BY <2>1, <3>1, CleanupFrame DEF Leads, IndInv
    <3>2. CASE l = c
      <4>1. pc[c] = "trim" /\ (Keep(c) \/ RemoveFails(c))
        BY <1>4, <2>1, <3>2 DEF Leads, Cleanup, Begin, List, Stat, Sort
      <4>2. ~RemoveFails(c)
        BY <2>1, <3>2, LeaderFinds DEF RemoveFails, IndInv
      <4> QED BY <3>2, <4>1, <4>2 DEF Keep, IndInv, TypeOK
    <3> QED BY <3>1, <3>2
  <2>4. Leads(l)'
    BY <2>1, <2>2, <2>3, LeaderStays DEF IndInv
  <2> QED BY <2>4
<1>5. CASE Untouched /\ ~Remove(c) /\ ~Return(c)
  <2>1. exists' = exists
    BY <1>5 DEF Cleanup, Begin, List, Stat, Sort, Keep, RemoveFails, disk
  <2>2. pc'[c] # "done" /\ (pc'[c] = "stat" => at'[c] \in exists)
    <3>1. CASE Begin(c) \/ List(c)
      BY <3>1 DEF Begin, List, Go, IndInv, TypeOK
    <3>2. CASE Stat(c)
      BY <1>5, <3>2 DEF Stat, Untouched, Go, IndInv, TypeOK
    <3>3. CASE Sort(c) \/ Keep(c)
      BY <3>3 DEF Sort, Keep, Go, IndInv, TypeOK
    <3>4. ~RemoveFails(c)
      BY <1>5 DEF RemoveFails, Untouched
    <3> QED BY <1>5, <3>1, <3>2, <3>3, <3>4 DEF Cleanup
  <2>3. ASSUME NEW d \in Cleaners, NEW i \in files'[d] PROVE i.path \in exists
    BY <1>5, <2>3, ListGrows DEF Untouched, IndInv
  <2>4. ASSUME NEW d \in Cleaners
        PROVE  pc'[d] # "done" /\ (pc'[d] = "stat" => at'[d] \in exists)
    <3>1. CASE d = c
      BY <2>2, <3>1
    <3>2. CASE d # c
      <4>1. pc'[d] = pc[d] /\ at'[d] = at[d]
        BY <3>2, CleanupFrame DEF IndInv
      <4> QED BY <1>5, <4>1 DEF Untouched
    <3> QED BY <3>1, <3>2
  <2> QED BY <2>1, <2>3, <2>4 DEF Untouched
<1> QED BY <1>1, <1>2, <1>3, <1>4, <1>5 DEF IndInv, Progress

-------------------------------------------------------------------------------
(* The size of the cache                                                   *)

\* The units of the cache are finitely many, and there are fewer of them when
\* no file is larger.
LEMMA StoredFinite ==
  ASSUME TypeOK
  PROVE  IsFiniteSet(Stored)
<1>1. IsFiniteSet(Files) /\ IsFiniteSet(1..MaxSize)
  BY FS_Interval, BoundsNatural DEF Files
<1>2. IsFiniteSet(Files \X (1..MaxSize))
  BY <1>1, FS_Product
<1>3. Stored \subseteq Files \X (1..MaxSize)
  <2> SUFFICES ASSUME NEW f \in Files PROVE {f} \X (1..size[f]) \subseteq Files \X (1..MaxSize)
    BY DEF Stored
  <2>1. size[f] \in 0..MaxSize
    BY DEF TypeOK
  <2>2. 1..size[f] \subseteq 1..MaxSize
    BY <2>1, BoundsNatural
  <2> QED BY <2>2
<1> QED BY <1>2, <1>3, FS_Subset

\* The same of what a clean-up keeps.
LEMMA KeptFinite ==
  ASSUME TypeOK, NEW c \in Cleaners
  PROVE  IsFiniteSet(KeptUnits(c)) /\ Cardinality(KeptUnits(c)) \in Nat
<1>1. IsFiniteSet(Files) /\ IsFiniteSet(1..MaxSize)
  BY FS_Interval, BoundsNatural DEF Files
<1>2. IsFiniteSet(Files \X (1..MaxSize))
  BY <1>1, FS_Product
<1>3. KeptUnits(c) \subseteq Files \X (1..MaxSize)
  <2> SUFFICES ASSUME NEW item \in kept[c] PROVE Units(item) \subseteq Files \X (1..MaxSize)
    BY DEF KeptUnits
  <2>1. item.path \in Files /\ item.size \in 0..MaxSize
    BY DEF TypeOK, CacheFile
  <2>2. 1..item.size \subseteq 1..MaxSize
    BY <2>1, BoundsNatural
  <2> QED BY <2>1, <2>2 DEF Units
<1> QED BY <1>2, <1>3, FS_Subset, FS_CardinalityType

\* A file of a list stands for as many units as it has.
LEMMA UnitsCounted ==
  ASSUME NEW item \in CacheFile
  PROVE  IsFiniteSet(Units(item)) /\ Cardinality(Units(item)) = item.size
<1>1. PICK n \in Nat : n = item.size
  BY BoundsNatural DEF CacheFile
<1>2. IsFiniteSet(1..n) /\ Cardinality(1..n) = IF 1 > n THEN 0 ELSE (n - 1) + 1
  BY FS_Interval
<1>3. Cardinality(1..n) = n
  BY <1>2
<1>4. PICK S : S = {item.path}
  OBVIOUS
<1>5. IsFiniteSet(S) /\ Cardinality(S) = 1
  BY <1>4, FS_Singleton
<1>6. PICK T : T = 1..n
  OBVIOUS
<1>7. IsFiniteSet(S \X T) /\ Cardinality(S \X T) = Cardinality(S) * Cardinality(T)
  BY <1>2, <1>5, <1>6, FS_Product
<1>8. Cardinality(S) * Cardinality(T) = n
  BY <1>3, <1>5, <1>6
<1>9. Units(item) = S \X T
  BY <1>1, <1>4, <1>6 DEF Units
<1> QED BY <1>1, <1>7, <1>8, <1>9

\* Where no file got larger the cache did not.
LEMMA NoLarger ==
  ASSUME TypeOK, \A f \in Files : size'[f] = size[f] \/ size'[f] = 0
  PROVE  /\ Cardinality(Stored') <= Cardinality(Stored)
         /\ Cardinality(Stored') \in Nat /\ Cardinality(Stored) \in Nat
<1>1. Stored' \subseteq Stored
  <2> SUFFICES ASSUME NEW f \in Files PROVE {f} \X (1..size'[f]) \subseteq Stored
    BY DEF Stored
  <2>1. CASE size'[f] = size[f]
    BY <2>1 DEF Stored
  <2>2. CASE size'[f] = 0
    <3>1. 1..size'[f] = {}
      BY <2>2
    <3> QED BY <3>1
  <2> QED BY <2>1, <2>2
<1>2. IsFiniteSet(Stored) /\ IsFiniteSet(Stored') /\ Cardinality(Stored') <= Cardinality(Stored)
  BY <1>1, StoredFinite, FS_Subset
<1> QED BY <1>2, FS_CardinalityType

\* A list that has every file of the cache and was kept as a whole is as large
\* as the cache.
LEMMA AllKept ==
  ASSUME TypeOK, NEW c \in Cleaners, Counted(c), ~saved[c], pc[c] = "trim", files[c] = {}
  PROVE  Cardinality(Stored) <= CacheLimit
<1>1. Stored \subseteq KeptUnits(c)
  <2> SUFFICES ASSUME NEW f \in Files PROVE {f} \X (1..size[f]) \subseteq KeptUnits(c)
    BY DEF Stored
  <2>1. size[f] \in Nat
    BY BoundsNatural DEF TypeOK
  <2>2. CASE size[f] = 0
    <3>1. 1..size[f] = {}
      BY <2>2
    <3> QED BY <3>1
  <2>3. CASE size[f] > 0
    <3>1. PICK item \in kept[c] : item.path = f /\ item.size >= size[f]
      BY <2>3 DEF Counted, Lists
    <3>2. item.size \in Nat
      BY BoundsNatural DEF TypeOK, CacheFile
    <3>3. 1..size[f] \subseteq 1..item.size
      BY <2>1, <3>1, <3>2
    <3>4. {f} \X (1..size[f]) \subseteq Units(item)
      BY <3>1, <3>3 DEF Units
    <3> QED BY <3>4 DEF KeptUnits
  <2> QED BY <2>1, <2>2, <2>3
<1>2. Cardinality(Stored) <= Cardinality(KeptUnits(c)) /\ Cardinality(Stored) \in Nat
  BY <1>1, KeptFinite, FS_Subset, FS_CardinalityType
<1> QED BY <1>2, KeptFinite, BoundsNatural DEF Counted

\* A list keeps what is still to come of the cache when another clean-up, or
\* none, takes files away.
LEMMA CountedStays ==
  ASSUME TypeOK, NEW d \in Cleaners, Counted(d),
         pc'[d] = pc[d], at'[d] = at[d], files'[d] = files[d], cacheSize'[d] = cacheSize[d],
         kept'[d] = kept[d], saved'[d] = saved[d],
         \A f \in Files : size'[f] = size[f] \/ size'[f] = 0
  PROVE  Counted(d)'
<1>1. KeptUnits(d)' = KeptUnits(d)
  BY DEF KeptUnits, Units
<1>2. ASSUME NEW f \in Files, Lists(d, f) PROVE Lists(d, f)'
  <2>1. PICK item \in files[d] \cup kept[d] : item.path = f /\ item.size >= size[f]
    BY <1>2 DEF Lists
  <2>2. item.size \in Nat
    BY BoundsNatural DEF TypeOK, CacheFile
  <2> QED BY <2>1, <2>2 DEF Lists
<1>3. \A f \in Files : size'[f] > 0 => size'[f] = size[f]
  OBVIOUS
<1> QED BY <1>1, <1>2, <1>3 DEF Counted

\* Each step of a clean-up counts what it keeps, and loses no file on the way
\* from the directory through its list.
LEMMA CleanupCounts ==
  ASSUME TypeOK, NEW c \in Cleaners, Locals(c), Counted(c), Cleanup(c)
  PROVE  Counted(c)'
<1>a. cacheSize[c] \in Nat /\ at[c] \in Nat /\ saved' = saved
  BY CleanupFrame, BoundsNatural DEF TypeOK
<1>0. ASSUME NEW r \in {"Ok", "Err"}, Finish(c, r) PROVE Counted(c)'
  <2>1. pc'[c] = "done" /\ kept'[c] = {} /\ cacheSize'[c] = 0
    <3>1. pc'[c] = "done" /\ kept'[c] = {}
      BY <1>0, FinishLocals
    <3>2. cacheSize' = [cacheSize EXCEPT ![c] = 0] /\ cacheSize \in [Cleaners -> Nat]
      BY <1>0, Zenon DEF Finish, TypeOK
    <3> QED BY <3>1, <3>2
  <2>2. KeptUnits(c)' = {}
    BY <2>1 DEF KeptUnits
  <2> QED BY <2>1, <2>2, FS_EmptySet, BoundsNatural DEF Counted
<1>b. ASSUME kept' = kept, cacheSize' = cacheSize
      PROVE  /\ Cardinality(KeptUnits(c))' <= cacheSize'[c]
             /\ Cardinality(KeptUnits(c))' <= CacheLimit
  <2>1. KeptUnits(c)' = KeptUnits(c)
    BY <1>b DEF KeptUnits, Units
  <2> QED BY <1>b, <2>1 DEF Counted
<1>1. CASE Begin(c)
  <2>1. CASE ~Finish(c, "Err")
    <3>1. /\ pc[c] = "idle" /\ pc'[c] = "list" /\ at' = at /\ size' = size
          /\ kept' = kept /\ cacheSize' = cacheSize
      BY <1>1, <2>1 DEF Begin, Go, TypeOK, disk
    <3>2. at'[c] = 1
      BY <3>1 DEF Counted
    <3>3. \A f \in Files : at'[c] <= f
      BY <3>2, BoundsNatural DEF Files
    <3> QED BY <1>b, <3>1, <3>3 DEF Counted
  <2> QED BY <1>0, <2>1
<1>2. CASE List(c)
  <2>1. /\ pc[c] = "list" /\ pc'[c] \in {"list", "stat"} /\ size' = size /\ files' = files
        /\ kept' = kept /\ cacheSize' = cacheSize
    BY <1>2 DEF List, Go, TypeOK, disk
  <2>2. ASSUME ~saved[c], NEW f \in Files, size[f] > 0 PROVE at'[c] <= f \/ Lists(c, f)
    <3>1. at[c] <= f \/ Lists(c, f)
      BY <2>1, <2>2 DEF Counted
    <3>2. f \in exists /\ f \in Nat
      BY <2>2, BoundsNatural DEF TypeOK, Files
    <3>3. at'[c] = at[c] \/ (at'[c] = at[c] + 1 /\ at[c] \notin exists)
      BY <1>2 DEF List, TypeOK
    <3> QED BY <1>a, <3>1, <3>2, <3>3
  <2>3. \A f \in Files : Lists(c, f) => Lists(c, f)'
    BY <2>1 DEF Lists
  <2> QED BY <1>a, <1>b, <2>1, <2>2, <2>3 DEF Counted
<1>3. CASE Stat(c)
  <2>1. CASE ~Finish(c, "Err")
    <3>1. PICK item : item = [path |-> at[c], size |-> size[at[c]], accessed |-> modified[at[c]]]
      OBVIOUS
    <3>2. /\ pc[c] = "stat" /\ pc'[c] = "list" /\ size' = size /\ at'[c] = at[c] + 1
          /\ files'[c] = files[c] \cup {item} /\ kept' = kept /\ cacheSize' = cacheSize
      BY <1>3, <2>1, <3>1 DEF Stat, Go, TypeOK, disk
    <3>3. ASSUME ~saved[c], NEW f \in Files, size[f] > 0 PROVE at'[c] <= f \/ Lists(c, f)'
      <4>1. CASE f = at[c]
        <5>1. item.path = f /\ item.size = size[f] /\ item \in files'[c] \cup kept'[c]
          BY <3>1, <3>2, <4>1
        <5>2. size[f] \in Nat
          BY BoundsNatural DEF TypeOK
        <5> QED BY <3>2, <5>1, <5>2 DEF Lists
      <4>2. CASE f # at[c] /\ at[c] <= f
        BY <1>a, <3>2, <4>2, BoundsNatural DEF Files
      <4>3. CASE Lists(c, f)
        BY <3>2, <4>3 DEF Lists
      <4> QED BY <3>2, <3>3, <4>1, <4>2, <4>3 DEF Counted
    <3> QED BY <1>a, <1>b, <3>2, <3>3 DEF Counted
  <2> QED BY <1>0, <2>1
<1>4. CASE Sort(c)
  <2>1. /\ pc[c] = "list" /\ pc'[c] = "trim" /\ size' = size /\ at' = at /\ files' = files
        /\ kept' = kept /\ cacheSize' = cacheSize /\ at[c] > NumFiles
    BY <1>4 DEF Sort, Go, TypeOK, disk
  <2>2. \A f \in Files : ~(at[c] <= f)
    BY <1>a, <2>1, BoundsNatural DEF Files
  <2>3. \A f \in Files : Lists(c, f) => Lists(c, f)'
    BY <2>1 DEF Lists
  <2> QED BY <1>a, <1>b, <2>1, <2>2, <2>3 DEF Counted
<1>5. CASE Keep(c)
  <2>1. PICK item \in files[c] :
          /\ ~Over(c, item)
          /\ cacheSize' = [cacheSize EXCEPT ![c] = @ + item.size]
          /\ files' = [files EXCEPT ![c] = @ \ {item}]
          /\ kept' = [kept EXCEPT ![c] = @ \cup {item}]
    BY <1>5 DEF Keep
  <2>2. item \in CacheFile /\ item.size \in Nat
    BY BoundsNatural DEF TypeOK, CacheFile
  <2>3. /\ pc[c] = "trim" /\ pc'[c] = "trim" /\ size' = size
        /\ cacheSize'[c] = cacheSize[c] + item.size
        /\ files'[c] \cup kept'[c] = files[c] \cup kept[c] /\ kept'[c] = kept[c] \cup {item}
    BY <1>5, <2>1 DEF Keep, TypeOK, disk
  <2>4. KeptUnits(c)' = KeptUnits(c) \cup Units(item)
    BY <2>3 DEF KeptUnits, Units
  <2>5. PICK old, one, both \in Nat :
          /\ old = Cardinality(KeptUnits(c)) /\ one = Cardinality(Units(item))
          /\ both = Cardinality(KeptUnits(c) \cap Units(item))
    <3>1. IsFiniteSet(KeptUnits(c) \cap Units(item))
      BY KeptFinite, FS_Intersection
    <3> QED BY <2>2, <3>1, KeptFinite, UnitsCounted, FS_CardinalityType
  <2>6. Cardinality(KeptUnits(c) \cup Units(item)) = (old + one) - both
    <3>1. IsFiniteSet(KeptUnits(c)) /\ IsFiniteSet(Units(item))
      BY <2>2, KeptFinite, UnitsCounted
    <3>2. Cardinality(KeptUnits(c) \cup Units(item)) =
            Cardinality(KeptUnits(c)) + Cardinality(Units(item)) - Cardinality(KeptUnits(c) \cap Units(item))
      BY <3>1, FS_Union
    <3> QED BY <2>5, <3>2
  <2>7. one = item.size /\ old <= cacheSize[c] /\ cacheSize[c] + item.size <= CacheLimit
    BY <1>a, <2>1, <2>2, <2>5, UnitsCounted, BoundsNatural DEF Counted, Over
  <2>8. (old + one) - both <= cacheSize[c] + item.size
    BY <1>a, <2>2, <2>7
  <2>9. /\ Cardinality(KeptUnits(c))' <= cacheSize'[c]
        /\ Cardinality(KeptUnits(c))' <= CacheLimit
    <3>1. Cardinality(KeptUnits(c))' = (old + one) - both
      BY <2>4, <2>6
    <3> QED BY <1>a, <2>2, <2>3, <2>7, <2>8, <3>1, BoundsNatural
  <2>10. \A f \in Files : Lists(c, f) => Lists(c, f)'
    BY <2>3 DEF Lists
  <2> QED BY <1>a, <2>3, <2>9, <2>10 DEF Counted
<1>6. CASE Remove(c)
  <2>1. PICK item \in files[c] :
          /\ Unlink(item.path)
          /\ cacheSize' = [cacheSize EXCEPT ![c] = @ + item.size]
          /\ files' = [files EXCEPT ![c] = @ \ {item}]
    BY <1>6 DEF Remove
  <2>2. item.size \in Nat /\ item.path \in Files
    BY BoundsNatural DEF TypeOK, CacheFile
  <2>3. /\ pc[c] = "trim" /\ pc'[c] = "trim" /\ kept' = kept
        /\ cacheSize'[c] = cacheSize[c] + item.size /\ files'[c] = files[c] \ {item}
        /\ size' = [size EXCEPT ![item.path] = 0]
    BY <1>6, <2>1 DEF Remove, Unlink, TypeOK
  <2>4. KeptUnits(c)' = KeptUnits(c)
    BY <2>3 DEF KeptUnits, Units
  <2>5. /\ Cardinality(KeptUnits(c))' <= cacheSize'[c]
        /\ Cardinality(KeptUnits(c))' <= CacheLimit
    <3>1. PICK old \in Nat : old = Cardinality(KeptUnits(c))
      BY KeptFinite
    <3>2. old <= cacheSize[c] /\ old <= CacheLimit /\ Cardinality(KeptUnits(c))' = old
      BY <2>4, <3>1 DEF Counted
    <3> QED BY <1>a, <2>2, <2>3, <3>2
  <2>6. ASSUME ~saved[c], NEW f \in Files, size'[f] > 0 PROVE Lists(c, f)'
    <3>1. f # item.path /\ size'[f] = size[f]
      BY <2>2, <2>3, <2>6 DEF TypeOK
    <3>2. PICK other \in files[c] \cup kept[c] : other.path = f /\ other.size >= size[f]
      BY <2>3, <2>6, <3>1 DEF Counted, Lists
    <3>3. other \in files'[c] \cup kept'[c]
      BY <2>3, <3>1, <3>2
    <3> QED BY <3>1, <3>2, <3>3 DEF Lists
  <2> QED BY <1>a, <2>3, <2>5, <2>6 DEF Counted
<1>7. CASE RemoveFails(c)
  BY <1>0, <1>7 DEF RemoveFails
<1>8. CASE Return(c)
  BY <1>0, <1>8 DEF Return
<1> QED BY <1>1, <1>2, <1>3, <1>4, <1>5, <1>6, <1>7, <1>8 DEF Cleanup

\* A clean-up that returns Ok has kept its whole list; the others only make the
\* cache smaller.
LEMMA CleanupWithinLimit ==
  ASSUME IndInv, NEW c \in Cleaners, Cleanup(c)
  PROVE  OkWithinLimit'
<1> SUFFICES ASSUME NEW d \in Cleaners, result'[d] = "Ok", ~saved'[d]
             PROVE  Cardinality(Stored') <= CacheLimit
  BY DEF OkWithinLimit
<1>1. /\ Cardinality(Stored') <= Cardinality(Stored)
      /\ Cardinality(Stored) \in Nat /\ Cardinality(Stored') \in Nat /\ ~saved[d]
  BY NoLarger, CleanupFrame DEF IndInv
<1>2. CASE result[d] = "Ok"
  <2>1. Cardinality(Stored) <= CacheLimit
    BY <1>1, <1>2 DEF IndInv, OkWithinLimit
  <2> QED BY <1>1, <2>1, BoundsNatural
<1>3. CASE result[d] # "Ok"
  <2>1. d = c /\ Return(c)
    <3>1. d = c
      BY <1>3, CleanupFrame DEF IndInv
    <3>2. ASSUME Finish(c, "Err") PROVE FALSE
      BY <3>1, <3>2, FinishLocals DEF IndInv
    <3>3. result' # result
      BY <1>3
    <3> QED BY <3>1, <3>2, <3>3 DEF Cleanup, Begin, List, Stat, Sort, Keep, Remove, RemoveFails
  <2>2. pc[c] = "trim" /\ files[c] = {} /\ ~saved[c]
    BY <1>1, <2>1 DEF Return
  <2>3. Cardinality(Stored) <= CacheLimit
    BY <2>2, AllKept DEF IndInv
  <2> QED BY <1>1, <2>3, BoundsNatural
<1> QED BY <1>2, <1>3

\* Saving an entry makes no promise of a clean-up that has begun; touching one
\* leaves the sizes alone.
LEMMA UseCounts ==
  ASSUME IndInv, NEW f \in Files, Touch(f) \/ Create(f) \/ Grow(f)
  PROVE  OkWithinLimit' /\ \A c \in Cleaners : Counted(c)'
<1>1. UNCHANGED cleaner
  BY DEF Touch, Create, Grow, Saving, Use
<1>2. CASE Touch(f)
  <2>1. size' = size /\ saved' = saved
    BY <1>2 DEF Touch
  <2>2. Stored' = Stored
    BY <2>1 DEF Stored
  <2>3. OkWithinLimit'
    BY <1>1, <2>1, <2>2 DEF IndInv, OkWithinLimit, cleaner
  <2>4. ASSUME NEW c \in Cleaners PROVE Counted(c)'
    BY <1>1, <2>1, CountedStays DEF IndInv, cleaner
  <2> QED BY <2>3, <2>4
<1>3. CASE Create(f) \/ Grow(f)
  <2>1. \A c \in Cleaners : saved'[c] = (saved[c] \/ pc[c] # "idle")
    BY <1>3 DEF Create, Grow, Saving, Active
  <2>2. OkWithinLimit'
    BY <1>1, <2>1 DEF IndInv, Locals, OkWithinLimit, cleaner
  <2>3. ASSUME NEW c \in Cleaners PROVE Counted(c)'
    <3>1. KeptUnits(c)' = KeptUnits(c)
      BY <1>1 DEF KeptUnits, Units, cleaner
    <3> QED BY <1>1, <2>1, <3>1 DEF IndInv, Counted, cleaner
  <2> QED BY <2>2, <2>3
<1> QED BY <1>2, <1>3

\* Neither does a step that leaves the files and the clean-ups alone.
LEMMA UnchangedCounts ==
  ASSUME OkWithinLimit, \A c \in Cleaners : Counted(c), UNCHANGED <<disk, cleaner, saved>>
  PROVE  OkWithinLimit' /\ \A c \in Cleaners : Counted(c)'
<1>1. Stored' = Stored
  BY DEF Stored, disk
<1>2. \A c \in Cleaners : KeptUnits(c)' = KeptUnits(c)
  BY DEF KeptUnits, Units, cleaner
<1> QED BY <1>1, <1>2 DEF OkWithinLimit, Counted, Lists, disk, cleaner

\* Every step keeps the invariant.
LEMMA NextPreserves == IndInv /\ [Next]_vars => IndInv'
<1> SUFFICES ASSUME IndInv, [Next]_vars PROVE IndInv'
  OBVIOUS
<1>1. ASSUME NEW c \in Cleaners, Cleanup(c) PROVE IndInv'
  <2>1. TypeOK' /\ Agree' /\ Progress'
    BY <1>1, CleanupTypes, CleanupAgrees, CleanupProgress DEF IndInv
  <2>2. ASSUME NEW d \in Cleaners PROVE Locals(d)' /\ Trimmed(d)'
    <3>1. CASE d = c
      BY <1>1, <3>1, CleanupTrims DEF IndInv
    <3>2. CASE d # c
      BY <1>1, <3>2, CleanupFrame DEF IndInv, Locals, Trimmed
    <3> QED BY <3>1, <3>2
  <2>3. ASSUME NEW d \in Cleaners PROVE Counted(d)'
    <3>1. CASE d = c
      BY <1>1, <3>1, CleanupCounts DEF IndInv
    <3>2. CASE d # c
      <4>1. /\ pc'[d] = pc[d] /\ at'[d] = at[d] /\ files'[d] = files[d]
            /\ cacheSize'[d] = cacheSize[d] /\ kept'[d] = kept[d] /\ saved'[d] = saved[d]
            /\ \A f \in Files : size'[f] = size[f] \/ size'[f] = 0
        BY <1>1, <3>2, CleanupFrame DEF IndInv
      <4> QED BY <4>1, CountedStays DEF IndInv
    <3> QED BY <3>1, <3>2
  <2>4. OkWithinLimit'
    BY <1>1, CleanupWithinLimit
  <2> QED BY <2>1, <2>2, <2>3, <2>4 DEF IndInv
<1>2. ASSUME NEW f \in Files, Touch(f) \/ Create(f) \/ Grow(f) PROVE IndInv'
  <2>1. TypeOK' /\ Agree' /\ Progress'
    BY <1>2, OthersTypes, UseAgrees DEF IndInv
  <2>2. UNCHANGED cleaner
    BY <1>2 DEF Touch, Create, Grow, Saving, Use
  <2>3. OkWithinLimit' /\ \A c \in Cleaners : Counted(c)'
    BY <1>2, UseCounts
  <2> QED BY <2>1, <2>2, <2>3 DEF IndInv, Locals, Trimmed, cleaner
<1>3. CASE Tick
  <2>1. UNCHANGED <<disk, cleaner, saved, disturbed>>
    BY <1>3 DEF Tick
  <2>2. OkWithinLimit' /\ \A c \in Cleaners : Counted(c)'
    BY <2>1, UnchangedCounts DEF IndInv
  <2> QED BY <1>3, <2>1, <2>2, OthersTypes
          DEF IndInv, Locals, Trimmed, Agree, Progress, Leads, Untouched, disk, cleaner
<1>4. CASE UNCHANGED vars
  <2>1. OkWithinLimit' /\ \A c \in Cleaners : Counted(c)'
    BY <1>4, UnchangedCounts DEF IndInv, vars
  <2> QED BY <1>4, <2>1
          DEF IndInv, TypeOK, Locals, Trimmed, Agree, Progress, Leads, Untouched,
              vars, disk, env, cleaner
<1> QED BY <1>1, <1>2, <1>3, <1>4 DEF Next, AllDone

-------------------------------------------------------------------------------
(* Theorems                                                                *)

\* The invariant of cleanup: types, sorted trimming, and what several
\* clean-ups of one directory know of each other's removals.
THEOREM CleanupInvariant == Spec => []IndInv
<1>1. Init => IndInv
  BY InitEstablishes
<1>2. IndInv /\ [Next]_vars => IndInv'
  BY NextPreserves
<1> QED BY <1>1, <1>2, PTL DEF Spec

\* When cleanup returns Ok the whole cache is within cache_limit, whatever other
\* clean-ups remove and compilations touch, unless they saved entries since.
THEOREM OkWithinLimitAlways == Spec => []OkWithinLimit
<1>1. IndInv => OkWithinLimit
  BY DEF IndInv
<1> QED BY <1>1, CleanupInvariant, PTL

\* However many clean-ups and compilations run at once, cleanup never removes a
\* file of its list and keeps an older one.
THEOREM KeepsNewestAlways == Spec => []KeepsNewest
<1>1. IndInv => KeepsNewest
  BY DEF IndInv, Trimmed, KeepsNewest
<1> QED BY <1>1, CleanupInvariant, PTL

\* Although each cleanup gives up at the first file another one was faster to
\* remove, of any number of them one returns Ok, unless compilations saved or
\* touched entries meanwhile.
THEOREM SomeoneFinishesAlways == Spec => []SomeoneFinishes
<1>1. IndInv => SomeoneFinishes
  BY SomeCleaner DEF IndInv, Progress, Leads, Untouched, SomeoneFinishes
<1> QED BY <1>1, CleanupInvariant, PTL

===============================================================================
