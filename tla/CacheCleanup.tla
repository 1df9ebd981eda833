----------------------------- MODULE CacheCleanup -----------------------------
(***************************************************************************)
(* cleanup and find_cache_files of src/io/filecache.rs: after a build every *)
(* xgConsole trims the shared cache directory to its limit, without a lock, *)
(* while others trim it too and while compilations save and touch entries.  *)
(* What a cleaner knows of a file is what it read when it came by.          *)
(*                                                                         *)
(* Files are numbered in the order in which read_dir delivers them.  Each   *)
(* lies in a directory of its own, as the first two digits of the hash make *)
(* likely: so whether it is listed is decided when the scan gets there.     *)
(***************************************************************************)
EXTENDS Naturals, FiniteSets

CONSTANTS
  Cleaners,                     \* calls of cleanup
  NumFiles,                     \* cache files there may be
  MaxSize,                      \* bound on the size of a file
  CacheLimit,                   \* cache_limit, in the same unit
  MaxClock,                     \* bound on the modification times
  MaxUses                       \* bound on what compilations do meanwhile

ASSUME CleanersFinite == IsFiniteSet(Cleaners)
ASSUME SomeCleaner == Cleaners # {}
ASSUME BoundsNatural ==
  /\ NumFiles \in Nat /\ MaxSize \in Nat /\ CacheLimit \in Nat
  /\ MaxClock \in Nat \ {0} /\ MaxUses \in Nat

Files == 1..NumFiles

\* CacheFile; path is the number of the file.
CacheFile == [path : Files, size : 0..MaxSize, accessed : 0..MaxClock]

VARIABLES
  made,                         \* the cache directory exists
  exists, size, modified,       \* the files in it
  writing,                      \* entries a compilation is saving
  clock, uses,
  pc, at, files,                \* a cleaner: place, scan position, list
  cacheSize,                    \* its cache_size
  result,                       \* what it returned
  kept, removed,                \* history: what it decided of its list
  saved, disturbed              \* history: entries were saved since a cleaner
                                \* began; compilations met some cleaner

disk == <<made, exists, size, modified, writing>>
env == <<clock, uses>>
cleaner == <<pc, at, files, cacheSize, result, kept, removed>>
vars == <<disk, env, cleaner, saved, disturbed>>

Init ==
  /\ made \in BOOLEAN
  /\ exists \in SUBSET Files /\ (~made => exists = {})
  /\ size \in [Files -> 0..MaxSize] /\ \A f \in Files : f \in exists <=> size[f] > 0
  /\ modified \in [Files -> 0..1] /\ \A f \in Files \ exists : modified[f] = 0
  /\ writing = {} /\ clock = 1 /\ uses = 0
  /\ pc = [c \in Cleaners |-> "idle"]
  /\ at = [c \in Cleaners |-> 1]
  /\ files = [c \in Cleaners |-> {}]
  /\ cacheSize = [c \in Cleaners |-> 0]
  /\ result = [c \in Cleaners |-> "none"]
  /\ kept = [c \in Cleaners |-> {}]
  /\ removed = [c \in Cleaners |-> {}]
  /\ saved = [c \in Cleaners |-> FALSE]
  /\ disturbed = FALSE

Go(c, place) == pc' = [pc EXCEPT ![c] = place]

\* The call returns r and its locals are gone.
Finish(c, r) ==
  /\ Go(c, "done")
  /\ result' = [result EXCEPT ![c] = r]
  /\ at' = [at EXCEPT ![c] = 1]
  /\ files' = [files EXCEPT ![c] = {}]
  /\ cacheSize' = [cacheSize EXCEPT ![c] = 0]
  /\ kept' = [kept EXCEPT ![c] = {}]
  /\ removed' = [removed EXCEPT ![c] = {}]

-------------------------------------------------------------------------------
(* find_cache_files                                                        *)

Begin(c) ==
  /\ pc[c] = "idle"
  /\ IF made
       THEN Go(c, "list") /\ UNCHANGED <<at, files, cacheSize, result, kept, removed>>
       ELSE Finish(c, "Err")
  /\ UNCHANGED <<disk, env, saved, disturbed>>

\* read_dir comes to the place of the next file: it is there or not.
List(c) ==
  /\ pc[c] = "list" /\ at[c] <= NumFiles
  /\ IF at[c] \in exists
       THEN Go(c, "stat") /\ UNCHANGED at
       ELSE at' = [at EXCEPT ![c] = @ + 1] /\ UNCHANGED pc
  /\ UNCHANGED <<disk, env, files, cacheSize, result, kept, removed, saved, disturbed>>

\* fs::metadata of a listed file; a file that is gone by now ends the scan.
Stat(c) ==
  LET f == at[c] IN
  /\ pc[c] = "stat"
  /\ IF f \in exists
       THEN /\ files' = [files EXCEPT ![c] =
                 @ \cup {[path |-> f, size |-> size[f], accessed |-> modified[f]]}]
            /\ at' = [at EXCEPT ![c] = @ + 1]
            /\ Go(c, "list")
            /\ UNCHANGED <<cacheSize, result, kept, removed>>
       ELSE Finish(c, "Err")
  /\ UNCHANGED <<disk, env, saved, disturbed>>

\* The scan is over and the list gets sorted.
Sort(c) ==
  /\ pc[c] = "list" /\ at[c] > NumFiles
  /\ Go(c, "trim")
  /\ UNCHANGED <<disk, env, at, files, cacheSize, result, kept, removed, saved, disturbed>>

-------------------------------------------------------------------------------
(* cleanup                                                                 *)

\* Mutant: sort_unstable_by.
FirstUnstable(list, item) == \A other \in list : item.accessed >= other.accessed

\* The head of the sorted list: newest first, and sort_by is stable.
First(list, item) ==
  \A other \in list \ {item} :
    \/ item.accessed > other.accessed
    \/ item.accessed = other.accessed /\ item.path < other.path

\* Mutant: the limit is compared before the size is added.
OverBefore(c, item) == cacheSize[c] > CacheLimit

\* The file does not fit any more, counting those removed before it.
Over(c, item) == cacheSize[c] + item.size > CacheLimit

Unlink(f) ==
  /\ exists' = exists \ {f}
  /\ size' = [size EXCEPT ![f] = 0]
  /\ modified' = [modified EXCEPT ![f] = 0]
  /\ writing' = writing \ {f}
  /\ UNCHANGED made

Keep(c) ==
  /\ pc[c] = "trim"
  /\ \E item \in files[c] :
       /\ First(files[c], item) /\ ~Over(c, item)
       /\ cacheSize' = [cacheSize EXCEPT ![c] = @ + item.size]
       /\ files' = [files EXCEPT ![c] = @ \ {item}]
       /\ kept' = [kept EXCEPT ![c] = @ \cup {item}]
  /\ UNCHANGED <<disk, env, pc, at, result, removed, saved, disturbed>>

\* Mutant: only what stays counts.
RemoveUncounted(c) ==
  /\ pc[c] = "trim"
  /\ \E item \in files[c] :
       /\ First(files[c], item) /\ Over(c, item) /\ item.path \in exists
       /\ Unlink(item.path)
       /\ files' = [files EXCEPT ![c] = @ \ {item}]
       /\ removed' = [removed EXCEPT ![c] = @ \cup {item}]
  /\ UNCHANGED <<env, pc, at, cacheSize, result, kept, saved, disturbed>>

Remove(c) ==
  /\ pc[c] = "trim"
  /\ \E item \in files[c] :
       /\ First(files[c], item) /\ Over(c, item) /\ item.path \in exists
       /\ Unlink(item.path)
       /\ cacheSize' = [cacheSize EXCEPT ![c] = @ + item.size]
       /\ files' = [files EXCEPT ![c] = @ \ {item}]
       /\ removed' = [removed EXCEPT ![c] = @ \cup {item}]
  /\ UNCHANGED <<env, pc, at, result, kept, saved, disturbed>>

\* Somebody else removed it: the error leaves the rest of the list alone.
RemoveFails(c) ==
  /\ pc[c] = "trim"
  /\ \E item \in files[c] : First(files[c], item) /\ Over(c, item) /\ item.path \notin exists
  /\ Finish(c, "Err")
  /\ UNCHANGED <<disk, env, saved, disturbed>>

Return(c) ==
  /\ pc[c] = "trim" /\ files[c] = {}
  /\ Finish(c, "Ok")
  /\ UNCHANGED <<disk, env, saved, disturbed>>

Cleanup(c) ==
  Begin(c) \/ List(c) \/ Stat(c) \/ Sort(c) \/ Keep(c) \/ Remove(c) \/ RemoveFails(c) \/ Return(c)

-------------------------------------------------------------------------------
(* Compilations meanwhile (FileCache shows what they do in detail)         *)

Active(c) == pc[c] # "idle"

Use(f) ==
  /\ uses < MaxUses /\ \E c \in Cleaners : pc[c] # "done"
  /\ uses' = uses + 1
  /\ modified' = [modified EXCEPT ![f] = clock]
  /\ disturbed' = (disturbed \/ \E c \in Cleaners : Active(c))
  /\ UNCHANGED <<clock, cleaner>>

Saving(f) ==
  /\ Use(f)
  /\ saved' = [c \in Cleaners |-> saved[c] \/ Active(c)]

\* read_cache: the modification time is renewed by a write.
Touch(f) ==
  /\ f \in exists /\ Use(f)
  /\ UNCHANGED <<made, exists, size, writing, saved>>

\* write_cache: create_dir_all, then File::create, which truncates.
Create(f) ==
  /\ Saving(f)
  /\ made' = TRUE
  /\ exists' = exists \cup {f} /\ writing' = writing \cup {f}
  /\ size' = [size EXCEPT ![f] = 0]

Grow(f) ==
  /\ f \in writing /\ size[f] < MaxSize /\ Saving(f)
  /\ size' = [size EXCEPT ![f] = @ + 1]
  /\ UNCHANGED <<made, exists, writing>>

\* The clock moves on; until it does, files written get the same time.
Tick ==
  /\ clock < MaxClock /\ uses < MaxUses
  /\ clock' = clock + 1
  /\ UNCHANGED <<disk, uses, cleaner, saved, disturbed>>

AllDone == (\A c \in Cleaners : pc[c] = "done") /\ UNCHANGED vars

Next ==
  \/ \E c \in Cleaners : Cleanup(c)
  \/ \E f \in Files : Touch(f) \/ Create(f) \/ Grow(f)
  \/ Tick
  \/ AllDone

Spec == Init /\ [][Next]_vars

-------------------------------------------------------------------------------
\* Types: a file that does not exist has neither size nor time.
TypeOK ==
  /\ made \in BOOLEAN /\ exists \subseteq Files /\ writing \subseteq exists
  /\ size \in [Files -> 0..MaxSize] /\ modified \in [Files -> 0..MaxClock]
  /\ \A f \in Files \ exists : size[f] = 0 /\ modified[f] = 0
  /\ clock \in 0..MaxClock /\ uses \in 0..MaxUses
  /\ pc \in [Cleaners -> {"idle", "list", "stat", "trim", "done"}]
  /\ at \in [Cleaners -> 1..(NumFiles + 1)]
  /\ files \in [Cleaners -> SUBSET CacheFile]
  /\ cacheSize \in [Cleaners -> Nat]
  /\ result \in [Cleaners -> {"none", "Ok", "Err"}]
  /\ kept \in [Cleaners -> SUBSET CacheFile] /\ removed \in [Cleaners -> SUBSET CacheFile]
  /\ saved \in [Cleaners -> BOOLEAN] /\ disturbed \in BOOLEAN

\* Everything in the cache, unit by unit: its number is the size of the cache.
Stored == UNION {{f} \X (1..size[f]) : f \in Files}

\* A cleanup that returned Ok has brought the cache below its limit, even if
\* others removed and touched files meanwhile, unless entries were saved.
OkWithinLimit == \A c \in Cleaners : result[c] = "Ok" /\ ~saved[c] => Cardinality(Stored) <= CacheLimit

\* A cleanup never removes a file and keeps one it saw to be older, however
\* small: what it leaves are the most recently used files of its list.
KeepsNewest ==
  \A c \in Cleaners : \A k \in kept[c], r \in removed[c] : k.accessed >= r.accessed

\* Each cleanup gives up at the first file another one removed before it.  Yet
\* of several at once, with no compilation between them, one gets through.
SomeoneFinishes ==
  made /\ ~disturbed /\ (\A c \in Cleaners : pc[c] = "done") => \E c \in Cleaners : result[c] = "Ok"

===============================================================================
