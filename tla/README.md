# A TLA+ model of octobuild

octobuild speeds up C++ builds.  `xgConsole` reads a task file written for
IncrediBuild, turns it into a graph of tasks and runs them on a pool of worker
threads; compilations go through a cache on disk shared by all octobuild
processes of the user, and may be sent to other machines (`octo_builder`), which
announce themselves to a coordinator (`octo_coordinator`).  This directory holds
TLA+ modules of the parts where order, failure and sharing matter, the TLC runs
that check them and the TLAPS proofs about them.

`PROJECT.json` maps every definition that models code to the lines it models.

## Inventory

| component | state | operations | talks to | hard because | correct if |
|---|---|---|---|---|---|
| graph validation (`worker.rs`) | candidate list, completed flags | `validate_graph` | executor, `xgConsole` | walks a list it extends, stops by a count | accepts exactly acyclic graphs, ends |
| task executor (`worker.rs`) | two channels, threads, completed flags, count | `execute_graph`, `execute_until_failed`, worker loop | cache, toolchains, `print_task_result` | results in any order, failure while others run, panics, channel ends | dependency order, one start, all reported, honest result, ends |
| file cache entry (`io/filecache.rs`) | files `<hash>.lz4` shared without locks | `run_cached`, `read_cache`, `write_cache` | compilers, other processes | concurrent truncation, torn files after a kill, I/O errors | a success is the whole output files of one compilation |
| cache clean-up (`io/filecache.rs`) | the cache directory | `cleanup`, `find_cache_files` | entries, other cleaners | stale listing, files vanish, abort on the first error | limit kept, oldest go |
| compile steps and cache key (`compiler.rs`, `clang/`, `vs/`) | - | `compile_task`, `compile_step_cached` | file cache, file hashes, preprocessor | what the key covers, a header that changes between hash and use | equal key means equal result |
| memory caches (`io/memcache.rs`, `cache.rs`, `lazy.rs`, `compiler.rs`) | maps behind locks, file hashes | `run_cached`, `file_hash`, toolchain lookup | compile steps | lock per key, check then act | one computation per key, no stale hash |
| process limit (`compiler.rs`) | semaphore | `wrap_slow` | compile steps | children that fail, threads that wait with locks | never more children than allowed, no permit kept |
| coordinator (`bin/octo_coordinator.rs`) | registry with timeouts | update, list | builders, clients | late and lost updates, restart | live builders listed, dead ones not |
| builder (`bin/octo_builder.rs`) | announcer thread, uploaded headers | announce, upload, task, stop | coordinator, clients | concurrent uploads, shutdown | silent once stopped; whole headers only |
| remote client (`cluster/client.rs`) | shared list and cooldown | `builders`, `compile_remote`, `upload_precompiled` | coordinator, builders | time read before the lock, fallback after a lost answer | one request per cooldown; same result as a local build |
| task file (`xg/parser.rs`, `bin/xgConsole.rs`) | graph under construction | `parse`, `graph_project`, `prepare_graph` | executor | ids to nodes, tasks split in several | dependencies preserved |
| command arguments (`clang/prepare.rs`, `vs/prepare.rs`) | - | `create_tasks` | graph preparation, compile steps | options that take the next word, several sources | no word lost, object files apart (which the code does not ensure) |
| preprocessors (`clang/compiler.rs`, `vs/compiler.rs`) | child, two pipes, a thread | `preprocess_step`, `execute` | memory stream, filter | full pipes, read errors | the whole text, no mutual wait |
| preprocessed filter (`vs/postprocess.rs`) | buffer with three pointers, header found | `filter_preprocessed` | Visual Studio driver | tokens cut by the buffer | exactly the text after the headers |
| memory stream (`io/memstream.rs`) | blocks | read, write, copy | preprocess and compile steps, cache key | block borders | reads what was written |
| command lines (`cmd/`) | - | `parse`, `expand_arg` | parser | quoting | inverse of the shell's |
| statistics, configuration, entry points | counters, settings | - | - | - | - |

The hazards this leads to are listed in `PROJECT.json`, each at its line.

## Modules

* `BuildGraph` - the operations of petgraph the code uses and `is_ready`.
* `ValidateGraph` - `validate_graph`, one step per loop iteration.  The order of
  the initial list and of neighbours is left open, as nothing relies on it.  It is
  checked within `PrepareGraph`, which calls it as `xgConsole` does.
* `BuildOrder` - the abstract specification of a build: tasks start once, after
  what they depend on; the result has a cause.  No threads, no queues.
* `Worker` - `execute_graph` with its threads.  `pc` is the place of the calling
  thread (`seed`, `recv`, `dispatch` are inside `execute_until_failed`, which owns
  the only sender of the task channel; `drain`, `collect`, `join` follow it).
  `fate`, `reported` and `cut` are history.  A task may end well, with a status,
  without one (killed), with an `Err`, or by a panic; `update_progress` may return,
  fail or panic.  `validate_graph` is one step here.
* `WorkerInv` - the inductive invariant of `Worker`.
* `FileCache` - one cache entry, several calls of `run_cached`.  A file is an inode
  that outlives its name; it is written and read block by block.  An entry packs one
  or more output files (`Ends`), which take their places one after the other.  The LZ4
  frame is modelled by what read_cache relies on: a block that was never written is an
  error, and the checksum at the end is that of the blocks it was written with.  The
  byte every reader writes first is the first byte of every frame, so it changes only
  an empty file.  After an error the temporary file is removed, or is not: the code
  ignores that (`stuck`).
* `CacheCleanup` - the directory as a whole; an entry has a size and a time.
* `Coordinator` - coordinator and announcers, in seconds.
* `BuilderList` - the client's cached list; `builders` is represented by the time
  at which the coordinator gave it, all the properties ask about.  Its names differ from
  those of `Coordinator` (`ListSpec`, `time`), so that one module can use both.
* `CommandArgs` - what octobuild makes of a command line, as functions: the executable
  and its compiler (`find_executable`, `resolve_toolchain`), `parse_arguments` and
  `create_tasks` of clang and of Visual Studio.  A word is an option with its key and
  value, or a plain word; a path is a stem and an extension, then its directories, and a
  directory itself has the extension "/".
* `PrepareGraph` - from the parsed projects to the graph `Worker` executes:
  `parse_create_graph`, `graph_project`, `validate_graph` and `prepare_graph` with the
  compilations `CommandArgs` makes of each command.  A project is a list of task elements,
  of which `parse_tasks` keeps the last of each name (`ParseTasks`).
* `MemStream` - the blocks of a text: `write`, `copy`, `read`.  A loop is a recursive
  function of the number of its iterations.
* `Postprocess` - `filter_preprocessed` over a buffer, one step per byte and per read.
  A byte stands for a piece of a token, so that every place a real buffer may end at is
  there in a short text.  `Stops` and `Wanted` say by lines what the result should be.
* `Preprocess` - `preprocess_step`: clang's child process with two pipes of bounded size,
  the thread that reads stderr, and the caller, with errors of each pipe and of `wait`; or
  Visual Studio's collected output and the filter.
* `RemoteCompile` - calls of `compile_step` (`cpc` is the place in it) and the threads
  of one builder that serve their requests (`hpc`).  A hash is the content it was
  computed from; `Torn` is a truncated or mixed content.  `conn` and `ans` are the HTTP
  connection: the client may give it up at any time, and the handler goes on.  Faults
  are rewrites of the header by another task, restarts, evictions (the builder keeps
  headers in the cache directory, which `cleanup` empties) and short writes, whose
  count the code ignores.  The builder's compiler may fail for a reason of the builder's
  own, with a failing status or an `Err` (`ailed`).  `validLen` is the number of bytes `is_valid_sha256` asks for.
* `FileHash` - `file_hash` on `MemCache`: threads, one lock per path, a file that
  changes at any moment, modification times in ticks.  It is checked within `CompileTask`.
* `CompileTask` - `compile_task` of threads that share the cache, the precompiled
  header, its hash (the steps of `FileHash`) and the semaphore.  `stage` is the place in
  the call.  `KeyOf` is the sequence of numbers and bytes the code hashes, and two keys
  are equal exactly if these are.  A cached entry remembers what it was compiled from
  (`text`, `args`, `header`), and whether its header changed during the call (`raced`).
* `PrepareGraphProofs` (with `ValidateGraph`), `WorkerProofs`, `FileCacheProofs`,
  `CacheCleanupProofs`, `DiscoveryProofs` (`Coordinator` and `BuilderList`),
  `RemoteCompileProofs`, `CompileTaskProofs` (with `FileHash`), `PreprocessProofs` (with
  `MemStream` and `Postprocess`) - theorems and proofs.
* `MC...` - constants and symmetry for TLC; each `.cfg` is one run.

Operators whose comment begins with "Mutant" are not part of the
specifications: each is a plausible mistake in the definition that follows it,
kept to show that the property named in `PROJECT.json` notices it.

## Runs

| run | what it shows | bounds |
|---|---|---|
| `worker` | order, reporting, no start after the clean-up, refinement of `BuildOrder` (with an honest result), inductive invariant; ends unless a task panics | all graphs of at most 3 tasks, 2 workers, all ends of tasks and of reporting |
| `worker_hang` | **violated**: a panicking task makes the build hang | 2 tasks, 2 workers |
| `cache_safety` | success is the whole output of one compilation, no partial output, no temporary file but one that cannot be removed, a lone writer repairs a torn entry | 3 calls, 2 output files of 2 and 1 blocks, 2 variants of a compilation, 1 kill, 1 failing removal of a temporary file, any other I/O errors and evictions |
| `cache_toolchains` | **violated**: a hit may be another compiler's object file | 2 calls, 2 compilers |
| `cleanup` | an Ok means the limit is kept; kept files are newer than removed ones; cleaners never all give up | 2 cleaners, 3 files of size 1 or 2 (0 while one is being written), limit 1, 2 steps of compilations, equal times possible |
| `coordinator` | live builders listed without a gap, dead ones forgotten, silence after a stop | 2 builders, the code's 5 s and 1 s, delay at most 1 s, 1 lost update in a row, 1 restart, 9 s |
| `builder_list` | one request per cooldown, lists are fresh | 3 threads, 2 calls each, cooldowns 2 and 1, 5 s |
| `prepare_graph` | `validate_graph` ends and accepts exactly acyclic graphs; the order of the task files is kept exactly, no task, command or source dropped, no word of a command lost or made up, object files shared exactly where the rules of names say so, the second validation never fails; the preparation ends | all dependencies, unknown names too, among the tasks of one project of 3, of one with 3 elements of 2 names, or of two of 2 with the same names; every task with any of the commands of `MCPrepareGraph` (every line of up to 4 words besides `-c` for a single task, three commands otherwise) |
| `remote` | headers stored under their own hash, one writer, a remote success is the client's own, a remote failure has its cause in the source or in the builder's compiler, no lock or temporary file left, every call returns; no deadlock | 2 calls of all kinds, 2 contents (the header begins with one of them, as they are alike), 1 fault besides those of the builder's compiler, hash check of 32 and of 64 bytes |
| `remote_refused` | **violated**: a client's own hash is refused | the same, 64 bytes as written |
| `preprocess` | the compiler's text is exactly the preprocessor's (`TextWhole`), or the part after its headers (`TextExact`); a stream reads as it was written; the pipes never block each other | the texts of `MCPreprocess` (up to 4 lines of all kinds, both line ends, cut or not, with and without byte order mark), buffers of 1 to 5 bytes, blocks of 4, pipes of 2, all orders of 4 writes to stdout and 3 to stderr |
| `compile` | no stale hash, one read per content, children within the limit, a hit is what the call would compile, every call returns | 2 threads with 1 call each, a permit for 1 child, 4 tasks (one that makes and one that uses the header, two whose arguments differ only in where one ends), 2 contents of the same length, 1 change from outside and 1 tick |

Why the bounds are enough: three tasks make a queue longer than the pool and a task
with two dependencies possible, and every action of the executor touches at most two
tasks and one worker; the theorems cover all sizes.  A mixture of two object files
needs two data blocks and two writers, and a third call to read it.  Two files of equal time
beyond the limit are what would make cleaners disagree; with a limit of 1 a file may fit
alone, beside an empty one or not at all.
Nine seconds let a builder start, be killed at once, expire and be dropped.
Two clients with the same header and two with different ones are the cases of the
lock per hash, and a single eviction is enough for an upload to meet the temporary
file of another one.  A hash can be stale only if a file changes between two of the
three steps of `file_hash` or within a tick; the change from outside and the task that
makes the header put changes at each place, and a single permit makes every thread
wait once.  Buffers as short as a byte make each position of a text the last of a
buffer; a pipe of two bytes blocks as one of 64 KiB does, only sooner.  Two sources, two
values and an option that takes one are what the argument loop can confuse.
Where a run has symmetry, it is of calls, threads or hosts that nothing orders.
`worker` does not check for deadlock because of the hang that `worker_hang`
shows; `coordinator` because its time is bounded.

Fairness.  `Worker` assumes that the calling thread and each worker take steps
when they can, and that a compiler that was started ends (a step of `WorkerSend`
or `WorkerPanic`); the operating system gives the first, and nothing in the code
limits the second.  `RemoteCompile` assumes that the threads of clients and
builder, taken together, go on as long as one of them can, and that a call whose
handler is gone fails some time (the timeout of 30 s of the HTTP client); since no
thread repeats a step this brings each one to its end.  `ValidateGraph` and
`PrepareGraph` are sequential and assume that their thread goes on.  `Preprocess` assumes
the same of clang's child and its two readers together, `CompileTask` of each thread,
with the child it waits for; a thread takes few calls and children end, so a free permit
comes to every waiting one.  The other specifications state safety only.

`Coordinator` bounds the delay of messages (`MaxDelay`), the updates lost in a row
(`MaxLost`) and lets threads run within the second.  These are assumptions about
the network and the scheduler; `TtlEnough` says how they relate to the periods of
the code: `(MaxLost + 1) * (Period + MaxDelay) + MaxDelay <= Ttl`.

## Findings

* `worker_hang`.  When a task panics on one of several workers its result is never
  sent; the other workers wait for tasks and the main thread for results.  The end
  of the result channel, for which the code has a `panic!`, never comes because the
  live workers hold senders.  With one worker the panic is noticed.
* `cache_toolchains`.  The cache key is made of the preprocessed text, the arguments
  and the precompiled header.  Two compilers (two versions of clang, say) that get
  the same of these share an entry.
* `remote_refused`.  `is_valid_sha256` compares the length of the decoded hash, 32
  bytes, with 64, so the builder refuses every header.  The client falls back to a
  local compilation: builds are right, but no step with a precompiled header is ever
  compiled by a builder.  `remote` has both lengths, so that the upload protocol behind
  the check is verified too.

Not counted as findings, as nothing in the repository promises otherwise, but visible
in the models: `write_output` and the upload handler ignore the count of `write()`, so
that `StoredGenuine` and `RemoteSameAsLocal` except short writes; a rewrite of a
file within one tick of its modification time is invisible to `file_hash` (`Settled`);
a failed remote compilation with Visual Studio is an `Err` without the compiler's
messages.  Also:

* A compilation that fails on a builder has failed: only errors of the requests lead to a
  local one.  A builder whose disk is full or whose compiler is killed so fails a good
  source, by `CompileResponse::Err` or by a failing status (`ailed` in
  `RemoteFailureCaused`).
* The compilations of one command are tasks of their own that run at the same time.
  `s.c` and `s.cpp` both become `s.o`, or `s.obj`; with `/Fo` and a directory so do
  sources of one name from different directories; with `/Fo` and a file all sources do.
  The code refuses only the last of these, and only for clang's `-o`.  A compiler called
  by hand would write the object twice too, but one after the other; here two processes,
  or two restores from the cache, write one file at once.  `ObjectsShared` says exactly
  when: it excuses nothing, and promises no more than the code keeps.
* Of two task elements of one name in a project only the later one is built, with nothing
  said about the other (`ParseTasks`).
* A `~tmp~` file that cannot be removed after an error stays (`stuck` in
  `OutputNeverPartial`), and so does the temporary file of an upload.
* A header that is rewritten between its hash and the compiler's reading gives an
  entry under the old header's key (`raced` in `HitGenuine`, which also excepts hashes
  that are not `Settled`).
* An error of reading clang's stdout gives an empty text, which is compiled and cached
  as if it were the source (`readError` in `TextWhole`).
* clang's `-ofile` in one word is a parameter, and the object goes to the source's name
  with `.o`; objects of clang are not joined to the task's working directory, as those
  of Visual Studio are.  `/Yc` with several sources makes each of them write one header.
  Visual Studio's commands need no `/c`; a
  bare `/w` takes the next word, be it a source; `with_extension(".pch")` gives two dots.
* In the filter: a text with a byte order mark and a `\` in the marker never matches; a
  text cut right after `#line` is a panic, and one cut after `#pragma hdrstop` is refused;
  of an escape other than `\\` the raw path keeps two backslashes; long tokens and paths
  end the filter.

## Proofs

Checked by TLAPS for every value of the constants that satisfies the `ASSUME`s of
the modules: sets of threads, calls, builders and tasks of any finite size, any number
of blocks, files, contents, commands, kills, restarts and ticks.  The `ASSUME`s say that
bounds are natural numbers, that marks such as `None` are no values, that there is a
cleaner (`SomeCleaner`), that tasks name known headers (`JobsKnown`), that
texts are finite and buffers not empty (`InputsTyped`), that a preprocessor writes its
text, and anything to stderr, in some order (`ScriptsWrite`), and in `Coordinator` how the
periods relate to the network (`TtlEnough`).  In each module one
lemma per action shows that it keeps the inductive invariant, and the theorems follow
from that.

* `PrepareGraphProofs`.  `validate_graph` (`IndInv`): no node of a cyclic core (a set in
  which each node depends on another one of it) is ever completed; whatever could be
  completed is still ahead in the list; the count is the number of completed nodes.
  The second part is what makes the rejection right: without it nothing says that a
  node passed over is looked at again.
  `prepare_graph` (`PrepInv`): the parsed graph has each task once and exactly the
  dependencies of the tasks `graph_project` has been through (`NodesOK`, `EdgesOK`);
  each node of the new graph is an action that knows its task or the group of one
  (`ActionsOK`, `RemapOK`), and its edges are those from groups to actions and, as far
  as the second loop is, from actions to the nodes of their task's dependencies
  (`BuildEdgesOK`).  `OrderKept` follows in both directions: a set that is closed under
  the edges of one graph gives a closed set of the other, of the tasks all of whose
  actions are in it or of the nodes whose task is.  `SecondCheckPasses`: the tasks of a
  cyclic core of the new graph would be one of the parsed graph.  The asserts of
  `prepare_graph` and the bounds of its indices are `PrepareTypeOK`.  All are proved under
  the hypothesis that commands, and the response files they name, are lists of words
  (`Worded`), which TLC evaluates for the commands of the run (`CommandsWorded`).

  The command lines (`CommandCompiles`), for lines of any length: the loop of
  `parse_arguments` has said, after `k` words, what the first `k` words say, but for an
  option that still waits for its value; its sources are those of the first `k` words that
  are no value of an option, in their order; and it waits exactly if the next word is a value
  (`Read`, kept by each word: `ReadNext`, from what a single word gives: `ReadStep`).  So
  a line that is accepted is understood to its end (`LineRead`), and what `create_tasks`
  makes of it, its objects included, follows for each compiler (`ClangCompiles`,
  `VsCompiles`).  `MadeOK` carries that through the first loop of `prepare_graph`: each
  task's actions are what its command gave, at consecutive nodes.  `NothingDropped`,
  `WordsAccounted` and `ObjectsShared` follow; the first needs that a task `graph_project`
  has been through has its node, the last that the objects are those the sources and the
  `/Fo` foretell (`Foretold`).  Loops over lists are recursive functions;
  where an induction over their length is needed it is by the least number that has a
  property (`LeastNumber`, from the well-foundedness of the naturals) and `Upwards`.
* `WorkerProofs`: from `IndInv` of `WorkerInv`, which says where each task is in the
  pipe from the main thread through queue, worker and result queue back, and that
  it is in one place only.  Safety properties, the action properties and the refinement
  `Spec => Order!Spec` follow.  `completed = reported` while tasks are sent is what links
  the flags of the loop to the count.
* `FileCacheProofs`: what a call in the midst of `read_cache` has read, put into `~tmp~`
  and renamed (`ReaderInv`) makes a verified frame the whole output of one compilation;
  a writer nobody else joined holds a file of its own blocks only (`SoleInv`), which is
  why the entry it leaves is accepted.  A call keeps its temporary file while it reads
  only, unless the removal failed.  No assumption is made on the entry itself: it may
  be torn, mixed or gone at any time.
* `CacheCleanupProofs`: sizes are counted unit by unit, so that no sum is needed.  What a
  cleaner keeps has no more units than its `cacheSize`, nor than the limit, and every file
  that is there is on its list, at least as large, unless entries were saved (`Counted`);
  so a cleaner that has come to the end of its list has kept all there is (`AllKept`), and
  what others remove later only helps (`OkWithinLimit`).  Trimming walks a sorted list and
  the size only grows, so that what was kept is newer than what was removed (`Trimmed`).  That someone finishes needs
  a leader: as long as no compilation intervenes the lists agree on times (`Agree`), and
  there is a cleaner such that every listed file that is gone comes before all the rest
  of its list (`Leads`), so that it will never meet a missing file.  Whoever removes a
  file takes over the lead; at the beginning nothing is gone (`Untouched`).
* `DiscoveryProofs`, the coordinator: a builder that is up and was once registered has an entry that
  outlives the updates that may still get lost (`Covered`): after `k` losses in a row at
  most `Slack(k)` has passed of its lifetime, which `TtlEnough` bounds.  That needs the
  announcer to be on time (`Punctual`) and to have one message under way (`OneMessage`),
  which also gives the silence after a stop.
* `DiscoveryProofs`, the client's list: every request but the one under way is covered by
  the cooldown; who asks found it over; the list is no older than the cooldown less
  `CooldownOk`.
* `RemoteCompileProofs`: who writes `HASH.tmp` holds the lock of the hash and there is no
  `HASH.pch` (`Held`), a held lock belongs to a thread that writes (`Owned`), and what is
  about to be renamed is what was promised, or gone (`TmpGenuine`).  `Requested`,
  `Waiting` and `Progressed` tie a handler to the place of its client, without which an
  answer of an earlier request could be taken for that of a later one.  That a header in
  use is whole, and there unless evicted, leaves as causes of a failure the source and the
  builder's own compiler (`RemoteFailureCaused`).
* `CompileTaskProofs`: a value of `file_hash` that is settled and describes the file has
  the hash of the file (`Sound`), which is an invariant although the file may change
  between any two of its steps, because a change either moves the modification time or
  happens within a tick; while a hash is known nobody computes it (`FreshKnown`).  Every
  child has a permit and all others are free (`PermitsInv`).  A stored entry is what its
  key says (`StoreInv`); that a hit is what the call would have compiled then needs that
  equal keys come from equal parts, the hypothesis `KeyTells` of `HitGenuineAlways`,
  which TLC evaluates for the jobs of the run (`KeysApart`).
* `PreprocessProofs`.  The stream (`StreamOK`): there are just enough blocks for its size,
  and what `copy` writes is, byte for byte, what the blocks hold below the size, with the
  uninitialised rest of the last one left out; a write adds its bytes at the end, an
  iteration of it at a time, and a reader is at the end of what it has read, in the slice
  it was last given.  `Placed` and `Sequences` say where the pointers of the filter and
  of its tokens are, without which what it flushes is no part of the text.
  `ReadsWhatWasWritten` follows, for filtered texts as well.  For the rest (`Called`): what
  was read and what is in the pipe are together the text as far as the child has written
  it (`Flows`), what it has still to write is the rest (`Scripted`), and the call returns
  Ok only when both are empty.  `TextWhole` follows, and needs of stderr nothing at all.

Only model-checked:

* all liveness (`PreparationEnds`, `TerminatesUnlessPanic`, `Returns`, `ChildDrained`,
  `TaskReturns`), which is beyond the prover;
* `TextExact`, for the texts that are filtered: what the automaton has made of a text of
  any length is an induction over the lines and tokens of its input;
* `KeyTells` for all strings, an induction over the numbers and bytes that are hashed.

## Plan

Done: validation, executor, cache entry, clean-up, coordinator, client's list, command
arguments and graph preparation, preprocessing and its filter, memory stream, compile
steps with cache key, file hashes and process limit, remote compilation, and the proofs of
their safety but for what is listed above.  Next:

1. `BuilderList` composed with `Coordinator`, with requests that take time.
2. `TextExact`, line by line: what the filter has found at the end of each one.
3. The walk over XML events of `xg/parser.rs` and `Lazy` with `ToolchainHolder`.

## Not modelled

Configuration, statistics, logging, the XML reader, the discovery and identification of
installed compilers: no state that could go wrong over time.  The quote and escape
automata of `cmd/` are pure functions of characters, with unit tests of their cases.
Of Visual Studio's compile step, the temporary source file and the removal of the first
line of its output are left out.  Windows differs from the
model of files in `FileCache` (an open file cannot be removed there).  `RemoteCompile` takes the header's hash
as that of its content at the time of the call; `FileHash` says when that is so.  A
process that sets modification times back deceives `file_hash`.  The semaphore of
`CompileTask` is shared by its threads only, while the code's is named and shared by all
octobuild processes of the machine.  In `Coordinator` a lost update is noticed within
`MaxDelay`, although the client's timeout may be 30 s, and an update whose sender has given
up is not handled any more.  `BuilderList` has one cooldown for success and one for errors,
and `RequestsSpaced` demands the shorter one in all cases.
