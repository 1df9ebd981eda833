------------------------------ MODULE CompileTask -----------------------------
(***************************************************************************)
(* compile_task of compiler.rs for worker threads that share a cache, a      *)
(* limit on child processes and precompiled headers: preprocess the source,  *)
(* prepare the compiler's arguments, compute the cache key (with the hash    *)
(* of the header, as in FileHash), take the result from the cache or run     *)
(* the compiler and save it.  Both drivers, clang/compiler.rs and            *)
(* vs/compiler.rs; FileCache has the details of an entry and Preprocess     *)
(* those of the preprocessor.                                                *)
(***************************************************************************)
EXTENDS FileHash, CommandArgs, FiniteSets, TLC

CONSTANTS
  Jobs,                         \* tasks: what create_tasks returns, and the driver
  Sources,                      \* what a source may hold when it is read
  ProcessLimit,                 \* Config::process_limit
  MaxCalls                      \* bound: calls of compile_task by a thread

ASSUME ThreadsFinite == IsFiniteSet(Threads)
ASSUME LimitsNatural == ProcessLimit \in Nat /\ MaxCalls \in Nat

VARIABLES
  stage, calls,                 \* where a thread is in compile_task, and how often
  job, text,                    \* its task, and the preprocessed text
  permits,                      \* the semaphore
  store,                        \* the entries of the cache
  object, outcome               \* the output file of the call, what it returned

task == <<stage, calls, job, text, permits, store, object, outcome>>
taskVars == <<vars, task>>

-------------------------------------------------------------------------------
(* The arguments of the child processes: each one a sequence of bytes        *)

\* preprocess_step and compile_prepare_step: the flags and parameters of the
\* scopes; clang gets a parameter in two arguments, Visual Studio in one.
Passed(j, scopes) ==
  FlattenSeq([k \in DOMAIN j.args |->
    LET arg == j.args[k]
        named == <<"-", arg.key>>
    IN IF arg.type \in {"input", "output"} \/ arg.scope \notin scopes THEN <<>>
       ELSE IF arg.type = "param" /\ j.driver = "clang" THEN <<named, arg.val>>
       ELSE <<named \o arg.val>>])

ClangPreprocessArgs(j) ==
  <<<<"-E">>, <<"-x">>, <<j.language>>, <<"-frewrite-includes">>>> \o Passed(j, {"Preprocessor", "Shared"})

VsPreprocessArgs(j) ==
  Passed(j, {"Preprocessor", "Shared"}) \o <<<<"-nologo">>, <<"-T", j.language>>, <<"-E">>, <<"-we4002">>>>

PreprocessArgs(j) == IF j.driver = "clang" THEN ClangPreprocessArgs(j) ELSE VsPreprocessArgs(j)

\* What a preprocessor makes of a source: it depends on macros and directories.
PreprocessedText(j, source) ==
  <<source>> \o FlattenSeq(SelectSeq(PreprocessArgs(j), LAMBDA a : Len(a) > 1 /\ a[2] \in {"D", "I"}))

Makes(j) == j.output_precompiled # Nothing
Uses(j) == j.input_precompiled # Nothing

ASSUME JobsKnown ==
  /\ Jobs # {}
  /\ \A j \in Jobs : /\ Makes(j) => j.output_precompiled \in Paths
                     /\ Uses(j) => j.input_precompiled \in Paths

ClangCompileArgs(j) == <<<<"-x">>, <<j.language>>>> \o Passed(j, {"Compiler", "Shared"})

\* A header is made with the preprocessor's arguments too.
VsCompileArgs(j) ==
  Passed(j, {"Compiler", "Shared"} \cup (IF Makes(j) THEN {"Preprocessor"} ELSE {}))
    \o <<<<"-nologo">>, <<"-T", j.language>>>> \o (IF Makes(j) THEN <<<<"-Yc">>>> ELSE <<>>)

CompileArgs(j) == IF j.driver = "clang" THEN ClangCompileArgs(j) ELSE VsCompileArgs(j)

-------------------------------------------------------------------------------
(* The cache key: what compile_step_cached feeds the hash with               *)

\* hash_u64 and hash_u8.
HashNumber(n) == <<ToString(n)>>

\* hash_bytes.
HashBytes(bytes) == HashNumber(Len(bytes)) \o bytes

KeyOf(j, preprocessed, header) ==
  LET args == CompileArgs(j)
  IN HashNumber(Len(preprocessed)) \o preprocessed
       \o HashNumber(Len(args)) \o FlattenSeq([k \in DOMAIN args |-> HashBytes(args[k])])
       \o (IF Uses(j) THEN HashBytes(<<header>>) ELSE HashNumber(0))
       \o HashNumber(IF Makes(j) THEN 1 ELSE 0)

-------------------------------------------------------------------------------
TaskInit ==
  /\ Init
  /\ stage = [t \in Threads |-> "idle"]
  /\ calls = [t \in Threads |-> 0]
  /\ job = [t \in Threads |-> CHOOSE j \in Jobs : TRUE]
  /\ text = [t \in Threads |-> <<>>]
  /\ permits = (IF ProcessLimit = 0 THEN 1 ELSE ProcessLimit)
  /\ store = {}
  /\ object = [t \in Threads |-> None]
  /\ outcome = [t \in Threads |-> "none"]

Stage(t, s) == stage' = [stage EXCEPT ![t] = s]
Return(t, r) == Stage(t, "idle") /\ outcome' = [outcome EXCEPT ![t] = r]

\* A worker takes a task.
StartTask(t) ==
  /\ stage[t] = "idle" /\ calls[t] < MaxCalls
  /\ calls' = [calls EXCEPT ![t] = @ + 1]
  /\ \E j \in Jobs : job' = [job EXCEPT ![t] = j]
  /\ object' = [object EXCEPT ![t] = None]
  /\ outcome' = [outcome EXCEPT ![t] = "none"]
  /\ Stage(t, "preprocess")
  /\ UNCHANGED <<vars, text, permits, store>>

\* Mutant: the limit is not waited for.
RunAnyway == TRUE

\* wrap_slow waits for the semaphore.
MayRun == permits > 0

\* The child process starts.
Acquire(t) ==
  /\ stage[t] \in {"preprocess", "compile"} /\ MayRun
  /\ permits' = permits - 1
  /\ Stage(t, IF stage[t] = "preprocess" THEN "preprocessing" ELSE "compiling")
  /\ UNCHANGED <<vars, calls, job, text, store, object, outcome>>

\* It has written the text; the guard of the semaphore is dropped.  A task that
\* uses a precompiled header asks for the header's hash.
Preprocessed(t) ==
  /\ stage[t] = "preprocessing"
  /\ permits' = permits + 1
  /\ \E source \in Sources : text' = [text EXCEPT ![t] = PreprocessedText(job[t], source)]
  /\ IF Uses(job[t])
       THEN Stage(t, "hash") /\ Call(t) /\ path'[t] = job[t].input_precompiled
       ELSE Stage(t, "lookup") /\ UNCHANGED vars
  /\ UNCHANGED <<calls, job, store, object, outcome>>

\* Mutant: the guard is dropped only after a success.
FailsHolding(t) ==
  /\ stage[t] \in {"preprocessing", "compiling"}
  /\ \E r \in {"Failed", "Err"} : Return(t, r)
  /\ UNCHANGED <<vars, calls, job, text, permits, store, object>>

\* The child fails or cannot be run: nothing is cached.
ChildFails(t) ==
  /\ stage[t] \in {"preprocessing", "compiling"}
  /\ permits' = permits + 1
  /\ \E r \in {"Failed", "Err"} : Return(t, r)
  /\ UNCHANGED <<vars, calls, job, text, store, object>>

\* Visual Studio's compile_step writes the text to a temporary file first.
TempFails(t) ==
  /\ stage[t] = "compile" /\ job[t].driver = "vs"
  /\ Return(t, "Err")
  /\ UNCHANGED <<vars, calls, job, text, permits, store, object>>

\* file_hash has returned.
Hashed(t) ==
  /\ stage[t] = "hash" /\ pc[t] = "done"
  /\ IF result[t].ok THEN Stage(t, "lookup") /\ outcome' = outcome ELSE Return(t, "Err")
  /\ UNCHANGED <<vars, calls, job, text, permits, store, object>>

\* Mutant: the hash of the header is left out.
KeyUnhashed(t) == KeyOf(job[t], text[t], None)

\* The key of the call; the hash is that of its header.
Key(t) == KeyOf(job[t], text[t], IF Uses(job[t]) THEN result[t].hash ELSE None)

\* A precompiled header is written by the call.
Rewrite(p, content) ==
  /\ file' = [file EXCEPT ![p] = [content |-> content, modified |-> clock]]
  /\ changed' = [u \in Threads |-> IF path[u] = p THEN changed[u] \cup {pc[u]} ELSE changed[u]]
  /\ fresh' = [fresh EXCEPT ![p] = FALSE]
  /\ UNCHANGED <<clock, writes, entry, lock, pc, worker>>

\* run_file_cached finds the entry: the output files are restored from it, if
\* it has as many as the call asks for.
Hit(t) ==
  /\ stage[t] = "lookup"
  /\ \E e \in store :
       /\ e.key = Key(t) /\ (e.made # None <=> Makes(job[t]))
       /\ object' = [object EXCEPT ![t] = e]
       /\ IF Makes(job[t]) THEN Rewrite(job[t].output_precompiled, e.made) ELSE UNCHANGED vars
  /\ Return(t, "hit")
  /\ UNCHANGED <<calls, job, text, permits, store>>

\* There is none, a cleanup has removed it, or it cannot be read.
Miss(t) ==
  /\ stage[t] = "lookup"
  /\ Stage(t, "compile")
  /\ UNCHANGED <<vars, calls, job, text, permits, store, object, outcome>>

\* compile_step: the compiler reads the header if it uses one, and writes its
\* output files.  A header that is gone makes it fail.
Compiled(t) ==
  LET p == job[t].input_precompiled IN
  /\ stage[t] = "compiling"
  /\ Uses(job[t]) => file[p] # None
  /\ permits' = permits + 1
  /\ \E made \in (IF Makes(job[t]) THEN Contents ELSE {None}) :
       /\ object' = [object EXCEPT ![t] =
            [key |-> Key(t), text |-> text[t], args |-> CompileArgs(job[t]),
             header |-> IF Uses(job[t]) THEN file[p].content ELSE None, made |-> made,
             raced |-> Uses(job[t]) /\ ~(changed[t] \subseteq {"lock", "stat"} /\ Settled(result[t]))]]
       /\ IF Makes(job[t]) THEN Rewrite(job[t].output_precompiled, made) ELSE UNCHANGED vars
  /\ Stage(t, "save")
  /\ UNCHANGED <<calls, job, text, store, outcome>>

\* write_cache reads the output files again, and they are the entry; it fails
\* if the header is gone, or for an I/O error.
Save(t) ==
  LET p == job[t].output_precompiled IN
  /\ stage[t] = "save"
  /\ \/ /\ Makes(job[t]) => file[p] # None
        /\ store' = {e \in store : e.key # Key(t)} \cup
             {[object[t] EXCEPT !.made = IF Makes(job[t]) THEN file[p].content ELSE None]}
        /\ Return(t, "miss")
     \/ store' = store /\ Return(t, "Err")
  /\ UNCHANGED <<vars, calls, job, text, permits, object>>

HashStep(t) == (Lock(t) \/ Stat(t) \/ Open(t) \/ Finish(t)) /\ UNCHANGED task

CompileThread(t) ==
  \/ Acquire(t) \/ Preprocessed(t) \/ ChildFails(t) \/ Hashed(t) \/ HashStep(t)
  \/ Hit(t) \/ Miss(t) \/ TempFails(t) \/ Compiled(t) \/ Save(t)

Around ==
  \/ \E p \in Paths, f \in [content : Contents, modified : {clock}] \cup {None} : Change(p, f)
  \/ Tick

AllReturned == (\A t \in Threads : stage[t] = "idle" /\ calls[t] = MaxCalls) /\ UNCHANGED taskVars

TaskNext ==
  \/ \E t \in Threads : StartTask(t) \/ CompileThread(t)
  \/ Around /\ UNCHANGED task
  \/ AllReturned

\* Worker threads are scheduled, child processes end, and the semaphore is not
\* withheld from a thread for ever.
TaskSpec == TaskInit /\ [][TaskNext]_taskVars /\ \A t \in Threads : WF_taskVars(CompileThread(t))

-------------------------------------------------------------------------------
\* No more child processes run than the limit allows, but one always may.  The
\* code's semaphore is shared by name with the machine's other octobuild
\* processes, here by the threads of one.
ChildrenBounded ==
  Cardinality({t \in Threads : stage[t] \in {"preprocessing", "compiling"}})
    <= (IF ProcessLimit = 0 THEN 1 ELSE ProcessLimit)

Texts == {PreprocessedText(j, source) : j \in Jobs, source \in Sources}

\* Tasks have the same key only if all that goes into the compiler is the same:
\* lengths keep the parts of the key apart.
KeyTells ==
  \A i, j \in Jobs, x, y \in Texts, g, h \in Contents \cup {Mixed, None} :
    KeyOf(i, x, g) = KeyOf(j, y, h) =>
      /\ x = y /\ CompileArgs(i) = CompileArgs(j)
      /\ (Uses(i) <=> Uses(j)) /\ (Makes(i) <=> Makes(j))
      /\ Uses(i) => g = h

\* What is restored from the cache was compiled from the same text with the
\* same arguments and with the header the call has hashed.  Excepted are entries
\* whose writer could not be sure of the header's hash: it was rewritten between
\* the writer's stat and the end of its compilation, or the hash is not Settled,
\* as a write in the tick of the hash may keep the modification time.
HitGenuine ==
  \A t \in Threads :
    outcome[t] = "hit" =>
      /\ object[t].text = text[t]
      /\ object[t].args = CompileArgs(job[t])
      /\ Uses(job[t]) => object[t].header = result[t].hash \/ object[t].raced

\* Every call returns, whatever children and files do: no permit and no lock of
\* a header's hash is kept.
TaskReturns == \A t \in Threads : (stage[t] # "idle") ~> (stage[t] = "idle")

===============================================================================
