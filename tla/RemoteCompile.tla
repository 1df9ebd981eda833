---------------------------- MODULE RemoteCompile -----------------------------
(***************************************************************************)
(* RemoteToolchain::compile_step of cluster/client.rs against the HTTP      *)
(* handlers of octo_builder: asking for and uploading a precompiled header, *)
(* the remote compilation, writing its output, and the local compilation    *)
(* when any of it fails.                                                    *)
(*                                                                         *)
(* Several calls of compile_step share one header file and one builder.     *)
(* Every call makes each kind of request at most once, so a request and the *)
(* handler thread that serves it are named by <<client, kind>>.  SHA-256 is *)
(* injective: a hash is the content it was computed from.  Connections      *)
(* break, calls time out while their handlers go on, the builder is         *)
(* restarted, its cache directory, where it keeps the headers, is cleaned   *)
(* up under it, and the header is rewritten by a task the task files do not *)
(* order before its users.                                                  *)
(***************************************************************************)
EXTENDS Naturals, FiniteSets

CONSTANTS
  Clients,                      \* calls of compile_step
  Kinds,                        \* steps among them: "plain", or one that "uses"
                                \* or "makes" a precompiled header
  Contents, Originals,          \* what the header file may hold, and hold first
  None, Torn,                   \* no file; a content that is none of Contents
  HashLen,                      \* bytes of a SHA-256: 32
  ValidLens,                    \* bytes is_valid_sha256 may ask for: 64 in the
                                \* code, twice what hex::decode returns
  MaxFaults                     \* bound: rewrites, restarts, evictions and
                                \* short writes together

ASSUME Distinct == None # Torn /\ None \notin Contents /\ Torn \notin Contents
ASSUME OriginalsKnown == Originals \subseteq Contents
ASSUME KindsKnown == Kinds \subseteq {"plain", "uses", "makes"}
ASSUME BoundsNatural ==
  HashLen \in Nat /\ ValidLens \subseteq Nat /\ MaxFaults \in Nat

Handlers == Clients \X {"head", "upload", "task"}
ASSUME NoneIsNoHandler == None \notin Handlers

VARIABLES
  kind, broken,                 \* the step: its precompiled header, and whether
                                \* its source has an error
  validLen,                     \* the length is_valid_sha256 asks for
  cpc, hash, sent,              \* where the call is, meta.hash, the opened file
  object,                       \* what the call has left in its output file
  result, via,                  \* what compile_step returned, and who compiled
  header,                       \* the header file on the client
  hpc, got, conn, ans,          \* handler: where it is, the header it has
                                \* compiled with, its connection, its response
  pch, tmp, lock,               \* the builder's HASH.pch and HASH.tmp, and the
                                \* Mutex of each hash
  rewrites, crashes, evictions, \* how often each happened
  short,                        \* history: what a short write() truncated
  ailed,                        \* history: calls whose compiler went wrong on
                                \* the builder for a reason of the builder's
  refused                       \* history: hashes refused as invalid

input == <<kind, broken, validLen>>
client == <<cpc, hash, sent, object, result, via>>
handler == <<hpc, got, conn, ans>>
files == <<pch, tmp, lock>>
faults == <<rewrites, crashes, evictions, short, ailed>>
vars == <<input, client, header, handler, files, faults, refused>>

\* An object file: whose source it was compiled from and with which header.
Object(c, v) == [source |-> c, header |-> v]

Init ==
  /\ kind \in [Clients -> Kinds]
  /\ broken \in [Clients -> BOOLEAN]
  /\ validLen \in ValidLens
  /\ cpc = [c \in Clients |-> "start"]
  /\ hash = [c \in Clients |-> None]
  /\ sent = [c \in Clients |-> None]
  /\ object = [c \in Clients |-> None]
  /\ result = [c \in Clients |-> "none"]
  /\ via = [c \in Clients |-> "none"]
  /\ header \in Originals
  /\ hpc = [h \in Handlers |-> "off"]
  /\ got = [h \in Handlers |-> None]
  /\ conn = [h \in Handlers |-> "closed"]
  /\ ans = [h \in Handlers |-> None]
  /\ pch = [v \in Contents |-> None]
  /\ tmp = [v \in Contents |-> None]
  /\ lock = [v \in Contents |-> None]
  /\ rewrites = 0 /\ crashes = 0 /\ evictions = 0 /\ short = {} /\ ailed = {}
  /\ refused = {}

MoreFaults == rewrites + crashes + evictions + Cardinality(short) < MaxFaults

-------------------------------------------------------------------------------
(* cluster/client.rs                                                       *)

Goto(c, label) == cpc' = [cpc EXCEPT ![c] = label]

\* A request is sent and a thread of the builder takes it.
Request(h, label) ==
  /\ hpc' = [hpc EXCEPT ![h] = "arrived"]
  /\ conn' = [conn EXCEPT ![h] = "open"]
  /\ Goto(h[1], label)

\* The client is done with the connection; what comes later is lost.
Close(h) ==
  /\ conn' = [conn EXCEPT ![h] = "closed"]
  /\ ans' = [ans EXCEPT ![h] = None]

\* compile_remote up to its first request: without an identifier or an
\* endpoint, and for a step that makes a header, the step is compiled locally.
Start(c) ==
  /\ cpc[c] = "start"
  /\ \/ Goto(c, "local")
     \/ kind[c] = "plain" /\ Goto(c, "task")
     \/ kind[c] = "uses" /\ Goto(c, "hash")
  /\ UNCHANGED <<input, hash, sent, object, result, via, header, handler, files, faults, refused>>

\* upload_precompiled: file_hash, which may fail, then HEAD.
AskHeader(c) ==
  /\ cpc[c] = "hash"
  /\ \/ /\ hash' = [hash EXCEPT ![c] = header]
        /\ Request(<<c, "head">>, "asked")
     \/ Goto(c, "local") /\ UNCHANGED <<hash, hpc, conn>>
  /\ UNCHANGED <<input, sent, object, result, via, header, got, ans, files, faults, refused>>

\* The answer to HEAD; anything but OK or Accepted makes it upload the file.
HeadAnswered(c) ==
  LET h == <<c, "head">> IN
  /\ cpc[c] = "asked" /\ conn[h] = "open" /\ ans[h] # None
  /\ Goto(c, IF ans[h] \in {"ok", "accepted"} THEN "task" ELSE "upload")
  /\ Close(h)
  /\ UNCHANGED <<input, hash, sent, object, result, via, header, hpc, got, files, faults, refused>>

\* Opens the file, which may fail and need not be the one that was hashed, and
\* posts it.
Upload(c) ==
  /\ cpc[c] = "upload"
  /\ \/ /\ sent' = [sent EXCEPT ![c] = header]
        /\ Request(<<c, "upload">>, "uploading")
     \/ Goto(c, "local") /\ UNCHANGED <<sent, hpc, conn>>
  /\ UNCHANGED <<input, hash, object, result, via, header, got, ans, files, faults, refused>>

\* Mutant: only an answer of success is waited for.
UploadedWell(c) ==
  LET h == <<c, "upload">> IN
  /\ cpc[c] = "uploading" /\ conn[h] = "open" /\ ans[h] \in {"ok", "accepted"}
  /\ Goto(c, "task")
  /\ Close(h)
  /\ UNCHANGED <<input, hash, sent, object, result, via, header, hpc, got, files, faults, refused>>

\* Anything but OK or Accepted ends the attempt.
Uploaded(c) ==
  LET h == <<c, "upload">> IN
  /\ cpc[c] = "uploading" /\ conn[h] = "open" /\ ans[h] # None
  /\ Goto(c, IF ans[h] \in {"ok", "accepted"} THEN "task" ELSE "local")
  /\ Close(h)
  /\ UNCHANGED <<input, hash, sent, object, result, via, header, hpc, got, files, faults, refused>>

\* The compile request.
PostTask(c) ==
  /\ cpc[c] = "task"
  /\ Request(<<c, "task">>, "compiling")
  /\ UNCHANGED <<input, hash, sent, object, result, via, header, got, ans, files, faults, refused>>

Return(c, r, by) ==
  /\ result' = [result EXCEPT ![c] = r]
  /\ via' = [via EXCEPT ![c] = by]
  /\ Goto(c, "done")

\* Mutant: errors of write_output are dropped.
WriteUnchecked(c, obj) ==
  /\ \E o \in {obj, None} : object' = [object EXCEPT ![c] = o]
  /\ Return(c, "ok", "remote") /\ UNCHANGED short

\* write_output of a success: create() or write() fail, which removes the file
\* and compiles locally, or write() takes all or, unnoticed, a part.
WriteSuccess(c, obj) ==
  \/ /\ object' = [object EXCEPT ![c] = obj]
     /\ Return(c, "ok", "remote") /\ UNCHANGED short
  \/ Goto(c, "local") /\ UNCHANGED <<object, result, via, short>>
  \/ /\ MoreFaults
     /\ object' = [object EXCEPT ![c] = Torn] /\ short' = short \cup {c}
     /\ Return(c, "ok", "remote")

\* write_output of a failure: remove_file, which is an error, and so a local
\* compilation, if an older build has left no output.
WriteFailure(c) ==
  /\ \/ Goto(c, "local") /\ UNCHANGED <<result, via>>
     \/ Return(c, "fail", "remote")
  /\ UNCHANGED <<object, short>>

\* The answer to the task.  An error page does not deserialize.
Compiled(c) ==
  LET h == <<c, "task">> IN
  /\ cpc[c] = "compiling" /\ conn[h] = "open" /\ ans[h] # None
  /\ Close(h)
  /\ CASE ans[h] = "error" -> /\ Goto(c, "local")
                              /\ UNCHANGED <<object, result, via, short>>
       [] ans[h] = "Err" -> /\ Return(c, "Err", "remote")
                            /\ UNCHANGED <<object, short>>
       [] ans[h] = "fail" -> WriteFailure(c)
       [] ans[h] = "success" -> WriteSuccess(c, Object(c, got[h]))
  /\ UNCHANGED <<input, hash, sent, header, hpc, got, files, rewrites, crashes, evictions, ailed, refused>>

\* A call fails: the builder is gone, the connection broke, or 30 s are over.
\* What the builder does for it is not cancelled.
CallFails(c) ==
  \E h \in {<<c, "head">>, <<c, "upload">>, <<c, "task">>} :
    /\ conn[h] # "closed"
    /\ Close(h)
    /\ Goto(c, "local")
    /\ UNCHANGED <<input, hash, sent, object, result, via, header, hpc, got, files, faults, refused>>

\* local.compile_step, with the header as it is now.  A good source may fail
\* too: the compiler is killed, or the disk is full.
CompileLocal(c) ==
  /\ cpc[c] = "local"
  /\ LET v == IF kind[c] = "uses" THEN header ELSE None IN
     \/ /\ ~broken[c]
        /\ object' = [object EXCEPT ![c] = Object(c, v)]
        /\ Return(c, "ok", "local")
     \/ /\ \E r \in {"fail", "Err"} : Return(c, r, "local")
        /\ UNCHANGED object
  /\ UNCHANGED <<input, hash, sent, header, handler, files, faults, refused>>

Client(c) ==
  \/ Start(c) \/ AskHeader(c) \/ HeadAnswered(c) \/ Upload(c) \/ Uploaded(c)
  \/ PostTask(c) \/ Compiled(c) \/ CompileLocal(c)

-------------------------------------------------------------------------------
(* bin/octo_builder.rs                                                     *)

\* is_valid_sha256 of the hash a client has computed.
ValidHash == HashLen = validLen

\* The handler responds and its thread is done.
Answer(h, a) ==
  /\ ans' = [ans EXCEPT ![h] = IF conn[h] = "open" THEN a ELSE None]
  /\ hpc' = [hpc EXCEPT ![h] = "off"]

\* RpcBuilderUploadHandler, for HEAD and POST, up to the lock.
UploadArrives(h) ==
  LET v == hash[h[1]] IN
  /\ hpc[h] = "arrived" /\ h[2] \in {"head", "upload"}
  /\ \/ ~ValidHash /\ Answer(h, "bad") /\ refused' = refused \cup {v}
     \/ ValidHash /\ pch[v] # None /\ Answer(h, "accepted") /\ UNCHANGED refused
     \/ /\ ValidHash /\ pch[v] = None /\ h[2] = "head"
        /\ Answer(h, "notfound") /\ UNCHANGED refused
     \/ /\ ValidHash /\ pch[v] = None /\ h[2] = "upload"
        /\ hpc' = [hpc EXCEPT ![h] = "lock"] /\ UNCHANGED <<ans, refused>>
  /\ UNCHANGED <<input, client, header, got, conn, files, faults>>

\* Mutant: the lock is not waited for.
LockAnyway(h) == TRUE

\* lock() of the hash's Mutex, which get_precompiled finds or makes.
CanLock(h) == lock[hash[h[1]]] = None

\* Mutant: an error path forgets the lock.
FailLocked(h, a) ==
  /\ tmp' = [tmp EXCEPT ![hash[h[1]]] = None]
  /\ UNCHANGED lock
  /\ Answer(h, a)

\* An early return under the lock: the temporary file is removed and the lock
\* released before the error is sent.
Fail(h, a) ==
  /\ tmp' = [tmp EXCEPT ![hash[h[1]]] = None]
  /\ lock' = [lock EXCEPT ![hash[h[1]]] = None]
  /\ Answer(h, a)

\* Under the lock the header is looked for once more; then HASH.tmp is created,
\* which may fail.
UploadCreates(h) ==
  LET v == hash[h[1]] IN
  /\ hpc[h] = "lock" /\ CanLock(h)
  /\ \/ pch[v] # None /\ Answer(h, "accepted") /\ UNCHANGED <<tmp, lock>>
     \/ pch[v] = None /\ Fail(h, "error")
     \/ /\ pch[v] = None
        /\ lock' = [lock EXCEPT ![v] = h]
        /\ tmp' = [tmp EXCEPT ![v] = Torn]
        /\ hpc' = [hpc EXCEPT ![h] = "receive"]
        /\ UNCHANGED ans
  /\ UNCHANGED <<input, client, header, got, conn, pch, faults, refused>>

\* What a client's body can turn out to be: the file it opened, if all of it has
\* come; a mixture if the file is rewritten meanwhile; a part of it if the
\* connection is gone.
Bodies(h) ==
  {sent[h[1]]} \cup (IF conn[h] = "closed" \/ header # sent[h[1]] THEN {Torn} ELSE {})

\* Mutant: the hash is not compared.
Trusted(h, body) == TRUE

\* The digest of what was received is the hash in the request.
Matches(h, body) == body = hash[h[1]]

\* The read loop and the comparison: an error of read() or write(), or a body
\* that is not the promised one, ends the upload.  What a short write() leaves
\* out of the file is hashed all the same.  The file may have been unlinked.
UploadReceives(h) ==
  LET v == hash[h[1]] IN
  /\ hpc[h] = "receive"
  /\ \/ Fail(h, "error") /\ UNCHANGED short
     \/ \E body \in Bodies(h) : ~Matches(h, body) /\ Fail(h, "bad") /\ UNCHANGED short
     \/ \E body \in Bodies(h), cut \in BOOLEAN :
          /\ Matches(h, body) /\ (cut => MoreFaults)
          /\ tmp' = [tmp EXCEPT ![v] = IF @ = None THEN None ELSE IF cut THEN Torn ELSE body]
          /\ short' = IF cut THEN short \cup {v} ELSE short
          /\ hpc' = [hpc EXCEPT ![h] = "rename"]
          /\ UNCHANGED <<ans, lock>>
  /\ UNCHANGED <<input, client, header, got, conn, pch, rewrites, crashes, evictions, ailed, refused>>

\* rename() to HASH.pch.  It fails if the temporary file is gone, or for its
\* own reasons; that is an error unless the header is there.  Then drop(lock)
\* and the response.
UploadRenames(h) ==
  LET v == hash[h[1]] IN
  /\ hpc[h] = "rename"
  /\ \/ pch[v] = None /\ Fail(h, "error") /\ UNCHANGED pch
     \/ /\ \/ /\ tmp[v] # None
              /\ pch' = [pch EXCEPT ![v] = tmp[v]]
              /\ tmp' = [tmp EXCEPT ![v] = None]
           \/ pch[v] # None /\ UNCHANGED <<pch, tmp>>
        /\ lock' = [lock EXCEPT ![v] = None]
        /\ ans' = [ans EXCEPT ![h] = IF conn[h] = "open" THEN "ok" ELSE None]
        /\ hpc' = [hpc EXCEPT ![h] = "drop"]
  /\ UNCHANGED <<input, client, header, got, conn, faults, refused>>

\* Only now TempFile is dropped: HASH.tmp is removed without the lock.
UploadDrops(h) ==
  /\ hpc[h] = "drop"
  /\ tmp' = [tmp EXCEPT ![hash[h[1]]] = None]
  /\ hpc' = [hpc EXCEPT ![h] = "off"]
  /\ UNCHANGED <<input, client, header, got, conn, ans, pch, lock, faults, refused>>

\* RpcBuilderTaskHandler up to the compilation: the header must be known; a
\* toolchain that is not panics, which closes the connection.
TaskArrives(h) ==
  LET v == hash[h[1]] IN
  /\ hpc[h] = "arrived" /\ h[2] = "task"
  /\ IF v # None /\ (~ValidHash \/ pch[v] = None)
       THEN Answer(h, "error")
       ELSE \/ hpc' = [hpc EXCEPT ![h] = "compile"] /\ UNCHANGED ans
            \/ hpc' = [hpc EXCEPT ![h] = "off"] /\ UNCHANGED ans
  /\ refused' = IF v # None /\ ~ValidHash THEN refused \cup {v} ELSE refused
  /\ UNCHANGED <<input, client, header, got, conn, files, faults>>

\* HASH.pch as it is now, for a task that names one.
Used(h) == IF hash[h[1]] = None THEN None ELSE pch[hash[h[1]]]

\* The compiler refuses the source, or a header that is gone or truncated.
CompilerFails(h) ==
  broken[h[1]] \/ (hash[h[1]] # None /\ Used(h) \in {None, Torn})

\* compile_memory.  The compiler does its work, or it fails: because of what it
\* was given, or else of the builder, where it may be killed or the disk full.
\* A failed compilation is an answer like any other, and so is an Err, where the
\* compiler cannot be run or the object file not be read.
TaskCompiles(h) ==
  /\ hpc[h] = "compile"
  /\ \/ /\ ~broken[h[1]] /\ (hash[h[1]] # None => Used(h) # None)
        /\ Answer(h, "success") /\ got' = [got EXCEPT ![h] = Used(h)]
        /\ UNCHANGED ailed
     \/ /\ \E a \in {"fail", "Err"} : Answer(h, a)
        /\ ailed' = IF CompilerFails(h) THEN ailed ELSE ailed \cup {h[1]}
        /\ UNCHANGED got
  /\ UNCHANGED <<input, client, header, conn, files, rewrites, crashes, evictions, short, refused>>

Handler(h) ==
  \/ UploadArrives(h) \/ UploadCreates(h) \/ UploadReceives(h)
  \/ UploadRenames(h) \/ UploadDrops(h)
  \/ TaskArrives(h) \/ TaskCompiles(h)

-------------------------------------------------------------------------------
(* The surroundings                                                        *)

\* The builder is restarted; its files remain.
Restart ==
  /\ MoreFaults
  /\ crashes' = crashes + 1
  /\ hpc' = [h \in Handlers |-> "off"]
  /\ lock' = [v \in Contents |-> None]
  /\ UNCHANGED <<input, client, header, got, conn, ans, pch, tmp, rewrites, evictions, short, ailed, refused>>

\* cleanup() of a client on the builder's host: both processes use cache_dir.
Evict(v) ==
  /\ MoreFaults
  /\ evictions' = evictions + 1
  /\ \/ pch[v] # None /\ pch' = [pch EXCEPT ![v] = None] /\ UNCHANGED tmp
     \/ tmp[v] # None /\ tmp' = [tmp EXCEPT ![v] = None] /\ UNCHANGED pch
  /\ UNCHANGED <<input, client, header, handler, lock, rewrites, crashes, short, ailed, refused>>

Rewrite(v) ==
  /\ MoreFaults /\ v # header
  /\ rewrites' = rewrites + 1
  /\ header' = v
  /\ UNCHANGED <<input, client, handler, files, crashes, evictions, short, ailed, refused>>

AllDone ==
  /\ \A c \in Clients : cpc[c] = "done"
  /\ \A h \in Handlers : hpc[h] = "off"
  /\ UNCHANGED vars

Next ==
  \/ \E c \in Clients : Client(c) \/ CallFails(c)
  \/ \E h \in Handlers : Handler(h)
  \/ Restart
  \/ \E v \in Contents : Evict(v) \/ Rewrite(v)
  \/ AllDone

\* A request nobody will answer: TCP reports it, or the timeout does.
CallLost(c) ==
  /\ \E h \in Handlers : h[1] = c /\ conn[h] # "closed" /\ hpc[h] = "off" /\ ans[h] = None
  /\ CallFails(c)

\* The threads of the clients and of the builder run.
Progress ==
  \/ \E c \in Clients : Client(c) \/ CallLost(c)
  \/ \E h \in Handlers : Handler(h)

Spec == Init /\ [][Next]_vars
FairSpec == Spec /\ WF_vars(Progress)

-------------------------------------------------------------------------------
\* Types.
TypeOK ==
  /\ cpc \in [Clients -> {"start", "hash", "asked", "upload", "uploading", "task",
                          "compiling", "local", "done"}]
  /\ hash \in [Clients -> Contents \cup {None}] /\ sent \in [Clients -> Contents \cup {None}]
  /\ object \in [Clients -> {None, Torn} \cup [source : Clients, header : Contents \cup {None, Torn}]]
  /\ result \in [Clients -> {"none", "ok", "fail", "Err"}]
  /\ via \in [Clients -> {"none", "remote", "local"}]
  /\ header \in Contents
  /\ hpc \in [Handlers -> {"off", "arrived", "lock", "receive", "rename", "drop", "compile"}]
  /\ got \in [Handlers -> Contents \cup {None, Torn}]
  /\ conn \in [Handlers -> {"closed", "open"}]
  /\ ans \in [Handlers -> {None, "ok", "accepted", "bad", "notfound", "error", "success", "fail", "Err"}]
  /\ pch \in [Contents -> Contents \cup {None, Torn}]
  /\ tmp \in [Contents -> Contents \cup {None, Torn}]
  /\ lock \in [Contents -> Handlers \cup {None}]
  /\ rewrites \in Nat /\ crashes \in Nat /\ evictions \in Nat /\ ailed \subseteq Clients

\* A header is stored under its own hash only, whatever is cut off, rewritten,
\* restarted or removed while it is uploaded, unless write() was short.
StoredGenuine == \A v \in Contents : pch[v] # None /\ v \notin short => pch[v] = v

Writing(h) == hpc[h] \in {"receive", "rename"}

\* "Don't upload same file in multiple threads."
OneWriter ==
  \A g, h \in Handlers : Writing(g) /\ Writing(h) /\ hash[g[1]] = hash[h[1]] => g = h

\* A remote success is the client's own source compiled with the very header it
\* had hashed, and is in the output file, unless a write() was short.
RemoteSameAsLocal ==
  \A c \in Clients :
    result[c] = "ok" /\ via[c] = "remote" /\ {c, hash[c]} \cap short = {} =>
      ~broken[c] /\ object[c] = Object(c, hash[c])

\* A good source fails by way of a builder, with a failing status or with Err,
\* only if its header was removed or truncated there or its own compiler went
\* wrong on the builder.  In that last case the call fails although a local
\* compilation might not: only errors of the request itself lead to one.
RemoteFailureCaused ==
  \A c \in Clients :
    result[c] \in {"fail", "Err"} /\ via[c] = "remote" /\ evictions = 0 /\ short = {} =>
      broken[c] \/ c \in ailed

\* No thread keeps a lock, and none but a killed one its temporary file.  Taken
\* as given: the removal succeeds, whose failure TempFile::drop ignores.
NothingLeft ==
  \A v \in Contents :
    /\ lock[v] # None => hpc[lock[v]] \notin {"off", "drop"} /\ hash[lock[v][1]] = v
    /\ tmp[v] # None /\ crashes = 0 => \E h \in Handlers : hash[h[1]] = v /\ Writing(h)

\* A hash is refused as invalid only if it is none: never a client's own, which
\* hash_stream has computed.
ValidHashAccepted == refused = {}

\* Every call returns, also if its builder disappears.
Returns == <>(\A c \in Clients : cpc[c] = "done")

===============================================================================
