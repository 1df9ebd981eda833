-------------------------- MODULE RemoteCompileProofs -------------------------
(***************************************************************************)
(* For any number of calls of compile_step that share a builder, any        *)
(* headers and any rewrites, restarts, evictions and broken connections:    *)
(* headers are stored under their own hash by one thread at a time, and a   *)
(* remote result is what the call would have compiled itself.               *)
(***************************************************************************)
EXTENDS RemoteCompile, TLAPS

-------------------------------------------------------------------------------
(* The inductive invariant                                                 *)

\* A handler runs only for a request its client has made, and by then the
\* client has hashed its header.
Requested ==
  \A h \in Handlers : hpc[h] # "off" =>
    /\ cpc[h[1]] \notin {"start", "hash"}
    /\ h[2] = "upload" => cpc[h[1]] \notin {"asked", "upload"}
    /\ h[2] = "task" => cpc[h[1]] \notin {"asked", "upload", "uploading", "task"}
    /\ h[2] # "task" => hash[h[1]] \in Contents

\* A client waits for one answer at a time, and what it does not wait for is lost.
Waiting ==
  \A h \in Handlers :
    /\ conn[h] # "closed" =>
         /\ h[2] = "head" => cpc[h[1]] = "asked"
         /\ h[2] = "upload" => cpc[h[1]] = "uploading"
         /\ h[2] = "task" => cpc[h[1]] = "compiling"
    /\ conn[h] = "closed" => ans[h] = None

\* The client's own progress.
Progressed ==
  \A c \in Clients :
    /\ cpc[c] \in {"asked", "upload", "uploading"} => hash[c] \in Contents
    /\ result[c] # "none" => cpc[c] = "done"

\* Which handler is where.
Placed ==
  \A h \in Handlers :
    /\ hpc[h] \in {"lock", "receive", "rename", "drop"} => h[2] # "task"
    /\ hpc[h] = "compile" => h[2] = "task"

\* Who writes HASH.tmp holds the lock of the hash, and there is no HASH.pch.
Held ==
  \A h \in Handlers : Writing(h) => lock[hash[h[1]]] = h /\ pch[hash[h[1]]] = None

\* A lock is held by a thread that writes.
Owned == \A v \in Contents : lock[v] # None => Writing(lock[v]) /\ hash[lock[v][1]] = v

\* The temporary file belongs to a thread that writes, unless one was killed.
TmpOwned ==
  \A v \in Contents : tmp[v] # None /\ crashes = 0 => \E h \in Handlers : hash[h[1]] = v /\ Writing(h)

\* What is about to be renamed is what was promised, or gone.
TmpGenuine ==
  \A h \in Handlers : hpc[h] = "rename" /\ hash[h[1]] \notin short => tmp[hash[h[1]]] \in {None, hash[h[1]]}

\* A task found its header, which only an eviction removes.
HeaderThere ==
  \A h \in Handlers : hpc[h] = "compile" /\ hash[h[1]] # None /\ evictions = 0 => pch[hash[h[1]]] # None

\* What a handler has answered to a task.
AnswerGenuine ==
  \A h \in Handlers : h[2] = "task" /\ ans[h] # None =>
    /\ ans[h] \in {"error", "Err", "fail", "success"}
    /\ ans[h] = "success" => ~broken[h[1]] /\ (hash[h[1]] \notin short => got[h] = hash[h[1]])
    /\ ans[h] \in {"fail", "Err"} /\ evictions = 0 /\ short = {} => broken[h[1]] \/ h[1] \in ailed

IndInv ==
  /\ TypeOK /\ Requested /\ Waiting /\ Progressed /\ Placed
  /\ Held /\ Owned /\ TmpOwned /\ TmpGenuine /\ HeaderThere /\ AnswerGenuine
  /\ StoredGenuine /\ RemoteSameAsLocal /\ RemoteFailureCaused

-------------------------------------------------------------------------------
(* Handlers are pairs                                                      *)

\* A handler is a call and a kind of request, and nothing else.
LEMMA Pairs ==
  /\ \A c \in Clients, k \in {"head", "upload", "task"} :
       <<c, k>> \in Handlers /\ <<c, k>>[1] = c /\ <<c, k>>[2] = k
  /\ \A h \in Handlers : h[1] \in Clients /\ h[2] \in {"head", "upload", "task"}
  /\ \A g, h \in Handlers : g[1] = h[1] /\ g[2] = h[2] => g = h
BY DEF Handlers

\* No call has begun and the builder holds no header.
LEMMA InitEstablishes == Init => IndInv
<1> SUFFICES ASSUME Init PROVE IndInv
  OBVIOUS
<1> USE DEF Init
<1>1. TypeOK
  BY OriginalsKnown DEF TypeOK
<1>2. Requested /\ Waiting /\ Progressed /\ Placed
  BY Pairs DEF Requested, Waiting, Progressed, Placed
<1>3. Held /\ Owned /\ TmpOwned /\ TmpGenuine /\ HeaderThere /\ AnswerGenuine
  BY Pairs DEF Held, Owned, TmpOwned, TmpGenuine, HeaderThere, AnswerGenuine, Writing
<1>4. StoredGenuine /\ RemoteSameAsLocal /\ RemoteFailureCaused
  BY DEF StoredGenuine, RemoteSameAsLocal, RemoteFailureCaused
<1> QED BY <1>1, <1>2, <1>3, <1>4 DEF IndInv

-------------------------------------------------------------------------------
(* The client                                                              *)

\* Parts of the invariant that only handlers and faults can disturb.
LEMMA FilesFrame ==
  ASSUME IndInv, UNCHANGED <<hpc, hash, files, crashes, evictions, short>>
  PROVE  Held' /\ Owned' /\ TmpOwned' /\ TmpGenuine' /\ HeaderThere' /\ StoredGenuine' /\ Placed'
<1>1. UNCHANGED <<pch, tmp, lock>>
  BY DEF files
<1>2. Held' /\ Owned' /\ TmpOwned'
  BY <1>1 DEF IndInv, Held, Owned, TmpOwned, Writing
<1>3. TmpGenuine' /\ HeaderThere' /\ StoredGenuine' /\ Placed'
  BY <1>1 DEF IndInv, TmpGenuine, HeaderThere, StoredGenuine, Placed
<1> QED BY <1>2, <1>3

\* A client that only moves on, without request, answer or result.
LEMMA StartPreserves ==
  ASSUME IndInv, NEW c \in Clients, Start(c)
  PROVE  IndInv'
<1> USE DEF IndInv, Start, Goto, handler, faults, files
<1>1. TypeOK'
  BY DEF TypeOK
<1>2. cpc[c] = "start" /\ cpc'[c] \in {"local", "task", "hash"} /\ \A d \in Clients \ {c} : cpc'[d] = cpc[d]
  BY DEF TypeOK
<1>3. Requested' /\ Waiting'
  BY <1>2, Pairs DEF Requested, Waiting, TypeOK
<1>4. Progressed'
  BY <1>2 DEF Progressed
<1>5. Held' /\ Owned' /\ TmpOwned' /\ TmpGenuine' /\ HeaderThere' /\ StoredGenuine' /\ Placed'
  BY FilesFrame
<1>6. AnswerGenuine' /\ RemoteSameAsLocal' /\ RemoteFailureCaused'
  BY DEF AnswerGenuine, RemoteSameAsLocal, RemoteFailureCaused, input
<1> QED BY <1>1, <1>3, <1>4, <1>5, <1>6

\* A new request disturbs no handler at work.
LEMMA RequestFrame ==
  ASSUME IndInv, NEW h \in Handlers, hpc[h] = "off", hpc' = [hpc EXCEPT ![h] = "arrived"],
         UNCHANGED <<pch, tmp, lock, crashes, evictions, short>>,
         \A g \in Handlers : hpc[g] # "off" => hash'[g[1]] = hash[g[1]]
  PROVE  Held' /\ Owned' /\ TmpOwned' /\ TmpGenuine' /\ HeaderThere' /\ StoredGenuine' /\ Placed'
<1>0. /\ hpc'[h] = "arrived"
      /\ \A g \in Handlers \ {h} : hpc'[g] = hpc[g]
      /\ \A g \in Handlers : Writing(g)' <=> Writing(g)
  BY DEF IndInv, TypeOK, Writing
<1>1. \A g \in Handlers : Writing(g) => hash'[g[1]] = hash[g[1]]
  BY DEF Writing
<1>2. Held'
  BY <1>0, <1>1 DEF IndInv, Held
<1>3. Owned'
  BY <1>0, <1>1 DEF IndInv, Owned, TypeOK
<1>4. TmpOwned'
  BY <1>0, <1>1 DEF IndInv, TmpOwned
<1>5. TmpGenuine' /\ HeaderThere'
  BY <1>0 DEF IndInv, TmpGenuine, HeaderThere
<1>6. StoredGenuine' /\ Placed'
  BY <1>0 DEF IndInv, StoredGenuine, Placed
<1> QED BY <1>2, <1>3, <1>4, <1>5, <1>6

\* The hash is known before any request is made.
LEMMA AskHeaderPreserves ==
  ASSUME IndInv, NEW c \in Clients, AskHeader(c)
  PROVE  IndInv'
<1> USE DEF IndInv
<1>1. CASE Goto(c, "local") /\ UNCHANGED <<hash, hpc, conn>>
  <2> USE <1>1 DEF AskHeader, Goto, faults, files
  <2>1. TypeOK'
    BY DEF TypeOK
  <2>2. cpc[c] = "hash" /\ cpc'[c] = "local" /\ \A d \in Clients \ {c} : cpc'[d] = cpc[d]
    BY DEF TypeOK
  <2>3. Requested' /\ Waiting'
    BY <2>2, Pairs DEF Requested, Waiting, TypeOK
  <2>4. Progressed'
    BY <2>2 DEF Progressed
  <2>5. Held' /\ Owned' /\ TmpOwned' /\ TmpGenuine' /\ HeaderThere' /\ StoredGenuine' /\ Placed'
    BY FilesFrame
  <2>6. AnswerGenuine' /\ RemoteSameAsLocal' /\ RemoteFailureCaused'
    BY DEF AnswerGenuine, RemoteSameAsLocal, RemoteFailureCaused, input
  <2> QED BY <2>1, <2>3, <2>4, <2>5, <2>6
<1>2. CASE hash' = [hash EXCEPT ![c] = header] /\ Request(<<c, "head">>, "asked")
  <2> DEFINE h == <<c, "head">>
  <2>0. h \in Handlers /\ h[1] = c /\ h[2] = "head"
    BY Pairs
  <2>1. /\ cpc[c] = "hash" /\ cpc' = [cpc EXCEPT ![c] = "asked"] /\ hash' = [hash EXCEPT ![c] = header]
        /\ hpc' = [hpc EXCEPT ![h] = "arrived"] /\ conn' = [conn EXCEPT ![h] = "open"]
        /\ UNCHANGED <<kind, broken, validLen, sent, object, result, via, header, got, ans, pch, tmp, lock,
                        rewrites, crashes, evictions, short, ailed, refused>>
    BY <1>2, <2>0 DEF AskHeader, Request, Goto, faults, files, input
  <2> HIDE DEF h
  <2>2. TypeOK'
    BY <2>0, <2>1 DEF TypeOK
  <2>3. \A g \in Handlers : g[1] = c => hpc[g] = "off" /\ ans[g] = None
    BY <2>1, Pairs DEF Requested, Waiting, TypeOK
  <2>4. \A d \in Clients \ {c} : cpc'[d] = cpc[d] /\ hash'[d] = hash[d]
    BY <2>1 DEF TypeOK
  <2>5. Requested'
    BY <2>0, <2>1, <2>3, <2>4, Pairs DEF Requested, TypeOK
  <2>6. Waiting'
    BY <2>0, <2>1, <2>3, <2>4, Pairs DEF Waiting, TypeOK
  <2>7. Progressed'
    BY <2>1, <2>4 DEF Progressed, TypeOK
  <2>8. Held' /\ Owned' /\ TmpOwned' /\ TmpGenuine' /\ HeaderThere' /\ StoredGenuine' /\ Placed'
    <3>1. \A g \in Handlers : hpc[g] # "off" => hash'[g[1]] = hash[g[1]]
      BY <2>3, <2>4, Pairs
    <3> QED BY <2>0, <2>1, <2>3, <3>1, RequestFrame
  <2>9. AnswerGenuine'
    BY <2>1, <2>3, <2>4, Pairs DEF AnswerGenuine
  <2>10. RemoteSameAsLocal' /\ RemoteFailureCaused'
    <3>1. \A d \in Clients : result[d] # "none" => d # c
      BY <2>1 DEF Progressed
    <3> QED BY <2>1, <2>4, <3>1 DEF RemoteSameAsLocal, RemoteFailureCaused
  <2> QED BY <2>2, <2>5, <2>6, <2>7, <2>8, <2>9, <2>10
<1> QED BY <1>1, <1>2 DEF AskHeader

\* An answer is taken, or a call given up: nothing is left of the connection.
LEMMA ClosePreserves ==
  ASSUME IndInv, NEW c \in Clients, NEW h \in Handlers, h[1] = c, conn[h] # "closed", Close(h),
         NEW label \in {"upload", "task", "local"}, Goto(c, label),
         label = "upload" => h[2] = "head", label = "task" => h[2] \in {"head", "upload"},
         UNCHANGED <<input, hash, sent, object, result, via, header, hpc, got, files, faults, refused>>
  PROVE  IndInv'
<1> USE DEF IndInv, files, faults, input
<1>1. TypeOK'
  BY DEF TypeOK, Goto, Close
<1>2. /\ cpc'[c] = label /\ (\A d \in Clients \ {c} : cpc'[d] = cpc[d])
      /\ conn'[h] = "closed" /\ ans'[h] = None
      /\ \A g \in Handlers \ {h} : conn'[g] = conn[g] /\ ans'[g] = ans[g]
  BY DEF TypeOK, Goto, Close
<1>3. \A g \in Handlers \ {h} : g[1] = c => conn[g] = "closed"
  BY Pairs DEF Waiting
<1>4. Requested'
  BY <1>2, Pairs DEF Requested, Waiting
<1>5. Waiting'
  BY <1>2, <1>3, Pairs DEF Waiting
<1>6. Progressed'
  BY <1>2, Pairs DEF Progressed, Waiting
<1>7. Held' /\ Owned' /\ TmpOwned' /\ TmpGenuine' /\ HeaderThere' /\ StoredGenuine' /\ Placed'
  BY FilesFrame
<1>8. AnswerGenuine'
  BY <1>2 DEF AnswerGenuine
<1>9. RemoteSameAsLocal' /\ RemoteFailureCaused'
  BY DEF RemoteSameAsLocal, RemoteFailureCaused
<1> QED BY <1>1, <1>4, <1>5, <1>6, <1>7, <1>8, <1>9

\* The client reads whether the builder has the header.
LEMMA HeadAnsweredPreserves ==
  ASSUME IndInv, NEW c \in Clients, HeadAnswered(c)
  PROVE  IndInv'
<1> DEFINE h == <<c, "head">>
           label == IF ans[h] \in {"ok", "accepted"} THEN "task" ELSE "upload"
<1>1. h \in Handlers /\ h[1] = c /\ h[2] = "head"
  BY Pairs
<1>2. /\ conn[h] # "closed" /\ Close(h) /\ Goto(c, label)
      /\ UNCHANGED <<input, hash, sent, object, result, via, header, hpc, got, files, faults, refused>>
  BY DEF HeadAnswered
<1>3. label \in {"upload", "task", "local"}
  OBVIOUS
<1> HIDE DEF h, label
<1> QED BY <1>1, <1>2, <1>3, ClosePreserves

\* The client reads the answer to its upload.
LEMMA UploadedPreserves ==
  ASSUME IndInv, NEW c \in Clients, Uploaded(c)
  PROVE  IndInv'
<1> DEFINE h == <<c, "upload">>
           label == IF ans[h] \in {"ok", "accepted"} THEN "task" ELSE "local"
<1>1. h \in Handlers /\ h[1] = c /\ h[2] = "upload"
  BY Pairs
<1>2. /\ conn[h] # "closed" /\ Close(h) /\ Goto(c, label)
      /\ UNCHANGED <<input, hash, sent, object, result, via, header, hpc, got, files, faults, refused>>
  BY DEF Uploaded
<1>3. label \in {"task", "local"}
  OBVIOUS
<1> HIDE DEF h, label
<1> QED BY <1>1, <1>2, <1>3, ClosePreserves

\* A call that fails ends the remote attempt.
LEMMA CallFailsPreserves ==
  ASSUME IndInv, NEW c \in Clients, CallFails(c)
  PROVE  IndInv'
<1>1. PICK h \in {<<c, "head">>, <<c, "upload">>, <<c, "task">>} :
        /\ conn[h] # "closed" /\ Close(h) /\ Goto(c, "local")
        /\ UNCHANGED <<input, hash, sent, object, result, via, header, hpc, got, files, faults, refused>>
  BY DEF CallFails
<1>2. PICK k \in {"head", "upload", "task"} : h = <<c, k>>
  OBVIOUS
<1>3. h \in Handlers /\ h[1] = c
  BY <1>2, Pairs
<1> QED BY <1>1, <1>3, ClosePreserves

\* Requests after the first.
LEMMA FurtherRequest ==
  ASSUME IndInv, NEW c \in Clients, NEW h \in Handlers, h[1] = c,
         hpc' = [hpc EXCEPT ![h] = "arrived"], conn' = [conn EXCEPT ![h] = "open"],
         \/ h[2] = "upload" /\ cpc[c] = "upload" /\ cpc' = [cpc EXCEPT ![c] = "uploading"]
         \/ h[2] = "task" /\ cpc[c] = "task" /\ cpc' = [cpc EXCEPT ![c] = "compiling"],
         sent' \in [Clients -> Contents \cup {None}],
         UNCHANGED <<input, hash, object, result, via, header, got, ans, files, faults, refused>>
  PROVE  IndInv'
<1> USE DEF IndInv, files, faults, input
<1>1. TypeOK'
  BY DEF TypeOK
<1>2. hpc[h] = "off" /\ \A g \in Handlers : g[1] = c => conn[g] = "closed"
  BY Pairs DEF Requested, Waiting
<1>3. /\ hpc'[h] = "arrived" /\ conn'[h] = "open"
      /\ \A g \in Handlers \ {h} : hpc'[g] = hpc[g] /\ conn'[g] = conn[g]
      /\ \A d \in Clients \ {c} : cpc'[d] = cpc[d]
      /\ \/ h[2] = "upload" /\ cpc'[c] = "uploading" /\ hash[c] \in Contents
         \/ h[2] = "task" /\ cpc'[c] = "compiling"
  BY DEF TypeOK, Progressed
<1>4. Requested'
  BY <1>3, Pairs DEF Requested
<1>5. Waiting'
  BY <1>2, <1>3, Pairs DEF Waiting
<1>6. Progressed'
  BY <1>3 DEF Progressed
<1>7. Held' /\ Owned' /\ TmpOwned' /\ TmpGenuine' /\ HeaderThere' /\ StoredGenuine' /\ Placed'
  BY <1>2, RequestFrame
<1>8. AnswerGenuine' /\ RemoteSameAsLocal' /\ RemoteFailureCaused'
  BY DEF AnswerGenuine, RemoteSameAsLocal, RemoteFailureCaused
<1> QED BY <1>1, <1>4, <1>5, <1>6, <1>7, <1>8

\* The client sends the header as it is now.
LEMMA UploadPreserves ==
  ASSUME IndInv, NEW c \in Clients, Upload(c)
  PROVE  IndInv'
<1>1. CASE Goto(c, "local") /\ UNCHANGED <<sent, hpc, conn>>
  <2> USE <1>1 DEF IndInv, Upload, Goto, faults, files
  <2>1. TypeOK'
    BY DEF TypeOK
  <2>2. cpc[c] = "upload" /\ cpc'[c] = "local" /\ \A d \in Clients \ {c} : cpc'[d] = cpc[d]
    BY DEF TypeOK
  <2>3. Requested' /\ Waiting'
    BY <2>2, Pairs DEF Requested, Waiting, TypeOK
  <2>4. Progressed'
    BY <2>2 DEF Progressed
  <2>5. Held' /\ Owned' /\ TmpOwned' /\ TmpGenuine' /\ HeaderThere' /\ StoredGenuine' /\ Placed'
    BY FilesFrame
  <2>6. AnswerGenuine' /\ RemoteSameAsLocal' /\ RemoteFailureCaused'
    BY DEF AnswerGenuine, RemoteSameAsLocal, RemoteFailureCaused, input
  <2> QED BY <2>1, <2>3, <2>4, <2>5, <2>6
<1>2. CASE sent' = [sent EXCEPT ![c] = header] /\ Request(<<c, "upload">>, "uploading")
  <2> DEFINE h == <<c, "upload">>
  <2>1. h \in Handlers /\ h[1] = c /\ h[2] = "upload"
    BY Pairs
  <2>2. sent' \in [Clients -> Contents \cup {None}]
    BY <1>2 DEF IndInv, TypeOK
  <2>3. /\ hpc' = [hpc EXCEPT ![h] = "arrived"] /\ conn' = [conn EXCEPT ![h] = "open"]
        /\ cpc[c] = "upload" /\ cpc' = [cpc EXCEPT ![c] = "uploading"]
        /\ UNCHANGED <<input, hash, object, result, via, header, got, ans, files, faults, refused>>
    BY <1>2, <2>1 DEF Upload, Request, Goto
  <2> HIDE DEF h
  <2> QED BY <2>1, <2>2, <2>3, FurtherRequest
<1> QED BY <1>1, <1>2 DEF Upload

\* The client sends the task with the hash of its header.
LEMMA PostTaskPreserves ==
  ASSUME IndInv, NEW c \in Clients, PostTask(c)
  PROVE  IndInv'
<1> DEFINE h == <<c, "task">>
<1>1. h \in Handlers /\ h[1] = c /\ h[2] = "task"
  BY Pairs
<1>2. sent' \in [Clients -> Contents \cup {None}]
  BY DEF IndInv, TypeOK, PostTask
<1>3. /\ hpc' = [hpc EXCEPT ![h] = "arrived"] /\ conn' = [conn EXCEPT ![h] = "open"]
      /\ cpc[c] = "task" /\ cpc' = [cpc EXCEPT ![c] = "compiling"]
      /\ UNCHANGED <<input, hash, object, result, via, header, got, ans, files, faults, refused>>
  BY <1>1 DEF PostTask, Request, Goto
<1> HIDE DEF h
<1> QED BY <1>1, <1>2, <1>3, FurtherRequest

\* The step returns a result, remote or local, that is as it should be.
LEMMA ReturnPreserves ==
  ASSUME IndInv, NEW c \in Clients, NEW r \in {"ok", "fail", "Err"}, NEW by \in {"remote", "local"},
         Return(c, r, by), cpc[c] \in {"compiling", "local"},
         \A g \in Handlers : g[1] = c => conn'[g] = "closed" /\ ans'[g] = None,
         \A g \in Handlers : g[1] # c => conn'[g] = conn[g] /\ ans'[g] = ans[g],
         conn' \in [Handlers -> {"closed", "open"}],
         ans' \in [Handlers -> {None, "ok", "accepted", "bad", "notfound", "error", "success", "fail", "Err"}],
         object' \in [Clients -> {None, Torn} \cup [source : Clients, header : Contents \cup {None, Torn}]],
         \A d \in Clients \ {c} : object'[d] = object[d],
         UNCHANGED short \/ short' = short \cup {c},
         r = "ok" /\ by = "remote" /\ {c, hash[c]} \cap short' = {} =>
           ~broken[c] /\ object'[c] = Object(c, hash[c]),
         r \in {"fail", "Err"} /\ by = "remote" /\ evictions = 0 /\ short' = {} => broken[c] \/ c \in ailed,
         UNCHANGED <<input, hash, sent, header, hpc, got, files, rewrites, crashes, evictions, ailed, refused>>
  PROVE  IndInv'
<1> USE DEF IndInv, files, input
<1>1. /\ cpc'[c] = "done" /\ result'[c] = r /\ via'[c] = by
      /\ \A d \in Clients \ {c} : cpc'[d] = cpc[d] /\ result'[d] = result[d] /\ via'[d] = via[d]
  BY DEF Return, Goto, TypeOK
<1>2. TypeOK'
  BY DEF TypeOK, Return, Goto
<1>3. Requested'
  BY <1>1, Pairs DEF Requested
<1>4. Waiting'
  BY <1>1, Pairs DEF Waiting
<1>5. Progressed'
  BY <1>1 DEF Progressed
<1>6. Held' /\ Owned' /\ TmpOwned' /\ Placed'
  BY DEF Held, Owned, TmpOwned, Placed, Writing
<1>7. TmpGenuine' /\ HeaderThere' /\ StoredGenuine'
  BY DEF TmpGenuine, HeaderThere, StoredGenuine
<1>8. AnswerGenuine'
  BY Pairs DEF AnswerGenuine
<1>9. RemoteSameAsLocal'
  <2> SUFFICES ASSUME NEW d \in Clients, result'[d] = "ok", via'[d] = "remote",
                      {d, hash'[d]} \cap short' = {}
               PROVE  ~broken'[d] /\ object'[d] = Object(d, hash[d])
    BY DEF RemoteSameAsLocal, Object
  <2>1. hash' = hash /\ broken' = broken
    OBVIOUS
  <2>2. CASE d = c
    BY <1>1, <2>1, <2>2
  <2>3. CASE d # c
    <3>1. result[d] = "ok" /\ via[d] = "remote" /\ {d, hash[d]} \cap short = {} /\ object'[d] = object[d]
      BY <1>1, <2>1, <2>3
    <3> QED BY <2>1, <3>1 DEF RemoteSameAsLocal
  <2> QED BY <2>2, <2>3
<1>10. RemoteFailureCaused'
  BY <1>1 DEF RemoteFailureCaused
<1> QED BY <1>2, <1>3, <1>4, <1>5, <1>6, <1>7, <1>8, <1>9, <1>10

\* The answer to a task: its object file is the one the call would have made
\* with the header it has hashed.
LEMMA CompiledPreserves ==
  ASSUME IndInv, NEW c \in Clients, Compiled(c)
  PROVE  IndInv'
<1> DEFINE h == <<c, "task">>
<1>1. h \in Handlers /\ h[1] = c /\ h[2] = "task"
  BY Pairs
<1>2. /\ cpc[c] = "compiling" /\ conn[h] = "open" /\ ans[h] # None /\ Close(h)
      /\ UNCHANGED <<input, hash, sent, header, hpc, got, files, rewrites, crashes, evictions, ailed, refused>>
  BY DEF Compiled
<1>3. /\ ans[h] \in {"error", "Err", "fail", "success"}
      /\ ans[h] = "success" => ~broken[c] /\ (hash[c] \notin short => got[h] = hash[c])
      /\ ans[h] \in {"fail", "Err"} /\ evictions = 0 /\ short = {} => broken[c] \/ c \in ailed
  BY <1>1, <1>2 DEF IndInv, AnswerGenuine
<1>4. \/ Goto(c, "local") /\ UNCHANGED <<object, result, via, short>>
      \/ ans[h] = "Err" /\ Return(c, "Err", "remote") /\ UNCHANGED <<object, short>>
      \/ ans[h] = "fail" /\ Return(c, "fail", "remote") /\ UNCHANGED <<object, short>>
      \/ /\ ans[h] = "success" /\ object' = [object EXCEPT ![c] = Object(c, got[h])]
         /\ Return(c, "ok", "remote") /\ UNCHANGED short
      \/ /\ object' = [object EXCEPT ![c] = Torn] /\ short' = short \cup {c}
         /\ Return(c, "ok", "remote")
  <2>1. CASE ans[h] = "error"
    BY <2>1 DEF Compiled
  <2>2. CASE ans[h] = "Err"
    BY <2>2 DEF Compiled
  <2>3. CASE ans[h] = "fail"
    BY <2>3 DEF Compiled, WriteFailure
  <2>4. CASE ans[h] = "success"
    BY <2>4 DEF Compiled, WriteSuccess
  <2> QED BY <1>3, <2>1, <2>2, <2>3, <2>4
<1> HIDE DEF h
<1>5. /\ \A g \in Handlers : g[1] = c => conn'[g] = "closed" /\ ans'[g] = None
      /\ \A g \in Handlers : g[1] # c => conn'[g] = conn[g] /\ ans'[g] = ans[g]
  <2>1. \A g \in Handlers \ {h} : g[1] = c => conn[g] = "closed" /\ ans[g] = None
    BY <1>1, <1>2, Pairs DEF IndInv, Waiting, TypeOK
  <2>2. /\ conn'[h] = "closed" /\ ans'[h] = None
        /\ \A g \in Handlers \ {h} : conn'[g] = conn[g] /\ ans'[g] = ans[g]
    BY <1>1, <1>2 DEF IndInv, TypeOK, Close
  <2> QED BY <1>1, <2>1, <2>2
<1>6. /\ conn' \in [Handlers -> {"closed", "open"}]
      /\ ans' \in [Handlers -> {None, "ok", "accepted", "bad", "notfound", "error", "success", "fail", "Err"}]
  BY <1>2 DEF IndInv, TypeOK, Close
<1> DEFINE Types == [Clients -> {None, Torn} \cup [source : Clients, header : Contents \cup {None, Torn}]]
<1>7. CASE Goto(c, "local") /\ UNCHANGED <<object, result, via, short>>
  BY <1>1, <1>2, <1>7, ClosePreserves DEF faults
<1>8. CASE ans[h] = "Err" /\ Return(c, "Err", "remote") /\ UNCHANGED <<object, short>>
  <2>1. object' \in Types
    BY <1>8 DEF IndInv, TypeOK
  <2> QED BY <1>2, <1>3, <1>5, <1>6, <1>8, <2>1, ReturnPreserves
<1>9. CASE ans[h] = "fail" /\ Return(c, "fail", "remote") /\ UNCHANGED <<object, short>>
  <2>1. object' \in Types
    BY <1>9 DEF IndInv, TypeOK
  <2> QED BY <1>2, <1>3, <1>5, <1>6, <1>9, <2>1, ReturnPreserves
<1>10. CASE /\ ans[h] = "success" /\ object' = [object EXCEPT ![c] = Object(c, got[h])]
            /\ Return(c, "ok", "remote") /\ UNCHANGED short
  <2>1. Object(c, got[h]) \in [source : Clients, header : Contents \cup {None, Torn}]
    BY <1>1 DEF IndInv, TypeOK, Object
  <2>2. object' \in Types /\ object'[c] = Object(c, got[h]) /\ \A d \in Clients \ {c} : object'[d] = object[d]
    BY <1>10, <2>1 DEF IndInv, TypeOK
  <2>3. {c, hash[c]} \cap short' = {} => ~broken[c] /\ object'[c] = Object(c, hash[c])
    BY <1>3, <1>10, <2>2
  <2> QED BY <1>2, <1>5, <1>6, <1>10, <2>2, <2>3, ReturnPreserves
<1>11. CASE /\ object' = [object EXCEPT ![c] = Torn] /\ short' = short \cup {c}
            /\ Return(c, "ok", "remote")
  <2>1. object' \in Types /\ \A d \in Clients \ {c} : object'[d] = object[d]
    BY <1>11 DEF IndInv, TypeOK
  <2>2. {c, hash[c]} \cap short' # {}
    BY <1>11
  <2> QED BY <1>2, <1>5, <1>6, <1>11, <2>1, <2>2, ReturnPreserves
<1> QED BY <1>4, <1>7, <1>8, <1>9, <1>10, <1>11

\* A local compilation says nothing about the builder.
LEMMA CompileLocalPreserves ==
  ASSUME IndInv, NEW c \in Clients, CompileLocal(c)
  PROVE  IndInv'
<1>1. /\ cpc[c] = "local" /\ UNCHANGED <<input, hash, sent, header, handler, files, faults, refused>>
      /\ \E r \in {"ok", "fail", "Err"} : Return(c, r, "local")
      /\ UNCHANGED object \/ \E v \in Contents \cup {None} : object' = [object EXCEPT ![c] = Object(c, v)]
  BY DEF CompileLocal, IndInv, TypeOK
<1>2. PICK r \in {"ok", "fail", "Err"} : Return(c, r, "local")
  BY <1>1
<1>3. \A g \in Handlers : g[1] = c => conn[g] = "closed" /\ ans[g] = None
  BY <1>1, Pairs DEF IndInv, Waiting, TypeOK
<1>4. /\ object' \in [Clients -> {None, Torn} \cup [source : Clients, header : Contents \cup {None, Torn}]]
      /\ \A d \in Clients \ {c} : object'[d] = object[d]
  <2>1. \A v \in Contents \cup {None} : Object(c, v) \in [source : Clients, header : Contents \cup {None, Torn}]
    BY DEF Object
  <2> QED BY <1>1, <2>1 DEF IndInv, TypeOK
<1>5. /\ conn' \in [Handlers -> {"closed", "open"}]
      /\ ans' \in [Handlers -> {None, "ok", "accepted", "bad", "notfound", "error", "success", "fail", "Err"}]
  BY <1>1 DEF IndInv, TypeOK, handler
<1> QED BY <1>1, <1>2, <1>3, <1>4, <1>5, ReturnPreserves DEF handler, faults

-------------------------------------------------------------------------------
(* The builder                                                             *)

\* A step of a handler, as its clients see it.
LEMMA HandlerFrame ==
  ASSUME IndInv, NEW h \in Handlers, hpc[h] # "off",
         \A g \in Handlers \ {h} : hpc'[g] = hpc[g] /\ ans'[g] = ans[g],
         conn[h] = "closed" => ans'[h] = None,
         short \subseteq short', ailed \subseteq ailed',
         UNCHANGED <<input, client, header, conn, rewrites, crashes, evictions>>
  PROVE  Requested' /\ Waiting' /\ Progressed' /\ RemoteSameAsLocal' /\ RemoteFailureCaused'
<1> USE DEF IndInv, input, client
<1>1. Requested' /\ Waiting'
  BY DEF Requested, Waiting
<1>2. Progressed'
  BY DEF Progressed
<1>3. RemoteSameAsLocal' /\ RemoteFailureCaused'
  BY DEF RemoteSameAsLocal, RemoteFailureCaused
<1> QED BY <1>1, <1>2, <1>3

\* What Answer does.
LEMMA AnswerFacts ==
  ASSUME IndInv, NEW h \in Handlers,
         NEW a \in {"ok", "accepted", "bad", "notfound", "error", "success", "fail", "Err"},
         Answer(h, a), UNCHANGED conn
  PROVE  /\ hpc'[h] = "off" /\ ans'[h] \in {None, a} /\ (conn[h] = "closed" => ans'[h] = None)
         /\ \A g \in Handlers \ {h} : hpc'[g] = hpc[g] /\ ans'[g] = ans[g]
         /\ hpc' \in [Handlers -> {"off", "arrived", "lock", "receive", "rename", "drop", "compile"}]
         /\ ans' \in [Handlers -> {None, "ok", "accepted", "bad", "notfound", "error", "success", "fail", "Err"}]
BY DEF IndInv, TypeOK, Answer

\* A handler that neither writes nor compiles, before and after, leaves the
\* files and their owners alone.
LEMMA IdleFrame ==
  ASSUME IndInv, NEW h \in Handlers, ~Writing(h), hpc'[h] \notin {"receive", "rename", "compile"},
         \A g \in Handlers \ {h} : hpc'[g] = hpc[g],
         UNCHANGED <<hash, pch, tmp, lock, crashes, evictions, short>>
  PROVE  Held' /\ Owned' /\ TmpOwned' /\ TmpGenuine' /\ HeaderThere' /\ StoredGenuine'
<1> USE DEF IndInv
<1>1. \A g \in Handlers : Writing(g)' <=> Writing(g)
  BY DEF Writing
<1>2. Held' /\ TmpOwned'
  BY <1>1 DEF Held, TmpOwned
<1>3. Owned'
  BY <1>1 DEF Owned, TypeOK
<1>4. TmpGenuine' /\ HeaderThere' /\ StoredGenuine'
  BY DEF TmpGenuine, HeaderThere, StoredGenuine
<1> QED BY <1>2, <1>3, <1>4

\* A handler takes up an upload.
LEMMA UploadArrivesPreserves ==
  ASSUME IndInv, NEW h \in Handlers, UploadArrives(h)
  PROVE  IndInv'
<1> USE DEF IndInv, input, client, faults, files
<1>1. /\ hpc[h] = "arrived" /\ h[2] \in {"head", "upload"}
      /\ UNCHANGED <<input, client, header, got, conn, files, faults>>
      /\ \/ \E a \in {"bad", "accepted", "notfound"} : Answer(h, a)
         \/ hpc' = [hpc EXCEPT ![h] = "lock"] /\ UNCHANGED ans
  BY DEF UploadArrives
<1>2. /\ hpc'[h] \in {"off", "lock"} /\ (conn[h] = "closed" => ans'[h] = None)
      /\ \A g \in Handlers \ {h} : hpc'[g] = hpc[g] /\ ans'[g] = ans[g]
      /\ hpc' \in [Handlers -> {"off", "arrived", "lock", "receive", "rename", "drop", "compile"}]
      /\ ans' \in [Handlers -> {None, "ok", "accepted", "bad", "notfound", "error", "success", "fail", "Err"}]
  <2>1. CASE \E a \in {"bad", "accepted", "notfound"} : Answer(h, a)
    BY <1>1, <2>1, AnswerFacts
  <2>2. CASE hpc' = [hpc EXCEPT ![h] = "lock"] /\ UNCHANGED ans
    BY <2>2 DEF TypeOK, Waiting
  <2> QED BY <1>1, <2>1, <2>2
<1>3. TypeOK'
  BY <1>1, <1>2 DEF TypeOK
<1>4. Requested' /\ Waiting' /\ Progressed' /\ RemoteSameAsLocal' /\ RemoteFailureCaused'
  BY <1>1, <1>2, HandlerFrame
<1>5. Placed'
  BY <1>1, <1>2 DEF Placed
<1>6. Held' /\ Owned' /\ TmpOwned' /\ TmpGenuine' /\ HeaderThere' /\ StoredGenuine'
  BY <1>1, <1>2, IdleFrame DEF Writing
<1>7. AnswerGenuine'
  BY <1>1, <1>2 DEF AnswerGenuine
<1> QED BY <1>3, <1>4, <1>5, <1>6, <1>7

\* A step of the thread that has the lock of a hash, or finds it free, on the
\* files of that hash.
LEMMA LockedStep ==
  ASSUME IndInv, NEW h \in Handlers, NEW v \in Contents, hash[h[1]] = v, lock[v] \in {None, h},
         \A g \in Handlers \ {h} : hpc'[g] = hpc[g],
         \A w \in Contents \ {v} : lock'[w] = lock[w] /\ tmp'[w] = tmp[w] /\ pch'[w] = pch[w],
         short' = short \/ short' = short \cup {v},
         UNCHANGED <<hash, crashes, evictions>>,
         hpc'[h] \in {"receive", "rename"} => lock'[v] = h /\ pch'[v] = None,
         lock'[v] # None => lock'[v] = h /\ hpc'[h] \in {"receive", "rename"},
         tmp'[v] # None => hpc'[h] \in {"receive", "rename"},
         hpc'[h] = "rename" /\ v \notin short' => tmp'[v] \in {None, v},
         hpc'[h] # "compile", pch[v] # None => pch'[v] # None,
         pch'[v] # None /\ v \notin short' => pch'[v] = v
  PROVE  Held' /\ Owned' /\ TmpOwned' /\ TmpGenuine' /\ HeaderThere' /\ StoredGenuine'
<1> USE DEF IndInv
<1>1. \A g \in Handlers \ {h} : Writing(g) => hash[g[1]] # v
  BY NoneIsNoHandler DEF Held
<1>2. \A g \in Handlers \ {h} : Writing(g)' <=> Writing(g)
  BY DEF Writing
<1>3. Writing(h)' <=> hpc'[h] \in {"receive", "rename"}
  BY DEF Writing
<1>4. \A g \in Handlers : Writing(g) => hash[g[1]] \in Contents
  BY DEF Writing, Requested, Placed
<1>5. Held'
  <2> SUFFICES ASSUME NEW g \in Handlers, Writing(g)'
               PROVE  lock'[hash[g[1]]] = g /\ pch'[hash[g[1]]] = None
    BY DEF Held
  <2>1. CASE g = h
    BY <1>3, <2>1
  <2>2. CASE g # h
    BY <1>1, <1>2, <1>4, <2>2 DEF Held
  <2> QED BY <2>1, <2>2
<1>6. Owned'
  <2> SUFFICES ASSUME NEW w \in Contents, lock'[w] # None
               PROVE  hpc'[lock'[w]] \in {"receive", "rename"} /\ hash[lock'[w][1]] = w
    BY DEF Owned, Writing
  <2>1. CASE w = v
    BY <2>1
  <2>2. CASE w # v
    <3>1. lock[w] \in Handlers /\ Writing(lock[w]) /\ hash[lock[w][1]] = w
      BY <2>2 DEF Owned, TypeOK
    <3> QED BY <2>2, <3>1 DEF Writing
  <2> QED BY <2>1, <2>2
<1>7. TmpOwned'
  <2> SUFFICES ASSUME NEW w \in Contents, tmp'[w] # None, crashes = 0
               PROVE  \E g \in Handlers : hash[g[1]] = w /\ Writing(g)'
    BY DEF TmpOwned
  <2>1. CASE w = v
    BY <1>3, <2>1
  <2>2. CASE w # v
    <3>1. PICK g \in Handlers : hash[g[1]] = w /\ Writing(g)
      BY <2>2 DEF TmpOwned
    <3> QED BY <1>2, <2>2, <3>1
  <2> QED BY <2>1, <2>2
<1>8. TmpGenuine'
  <2> SUFFICES ASSUME NEW g \in Handlers, hpc'[g] = "rename", hash[g[1]] \notin short'
               PROVE  tmp'[hash[g[1]]] \in {None, hash[g[1]]}
    BY DEF TmpGenuine
  <2>1. CASE g = h
    BY <2>1
  <2>2. CASE g # h
    <3>1. Writing(g) /\ hash[g[1]] \in Contents \ {v}
      BY <1>1, <1>4, <2>2 DEF Writing
    <3> QED BY <2>2, <3>1 DEF TmpGenuine
  <2> QED BY <2>1, <2>2
<1>9. HeaderThere'
  <2> SUFFICES ASSUME NEW g \in Handlers, hpc'[g] = "compile", hash[g[1]] # None, evictions = 0
               PROVE  pch'[hash[g[1]]] # None
    BY DEF HeaderThere
  <2>1. pch[hash[g[1]]] # None /\ hash[g[1]] \in Contents
    BY Pairs DEF HeaderThere, TypeOK
  <2> QED BY <2>1
<1>10. StoredGenuine'
  BY DEF StoredGenuine
<1> QED BY <1>5, <1>6, <1>7, <1>8, <1>9, <1>10

\* An early return releases the lock, if it has it, and leaves no file.
LEMMA FailPreserves ==
  ASSUME IndInv, NEW h \in Handlers, NEW a \in {"error", "bad"}, Fail(h, a),
         (hpc[h] = "lock" /\ CanLock(h)) \/ Writing(h),
         UNCHANGED <<input, client, header, got, conn, pch, faults, refused>>
  PROVE  IndInv'
<1> USE DEF IndInv, input, client, faults
<1> DEFINE v == hash[h[1]]
<1>1. h[2] # "task" /\ v \in Contents /\ lock[v] \in {None, h} /\ hpc[h] # "off"
  BY DEF Placed, Requested, Held, Writing, CanLock
<1>2. /\ hpc'[h] = "off" /\ ans'[h] \in {None, a} /\ (conn[h] = "closed" => ans'[h] = None)
      /\ \A g \in Handlers \ {h} : hpc'[g] = hpc[g] /\ ans'[g] = ans[g]
      /\ hpc' \in [Handlers -> {"off", "arrived", "lock", "receive", "rename", "drop", "compile"}]
      /\ ans' \in [Handlers -> {None, "ok", "accepted", "bad", "notfound", "error", "success", "fail", "Err"}]
  BY AnswerFacts DEF Fail
<1>3. /\ tmp' = [tmp EXCEPT ![v] = None] /\ lock' = [lock EXCEPT ![v] = None]
  BY DEF Fail
<1>4. hash[h[1]] = v
  OBVIOUS
<1> HIDE DEF v
<1>5. TypeOK'
  BY <1>2, <1>3 DEF TypeOK
<1>6. Requested' /\ Waiting' /\ Progressed' /\ RemoteSameAsLocal' /\ RemoteFailureCaused'
  BY <1>1, <1>2, HandlerFrame
<1>7. Placed' /\ AnswerGenuine'
  BY <1>1, <1>2 DEF Placed, AnswerGenuine
<1>8. /\ lock'[v] = None /\ tmp'[v] = None /\ (pch[v] # None /\ v \notin short => pch[v] = v)
      /\ \A w \in Contents \ {v} : lock'[w] = lock[w] /\ tmp'[w] = tmp[w]
  BY <1>1, <1>3 DEF TypeOK, StoredGenuine
<1>9. Held' /\ Owned' /\ TmpOwned' /\ TmpGenuine' /\ HeaderThere' /\ StoredGenuine'
  BY <1>1, <1>2, <1>4, <1>8, LockedStep
<1> QED BY <1>5, <1>6, <1>7, <1>9

\* The lock is taken, and HASH.tmp made under it.
LEMMA UploadCreatesPreserves ==
  ASSUME IndInv, NEW h \in Handlers, UploadCreates(h)
  PROVE  IndInv'
<1> USE DEF IndInv, input, client, faults
<1> DEFINE v == hash[h[1]]
<1>1. h[2] # "task" /\ v \in Contents /\ lock[v] = None /\ hpc[h] = "lock"
  BY DEF Placed, Requested, CanLock, UploadCreates
<1>2. UNCHANGED <<input, client, header, got, conn, pch, faults, refused>>
  BY DEF UploadCreates
<1>3. CASE Answer(h, "accepted") /\ UNCHANGED <<tmp, lock>>
  <2>1. /\ hpc'[h] = "off" /\ ans'[h] \in {None, "accepted"} /\ (conn[h] = "closed" => ans'[h] = None)
        /\ \A g \in Handlers \ {h} : hpc'[g] = hpc[g] /\ ans'[g] = ans[g]
        /\ hpc' \in [Handlers -> {"off", "arrived", "lock", "receive", "rename", "drop", "compile"}]
        /\ ans' \in [Handlers -> {None, "ok", "accepted", "bad", "notfound", "error", "success", "fail", "Err"}]
    BY <1>2, <1>3, AnswerFacts
  <2>2. TypeOK'
    BY <1>2, <1>3, <2>1 DEF TypeOK
  <2>3. Requested' /\ Waiting' /\ Progressed' /\ RemoteSameAsLocal' /\ RemoteFailureCaused'
    BY <1>1, <1>2, <2>1, HandlerFrame
  <2>4. Placed' /\ AnswerGenuine'
    BY <1>1, <1>2, <2>1 DEF Placed, AnswerGenuine
  <2>5. Held' /\ Owned' /\ TmpOwned' /\ TmpGenuine' /\ HeaderThere' /\ StoredGenuine'
    BY <1>1, <1>2, <1>3, <2>1, IdleFrame DEF Writing
  <2> QED BY <2>2, <2>3, <2>4, <2>5
<1>4. CASE Fail(h, "error")
  BY <1>1, <1>2, <1>4, FailPreserves DEF UploadCreates
<1>5. CASE /\ pch[v] = None /\ lock' = [lock EXCEPT ![v] = h] /\ tmp' = [tmp EXCEPT ![v] = Torn]
           /\ hpc' = [hpc EXCEPT ![h] = "receive"] /\ UNCHANGED ans
  <2>0. hash[h[1]] = v
    OBVIOUS
  <2> HIDE DEF v
  <2>1. TypeOK'
    BY <1>2, <1>5 DEF TypeOK
  <2>2. /\ hpc'[h] = "receive" /\ lock'[v] = h
        /\ \A g \in Handlers \ {h} : hpc'[g] = hpc[g] /\ ans'[g] = ans[g]
        /\ \A w \in Contents \ {v} : lock'[w] = lock[w] /\ tmp'[w] = tmp[w]
        /\ conn[h] = "closed" => ans'[h] = None
    BY <1>1, <1>5 DEF TypeOK, Waiting
  <2>3. Requested' /\ Waiting' /\ Progressed' /\ RemoteSameAsLocal' /\ RemoteFailureCaused'
    BY <1>1, <1>2, <2>2, HandlerFrame
  <2>4. Placed' /\ AnswerGenuine'
    BY <1>1, <1>2, <1>5, <2>2 DEF Placed, AnswerGenuine
  <2>5. Held' /\ Owned' /\ TmpOwned' /\ TmpGenuine' /\ HeaderThere' /\ StoredGenuine'
    BY <1>1, <1>2, <1>5, <2>0, <2>2, LockedStep
  <2> QED BY <2>1, <2>3, <2>4, <2>5
<1> QED BY <1>3, <1>4, <1>5 DEF UploadCreates

\* What is received and hashed is what was promised, or the upload ends.
LEMMA UploadReceivesPreserves ==
  ASSUME IndInv, NEW h \in Handlers, UploadReceives(h)
  PROVE  IndInv'
<1> USE DEF IndInv, input, client
<1> DEFINE v == hash[h[1]]
<1>1. h[2] # "task" /\ v \in Contents /\ lock[v] = h /\ pch[v] = None /\ hpc[h] = "receive"
  BY DEF Placed, Requested, Held, Writing, UploadReceives
<1>2. UNCHANGED <<input, client, header, got, conn, pch, rewrites, crashes, evictions, ailed, refused>>
  BY DEF UploadReceives
<1>3. CASE \E a \in {"error", "bad"} : Fail(h, a) /\ UNCHANGED short
  BY <1>1, <1>2, <1>3, FailPreserves DEF Writing, faults
<1>4. CASE \E cut \in BOOLEAN :
             /\ tmp' = [tmp EXCEPT ![v] = IF @ = None THEN None ELSE IF cut THEN Torn ELSE v]
             /\ short' = IF cut THEN short \cup {v} ELSE short
             /\ hpc' = [hpc EXCEPT ![h] = "rename"]
             /\ UNCHANGED <<ans, lock>>
  <2>0. hash[h[1]] = v
    OBVIOUS
  <2> HIDE DEF v
  <2>1. TypeOK'
    BY <1>1, <1>2, <1>4 DEF TypeOK
  <2>2. /\ hpc'[h] = "rename" /\ (short' = short \/ short' = short \cup {v})
        /\ v \notin short' => tmp'[v] \in {None, v}
        /\ \A g \in Handlers \ {h} : hpc'[g] = hpc[g] /\ ans'[g] = ans[g]
        /\ \A w \in Contents \ {v} : tmp'[w] = tmp[w]
        /\ conn[h] = "closed" => ans'[h] = None
    BY <1>1, <1>4 DEF TypeOK, Waiting
  <2>3. Requested' /\ Waiting' /\ Progressed' /\ RemoteSameAsLocal' /\ RemoteFailureCaused'
    BY <1>1, <1>2, <2>2, HandlerFrame
  <2>4. Placed' /\ AnswerGenuine'
    <3>1. short \subseteq short'
      BY <2>2
    <3> QED BY <1>1, <1>2, <1>4, <2>2, <3>1 DEF Placed, AnswerGenuine
  <2>5. Held' /\ Owned' /\ TmpOwned' /\ TmpGenuine' /\ HeaderThere' /\ StoredGenuine'
    BY <1>1, <1>2, <1>4, <2>0, <2>2, LockedStep
  <2> QED BY <2>1, <2>3, <2>4, <2>5
<1> QED BY <1>3, <1>4 DEF UploadReceives, Matches

\* What was written is renamed to its hash.
LEMMA UploadRenamesPreserves ==
  ASSUME IndInv, NEW h \in Handlers, UploadRenames(h)
  PROVE  IndInv'
<1> USE DEF IndInv, input, client, faults
<1> DEFINE v == hash[h[1]]
<1>1. /\ h[2] # "task" /\ v \in Contents /\ lock[v] = h /\ pch[v] = None /\ hpc[h] = "rename"
      /\ v \notin short => tmp[v] \in {None, v}
  BY DEF Placed, Requested, Held, Writing, TmpGenuine, UploadRenames
<1>2. UNCHANGED <<input, client, header, got, conn, faults, refused>>
  BY DEF UploadRenames
<1>3. CASE Fail(h, "error") /\ UNCHANGED pch
  BY <1>1, <1>2, <1>3, FailPreserves DEF Writing
<1>4. CASE /\ tmp[v] # None
           /\ pch' = [pch EXCEPT ![v] = tmp[v]] /\ tmp' = [tmp EXCEPT ![v] = None]
           /\ lock' = [lock EXCEPT ![v] = None]
           /\ ans' = [ans EXCEPT ![h] = IF conn[h] = "open" THEN "ok" ELSE None]
           /\ hpc' = [hpc EXCEPT ![h] = "drop"]
  <2>0. hash[h[1]] = v
    OBVIOUS
  <2> HIDE DEF v
  <2>1. TypeOK'
    BY <1>1, <1>2, <1>4 DEF TypeOK
  <2>2. /\ hpc'[h] = "drop" /\ lock'[v] = None /\ tmp'[v] = None /\ pch'[v] = tmp[v]
        /\ \A g \in Handlers \ {h} : hpc'[g] = hpc[g] /\ ans'[g] = ans[g]
        /\ \A w \in Contents \ {v} : lock'[w] = lock[w] /\ tmp'[w] = tmp[w] /\ pch'[w] = pch[w]
        /\ conn[h] = "closed" => ans'[h] = None
    BY <1>1, <1>4 DEF TypeOK
  <2>3. Requested' /\ Waiting' /\ Progressed' /\ RemoteSameAsLocal' /\ RemoteFailureCaused'
    BY <1>1, <1>2, <2>2, HandlerFrame
  <2>4. Placed' /\ AnswerGenuine'
    BY <1>1, <1>2, <2>2 DEF Placed, AnswerGenuine
  <2>5. Held' /\ Owned' /\ TmpOwned' /\ TmpGenuine' /\ HeaderThere' /\ StoredGenuine'
    BY <1>1, <1>2, <1>4, <2>0, <2>2, LockedStep
  <2> QED BY <2>1, <2>3, <2>4, <2>5
<1> QED BY <1>1, <1>3, <1>4 DEF UploadRenames

\* Without the lock HASH.tmp is removed, also one that another thread writes:
\* its rename then fails.
LEMMA UploadDropsPreserves ==
  ASSUME IndInv, NEW h \in Handlers, UploadDrops(h)
  PROVE  IndInv'
<1> USE DEF IndInv, input, client, faults
<1> DEFINE v == hash[h[1]]
<1>1. h[2] # "task" /\ v \in Contents /\ hpc[h] = "drop"
  BY DEF Placed, Requested, UploadDrops
<1>2. /\ tmp' = [tmp EXCEPT ![v] = None] /\ hpc' = [hpc EXCEPT ![h] = "off"]
      /\ UNCHANGED <<input, client, header, got, conn, ans, pch, lock, faults, refused>>
  BY DEF UploadDrops
<1> HIDE DEF v
<1>3. TypeOK'
  BY <1>1, <1>2 DEF TypeOK
<1>4. /\ hpc'[h] = "off" /\ tmp'[v] = None
      /\ \A g \in Handlers \ {h} : hpc'[g] = hpc[g] /\ ans'[g] = ans[g]
      /\ \A w \in Contents \ {v} : tmp'[w] = tmp[w]
      /\ conn[h] = "closed" => ans'[h] = None
  BY <1>1, <1>2 DEF TypeOK, Waiting
<1>5. Requested' /\ Waiting' /\ Progressed' /\ RemoteSameAsLocal' /\ RemoteFailureCaused'
  BY <1>1, <1>2, <1>4, HandlerFrame
<1>6. Placed' /\ AnswerGenuine'
  BY <1>1, <1>2, <1>4 DEF Placed, AnswerGenuine
<1>7. \A g \in Handlers : Writing(g)' <=> Writing(g)
  BY <1>1, <1>4 DEF Writing
<1>8. Held'
  BY <1>2, <1>7 DEF Held
<1>9. Owned'
  BY <1>2, <1>7 DEF Owned, TypeOK
<1>10. TmpOwned'
  BY <1>2, <1>4, <1>7 DEF TmpOwned
<1>11. TmpGenuine'
  <2> SUFFICES ASSUME NEW g \in Handlers, hpc'[g] = "rename", hash[g[1]] \notin short
               PROVE  tmp'[hash[g[1]]] \in {None, hash[g[1]]}
    BY <1>2 DEF TmpGenuine
  <2>1. tmp[hash[g[1]]] \in {None, hash[g[1]]} /\ hash[g[1]] \in Contents
    BY <1>4 DEF TmpGenuine, Requested, Placed
  <2> QED BY <1>4, <2>1
<1>12. HeaderThere' /\ StoredGenuine'
  BY <1>2, <1>4 DEF HeaderThere, StoredGenuine
<1> QED BY <1>3, <1>5, <1>6, <1>8, <1>9, <1>10, <1>11, <1>12

\* A task is compiled only if its header was there.
LEMMA TaskArrivesPreserves ==
  ASSUME IndInv, NEW h \in Handlers, TaskArrives(h)
  PROVE  IndInv'
<1> USE DEF IndInv, input, client, faults, files
<1> DEFINE v == hash[h[1]]
<1>1. /\ h[2] = "task" /\ hpc[h] = "arrived"
      /\ UNCHANGED <<input, client, header, got, conn, files, faults>>
      /\ \/ Answer(h, "error")
         \/ /\ v # None => pch[v] # None
            /\ \E label \in {"compile", "off"} : hpc' = [hpc EXCEPT ![h] = label]
            /\ UNCHANGED ans
  BY DEF TaskArrives
<1>2. /\ hpc'[h] \in {"off", "compile"} /\ (hpc'[h] = "compile" /\ v # None => pch[v] # None)
      /\ ans'[h] \in {ans[h], None, "error"}
      /\ conn[h] = "closed" => ans'[h] = None
      /\ \A g \in Handlers \ {h} : hpc'[g] = hpc[g] /\ ans'[g] = ans[g]
      /\ hpc' \in [Handlers -> {"off", "arrived", "lock", "receive", "rename", "drop", "compile"}]
      /\ ans' \in [Handlers -> {None, "ok", "accepted", "bad", "notfound", "error", "success", "fail", "Err"}]
  <2>1. CASE Answer(h, "error")
    BY <1>1, <2>1, AnswerFacts
  <2>2. CASE /\ v # None => pch[v] # None
             /\ \E label \in {"compile", "off"} : hpc' = [hpc EXCEPT ![h] = label]
             /\ UNCHANGED ans
    BY <2>2 DEF TypeOK, Waiting
  <2> QED BY <1>1, <2>1, <2>2
<1>3. TypeOK'
  BY <1>1, <1>2 DEF TypeOK
<1>4. Requested' /\ Waiting' /\ Progressed' /\ RemoteSameAsLocal' /\ RemoteFailureCaused'
  BY <1>1, <1>2, HandlerFrame
<1>5. Placed'
  BY <1>1, <1>2 DEF Placed
<1>6. AnswerGenuine'
  BY <1>1, <1>2 DEF AnswerGenuine
<1>7. \A g \in Handlers : Writing(g)' <=> Writing(g)
  BY <1>1, <1>2 DEF Writing
<1>8. Held' /\ TmpOwned'
  BY <1>1, <1>7 DEF Held, TmpOwned
<1>9. Owned'
  BY <1>1, <1>7 DEF Owned, TypeOK
<1>10. TmpGenuine' /\ StoredGenuine'
  BY <1>1, <1>2 DEF TmpGenuine, StoredGenuine
<1>11. HeaderThere'
  BY <1>1, <1>2 DEF HeaderThere
<1> QED BY <1>3, <1>4, <1>5, <1>6, <1>8, <1>9, <1>10, <1>11

\* The builder compiles with the header that was promised, unless it was
\* truncated, and refuses a good source only without it or for its own reasons.
LEMMA TaskCompilesPreserves ==
  ASSUME IndInv, NEW h \in Handlers, TaskCompiles(h)
  PROVE  IndInv'
<1> USE DEF IndInv, input, client, faults, files
<1> DEFINE v == hash[h[1]]
<1>1. /\ h[2] = "task" /\ hpc[h] = "compile" /\ v \in Contents \cup {None} /\ h[1] \in Clients
      /\ UNCHANGED <<input, client, header, conn, files, rewrites, crashes, evictions, short, refused>>
      /\ ailed' = ailed \/ ailed' = ailed \cup {h[1]}
  BY Pairs DEF TaskCompiles, Placed, TypeOK
<1>2. /\ v # None /\ v \notin short /\ pch[v] # None => pch[v] = v
      /\ v # None /\ evictions = 0 => pch[v] # None
      /\ v # None => pch[v] \in Contents \cup {None, Torn}
  BY <1>1 DEF StoredGenuine, HeaderThere, TypeOK
<1>3. PICK a \in {"success", "fail", "Err"} :
        /\ Answer(h, a)
        /\ a = "success" => /\ ~broken[h[1]] /\ (v # None => pch[v] # None)
                            /\ got' = [got EXCEPT ![h] = IF v = None THEN None ELSE pch[v]]
        /\ a # "success" => broken[h[1]] \/ (v # None /\ pch[v] \in {None, Torn}) \/ h[1] \in ailed'
        /\ a # "success" => UNCHANGED got
  <2>1. Used(h) = IF v = None THEN None ELSE pch[v]
    BY DEF Used
  <2>2. CASE /\ \E a \in {"fail", "Err"} : Answer(h, a)
             /\ ailed' = IF CompilerFails(h) THEN ailed ELSE ailed \cup {h[1]}
             /\ UNCHANGED got
    <3>1. CompilerFails(h) => broken[h[1]] \/ (v # None /\ pch[v] \in {None, Torn})
      BY <2>1 DEF CompilerFails
    <3>2. ~CompilerFails(h) => h[1] \in ailed'
      BY <2>2
    <3> QED BY <2>2, <3>1, <3>2
  <2>3. CASE /\ ~broken[h[1]] /\ (v # None => Used(h) # None)
             /\ Answer(h, "success") /\ got' = [got EXCEPT ![h] = Used(h)]
    BY <2>1, <2>3
  <2> QED BY <2>2, <2>3 DEF TaskCompiles
<1> HIDE DEF v
<1>4. /\ hpc'[h] = "off" /\ ans'[h] \in {None, a} /\ (conn[h] = "closed" => ans'[h] = None)
      /\ \A g \in Handlers \ {h} : hpc'[g] = hpc[g] /\ ans'[g] = ans[g]
      /\ hpc' \in [Handlers -> {"off", "arrived", "lock", "receive", "rename", "drop", "compile"}]
      /\ ans' \in [Handlers -> {None, "ok", "accepted", "bad", "notfound", "error", "success", "fail", "Err"}]
  BY <1>1, <1>3, AnswerFacts
<1>5. /\ got' \in [Handlers -> Contents \cup {None, Torn}]
      /\ \A g \in Handlers \ {h} : got'[g] = got[g]
      /\ a = "success" => got'[h] = IF v = None THEN None ELSE pch[v]
  BY <1>1, <1>2, <1>3 DEF TypeOK
<1>6. TypeOK'
  BY <1>1, <1>4, <1>5 DEF TypeOK
<1>7. Requested' /\ Waiting' /\ Progressed' /\ RemoteSameAsLocal' /\ RemoteFailureCaused'
  BY <1>1, <1>4, HandlerFrame
<1>8. Placed'
  BY <1>4 DEF Placed
<1>9. Held' /\ Owned' /\ TmpOwned' /\ TmpGenuine' /\ HeaderThere' /\ StoredGenuine'
  BY <1>1, <1>4, IdleFrame DEF Writing
<1>10. AnswerGenuine'
  <2>1. a = "success" /\ v \notin short => got'[h] = v
    BY <1>2, <1>3, <1>5
  <2>2. a \in {"fail", "Err"} /\ evictions = 0 /\ short = {} => broken[h[1]] \/ h[1] \in ailed'
    BY <1>1, <1>2, <1>3, Distinct
  <2>3. /\ ans'[h] # None => ans'[h] = a
        /\ a = "success" => ~broken[h[1]]
    BY <1>3, <1>4
  <2>4. \A g \in Handlers \ {h} : g[2] = "task" /\ ans'[g] # None =>
          /\ ans'[g] \in {"error", "Err", "fail", "success"}
          /\ ans'[g] = "success" => ~broken[g[1]] /\ (hash[g[1]] \notin short => got'[g] = hash[g[1]])
          /\ ans'[g] \in {"fail", "Err"} /\ evictions = 0 /\ short = {} => broken[g[1]] \/ g[1] \in ailed'
    BY <1>1, <1>4, <1>5 DEF AnswerGenuine
  <2> QED BY <1>1, <2>1, <2>2, <2>3, <2>4 DEF AnswerGenuine, v
<1> QED BY <1>6, <1>7, <1>8, <1>9, <1>10

\* Every step of a handler keeps the invariant.
LEMMA HandlerPreserves ==
  ASSUME IndInv, NEW h \in Handlers, Handler(h)
  PROVE  IndInv'
BY UploadArrivesPreserves, UploadCreatesPreserves, UploadReceivesPreserves, UploadRenamesPreserves,
   UploadDropsPreserves, TaskArrivesPreserves, TaskCompilesPreserves DEF Handler

\* Every step of a client keeps the invariant.
LEMMA ClientPreserves ==
  ASSUME IndInv, NEW c \in Clients, Client(c)
  PROVE  IndInv'
BY StartPreserves, AskHeaderPreserves, HeadAnsweredPreserves, UploadPreserves, UploadedPreserves,
   PostTaskPreserves, CompiledPreserves, CompileLocalPreserves DEF Client

-------------------------------------------------------------------------------
(* The surroundings                                                        *)

\* After a restart nobody holds anything.
LEMMA RestartPreserves ==
  ASSUME IndInv, Restart
  PROVE  IndInv'
<1> USE DEF IndInv, Restart, input, client
<1>1. TypeOK'
  BY DEF TypeOK
<1>2. Requested' /\ Waiting' /\ Progressed' /\ Placed'
  BY DEF Requested, Waiting, Progressed, Placed
<1>3. Held' /\ Owned' /\ TmpGenuine' /\ HeaderThere' /\ StoredGenuine'
  BY DEF Held, Owned, TmpGenuine, HeaderThere, StoredGenuine, Writing
<1>4. TmpOwned'
  BY DEF TmpOwned, TypeOK
<1>5. AnswerGenuine' /\ RemoteSameAsLocal' /\ RemoteFailureCaused'
  BY DEF AnswerGenuine, RemoteSameAsLocal, RemoteFailureCaused
<1> QED BY <1>1, <1>2, <1>3, <1>4, <1>5

\* An eviction only removes.
LEMMA EvictPreserves ==
  ASSUME IndInv, NEW v \in Contents, Evict(v)
  PROVE  IndInv'
<1> USE DEF IndInv, input, client, handler
<1>1. /\ evictions' = evictions + 1 /\ evictions' # 0
      /\ pch' = pch \/ pch' = [pch EXCEPT ![v] = None]
      /\ tmp' = tmp \/ tmp' = [tmp EXCEPT ![v] = None]
      /\ UNCHANGED <<input, client, header, handler, lock, rewrites, crashes, short, ailed, refused>>
  BY DEF Evict, TypeOK
<1>2. \A w \in Contents : pch'[w] \in {None, pch[w]} /\ tmp'[w] \in {None, tmp[w]}
  BY <1>1 DEF TypeOK
<1>3. \A g \in Handlers : Writing(g) => hash[g[1]] \in Contents
  BY DEF Writing, Requested, Placed
<1>4. \A g \in Handlers : Writing(g)' <=> Writing(g)
  BY <1>1 DEF Writing
<1>5. TypeOK'
  BY <1>1 DEF TypeOK
<1>6. Requested' /\ Waiting' /\ Progressed' /\ Placed'
  BY <1>1 DEF Requested, Waiting, Progressed, Placed
<1>7. Held'
  BY <1>1, <1>2, <1>3, <1>4 DEF Held
<1>8. Owned'
  BY <1>1, <1>4 DEF Owned, TypeOK
<1>9. TmpOwned'
  BY <1>1, <1>2, <1>4 DEF TmpOwned
<1>10. TmpGenuine'
  <2>1. \A g \in Handlers : hpc[g] = "rename" => hash[g[1]] \in Contents
    BY <1>3 DEF Writing
  <2> QED BY <1>1, <1>2, <2>1 DEF TmpGenuine
<1>11. HeaderThere' /\ StoredGenuine'
  BY <1>1, <1>2 DEF HeaderThere, StoredGenuine
<1>12. AnswerGenuine' /\ RemoteSameAsLocal' /\ RemoteFailureCaused'
  BY <1>1 DEF AnswerGenuine, RemoteSameAsLocal, RemoteFailureCaused
<1> QED BY <1>5, <1>6, <1>7, <1>8, <1>9, <1>10, <1>11, <1>12

\* A rewrite of the header from outside changes no message under way.
LEMMA RewritePreserves ==
  ASSUME IndInv, NEW v \in Contents, Rewrite(v)
  PROVE  IndInv'
<1> USE DEF IndInv, Rewrite, input, client, handler
<1>1. TypeOK'
  BY DEF TypeOK, files
<1>2. Requested' /\ Waiting' /\ Progressed'
  BY DEF Requested, Waiting, Progressed
<1>3. Held' /\ Owned' /\ TmpOwned' /\ TmpGenuine' /\ HeaderThere' /\ StoredGenuine' /\ Placed'
  BY FilesFrame
<1>4. AnswerGenuine' /\ RemoteSameAsLocal' /\ RemoteFailureCaused'
  BY DEF AnswerGenuine, RemoteSameAsLocal, RemoteFailureCaused
<1> QED BY <1>1, <1>2, <1>3, <1>4

\* Nothing changes, nor does the invariant.
LEMMA StutterPreserves ==
  ASSUME IndInv, UNCHANGED vars
  PROVE  IndInv'
<1> USE DEF IndInv, vars, input, client, handler, files, faults
<1>1. TypeOK'
  BY DEF TypeOK
<1>2. Requested' /\ Waiting' /\ Progressed'
  BY DEF Requested, Waiting, Progressed
<1>3. Held' /\ Owned' /\ TmpOwned' /\ TmpGenuine' /\ HeaderThere' /\ StoredGenuine' /\ Placed'
  BY FilesFrame
<1>4. AnswerGenuine' /\ RemoteSameAsLocal' /\ RemoteFailureCaused'
  BY DEF AnswerGenuine, RemoteSameAsLocal, RemoteFailureCaused
<1> QED BY <1>1, <1>2, <1>3, <1>4

\* Every step keeps the invariant.
LEMMA NextPreserves == IndInv /\ [Next]_vars => IndInv'
BY ClientPreserves, CallFailsPreserves, HandlerPreserves, RestartPreserves, EvictPreserves,
   RewritePreserves, StutterPreserves DEF Next, AllDone

-------------------------------------------------------------------------------
(* The theorems                                                            *)

\* The inductive invariant of the calls and the builder together.
THEOREM RemoteInvariant == Spec => []IndInv
<1>1. Init => IndInv
  BY InitEstablishes
<1>2. IndInv /\ [Next]_vars => IndInv'
  BY NextPreserves
<1> QED BY <1>1, <1>2, PTL DEF Spec

\* Whatever is cut off, rewritten, restarted or evicted, HASH.pch is the header
\* with that hash, unless a write() was short: RpcBuilderUploadHandler compares
\* the digest before it renames.
THEOREM StoredGenuineAlways == Spec => []StoredGenuine
<1>1. IndInv => StoredGenuine
  BY DEF IndInv
<1> QED BY <1>1, RemoteInvariant, PTL

\* "Don't upload same file in multiple threads": the Mutex of a hash is held
\* from create() to rename().
THEOREM OneWriterAlways == Spec => []OneWriter
<1>1. IndInv => OneWriter
  BY DEF IndInv, OneWriter, Held
<1> QED BY <1>1, RemoteInvariant, PTL

\* A remote success is the object file compile_step would have made itself.
THEOREM RemoteSameAsLocalAlways == Spec => []RemoteSameAsLocal
<1>1. IndInv => RemoteSameAsLocal
  BY DEF IndInv
<1> QED BY <1>1, RemoteInvariant, PTL

\* What a builder reports against a good source, by a failing status or by an
\* error, has its cause in what happened there: to its header, or to its very
\* compiler.
THEOREM RemoteFailureCausedAlways == Spec => []RemoteFailureCaused
<1>1. IndInv => RemoteFailureCaused
  BY DEF IndInv
<1> QED BY <1>1, RemoteInvariant, PTL

\* No thread leaves a lock behind on any of its error paths, nor a temporary
\* file unless it was killed.
THEOREM NothingLeftAlways == Spec => []NothingLeft
<1>1. IndInv => NothingLeft
  <2> SUFFICES ASSUME IndInv, NEW v \in Contents
               PROVE  /\ lock[v] # None => hpc[lock[v]] \notin {"off", "drop"} /\ hash[lock[v][1]] = v
                      /\ tmp[v] # None /\ crashes = 0 => \E h \in Handlers : hash[h[1]] = v /\ Writing(h)
    BY DEF NothingLeft
  <2>1. lock[v] # None => hpc[lock[v]] \notin {"off", "drop"} /\ hash[lock[v][1]] = v
    BY DEF IndInv, Owned, Writing
  <2>2. tmp[v] # None /\ crashes = 0 => \E h \in Handlers : hash[h[1]] = v /\ Writing(h)
    BY DEF IndInv, TmpOwned
  <2> QED BY <2>1, <2>2
<1> QED BY <1>1, RemoteInvariant, PTL

===============================================================================
