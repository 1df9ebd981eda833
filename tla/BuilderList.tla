------------------------------ MODULE BuilderList -----------------------------
(***************************************************************************)
(* builders() of src/cluster/client.rs: the worker threads of one process   *)
(* share the coordinator's list of builders behind an RwLock and ask for it *)
(* again when its cooldown is over.  Each call reads the time first and the *)
(* lock later, and asks while it holds the write lock.                      *)
(***************************************************************************)
EXTENDS Naturals, FiniteSets

CONSTANTS
  Threads,                      \* worker threads, one call at a time each
  CooldownOk, CooldownErr,      \* 5 s and 1 s in the code
  MaxTime, MaxCalls,           \* bounds on the time and on a thread's calls
  None                          \* nobody holds the write lock

ASSUME ThreadsFinite == IsFiniteSet(Threads)
ASSUME NoneIsNoThread == None \notin Threads
ASSUME CooldownsNatural ==
  /\ CooldownOk \in Nat \ {0} /\ CooldownErr \in Nat \ {0} /\ CooldownErr <= CooldownOk
  /\ MaxTime \in Nat /\ MaxCalls \in Nat

VARIABLES
  time,
  cooldown, builders,           \* RemoteSharedMut; builders is the time at which
                                \* the coordinator gave the list
  writer,                       \* who holds the write lock
  pc, now, calls,               \* a call
  answer,                       \* the list on its way to the asking thread
  asked, failed                 \* history: the `now` of every request, whether
                                \* the last one failed

shared == <<cooldown, builders, writer>>
history == <<asked, failed>>
listVars == <<time, shared, pc, now, calls, answer, history>>

\* RemoteCompiler::new: the cooldown is over as soon as the clock moves.
ListInit ==
  /\ time = 0 /\ cooldown = 0 /\ builders = 0 /\ writer = None
  /\ pc = [t \in Threads |-> "idle"]
  /\ now = [t \in Threads |-> 0]
  /\ calls = [t \in Threads |-> 0]
  /\ answer = [t \in Threads |-> 0]
  /\ asked = {} /\ failed = FALSE

Go(t, place) == pc' = [pc EXCEPT ![t] = place]

\* let now = Instant::now(), before any lock.
Call(t) ==
  /\ pc[t] \in {"idle", "got"} /\ calls[t] < MaxCalls
  /\ now' = [now EXCEPT ![t] = time]
  /\ calls' = [calls EXCEPT ![t] = @ + 1]
  /\ Go(t, "read")
  /\ UNCHANGED <<time, shared, answer, history>>

\* Under the read lock: the list is recent enough, or the call goes on.
Read(t) ==
  /\ pc[t] = "read" /\ writer = None
  /\ Go(t, IF cooldown >= now[t] THEN "got" ELSE "write")
  /\ UNCHANGED <<time, shared, now, calls, answer, history>>

\* Mutant: the cooldown is not looked at again under the write lock.
LockUnchecked(t) ==
  /\ pc[t] = "write" /\ writer = None
  /\ Go(t, "ask") /\ writer' = t /\ asked' = asked \cup {now[t]}
  /\ UNCHANGED <<time, cooldown, builders, now, calls, answer, failed>>

\* Under the write lock the same question again: another call may have asked.
Lock(t) ==
  /\ pc[t] = "write" /\ writer = None
  /\ IF cooldown >= now[t]
       THEN Go(t, "got") /\ UNCHANGED <<writer, asked>>
       ELSE Go(t, "ask") /\ writer' = t /\ asked' = asked \cup {now[t]}
  /\ UNCHANGED <<time, cooldown, builders, now, calls, answer, failed>>

\* The coordinator answers (see Coordinator); without one the list is empty.
Serve(t) ==
  /\ pc[t] = "ask"
  /\ answer' = [answer EXCEPT ![t] = time]
  /\ Go(t, "receive")
  /\ UNCHANGED <<time, shared, now, calls, history>>

\* Mutant: the cooldown starts when the list arrives.
ReceiveLate(t) ==
  /\ pc[t] = "receive"
  /\ builders' = answer[t] /\ cooldown' = time + CooldownOk
  /\ writer' = None /\ failed' = FALSE
  /\ Go(t, "got")
  /\ UNCHANGED <<time, now, calls, answer, asked>>

\* The list is replaced; the cooldown counts from the time the call began.
Receive(t) ==
  /\ pc[t] = "receive"
  /\ builders' = answer[t] /\ cooldown' = now[t] + CooldownOk
  /\ writer' = None /\ failed' = FALSE
  /\ Go(t, "got")
  /\ UNCHANGED <<time, now, calls, answer, asked>>

\* No connection, or the answer cannot be read: the old list stays in use.
Fail(t) ==
  /\ pc[t] \in {"ask", "receive"}
  /\ cooldown' = now[t] + CooldownErr /\ writer' = None /\ failed' = TRUE
  /\ Go(t, "got")
  /\ UNCHANGED <<time, builders, now, calls, answer, asked>>

ListTick ==
  /\ time < MaxTime
  /\ time' = time + 1
  /\ UNCHANGED <<shared, pc, now, calls, answer, history>>

Step(t) == Call(t) \/ Read(t) \/ Lock(t) \/ Serve(t) \/ Receive(t) \/ Fail(t)

AllDone == (\A t \in Threads : pc[t] = "got" /\ calls[t] = MaxCalls) /\ UNCHANGED listVars

ListNext == (\E t \in Threads : Step(t)) \/ ListTick \/ AllDone

ListSpec == ListInit /\ [][ListNext]_listVars

-------------------------------------------------------------------------------
\* Types; the write lock is held exactly while its owner talks to the coordinator.
ListTypeOK ==
  /\ time \in Nat /\ cooldown \in Nat /\ builders \in Nat
  /\ writer \in Threads \cup {None}
  /\ pc \in [Threads -> {"idle", "read", "write", "ask", "receive", "got"}]
  /\ \A t \in Threads : pc[t] \in {"ask", "receive"} <=> writer = t
  /\ now \in [Threads -> Nat] /\ calls \in [Threads -> Nat] /\ answer \in [Threads -> Nat]
  /\ asked \subseteq Nat /\ failed \in BOOLEAN

\* Calls that began within the cooldown of a request lead to no other one, even
\* if all of them saw the list expired before the request was made.
RequestsSpaced ==
  [][\A t \in Threads : pc[t] = "write" /\ pc'[t] = "ask" =>
       \A n \in asked : now[t] > n + CooldownErr]_listVars

\* A slow request, whose call began long before others, never moves the
\* cooldown back.
CooldownAdvances == [][cooldown' # cooldown => cooldown' > cooldown]_listVars

\* Unless the last request failed, no call gets a list the coordinator gave
\* more than CooldownOk before the call began, however long the request took.
FreshUnlessFailed ==
  [][\A t \in Threads : pc[t] # "got" /\ pc'[t] = "got" /\ ~failed' =>
       now[t] <= builders' + CooldownOk]_listVars

-------------------------------------------------------------------------------
\* What these rest on.
\* A call does not begin in the future, and the list it gets is given later.
TimesOrdered ==
  \A t \in Threads :
    /\ now[t] <= time
    /\ pc[t] = "receive" => now[t] <= answer[t]

\* Who asks found the cooldown over, and it stays as it is meanwhile.
AskerExpired == \A t \in Threads : pc[t] \in {"ask", "receive"} => cooldown < now[t]

\* Every request is within the cooldown but the one under way.
RequestsCovered ==
  \A n \in asked : n + CooldownErr <= cooldown \/ (writer # None /\ n = now[writer])

\* The cooldown ends at most CooldownOk after the list was given.
ListCovered == ~failed => cooldown <= builders + CooldownOk

ListInv == ListTypeOK /\ TimesOrdered /\ AskerExpired /\ RequestsCovered /\ ListCovered

===============================================================================
