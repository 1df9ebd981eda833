------------------------------ MODULE Coordinator -----------------------------
(***************************************************************************)
(* octo_coordinator and the announcer thread of octo_builder: each builder  *)
(* posts its address every Period seconds; the coordinator keeps it for Ttl *)
(* seconds and lists what has not expired.  Builders start, stop and are    *)
(* killed, the coordinator restarts with an empty registry, updates are     *)
(* delayed and lost.  Time is counted in seconds.                           *)
(*                                                                         *)
(* The code bounds neither the network's delay nor the scheduler's; MaxDelay*)
(* and MaxLost name what is assumed of them where a property needs it.      *)
(***************************************************************************)
EXTENDS Naturals, FiniteSets

CONSTANTS
  Nodes,                        \* hosts that run octo_builder
  Ttl, Period,                  \* 5 s and 1 s in the code
  MaxDelay,                     \* an update, and its answer, take at most this
  MaxLost,                      \* updates in a row that may get lost
  MaxStarts, MaxRestarts,       \* bounds: starts of a builder, coordinator restarts
  MaxClock                      \* bound on the time

ASSUME NodesFinite == IsFiniteSet(Nodes)
ASSUME TimesNatural ==
  /\ Ttl \in Nat /\ Period \in Nat \ {0} /\ MaxDelay \in Nat /\ MaxLost \in Nat
  /\ MaxStarts \in Nat /\ MaxRestarts \in Nat /\ MaxClock \in Nat
\* After MaxLost updates were lost the next one still comes before the timeout.
ASSUME TtlEnough == (MaxLost + 1) * (Period + MaxDelay) + MaxDelay <= Ttl

\* BuilderInfoUpdate::new draws a guid whenever a builder starts.
Guids == Nodes \X (1..MaxStarts)

VARIABLES
  clock,
  registry,                     \* the coordinator's Vec<BuilderState>
  restarts,
  starts,                       \* how often each builder was started
  announcer,                    \* what its announcer thread does
  done,                         \* the flag that ends the thread
  wake,                         \* when its sleep is over
  lost,                         \* updates lost in a row
  net,                          \* updates and answers under way
  known, lastUp                 \* history: guids registered since the last
                                \* restart; when each was last up

builder == <<starts, announcer, done, wake, lost>>
vars == <<clock, registry, restarts, builder, net, known, lastUp>>

Guid(n) == <<n, starts[n]>>
Up(n) == announcer[n] # "off"

Init ==
  /\ clock = 0 /\ registry = {} /\ restarts = 0
  /\ starts = [n \in Nodes |-> 0]
  /\ announcer = [n \in Nodes |-> "off"]
  /\ done = [n \in Nodes |-> FALSE]
  /\ wake = [n \in Nodes |-> 0]
  /\ lost = [n \in Nodes |-> 0]
  /\ net = {} /\ known = {}
  /\ lastUp = [g \in Guids |-> 0]

-------------------------------------------------------------------------------
(* octo_coordinator                                                        *)

\* holder.retain: neither this builder nor anybody who has expired.
Retain(entries, guid, now) == {e \in entries : e.guid # guid /\ e.timeout >= now}

\* Mutant: the list relies on update to drop what has expired.
ListedAny(entries, now) == {e.guid : e \in entries}

\* RpcAgentListHandler: the entries that have not expired.
Listed(entries, now) == {e.guid : e \in {x \in entries : x.timeout >= now}}

\* RpcAgentUpdateHandler, under the write lock.  Builders send a socket's own
\* address, which parses; an unspecified one is replaced by the sender's.
Update(m) ==
  /\ m \in net /\ m.kind = "update"
  /\ registry' = Retain(registry, m.guid, clock) \cup {[guid |-> m.guid, timeout |-> clock + Ttl]}
  /\ known' = known \cup {m.guid}
  /\ net' = (net \ {m}) \cup {[kind |-> "answer", guid |-> m.guid, sent |-> clock]}
  /\ lost' = [n \in Nodes |-> IF Guid(n) = m.guid THEN 0 ELSE lost[n]]
  /\ UNCHANGED <<clock, restarts, starts, announcer, done, wake, lastUp>>

\* The process is restarted: CoordinatorState::new.
Restart ==
  /\ restarts < MaxRestarts
  /\ restarts' = restarts + 1
  /\ registry' = {} /\ known' = {}
  /\ UNCHANGED <<clock, builder, net, lastUp>>

-------------------------------------------------------------------------------
(* octo_builder                                                            *)

\* BuilderService::new spawns the announcer.
Start(n) ==
  /\ ~Up(n) /\ starts[n] < MaxStarts
  /\ starts' = [starts EXCEPT ![n] = @ + 1]
  /\ announcer' = [announcer EXCEPT ![n] = "post"]
  /\ done' = [done EXCEPT ![n] = FALSE]
  /\ lost' = [lost EXCEPT ![n] = 0]
  /\ lastUp' = [lastUp EXCEPT ![<<n, starts[n] + 1>>] = clock]
  /\ UNCHANGED <<clock, registry, restarts, wake, net, known>>

\* The head of the loop: the flag is read, and an update posted.
Post(n) ==
  /\ announcer[n] = "post" /\ ~done[n]
  /\ net' = net \cup {[kind |-> "update", guid |-> Guid(n), sent |-> clock]}
  /\ announcer' = [announcer EXCEPT ![n] = "wait"]
  /\ UNCHANGED <<clock, registry, restarts, starts, done, wake, lost, known, lastUp>>

Exit(n) ==
  /\ announcer[n] = "post" /\ done[n]
  /\ announcer' = [announcer EXCEPT ![n] = "off"]
  /\ UNCHANGED <<clock, registry, restarts, starts, done, wake, lost, net, known, lastUp>>

\* Mutant: the thread sleeps as long as its entry lives.
SleepTtl(n) ==
  /\ announcer' = [announcer EXCEPT ![n] = "sleep"]
  /\ wake' = [wake EXCEPT ![n] = clock + Ttl]

Sleep(n) ==
  /\ announcer' = [announcer EXCEPT ![n] = "sleep"]
  /\ wake' = [wake EXCEPT ![n] = clock + Period]

\* send() returns the answer.
Answered(n) ==
  /\ announcer[n] = "wait"
  /\ \E m \in net : m.kind = "answer" /\ m.guid = Guid(n) /\ net' = net \ {m}
  /\ Sleep(n)
  /\ UNCHANGED <<clock, registry, restarts, starts, done, lost, known, lastUp>>

\* A message is lost; send() returns an error, which is only logged.
Lose(n) ==
  /\ announcer[n] = "wait"
  /\ \E m \in net :
       /\ m.guid = Guid(n) /\ net' = net \ {m}
       /\ m.kind = "update" => lost[n] < MaxLost
       /\ lost' = IF m.kind = "update" THEN [lost EXCEPT ![n] = @ + 1] ELSE lost
  /\ Sleep(n)
  /\ UNCHANGED <<clock, registry, restarts, starts, done, known, lastUp>>

Wake(n) ==
  /\ announcer[n] = "sleep" /\ clock >= wake[n]
  /\ announcer' = [announcer EXCEPT ![n] = "post"]
  /\ UNCHANGED <<clock, registry, restarts, starts, done, wake, lost, net, known, lastUp>>

\* Mutant: the thread is not joined.
StopDetached(n) ==
  /\ Up(n) /\ ~done[n]
  /\ done' = [done EXCEPT ![n] = TRUE]
  /\ announcer' = [announcer EXCEPT ![n] = "off"]
  /\ UNCHANGED <<clock, registry, restarts, starts, wake, lost, net, known, lastUp>>

\* Drop of BuilderService sets the flag and then joins the thread.
Stop(n) ==
  /\ Up(n) /\ ~done[n]
  /\ done' = [done EXCEPT ![n] = TRUE]
  /\ UNCHANGED <<clock, registry, restarts, starts, announcer, wake, lost, net, known, lastUp>>

\* The builder is killed; what it has sent is still under way.
Kill(n) ==
  /\ Up(n)
  /\ announcer' = [announcer EXCEPT ![n] = "off"]
  /\ done' = [done EXCEPT ![n] = FALSE]
  /\ UNCHANGED <<clock, registry, restarts, starts, wake, lost, net, known, lastUp>>

\* A message of a builder that is gone is lost.
Discard(m) ==
  /\ m \in net
  /\ \A n \in Nodes : Guid(n) = m.guid => ~Up(n)
  /\ net' = net \ {m}
  /\ UNCHANGED <<clock, registry, restarts, builder, known, lastUp>>

-------------------------------------------------------------------------------
\* A second passes.  Messages keep to MaxDelay; threads run when they can.
Tick ==
  /\ clock < MaxClock
  /\ \A m \in net : clock < m.sent + MaxDelay
  /\ \A n \in Nodes : announcer[n] # "post" /\ ~(announcer[n] = "sleep" /\ clock >= wake[n])
  /\ clock' = clock + 1
  /\ lastUp' = [g \in Guids |-> IF Up(g[1]) /\ Guid(g[1]) = g THEN clock + 1 ELSE lastUp[g]]
  /\ UNCHANGED <<registry, restarts, builder, net, known>>

Builder(n) ==
  Start(n) \/ Post(n) \/ Exit(n) \/ Answered(n) \/ Lose(n) \/ Wake(n) \/ Stop(n) \/ Kill(n)

Next ==
  \/ \E m \in net : Update(m) \/ Discard(m)
  \/ \E n \in Nodes : Builder(n)
  \/ Restart
  \/ Tick

Spec == Init /\ [][Next]_vars

-------------------------------------------------------------------------------
\* Types; a builder is registered at most once, however its updates and the
\* expiry of others interleave, so that a client's random choice favours none.
TypeOK ==
  /\ clock \in Nat
  /\ registry \subseteq [guid : Guids, timeout : Nat]
  /\ \A d, e \in registry : d.guid = e.guid => d = e
  /\ restarts \in 0..MaxRestarts
  /\ starts \in [Nodes -> 0..MaxStarts]
  /\ announcer \in [Nodes -> {"off", "post", "wait", "sleep"}]
  /\ \A n \in Nodes : Up(n) => starts[n] > 0
  /\ done \in [Nodes -> BOOLEAN]
  /\ wake \in [Nodes -> Nat]
  /\ lost \in [Nodes -> 0..MaxLost]
  /\ net \subseteq [kind : {"update", "answer"}, guid : Guids, sent : Nat]
  /\ known \subseteq Guids
  /\ lastUp \in [Guids -> Nat]

\* A builder that keeps announcing itself is listed without a gap, although an
\* update comes late or is lost.
ListedWhileAnnouncing ==
  \A n \in Nodes :
    Up(n) /\ ~done[n] /\ Guid(n) \in known => Guid(n) \in Listed(registry, clock)

\* What is listed was up not long ago: a killed builder is forgotten, also if
\* its last update arrives after its death and nobody else sends any.
ListedWasUp == \A g \in Listed(registry, clock) : clock <= lastUp[g] + MaxDelay + Ttl

\* Once a stopped builder's thread is joined none of its updates is under way:
\* nothing renews its entry any more.
StoppedIsSilent ==
  \A n \in Nodes : ~Up(n) /\ done[n] =>
    ~\E m \in net : m.kind = "update" /\ m.guid = Guid(n)

===============================================================================
