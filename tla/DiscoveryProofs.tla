---------------------------- MODULE DiscoveryProofs ---------------------------
(***************************************************************************)
(* How the clients find builders.  For any number of builders, restarts and *)
(* lost or late updates, and any period and lifetime that TtlEnough allows: *)
(* a builder that announces itself is listed without a gap, and one that is *)
(* gone not for long.  For any number of worker threads and any cooldowns:  *)
(* a client asks the coordinator no more often and uses its lists no longer *)
(* than intended.                                                           *)
(***************************************************************************)
EXTENDS Coordinator, BuilderList, TLAPS

-------------------------------------------------------------------------------
(* The inductive invariant                                                 *)

Started(g) == g[2] <= starts[g[1]]

\* Updates under way keep to MaxDelay, and were posted while their builder was up.
NetTimely ==
  \A m \in net :
    /\ Started(m.guid) /\ m.sent <= clock /\ clock <= m.sent + MaxDelay
    /\ m.kind = "update" => m.sent <= lastUp[m.guid]

\* What is registered was up not long ago.
EntriesTimely ==
  \A e \in registry : Started(e.guid) /\ e.timeout <= lastUp[e.guid] + MaxDelay + Ttl

KnownStarted == \A g \in known : Started(g)

\* A thread that sleeps is not late, and a builder that is up is up now.
Punctual(n) ==
  /\ Up(n) => lastUp[Guid(n)] = clock
  /\ announcer[n] = "sleep" => clock <= wake[n]

\* send() waits for the one message of its call, and nobody else has one.
OneMessage(n) ==
  /\ announcer[n] = "wait" =>
       /\ \E m \in net : m.guid = Guid(n)
       /\ \A m, o \in net : m.guid = Guid(n) /\ o.guid = Guid(n) => m = o
  /\ announcer[n] \in {"post", "sleep"} \/ (~Up(n) /\ done[n]) =>
       \A m \in net : m.guid # Guid(n)

\* How long after its last update came through a builder posts again, k updates
\* being lost.
Slack(k) == (k + 1) * (Period + MaxDelay)

\* The entry of a builder that is up outlives the updates that may get lost.
Renewed(n, e) ==
  /\ e.guid = Guid(n)
  /\ announcer[n] = "post" => clock + Ttl <= e.timeout + Slack(lost[n])
  /\ announcer[n] = "sleep" => wake[n] + Ttl <= e.timeout + Slack(lost[n])
  /\ announcer[n] = "wait" => \A m \in net : m.guid = Guid(n) =>
       /\ m.kind = "answer" => m.sent + Ttl <= e.timeout
       /\ m.kind = "update" => m.sent + Ttl <= e.timeout + Slack(lost[n])

Covered(n) == Up(n) /\ Guid(n) \in known => \E e \in registry : Renewed(n, e)

NodeInv(n) == Punctual(n) /\ OneMessage(n) /\ Covered(n)

IndInv ==
  /\ TypeOK /\ NetTimely /\ EntriesTimely /\ KnownStarted
  /\ \A n \in Nodes : NodeInv(n)

-------------------------------------------------------------------------------
(* Facts the steps share                                                   *)

\* A guid is a builder and the number of its start.
LEMMA GuidParts ==
  /\ \A g \in Guids : g[1] \in Nodes /\ g[2] \in 1..MaxStarts /\ g = <<g[1], g[2]>>
  /\ \A n \in Nodes, k \in 1..MaxStarts : <<n, k>> \in Guids
  /\ \A n \in Nodes : Guid(n)[1] = n /\ Guid(n)[2] = starts[n]
BY DEF Guids, Guid

\* Builders have guids of their own.
LEMMA GuidsApart ==
  /\ \A n, p \in Nodes : n # p => Guid(n) # Guid(p)
  /\ \A g \in Guids : Guid(g[1]) = g <=> g[2] = starts[g[1]]
BY DEF Guids, Guid

\* Each lost update costs a period and a delay; MaxLost of them are within Ttl.
LEMMA SlackBounds ==
  /\ Slack(0) = Period + MaxDelay
  /\ \A k \in 0..MaxLost : /\ Slack(k) \in Nat /\ Slack(k + 1) = Slack(k) + Period + MaxDelay
                           /\ Period + MaxDelay <= Slack(k) /\ Slack(k) + MaxDelay <= Ttl
<1> USE TimesNatural, TtlEnough DEF Slack
<1>1. Slack(0) = Period + MaxDelay
  OBVIOUS
<1> SUFFICES ASSUME NEW k \in 0..MaxLost
             PROVE  /\ Slack(k) \in Nat /\ Slack(k + 1) = Slack(k) + Period + MaxDelay
                    /\ Period + MaxDelay <= Slack(k) /\ Slack(k) + MaxDelay <= Ttl
  BY <1>1
<1> DEFINE d == Period + MaxDelay
<1>2. d \in Nat
  OBVIOUS
<1>3. k * d \in Nat /\ (MaxLost - k) * d \in Nat
  <2>1. MaxLost - k \in Nat
    OBVIOUS
  <2> HIDE DEF d
  <2> QED BY <1>2, <2>1
<1>4. (k + 1) * d = k * d + d /\ (k + 1 + 1) * d = (k + 1) * d + d
  <2> HIDE DEF d
  <2> QED BY <1>2
<1>5. (MaxLost + 1) * d = (k + 1) * d + (MaxLost - k) * d
  <2> HIDE DEF d
  <2> QED BY <1>2
<1> QED BY <1>2, <1>3, <1>4, <1>5

\* The entry of a builder that is up has not expired.
LEMMA EntryAlive ==
  ASSUME IndInv, NEW n \in Nodes, Up(n), NEW e \in registry, Renewed(n, e)
  PROVE  clock <= e.timeout
<1> USE TimesNatural DEF IndInv, NodeInv
<1>1. /\ lost[n] \in 0..MaxLost /\ wake[n] \in Nat /\ clock \in Nat /\ e.timeout \in Nat
      /\ announcer[n] \in {"post", "wait", "sleep"}
  BY DEF TypeOK, Up
<1>2. Slack(lost[n]) \in Nat /\ Slack(lost[n]) + MaxDelay <= Ttl
  BY <1>1, SlackBounds
<1>3. CASE announcer[n] = "post"
  BY <1>1, <1>2, <1>3 DEF Renewed
<1>4. CASE announcer[n] = "sleep"
  BY <1>1, <1>2, <1>4 DEF Renewed, Punctual
<1>5. CASE announcer[n] = "wait"
  <2>1. PICK m \in net : m.guid = Guid(n)
    BY <1>5 DEF OneMessage
  <2>2. m.sent \in Nat /\ m.kind \in {"update", "answer"} /\ clock <= m.sent + MaxDelay
    BY DEF TypeOK, NetTimely
  <2>3. m.sent + Ttl <= e.timeout + Slack(lost[n])
    BY <1>1, <1>2, <1>5, <2>1, <2>2 DEF Renewed
  <2> QED BY <1>1, <1>2, <2>2, <2>3
<1> QED BY <1>1, <1>3, <1>4, <1>5

\* Nobody has announced itself.
LEMMA InitEstablishes == Init => IndInv
<1> SUFFICES ASSUME Init PROVE IndInv
  OBVIOUS
<1> USE TimesNatural DEF Init
<1>1. TypeOK
  BY DEF TypeOK, Up
<1>2. NetTimely /\ EntriesTimely /\ KnownStarted
  BY DEF NetTimely, EntriesTimely, KnownStarted
<1>3. \A n \in Nodes : NodeInv(n)
  BY DEF NodeInv, Punctual, OneMessage, Covered, Up
<1> QED BY <1>1, <1>2, <1>3 DEF IndInv

\* What does not concern a builder leaves its part of the invariant alone.
LEMMA NodeFrame ==
  ASSUME IndInv, NEW p \in Nodes,
         starts'[p] = starts[p], announcer'[p] = announcer[p], done'[p] = done[p],
         wake'[p] = wake[p], lost'[p] = lost[p], clock' = clock,
         lastUp'[Guid(p)] = lastUp[Guid(p)],
         \A m \in net : m.guid = Guid(p) => m \in net',
         \A m \in net' : m.guid = Guid(p) => m \in net,
         Guid(p) \in known' => Guid(p) \in known,
         \A e \in registry : e.guid = Guid(p) /\ e.timeout >= clock => e \in registry'
  PROVE  NodeInv(p)'
<1>1. Guid(p)' = Guid(p) /\ (Up(p)' <=> Up(p)) /\ NodeInv(p)
  BY DEF Guid, Up, IndInv
<1>2. Punctual(p)'
  BY <1>1 DEF NodeInv, Punctual
<1>3. OneMessage(p)'
  BY <1>1 DEF NodeInv, OneMessage
<1>4. Covered(p)'
  <2> SUFFICES ASSUME Up(p), Guid(p) \in known PROVE \E e \in registry' : Renewed(p, e)'
    BY <1>1 DEF Covered
  <2>1. PICK e \in registry : Renewed(p, e)
    BY <1>1 DEF NodeInv, Covered
  <2>2. e.timeout >= clock
    BY <2>1, EntryAlive DEF IndInv, TypeOK
  <2>3. Renewed(p, e)'
    BY <1>1, <2>1 DEF Renewed, Slack
  <2> QED BY <2>1, <2>2, <2>3 DEF Renewed
<1> QED BY <1>2, <1>3, <1>4 DEF NodeInv

-------------------------------------------------------------------------------
(* The coordinator                                                         *)

\* The entry is replaced by one that lives Ttl from now, and nobody else who
\* has not expired is dropped.
LEMMA UpdatePreserves ==
  ASSUME IndInv, NEW m \in net, Update(m)
  PROVE  IndInv'
<1> USE TimesNatural DEF IndInv
<1>a. PICK a : a = [kind |-> "answer", guid |-> m.guid, sent |-> clock]
  OBVIOUS
<1>r. PICK r : r = [guid |-> m.guid, timeout |-> clock + Ttl]
  OBVIOUS
<1>1. /\ m.kind = "update" /\ registry' = Retain(registry, m.guid, clock) \cup {r}
      /\ known' = known \cup {m.guid} /\ net' = (net \ {m}) \cup {a}
      /\ lost' = [n \in Nodes |-> IF Guid(n) = m.guid THEN 0 ELSE lost[n]]
      /\ UNCHANGED <<clock, restarts, starts, announcer, done, wake, lastUp>>
  BY <1>a, <1>r DEF Update
<1>2. m.guid \in Guids /\ m.sent \in Nat /\ clock \in Nat
  BY DEF TypeOK
<1>3. /\ a.kind = "answer" /\ a.guid = m.guid /\ a.sent = clock
      /\ r.guid = m.guid /\ r.timeout = clock + Ttl
      /\ a \in [kind : {"update", "answer"}, guid : Guids, sent : Nat]
      /\ r \in [guid : Guids, timeout : Nat]
  BY <1>2, <1>a, <1>r
<1>4. /\ Retain(registry, m.guid, clock) \subseteq registry
      /\ \A e \in Retain(registry, m.guid, clock) : e.guid # m.guid
      /\ \A e \in registry : e.guid # m.guid /\ e.timeout >= clock => e \in Retain(registry, m.guid, clock)
  BY DEF Retain
<1> HIDE DEF Retain
<1>5. TypeOK'
  <2>1. registry' \subseteq [guid : Guids, timeout : Nat] /\ net' \subseteq [kind : {"update", "answer"}, guid : Guids, sent : Nat]
    BY <1>1, <1>3, <1>4 DEF TypeOK
  <2>2. \A d, e \in registry' : d.guid = e.guid => d = e
    BY <1>1, <1>3, <1>4 DEF TypeOK
  <2>3. lost' \in [Nodes -> 0..MaxLost]
    BY <1>1 DEF TypeOK
  <2> QED BY <1>1, <1>2, <2>1, <2>2, <2>3 DEF TypeOK, Up
<1>6. NetTimely' /\ EntriesTimely' /\ KnownStarted'
  <2>1. /\ Started(m.guid) /\ m.sent <= lastUp[m.guid] /\ clock <= m.sent + MaxDelay
        /\ lastUp[m.guid] \in Nat
    BY <1>1, <1>2 DEF NetTimely, TypeOK
  <2>2. NetTimely'
    BY <1>1, <1>2, <1>3, <2>1 DEF NetTimely, Started
  <2>3. r.timeout <= lastUp[m.guid] + MaxDelay + Ttl
    BY <1>2, <1>3, <2>1
  <2>4. EntriesTimely'
    BY <1>1, <1>3, <1>4, <2>1, <2>3 DEF EntriesTimely, Started
  <2>5. KnownStarted'
    BY <1>1, <2>1 DEF KnownStarted, Started
  <2> QED BY <2>2, <2>4, <2>5
<1>7. ASSUME NEW p \in Nodes PROVE NodeInv(p)'
  <2>1. CASE Guid(p) # m.guid
    <3>1. lost'[p] = lost[p]
      BY <1>1, <2>1
    <3>2. /\ \A o \in net : o.guid = Guid(p) => o \in net'
          /\ \A o \in net' : o.guid = Guid(p) => o \in net
      BY <1>1, <1>3, <2>1
    <3>3. \A e \in registry : e.guid = Guid(p) /\ e.timeout >= clock => e \in registry'
      BY <1>1, <1>4, <2>1
    <3> QED BY <1>1, <2>1, <3>1, <3>2, <3>3, NodeFrame
  <2>2. CASE Guid(p) = m.guid
    <3>1. Guid(p)' = Guid(p) /\ (Up(p)' <=> Up(p)) /\ NodeInv(p)
      BY <1>1 DEF Guid, Up
    <3>2. announcer[p] \notin {"post", "sleep"} /\ ~(~Up(p) /\ done[p])
      BY <2>2, <3>1 DEF NodeInv, OneMessage
    <3>3. Punctual(p)'
      BY <1>1, <3>1, <3>2 DEF NodeInv, Punctual
    <3>4. Up(p) => announcer[p] = "wait" /\ \A o \in net' : o.guid = Guid(p) => o = a
      BY <1>1, <2>2, <3>1, <3>2 DEF NodeInv, OneMessage, Up, TypeOK
    <3>5. OneMessage(p)'
      BY <1>1, <1>3, <2>2, <3>1, <3>2, <3>4 DEF OneMessage, Up
    <3>6. Up(p) => Renewed(p, r)'
      BY <1>1, <1>2, <1>3, <2>2, <3>1, <3>4 DEF Renewed
    <3>7. Covered(p)'
      BY <1>1, <3>1, <3>6 DEF Covered
    <3> QED BY <3>3, <3>5, <3>7 DEF NodeInv
  <2> QED BY <2>1, <2>2
<1> QED BY <1>5, <1>6, <1>7

\* A new process has no entries; nobody counts as known.
LEMMA RestartPreserves ==
  ASSUME IndInv, Restart
  PROVE  IndInv'
<1> USE TimesNatural DEF IndInv, Restart, builder
<1>1. TypeOK'
  BY DEF TypeOK, Up
<1>2. NetTimely' /\ EntriesTimely' /\ KnownStarted'
  BY DEF NetTimely, EntriesTimely, KnownStarted, Started
<1>3. \A p \in Nodes : NodeInv(p)'
  BY DEF NodeInv, Punctual, OneMessage, Covered, Up, Guid
<1> QED BY <1>1, <1>2, <1>3

-------------------------------------------------------------------------------
(* The builders                                                            *)

\* A step of one builder that posts nothing and takes no message leaves the
\* rest alone.
LEMMA BuilderFrame ==
  ASSUME IndInv, NEW n \in Nodes,
         \A p \in Nodes \ {n} : /\ announcer'[p] = announcer[p] /\ done'[p] = done[p]
                                /\ wake'[p] = wake[p] /\ lost'[p] = lost[p],
         \A m \in net : m.guid # Guid(n) => m \in net',
         \A m \in net' : m.guid # Guid(n) => m \in net,
         UNCHANGED <<clock, registry, starts, known, lastUp>>
  PROVE  EntriesTimely' /\ KnownStarted' /\ \A p \in Nodes \ {n} : NodeInv(p)'
<1>1. EntriesTimely' /\ KnownStarted'
  BY DEF IndInv, EntriesTimely, KnownStarted, Started
<1>2. ASSUME NEW p \in Nodes \ {n} PROVE NodeInv(p)'
  <2>1. Guid(p) # Guid(n)
    BY GuidsApart
  <2> QED BY <2>1, NodeFrame
<1> QED BY <1>1, <1>2

\* A start has a guid nobody has seen.
LEMMA StartPreserves ==
  ASSUME IndInv, NEW n \in Nodes, Start(n)
  PROVE  IndInv'
<1> USE TimesNatural DEF IndInv
<1> DEFINE g == <<n, starts[n] + 1>>
<1>0. /\ ~Up(n) /\ starts[n] < MaxStarts
      /\ starts' = [starts EXCEPT ![n] = @ + 1] /\ announcer' = [announcer EXCEPT ![n] = "post"]
      /\ done' = [done EXCEPT ![n] = FALSE] /\ lost' = [lost EXCEPT ![n] = 0]
      /\ lastUp' = [lastUp EXCEPT ![g] = clock]
      /\ UNCHANGED <<clock, registry, restarts, wake, net, known>>
  BY DEF Start
<1>1. starts[n] \in Nat /\ starts[n] + 1 \in 1..MaxStarts
  BY <1>0 DEF TypeOK
<1>2. g \in Guids /\ g[1] = n /\ g[2] = starts[n] + 1
  BY <1>1, GuidParts
<1>3. ~Started(g) /\ Guid(n)' = g
  BY <1>0, <1>1, <1>2 DEF Started, Guid, TypeOK
<1> HIDE DEF g
<1>4. /\ starts'[n] = starts[n] + 1 /\ announcer'[n] = "post" /\ done'[n] = FALSE /\ lastUp'[g] = clock
      /\ \A p \in Nodes \ {n} : /\ starts'[p] = starts[p] /\ announcer'[p] = announcer[p]
                                /\ done'[p] = done[p] /\ lost'[p] = lost[p]
      /\ \A h \in Guids \ {g} : lastUp'[h] = lastUp[h]
      /\ \A h \in Guids : Started(h) => Started(h)'
  BY <1>0, <1>1, <1>2, GuidParts DEF TypeOK, Started
<1>5. TypeOK'
  <2>0. starts' \in [Nodes -> 0..MaxStarts]
    BY <1>0, <1>1 DEF TypeOK
  <2>1. /\ announcer' \in [Nodes -> {"off", "post", "wait", "sleep"}]
        /\ done' \in [Nodes -> BOOLEAN] /\ lost' \in [Nodes -> 0..MaxLost]
    BY <1>0 DEF TypeOK
  <2>3. lastUp' \in [Guids -> Nat]
    BY <1>0 DEF TypeOK
  <2>2. \A p \in Nodes : Up(p)' => starts'[p] > 0
    BY <1>1, <1>4 DEF TypeOK, Up
  <2> QED BY <1>0, <2>0, <2>1, <2>2, <2>3 DEF TypeOK
<1>6. NetTimely'
  <2>1. \A m \in net : m.guid \in Guids /\ m.guid # g
    BY <1>3 DEF NetTimely, TypeOK
  <2> QED BY <1>0, <1>4, <2>1 DEF NetTimely
<1>7. EntriesTimely' /\ KnownStarted'
  <2>1. /\ \A e \in registry : e.guid \in Guids /\ e.guid # g
        /\ \A h \in known : h \in Guids
    BY <1>3 DEF EntriesTimely, TypeOK
  <2> QED BY <1>0, <1>4, <2>1 DEF EntriesTimely, KnownStarted
<1>8. ASSUME NEW p \in Nodes PROVE NodeInv(p)'
  <2>1. CASE p = n
    <3>1. g \notin known /\ \A m \in net : m.guid # g
      BY <1>3 DEF KnownStarted, NetTimely
    <3> QED BY <1>0, <1>3, <1>4, <2>1, <3>1 DEF NodeInv, Punctual, OneMessage, Covered, Up
  <2>2. CASE p # n
    <3>1. CASE starts[p] = 0
      <4>1. ~Up(p)' /\ Guid(p)' = Guid(p)
        BY <1>4, <2>2, <3>1 DEF TypeOK, Up, Guid
      <4>2. NodeInv(p)
        OBVIOUS
      <4> QED BY <1>0, <1>4, <2>2, <4>1, <4>2 DEF NodeInv, Punctual, OneMessage, Covered, Up
    <3>2. CASE starts[p] # 0
      <4>1. Guid(p) \in Guids /\ Guid(p) # g
        BY <1>2, <2>2, <3>2, GuidParts DEF TypeOK, Guid
      <4> QED BY <1>0, <1>4, <2>2, <4>1, NodeFrame
    <3> QED BY <3>1, <3>2
  <2> QED BY <2>1, <2>2
<1> QED BY <1>5, <1>6, <1>7, <1>8

\* The update is the one message of its builder.
LEMMA PostPreserves ==
  ASSUME IndInv, NEW n \in Nodes, Post(n)
  PROVE  IndInv'
<1> USE TimesNatural DEF IndInv
<1>u. PICK u : u = [kind |-> "update", guid |-> Guid(n), sent |-> clock]
  OBVIOUS
<1>0. /\ announcer[n] = "post" /\ net' = net \cup {u} /\ announcer' = [announcer EXCEPT ![n] = "wait"]
      /\ UNCHANGED <<clock, registry, restarts, starts, done, wake, lost, known, lastUp>>
  BY <1>u DEF Post
<1>1. Up(n) /\ clock \in Nat /\ Guid(n) \in Guids /\ Started(Guid(n)) /\ NodeInv(n)
  <2>1. Up(n) /\ clock \in Nat /\ starts[n] \in 1..MaxStarts /\ NodeInv(n)
    BY <1>0 DEF Up, TypeOK
  <2>2. Guid(n) \in Guids
    BY <2>1, GuidParts DEF Guid
  <2>3. Started(Guid(n))
    BY <2>1, GuidParts DEF Started
  <2> QED BY <2>1, <2>2, <2>3
<1>2. /\ u.kind = "update" /\ u.guid = Guid(n) /\ u.sent = clock
      /\ u \in [kind : {"update", "answer"}, guid : Guids, sent : Nat]
  BY <1>1, <1>u
<1>3. /\ announcer'[n] = "wait" /\ \A p \in Nodes \ {n} : announcer'[p] = announcer[p]
      /\ Guid(n)' = Guid(n) /\ Up(n)'
  BY <1>0 DEF TypeOK, Guid, Up
<1>4. TypeOK'
  <2>1. \A p \in Nodes : Up(p)' => starts[p] > 0
    BY <1>1, <1>3 DEF TypeOK, Up
  <2> QED BY <1>0, <1>2, <2>1 DEF TypeOK
<1>5. NetTimely'
  <2>1. lastUp[Guid(n)] = clock
    BY <1>1 DEF NodeInv, Punctual
  <2> QED BY <1>0, <1>1, <1>2, <2>1 DEF NetTimely, Started
<1>6. EntriesTimely' /\ KnownStarted' /\ \A p \in Nodes \ {n} : NodeInv(p)'
  BY <1>0, <1>2, <1>3, BuilderFrame
<1>7. NodeInv(n)'
  <2>1. \A m \in net' : m.guid = Guid(n) => m = u
    BY <1>0, <1>1 DEF NodeInv, OneMessage
  <2>2. Punctual(n)' /\ OneMessage(n)'
    BY <1>0, <1>1, <1>2, <1>3, <2>1 DEF NodeInv, Punctual, OneMessage
  <2>3. Covered(n)'
    <3> SUFFICES ASSUME Guid(n) \in known PROVE \E e \in registry' : Renewed(n, e)'
      BY <1>0, <1>3 DEF Covered
    <3>1. PICK e \in registry : Renewed(n, e)
      BY <1>1 DEF NodeInv, Covered
    <3>2. Renewed(n, e)'
      BY <1>0, <1>2, <1>3, <2>1, <3>1 DEF Renewed, Slack
    <3> QED BY <1>0, <3>1, <3>2
  <2> QED BY <2>2, <2>3 DEF NodeInv
<1> QED BY <1>4, <1>5, <1>6, <1>7

\* send() ends, with the answer or without it: the thread sleeps for a Period.
LEMMA CallEnds ==
  ASSUME IndInv, NEW n \in Nodes, announcer[n] = "wait",
         NEW m \in net, m.guid = Guid(n), net' = net \ {m}, Sleep(n),
         \/ m.kind = "answer" /\ lost' = lost
         \/ m.kind = "update" /\ lost[n] < MaxLost /\ lost' = [lost EXCEPT ![n] = @ + 1],
         UNCHANGED <<clock, registry, restarts, starts, done, known, lastUp>>
  PROVE  IndInv'
<1> USE TimesNatural DEF IndInv
<1>1. /\ announcer' = [announcer EXCEPT ![n] = "sleep"] /\ wake' = [wake EXCEPT ![n] = clock + Period]
      /\ clock \in Nat /\ m.sent \in Nat /\ clock <= m.sent + MaxDelay /\ lost[n] \in 0..MaxLost
  BY DEF Sleep, TypeOK, NetTimely
<1>2. /\ announcer'[n] = "sleep" /\ wake'[n] = clock + Period
      /\ \A p \in Nodes \ {n} : /\ announcer'[p] = announcer[p] /\ wake'[p] = wake[p]
                                /\ lost'[p] = lost[p]
      /\ Guid(n)' = Guid(n) /\ Up(n) /\ Up(n)' /\ NodeInv(n)
  BY <1>1 DEF TypeOK, Guid, Up
<1>3. TypeOK'
  <2>1. lost' \in [Nodes -> 0..MaxLost]
    BY <1>1 DEF TypeOK
  <2>2. \A p \in Nodes : Up(p)' => starts[p] > 0
    BY <1>2 DEF TypeOK, Up
  <2>3. /\ wake' \in [Nodes -> Nat] /\ announcer' \in [Nodes -> {"off", "post", "wait", "sleep"}]
        /\ net' \subseteq net
    BY <1>1 DEF TypeOK
  <2> QED BY <1>1, <2>1, <2>2, <2>3 DEF TypeOK
<1>4. NetTimely'
  BY DEF NetTimely, Started
<1>5. EntriesTimely' /\ KnownStarted' /\ \A p \in Nodes \ {n} : NodeInv(p)'
  BY <1>2, BuilderFrame
<1>6. Punctual(n)' /\ OneMessage(n)'
  BY <1>1, <1>2 DEF NodeInv, Punctual, OneMessage
<1>7. Covered(n)'
  <2> SUFFICES ASSUME Guid(n) \in known PROVE \E e \in registry' : Renewed(n, e)'
    BY <1>2 DEF Covered
  <2>1. PICK e \in registry : Renewed(n, e)
    BY <1>2 DEF NodeInv, Covered
  <2>2. e.timeout \in Nat
    BY DEF TypeOK
  <2>3. /\ Slack(lost[n]) \in Nat /\ Period + MaxDelay <= Slack(lost[n])
        /\ Slack(lost[n] + 1) = Slack(lost[n]) + Period + MaxDelay
    BY <1>1, SlackBounds
  <2>4. (clock + Period) + Ttl <= e.timeout + Slack(lost'[n])
    <3>1. CASE m.kind = "answer" /\ lost' = lost
      <4>1. m.sent + Ttl <= e.timeout
        BY <2>1, <3>1 DEF Renewed
      <4> HIDE DEF Slack
      <4> QED BY <1>1, <2>2, <2>3, <3>1, <4>1
    <3>2. CASE m.kind = "update" /\ lost' = [lost EXCEPT ![n] = @ + 1]
      <4>1. m.sent + Ttl <= e.timeout + Slack(lost[n]) /\ lost'[n] = lost[n] + 1
        BY <2>1, <3>2 DEF Renewed, TypeOK
      <4> HIDE DEF Slack
      <4>2. (clock + Period) + Ttl <= e.timeout + (Slack(lost[n]) + Period + MaxDelay)
        BY <1>1, <2>2, <2>3, <4>1
      <4> QED BY <2>3, <4>1, <4>2
    <3> QED BY <3>1, <3>2
  <2>5. Renewed(n, e)'
    BY <1>2, <2>1, <2>4 DEF Renewed, Slack
  <2> QED BY <2>1, <2>5
<1> QED BY <1>3, <1>4, <1>5, <1>6, <1>7 DEF NodeInv

\* An answer only lets the announcer sleep.
LEMMA AnsweredPreserves ==
  ASSUME IndInv, NEW n \in Nodes, Answered(n)
  PROVE  IndInv'
<1>1. PICK m \in net : m.kind = "answer" /\ m.guid = Guid(n) /\ net' = net \ {m}
  BY DEF Answered
<1> QED BY <1>1, CallEnds DEF Answered

\* A lost update counts against MaxLost.
LEMMA LosePreserves ==
  ASSUME IndInv, NEW n \in Nodes, Lose(n)
  PROVE  IndInv'
<1>1. PICK m \in net : /\ m.guid = Guid(n) /\ net' = net \ {m}
                       /\ m.kind = "update" => lost[n] < MaxLost
                       /\ lost' = IF m.kind = "update" THEN [lost EXCEPT ![n] = @ + 1] ELSE lost
  BY DEF Lose
<1>2. m.kind \in {"update", "answer"}
  BY DEF IndInv, TypeOK
<1>3. CASE m.kind = "update"
  BY <1>1, <1>3, CallEnds DEF Lose
<1>4. CASE m.kind = "answer"
  BY <1>1, <1>4, CallEnds DEF Lose
<1> QED BY <1>2, <1>3, <1>4

\* A thread wakes in time, and its next update is on its way in time.
LEMMA WakePreserves ==
  ASSUME IndInv, NEW n \in Nodes, Wake(n)
  PROVE  IndInv'
<1> USE TimesNatural DEF IndInv
<1>0. /\ announcer[n] = "sleep" /\ clock >= wake[n] /\ announcer' = [announcer EXCEPT ![n] = "post"]
      /\ UNCHANGED <<clock, registry, restarts, starts, done, wake, lost, net, known, lastUp>>
  BY DEF Wake
<1>1. /\ announcer'[n] = "post" /\ \A p \in Nodes \ {n} : announcer'[p] = announcer[p]
      /\ Guid(n)' = Guid(n) /\ Up(n) /\ Up(n)' /\ NodeInv(n)
  BY <1>0 DEF TypeOK, Guid, Up
<1>2. TypeOK'
  <2>1. \A p \in Nodes : Up(p)' => starts[p] > 0
    BY <1>1 DEF TypeOK, Up
  <2> QED BY <1>0, <2>1 DEF TypeOK
<1>3. NetTimely'
  BY <1>0 DEF NetTimely, Started
<1>4. EntriesTimely' /\ KnownStarted' /\ \A p \in Nodes \ {n} : NodeInv(p)'
  BY <1>0, <1>1, BuilderFrame
<1>5. Punctual(n)' /\ OneMessage(n)'
  BY <1>0, <1>1 DEF NodeInv, Punctual, OneMessage
<1>6. Covered(n)'
  <2> SUFFICES ASSUME Guid(n) \in known PROVE \E e \in registry' : Renewed(n, e)'
    BY <1>0, <1>1 DEF Covered
  <2>1. PICK e \in registry : Renewed(n, e)
    BY <1>1 DEF NodeInv, Covered
  <2>2. clock = wake[n]
    BY <1>0, <1>1 DEF NodeInv, Punctual, TypeOK
  <2>3. Renewed(n, e)'
    BY <1>0, <1>1, <2>1, <2>2 DEF Renewed, Slack
  <2> QED BY <1>0, <2>1, <2>3
<1> QED BY <1>2, <1>3, <1>4, <1>5, <1>6 DEF NodeInv

\* A thread that ends, or is killed, is not up; one that exits has nothing under
\* way, since its last send() has returned.
LEMMA OffPreserves ==
  ASSUME IndInv, NEW n \in Nodes, Exit(n) \/ Kill(n)
  PROVE  IndInv'
<1> USE TimesNatural DEF IndInv
<1>0. /\ announcer' = [announcer EXCEPT ![n] = "off"]
      /\ \/ announcer[n] = "post" /\ done[n] /\ UNCHANGED done
         \/ done' = [done EXCEPT ![n] = FALSE]
      /\ UNCHANGED <<clock, registry, restarts, starts, wake, lost, net, known, lastUp>>
  BY DEF Exit, Kill
<1>1. /\ announcer'[n] = "off" /\ \A p \in Nodes \ {n} : announcer'[p] = announcer[p] /\ done'[p] = done[p]
      /\ Guid(n)' = Guid(n) /\ ~Up(n)' /\ NodeInv(n)
      /\ announcer[n] = "post" \/ ~done'[n]
  BY <1>0 DEF TypeOK, Guid, Up
<1>2. TypeOK'
  <2>1. \A p \in Nodes : Up(p)' => starts[p] > 0
    BY <1>1 DEF TypeOK, Up
  <2>2. done' \in [Nodes -> BOOLEAN]
    BY <1>0 DEF TypeOK
  <2> QED BY <1>0, <2>1, <2>2 DEF TypeOK
<1>3. NetTimely'
  BY <1>0 DEF NetTimely, Started
<1>4. EntriesTimely' /\ KnownStarted' /\ \A p \in Nodes \ {n} : NodeInv(p)'
  BY <1>0, <1>1, BuilderFrame
<1>5. NodeInv(n)'
  BY <1>0, <1>1 DEF NodeInv, Punctual, OneMessage, Covered
<1> QED BY <1>2, <1>3, <1>4, <1>5

\* The flag is set while the thread goes on.
LEMMA StopPreserves ==
  ASSUME IndInv, NEW n \in Nodes, Stop(n)
  PROVE  IndInv'
<1> USE TimesNatural DEF IndInv
<1>0. /\ Up(n) /\ done' = [done EXCEPT ![n] = TRUE]
      /\ UNCHANGED <<clock, registry, restarts, starts, announcer, wake, lost, net, known, lastUp>>
  BY DEF Stop
<1>1. /\ \A p \in Nodes \ {n} : done'[p] = done[p]
      /\ Guid(n)' = Guid(n) /\ Up(n)' /\ NodeInv(n)
  BY <1>0 DEF TypeOK, Guid, Up
<1>2. TypeOK'
  <2>1. done' \in [Nodes -> BOOLEAN]
    BY <1>0 DEF TypeOK
  <2> QED BY <1>0, <2>1 DEF TypeOK, Up
<1>3. NetTimely'
  BY <1>0 DEF NetTimely, Started
<1>4. EntriesTimely' /\ KnownStarted' /\ \A p \in Nodes \ {n} : NodeInv(p)'
  BY <1>0, <1>1, BuilderFrame
<1>5. Punctual(n)' /\ OneMessage(n)'
  BY <1>0, <1>1 DEF NodeInv, Punctual, OneMessage, Up
<1>6. Covered(n)'
  BY <1>0, <1>1 DEF NodeInv, Covered, Renewed, Slack
<1> QED BY <1>2, <1>3, <1>4, <1>5, <1>6 DEF NodeInv

\* Messages of the dead may vanish.
LEMMA DiscardPreserves ==
  ASSUME IndInv, NEW m \in net, Discard(m)
  PROVE  IndInv'
<1> USE TimesNatural DEF IndInv, builder
<1>0. /\ \A n \in Nodes : Guid(n) = m.guid => ~Up(n)
      /\ net' = net \ {m}
      /\ UNCHANGED <<clock, registry, restarts, starts, announcer, done, wake, lost, known, lastUp>>
  BY DEF Discard
<1>1. TypeOK'
  BY <1>0 DEF TypeOK, Up
<1>2. NetTimely' /\ EntriesTimely' /\ KnownStarted'
  BY <1>0 DEF NetTimely, EntriesTimely, KnownStarted, Started
<1>3. ASSUME NEW p \in Nodes PROVE NodeInv(p)'
  <2>1. CASE Guid(p) # m.guid
    BY <1>0, <2>1, NodeFrame
  <2>2. CASE Guid(p) = m.guid
    <3>1. ~Up(p) /\ ~Up(p)' /\ Guid(p)' = Guid(p) /\ NodeInv(p)
      BY <1>0, <2>2 DEF Up, Guid
    <3>2. announcer[p] = "off" /\ announcer'[p] = "off"
      BY <1>0, <3>1 DEF Up
    <3> QED BY <1>0, <3>1, <3>2 DEF NodeInv, Punctual, OneMessage, Covered
  <2> QED BY <2>1, <2>2
<1> QED BY <1>1, <1>2, <1>3

-------------------------------------------------------------------------------
(* The time                                                                *)

\* No message is overdue and no thread late, so a second may pass.
LEMMA TickPreserves ==
  ASSUME IndInv, Tick
  PROVE  IndInv'
<1> USE TimesNatural DEF IndInv, builder
<1>0. /\ \A m \in net : clock < m.sent + MaxDelay
      /\ \A n \in Nodes : announcer[n] # "post" /\ ~(announcer[n] = "sleep" /\ clock >= wake[n])
      /\ clock' = clock + 1 /\ clock \in Nat
      /\ lastUp' = [g \in Guids |-> IF Up(g[1]) /\ Guid(g[1]) = g THEN clock + 1 ELSE lastUp[g]]
      /\ UNCHANGED <<registry, restarts, starts, announcer, done, wake, lost, net, known>>
  BY DEF Tick, TypeOK
<1>1. TypeOK'
  <2>1. lastUp' \in [Guids -> Nat]
    BY <1>0 DEF TypeOK
  <2> QED BY <1>0, <2>1 DEF TypeOK, Up
<1>2. \A g \in Guids : lastUp[g] <= lastUp'[g] /\ lastUp'[g] \in Nat /\ lastUp[g] \in Nat
  <2> SUFFICES ASSUME NEW g \in Guids
               PROVE  lastUp[g] <= lastUp'[g] /\ lastUp'[g] \in Nat /\ lastUp[g] \in Nat
    OBVIOUS
  <2>1. g[1] \in Nodes /\ lastUp[g] \in Nat
    BY GuidParts DEF TypeOK
  <2>2. CASE Up(g[1]) /\ Guid(g[1]) = g
    <3>1. lastUp[g] = clock /\ lastUp'[g] = clock + 1
      BY <1>0, <2>1, <2>2 DEF NodeInv, Punctual
    <3> QED BY <1>0, <3>1
  <2>3. CASE ~(Up(g[1]) /\ Guid(g[1]) = g)
    BY <1>0, <2>1, <2>3
  <2> QED BY <2>2, <2>3
<1>3. NetTimely'
  <2> SUFFICES ASSUME NEW m \in net
               PROVE  /\ Started(m.guid)' /\ m.sent <= clock' /\ clock' <= m.sent + MaxDelay
                      /\ m.kind = "update" => m.sent <= lastUp'[m.guid]
    BY <1>0 DEF NetTimely
  <2>1. m.guid \in Guids /\ m.sent \in Nat
    BY DEF TypeOK
  <2>2. Started(m.guid)' /\ m.sent <= clock' /\ clock' <= m.sent + MaxDelay
    BY <1>0, <2>1 DEF NetTimely, Started
  <2>3. m.kind = "update" => m.sent <= lastUp'[m.guid]
    BY <1>2, <2>1 DEF NetTimely
  <2> QED BY <2>2, <2>3
<1>4. EntriesTimely'
  <2> SUFFICES ASSUME NEW e \in registry
               PROVE  Started(e.guid)' /\ e.timeout <= lastUp'[e.guid] + MaxDelay + Ttl
    BY <1>0 DEF EntriesTimely
  <2>1. e.guid \in Guids /\ e.timeout \in Nat
    BY DEF TypeOK
  <2> QED BY <1>0, <1>2, <2>1 DEF EntriesTimely, Started
<1>5. KnownStarted'
  BY <1>0 DEF KnownStarted, Started
<1>6. ASSUME NEW p \in Nodes PROVE NodeInv(p)'
  <2>1. Guid(p)' = Guid(p) /\ (Up(p)' <=> Up(p)) /\ NodeInv(p) /\ wake[p] \in Nat
    BY <1>0 DEF Guid, Up, TypeOK
  <2>2. Punctual(p)'
    <3>1. Up(p) => Guid(p) \in Guids /\ Guid(p)[1] = p
      BY GuidParts DEF TypeOK, Guid
    <3>2. Up(p) => lastUp'[Guid(p)] = clock + 1
      BY <1>0, <3>1
    <3>3. announcer[p] = "sleep" => clock + 1 <= wake[p]
      BY <1>0, <2>1
    <3> QED BY <1>0, <2>1, <3>2, <3>3 DEF Punctual
  <2>3. OneMessage(p)'
    BY <1>0, <2>1 DEF NodeInv, OneMessage
  <2>4. Covered(p)'
    <3> SUFFICES ASSUME Up(p), Guid(p) \in known PROVE \E e \in registry' : Renewed(p, e)'
      BY <1>0, <2>1 DEF Covered
    <3>1. PICK e \in registry : Renewed(p, e)
      BY <2>1 DEF NodeInv, Covered
    <3>2. Renewed(p, e)'
      BY <1>0, <2>1, <3>1 DEF Renewed, Slack
    <3> QED BY <1>0, <3>1, <3>2
  <2> QED BY <2>2, <2>3, <2>4 DEF NodeInv
<1> QED BY <1>1, <1>3, <1>4, <1>5, <1>6

\* Nothing changes, nor does the invariant.
LEMMA StutterPreserves ==
  ASSUME IndInv, UNCHANGED vars
  PROVE  IndInv'
<1> USE DEF IndInv, vars, builder
<1>1. TypeOK'
  BY DEF TypeOK, Up
<1>2. NetTimely' /\ EntriesTimely' /\ KnownStarted'
  BY DEF NetTimely, EntriesTimely, KnownStarted, Started
<1>3. ASSUME NEW p \in Nodes PROVE NodeInv(p)'
  BY NodeFrame
<1> QED BY <1>1, <1>2, <1>3

\* Every step keeps the invariant.
LEMMA NextPreserves == IndInv /\ [Next]_vars => IndInv'
BY UpdatePreserves, DiscardPreserves, StartPreserves, PostPreserves, OffPreserves, AnsweredPreserves,
   LosePreserves, WakePreserves, StopPreserves, RestartPreserves, TickPreserves, StutterPreserves
   DEF Next, Builder

-------------------------------------------------------------------------------
(* The theorems                                                            *)

\* The inductive invariant of the coordinator, the builders and the network.
THEOREM CoordinatorInvariant == Spec => []IndInv
<1>1. Init => IndInv
  BY InitEstablishes
<1>2. IndInv /\ [Next]_vars => IndInv'
  BY NextPreserves
<1> QED BY <1>1, <1>2, PTL DEF Spec

\* The registry never holds two entries of one builder: RpcAgentUpdateHandler
\* drops the old one under the lock under which it adds the new one.
THEOREM CoordinatorTypeCorrect == Spec => []TypeOK
<1>1. IndInv => TypeOK
  BY DEF IndInv
<1> QED BY <1>1, CoordinatorInvariant, PTL

\* A builder that keeps announcing itself is in the list the coordinator gives,
\* from its first update on, although MaxLost updates in a row are lost and all
\* are late by MaxDelay.
THEOREM ListedWhileAnnouncingAlways == Spec => []ListedWhileAnnouncing
<1>1. IndInv => ListedWhileAnnouncing
  <2> SUFFICES ASSUME IndInv, NEW n \in Nodes, Up(n), Guid(n) \in known
               PROVE  Guid(n) \in Listed(registry, clock)
    BY DEF ListedWhileAnnouncing
  <2>1. PICK e \in registry : Renewed(n, e)
    BY DEF IndInv, NodeInv, Covered
  <2>2. clock <= e.timeout /\ e.guid = Guid(n)
    BY <2>1, EntryAlive DEF Renewed
  <2>3. e.timeout >= clock
    BY <2>2 DEF IndInv, TypeOK
  <2> QED BY <2>2, <2>3 DEF Listed
<1> QED BY <1>1, CoordinatorInvariant, PTL

\* No list names a builder that was not up within the last MaxDelay + Ttl, also
\* if its last update arrived after its death.
THEOREM ListedWasUpAlways == Spec => []ListedWasUp
<1>1. IndInv => ListedWasUp
  <2> SUFFICES ASSUME IndInv, NEW g \in Listed(registry, clock)
               PROVE  clock <= lastUp[g] + MaxDelay + Ttl
    BY DEF ListedWasUp
  <2>1. PICK e \in registry : e.guid = g /\ e.timeout >= clock
    BY DEF Listed
  <2>2. e.timeout \in Nat /\ clock \in Nat /\ lastUp[g] \in Nat /\ e.timeout <= lastUp[g] + MaxDelay + Ttl
    BY <2>1 DEF IndInv, TypeOK, EntriesTimely
  <2> QED BY <2>1, <2>2, TimesNatural
<1> QED BY <1>1, CoordinatorInvariant, PTL

\* Drop of BuilderService joins the thread: when it returns no update of that
\* builder is under way.
THEOREM StoppedIsSilentAlways == Spec => []StoppedIsSilent
<1>1. IndInv => StoppedIsSilent
  BY DEF IndInv, NodeInv, OneMessage, StoppedIsSilent
<1> QED BY <1>1, CoordinatorInvariant, PTL

-------------------------------------------------------------------------------
(* The client's list                                                       *)

\* Nobody has called and nothing was asked.
LEMMA ListInitEstablishes == ListInit => ListInv
<1> SUFFICES ASSUME ListInit PROVE ListInv
  OBVIOUS
<1>1. ListTypeOK
  BY NoneIsNoThread DEF ListInit, ListTypeOK
<1>2. TimesOrdered /\ AskerExpired
  BY DEF ListInit, TimesOrdered, AskerExpired
<1>3. RequestsCovered /\ ListCovered
  BY CooldownsNatural DEF ListInit, RequestsCovered, ListCovered
<1> QED BY <1>1, <1>2, <1>3 DEF ListInv

\* The call reads the time; nothing shared changes.
LEMMA CallPreserves ==
  ASSUME ListInv, NEW t \in Threads, Call(t)
  PROVE  ListInv'
<1> USE NoneIsNoThread, CooldownsNatural DEF ListInv, Call, Go, shared, history
<1>1. ListTypeOK'
  BY DEF ListTypeOK
<1>2. TimesOrdered' /\ AskerExpired'
  BY DEF ListTypeOK, TimesOrdered, AskerExpired
<1>3. RequestsCovered'
  <2>1. writer # t
    BY DEF ListTypeOK
  <2>2. writer # None => now'[writer] = now[writer]
    BY <2>1 DEF ListTypeOK
  <2> QED BY <2>2 DEF ListTypeOK, RequestsCovered
<1>4. ListCovered'
  BY DEF ListCovered
<1> QED BY <1>1, <1>2, <1>3, <1>4

\* Looking at the cooldown changes nothing but where the call is.
LEMMA ReadPreserves ==
  ASSUME ListInv, NEW t \in Threads, Read(t)
  PROVE  ListInv'
<1> USE NoneIsNoThread, CooldownsNatural DEF ListInv, Read, Go, shared, history
<1>1. ListTypeOK'
  BY DEF ListTypeOK
<1>2. TimesOrdered' /\ AskerExpired'
  BY DEF ListTypeOK, TimesOrdered, AskerExpired
<1>3. RequestsCovered' /\ ListCovered'
  BY DEF RequestsCovered, ListCovered
<1> QED BY <1>1, <1>2, <1>3

\* Whoever gets to ask found the cooldown over; its request is the one under way.
LEMMA LockPreserves ==
  ASSUME ListInv, NEW t \in Threads, Lock(t)
  PROVE  ListInv'
<1> USE NoneIsNoThread, CooldownsNatural DEF ListInv, Lock, Go, shared, history
<1>1. ListTypeOK'
  <2>1. CASE cooldown >= now[t]
    BY <2>1 DEF ListTypeOK
  <2>2. CASE ~(cooldown >= now[t])
    <3>1. writer' = t /\ asked' = asked \cup {now[t]}
      BY <2>2
    <3>2. now[t] \in Nat /\ asked \subseteq Nat
      BY DEF ListTypeOK
    <3>3. asked' \subseteq Nat
      BY <3>1, <3>2
    <3>4. \A u \in Threads : pc'[u] \in {"ask", "receive"} <=> writer' = u
      BY <2>2 DEF ListTypeOK
    <3> QED BY <2>2, <3>1, <3>3, <3>4 DEF ListTypeOK
  <2> QED BY <2>1, <2>2
<1>2. TimesOrdered' /\ AskerExpired'
  BY DEF ListTypeOK, TimesOrdered, AskerExpired
<1>3. RequestsCovered'
  BY DEF ListTypeOK, RequestsCovered
<1>4. ListCovered'
  BY DEF ListCovered
<1> QED BY <1>1, <1>2, <1>3, <1>4

\* The coordinator answers after the call began.
LEMMA ServePreserves ==
  ASSUME ListInv, NEW t \in Threads, Serve(t)
  PROVE  ListInv'
<1> USE NoneIsNoThread, CooldownsNatural DEF ListInv, Serve, Go, shared, history
<1>1. ListTypeOK'
  BY DEF ListTypeOK
<1>2. TimesOrdered' /\ AskerExpired'
  BY DEF ListTypeOK, TimesOrdered, AskerExpired
<1>3. RequestsCovered' /\ ListCovered'
  BY DEF RequestsCovered, ListCovered
<1> QED BY <1>1, <1>2, <1>3

\* The new cooldown covers the request just made and, because it lies ahead of
\* the old one, all earlier ones; the list is no older than the call.
LEMMA ReceivePreserves ==
  ASSUME ListInv, NEW t \in Threads, Receive(t)
  PROVE  ListInv'
<1> USE NoneIsNoThread, CooldownsNatural DEF ListInv, Receive, Go
<1>1. ListTypeOK'
  <2>1. cooldown' \in Nat /\ builders' \in Nat
    BY DEF ListTypeOK
  <2>2. \A u \in Threads : pc'[u] \in {"ask", "receive"} <=> writer' = u
    BY DEF ListTypeOK
  <2> QED BY <2>1, <2>2 DEF ListTypeOK
<1>2. TimesOrdered' /\ AskerExpired'
  BY DEF ListTypeOK, TimesOrdered, AskerExpired
<1>3. writer = t /\ cooldown < now[t] /\ now[t] <= answer[t]
  BY DEF ListTypeOK, TimesOrdered, AskerExpired
<1>4. RequestsCovered'
  BY <1>3 DEF ListTypeOK, RequestsCovered
<1>5. ListCovered'
  BY <1>3 DEF ListTypeOK, ListCovered
<1> QED BY <1>1, <1>2, <1>4, <1>5

\* An error covers the request as well, for the shorter time.
LEMMA FailPreserves ==
  ASSUME ListInv, NEW t \in Threads, Fail(t)
  PROVE  ListInv'
<1> USE NoneIsNoThread, CooldownsNatural DEF ListInv, Fail, Go
<1>1. ListTypeOK'
  BY DEF ListTypeOK
<1>2. TimesOrdered' /\ AskerExpired'
  BY DEF ListTypeOK, TimesOrdered, AskerExpired
<1>3. writer = t /\ cooldown < now[t]
  BY DEF ListTypeOK, AskerExpired
<1>4. RequestsCovered'
  BY <1>3 DEF ListTypeOK, RequestsCovered
<1>5. ListCovered'
  BY DEF ListCovered
<1> QED BY <1>1, <1>2, <1>4, <1>5

\* The clock only moves away from the times calls began.
LEMMA ListTickPreserves ==
  ASSUME ListInv, ListTick
  PROVE  ListInv'
<1> USE CooldownsNatural DEF ListInv, ListTick, shared, history
<1>1. ListTypeOK'
  BY DEF ListTypeOK
<1>2. TimesOrdered' /\ AskerExpired'
  BY DEF ListTypeOK, TimesOrdered, AskerExpired
<1>3. RequestsCovered' /\ ListCovered'
  BY DEF RequestsCovered, ListCovered
<1> QED BY <1>1, <1>2, <1>3

\* Every step of a thread and of the clock preserves the invariant.
LEMMA ListNextPreserves == ListInv /\ [ListNext]_listVars => ListInv'
<1> SUFFICES ASSUME ListInv, [ListNext]_listVars PROVE ListInv'
  OBVIOUS
<1>1. ASSUME NEW t \in Threads, Step(t) PROVE ListInv'
  BY <1>1, CallPreserves, ReadPreserves, LockPreserves, ServePreserves, ReceivePreserves,
     FailPreserves DEF Step
<1>2. CASE ListTick
  BY <1>2, ListTickPreserves
<1>3. CASE UNCHANGED listVars
  BY <1>3 DEF listVars, shared, history, ListInv, ListTypeOK, TimesOrdered, AskerExpired,
     RequestsCovered, ListCovered
<1>4. CASE AllDone
  BY <1>3, <1>4 DEF AllDone
<1> QED BY <1>1, <1>2, <1>3, <1>4 DEF ListNext

\* The lock, the times and the cooldowns are always as IndInv says.
THEOREM ListInvariant == ListSpec => []ListInv
  BY ListInitEstablishes, ListNextPreserves, PTL DEF ListSpec

\* The write lock of RemoteShared is held exactly by the thread that asks.
THEOREM ListTypeCorrect == ListSpec => []ListTypeOK
<1>1. ListInv => ListTypeOK
  BY DEF ListInv
<1> QED BY <1>1, ListInvariant, PTL

\* Only Lock makes a request, and all earlier ones are covered by the cooldown
\* that Lock found over.
LEMMA LockSpaced ==
  ASSUME ListInv, [ListNext]_listVars
  PROVE  [\A t \in Threads : pc[t] = "write" /\ pc'[t] = "ask" =>
            \A n \in asked : now[t] > n + CooldownErr]_listVars
<1> SUFFICES ASSUME NEW t \in Threads, pc[t] = "write", pc'[t] = "ask", NEW n \in asked
             PROVE  now[t] > n + CooldownErr
  OBVIOUS
<1>1. writer = None /\ ~(cooldown >= now[t])
  <2>1. PICK u \in Threads : Step(u)
    BY DEF ListNext, ListTick, AllDone, listVars
  <2>2. Lock(t)
    BY <2>1 DEF Step, Call, Read, Lock, Serve, Receive, Fail, Go, ListInv, ListTypeOK
  <2> QED BY <2>2 DEF Lock, Go, ListInv, ListTypeOK
<1>2. n + CooldownErr <= cooldown
  BY <1>1, NoneIsNoThread DEF ListInv, RequestsCovered
<1> QED BY <1>1, <1>2, CooldownsNatural DEF ListInv, ListTypeOK

\* builders() asks the coordinator at most once for all calls that began within
\* one cooldown, whatever the number of threads.
THEOREM RequestsSpacedAlways == ListSpec => RequestsSpaced
  BY ListInvariant, LockSpaced, PTL DEF ListSpec, RequestsSpaced

\* Only the asking thread sets the cooldown, to a time after its own, which it
\* found to lie after the old cooldown.
LEMMA StepAdvances ==
  ASSUME ListInv, [ListNext]_listVars
  PROVE  [cooldown' # cooldown => cooldown' > cooldown]_listVars
<1> SUFFICES ASSUME cooldown' # cooldown PROVE cooldown' > cooldown
  OBVIOUS
<1>1. PICK t \in Threads : Receive(t) \/ Fail(t)
  BY DEF ListNext, Step, Call, Read, Lock, Serve, ListTick, AllDone, listVars, shared
<1>2. cooldown < now[t]
  BY <1>1 DEF Receive, Fail, ListInv, AskerExpired
<1> QED BY <1>1, <1>2, CooldownsNatural DEF Receive, Fail, ListInv, ListTypeOK

\* The cooldown of RemoteSharedMut never moves back.
THEOREM CooldownAdvancesAlways == ListSpec => CooldownAdvances
  BY ListInvariant, StepAdvances, PTL DEF ListSpec, CooldownAdvances

\* A call returns by one of four steps, each with a list its cooldown covers.
LEMMA ReturnsFresh ==
  ASSUME ListInv, [ListNext]_listVars
  PROVE  [\A t \in Threads : pc[t] # "got" /\ pc'[t] = "got" /\ ~failed' =>
            now[t] <= builders' + CooldownOk]_listVars
<1> SUFFICES ASSUME NEW t \in Threads, pc[t] # "got", pc'[t] = "got", ~failed'
             PROVE  now[t] <= builders' + CooldownOk
  OBVIOUS
<1>1. PICK u \in Threads : Step(u)
  BY DEF ListNext, ListTick, AllDone, listVars
<1>2. Read(t) \/ Lock(t) \/ Receive(t) \/ Fail(t)
  BY <1>1 DEF Step, Call, Read, Lock, Serve, Receive, Fail, Go, ListInv, ListTypeOK
<1>3. CASE Read(t) \/ Lock(t)
  BY <1>3, CooldownsNatural DEF Read, Lock, Go, shared, history, ListInv, ListTypeOK, ListCovered
<1>4. CASE Receive(t)
  BY <1>4, CooldownsNatural DEF Receive, ListInv, ListTypeOK, TimesOrdered
<1>5. CASE Fail(t)
  BY <1>5 DEF Fail
<1> QED BY <1>2, <1>3, <1>4, <1>5

\* While requests succeed, builders() never returns a list older than the
\* cooldown, even though the request is made by a call that began earlier.
THEOREM FreshUnlessFailedAlways == ListSpec => FreshUnlessFailed
  BY ListInvariant, ReturnsFresh, PTL DEF ListSpec, FreshUnlessFailed

===============================================================================
