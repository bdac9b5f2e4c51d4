----------------------------- MODULE EtwProofs -----------------------------
(***************************************************************************)
(* The Windows sensor's tracked set is the agent's tree, and what the      *)
(* agent did is reported, unless a loss was counted: for any number of     *)
(* processes, whatever ids are reused, and any delay of the session.       *)
(*                                                                         *)
(* The sensor's state lags behind the world by the events still in the     *)
(* session's buffers, so neither property is inductive.  What is: replayed *)
(* over the buffered events, the tracked set and the parents become those  *)
(* of the world, and every call is met while its process is tracked.       *)
(*                                                                         *)
(* The responses act upon that tracked set.  Of them, how often a process  *)
(* may be suspended at each point of a freeze is inductive, and so is what *)
(* a resume has taken back from the processes it is done with.             *)
(***************************************************************************)
EXTENDS EtwRespond, FiniteSetTheorems, SequenceTheorems, TLAPS

Events ==
  [type : {"start"}, pid : Pids, ppid : Pids]
    \cup [type : {"stop"}, pid : Pids]
    \cup [type : {"call"}, pid : Pids, kind : Kinds, dest : Dests]

Limited == {"net", "dns"}
Parents == [p \in Pids |-> procs[p].ppid]

(* What an event does to the agent's tree, and to the parents.             *)
Apply(s, e) ==
  IF e.type = "start" THEN (IF e.ppid \in s THEN s \cup {e.pid} ELSE s)
  ELSE IF e.type = "stop" THEN s \ {e.pid} ELSE s

Rename(g, e) ==
  [p \in Pids |-> IF e.type = "start" /\ p = e.pid THEN e.ppid ELSE g[p]]

(* The parents are known of a set of processes.                            *)
Agree(g, pa, s) == \A p \in s : g[p] = pa[p]

(* h and g are the states the sensor goes through over the events ev.      *)
Replays(h, g, ev, tr, nm, ag, pa) ==
  /\ h[1] = tr /\ h[Len(ev) + 1] = ag
  /\ g[1] = nm /\ Agree(g[Len(ev) + 1], pa, ag)
  /\ \A i \in 1..Len(ev) :
       /\ h[i + 1] = Apply(h[i], ev[i]) /\ g[i + 1] = Rename(g[i], ev[i])
       /\ ev[i].type = "call" => ev[i].pid \in h[i]

Replay(ev, tr, nm, ag, pa) == \E h, g : Replays(h, g, ev, tr, nm, ag, pa)

(* The inductive invariant.                                                *)
SensorTypes ==
  /\ etw \in Seq(Events)
  /\ recent \in [Limited -> SUBSET [pid : Pids, dest : Dests, age : Nat]]
  /\ \A k \in Limited : IsFiniteSet(recent[k])

Early ==
  phase \in {"off", "named"} =>
    /\ etw = <<>> /\ hidden = {} /\ agent # "released"
    /\ agent = "held" =>
         /\ tracked = {Root} /\ Agent = {Root}
         /\ phase = "named" => names[Root] = Parents[Root]

Lags == Complete => Replay(etw, tracked, names, Agent, Parents)

NotedIsReported ==
  queueLost = 0 => \A k \in Limited : \A r \in recent[k] :
    [kind |-> k, pid |-> r.pid, dest |-> r.dest] \in reported

EInv == TypeOK /\ SensorTypes /\ Early /\ Lags /\ NotedIsReported /\ NothingHidden

-----------------------------------------------------------------------------
(* Replaying events.                                                       *)

LEMMA EventIs ==
  ASSUME NEW e \in Events
  PROVE  /\ e.type \in {"start", "stop", "call"} /\ e.pid \in Pids
         /\ e.type = "start" => e.ppid \in Pids
         /\ e.type = "call" => e.kind \in Kinds /\ e.dest \in Dests
BY DEF Events

LEMMA ReplayNothing ==
  ASSUME NEW tr, NEW nm, NEW ag, NEW pa
  PROVE  Replay(<<>>, tr, nm, ag, pa) <=> tr = ag /\ Agree(nm, pa, ag)
<1>1. Len(<<>>) = 0 OBVIOUS
<1>2. ASSUME Replay(<<>>, tr, nm, ag, pa) PROVE tr = ag /\ Agree(nm, pa, ag)
  BY <1>1, <1>2 DEF Replay, Replays
<1>3. ASSUME tr = ag, Agree(nm, pa, ag) PROVE Replay(<<>>, tr, nm, ag, pa)
  <2>1. Replays([i \in {1} |-> tr], [i \in {1} |-> nm], <<>>, tr, nm, ag, pa)
    BY <1>1, <1>3 DEF Replays
  <2> QED BY <2>1 DEF Replay
<1> QED BY <1>2, <1>3

LEMMA ReplayMore ==
  ASSUME NEW ev \in Seq(Events), NEW e \in Events, NEW tr, NEW nm, NEW ag, NEW pa,
         ag \in SUBSET Pids, Replay(ev, tr, nm, ag, pa),
         e.type = "call" => e.pid \in ag
  PROVE  Replay(Append(ev, e), tr, nm, Apply(ag, e), Rename(pa, e))
<1>1. PICK h, g : Replays(h, g, ev, tr, nm, ag, pa) BY DEF Replay
<1> DEFINE m == Len(ev)
           v == Append(ev, e)
           x == Apply(ag, e)
           z == Rename(pa, e)
           y == Rename(g[Len(ev) + 1], e)
           hh == [i \in 1..(m + 2) |-> IF i <= m + 1 THEN h[i] ELSE x]
           gg == [i \in 1..(m + 2) |-> IF i <= m + 1 THEN g[i] ELSE y]
<1>2. m \in Nat OBVIOUS
<1>3. /\ Len(v) = m + 1 /\ v[m + 1] = e /\ \A i \in 1..m : v[i] = ev[i]
  BY AppendProperties
<1>4. /\ \A i \in 1..(m + 1) : hh[i] = h[i] /\ gg[i] = g[i]
      /\ hh[m + 2] = x /\ gg[m + 2] = y /\ (m + 1) + 1 = m + 2
  BY <1>2
<1>5. /\ h[1] = tr /\ h[m + 1] = ag /\ g[1] = nm /\ Agree(g[m + 1], pa, ag)
      /\ \A i \in 1..m :
           /\ h[i + 1] = Apply(h[i], ev[i]) /\ g[i + 1] = Rename(g[i], ev[i])
           /\ ev[i].type = "call" => ev[i].pid \in h[i]
  BY <1>1 DEF Replays
<1>6. x = Apply(ag, e) /\ y = Rename(g[m + 1], e) /\ z = Rename(pa, e) OBVIOUS
<1> HIDE DEF m, v, x, y, z, hh, gg
<1>9. Agree(y, z, x)
  <2> SUFFICES ASSUME NEW p \in x PROVE y[p] = z[p] BY DEF Agree
  <2>1. p \in Pids /\ (p \in ag \/ (e.type = "start" /\ p = e.pid))
    BY <1>6, EventIs DEF Apply
  <2>2. /\ y[p] = IF e.type = "start" /\ p = e.pid THEN e.ppid ELSE g[m + 1][p]
        /\ z[p] = IF e.type = "start" /\ p = e.pid THEN e.ppid ELSE pa[p]
    BY <1>6, <2>1 DEF Rename
  <2> QED BY <1>5, <2>1, <2>2 DEF Agree
<1>7. ASSUME NEW i \in 1..(m + 1)
      PROVE  /\ hh[i + 1] = Apply(hh[i], v[i]) /\ gg[i + 1] = Rename(gg[i], v[i])
             /\ v[i].type = "call" => v[i].pid \in hh[i]
  <2>1. CASE i \in 1..m
    <3>1. i + 1 \in 1..(m + 1) /\ i \in 1..(m + 1) BY <1>2, <2>1
    <3> QED BY <1>3, <1>4, <1>5, <2>1, <3>1
  <2>2. CASE i = m + 1 BY <1>2, <1>3, <1>4, <1>5, <1>6, <2>2
  <2> QED BY <1>2, <2>1, <2>2
<1>8. Replays(hh, gg, v, tr, nm, x, z)
  <2>1. 1 \in 1..(m + 1) BY <1>2
  <2> QED BY <1>3, <1>4, <1>5, <1>7, <1>9, <2>1 DEF Replays
<1> QED BY <1>8 DEF Replay, v, x, z

LEMMA ReplayNext ==
  ASSUME NEW ev \in Seq(Events), ev # <<>>, NEW tr, NEW nm, NEW ag, NEW pa,
         Replay(ev, tr, nm, ag, pa)
  PROVE  /\ Replay(Tail(ev), Apply(tr, Head(ev)), Rename(nm, Head(ev)), ag, pa)
         /\ Head(ev).type = "call" => Head(ev).pid \in tr
<1>1. PICK h, g : Replays(h, g, ev, tr, nm, ag, pa) BY DEF Replay
<1> DEFINE m == Len(ev) - 1
           v == Tail(ev)
           hh == [i \in 1..(m + 1) |-> h[i + 1]]
           gg == [i \in 1..(m + 1) |-> g[i + 1]]
<1>2. m \in Nat /\ Len(ev) = m + 1
  <2>1. Len(ev) \in Nat /\ Len(ev) # 0 BY EmptySeq
  <2> QED BY <2>1
<1>3. /\ Len(v) = m /\ Head(ev) = ev[1] /\ \A i \in 1..m : v[i] = ev[i + 1]
  BY <1>2, HeadTailProperties
<1>4. /\ h[1] = tr /\ h[(m + 1) + 1] = ag /\ g[1] = nm /\ Agree(g[(m + 1) + 1], pa, ag)
      /\ \A i \in 1..(m + 1) :
           /\ h[i + 1] = Apply(h[i], ev[i]) /\ g[i + 1] = Rename(g[i], ev[i])
           /\ ev[i].type = "call" => ev[i].pid \in h[i]
  BY <1>1, <1>2 DEF Replays
<1>5. \A i \in 1..(m + 1) : hh[i] = h[i + 1] /\ gg[i] = g[i + 1] OBVIOUS
<1> HIDE DEF m, v, hh, gg
<1>6. 1 \in 1..(m + 1) /\ m + 1 \in 1..(m + 1) /\ 1 + 1 = 2 BY <1>2
<1>7. /\ h[2] = Apply(tr, Head(ev)) /\ g[2] = Rename(nm, Head(ev))
      /\ Head(ev).type = "call" => Head(ev).pid \in tr
  BY <1>3, <1>4, <1>6
<1>8. ASSUME NEW i \in 1..m
      PROVE  /\ hh[i + 1] = Apply(hh[i], v[i]) /\ gg[i + 1] = Rename(gg[i], v[i])
             /\ v[i].type = "call" => v[i].pid \in hh[i]
  <2>1. i \in 1..(m + 1) /\ i + 1 \in 1..(m + 1) BY <1>2
  <2> QED BY <1>3, <1>4, <1>5, <2>1
<1>9. Replays(hh, gg, v, Apply(tr, Head(ev)), Rename(nm, Head(ev)), ag, pa)
  BY <1>3, <1>4, <1>5, <1>6, <1>7, <1>8 DEF Replays
<1> QED BY <1>7, <1>9 DEF Replay, v

-----------------------------------------------------------------------------
(* The world.                                                              *)

Procs == [live : BOOLEAN, agent : BOOLEAN, ppid : Pids \cup {NoPid}]

(* One rate-limiting map.                                                  *)
MapOK(rs, k) ==
  /\ rs \in SUBSET Notes(k) /\ IsFiniteSet(rs) /\ Cardinality(rs) <= MaxRecent + 1
  /\ \A r, s \in rs : r.pid = s.pid /\ r.dest = s.dest => r = s

(* What the invariant says of the types, in one place.                     *)
LEMMA InvTypes ==
  ASSUME EInv
  PROVE  /\ procs \in [Pids -> Procs] /\ phase \in {"off", "named", "on", "gone"}
         /\ seeds \in SUBSET Pids
         /\ agent \in {"attached", "held", "released"}
         /\ etwLost \in Nat /\ queueLost \in Nat /\ misseeded \in BOOLEAN
         /\ tracked \in SUBSET Pids /\ names \in [Pids -> Pids \cup {NoPid}]
         /\ queue \in 0..QueueCap /\ etw \in Seq(Events)
         /\ recent \in [Limited -> SUBSET [pid : Pids, dest : Dests, age : Nat]]
         /\ \A k \in Limited : MapOK(recent[k], k)
<1>1. TypeOK /\ SensorTypes BY DEF EInv
<1>2. \A k \in Limited : MapOK(recent[k], k)
  BY <1>1 DEF TypeOK, SensorTypes, MapOK, Limited
<1> QED BY <1>1, <1>2 DEF TypeOK, SensorTypes, Procs

LEMMA TypesInv ==
  ASSUME procs' \in [Pids -> Procs], phase' \in {"off", "named", "on", "gone"},
         seeds' \in SUBSET Pids,
         agent' \in {"attached", "held", "released"},
         etwLost' \in Nat, queueLost' \in Nat, misseeded' \in BOOLEAN,
         tracked' \in SUBSET Pids, names' \in [Pids -> Pids \cup {NoPid}],
         queue' \in 0..QueueCap, etw' \in Seq(Events),
         recent' \in [Limited -> SUBSET [pid : Pids, dest : Dests, age : Nat]],
         \A k \in Limited : MapOK(recent'[k], k)
  PROVE  TypeOK' /\ SensorTypes'
<1>1. TypeOK' BY DEF TypeOK, MapOK, Limited, Procs
<1>2. SensorTypes' BY DEF SensorTypes, MapOK
<1> QED BY <1>1, <1>2

(* A step of the world, and the event of it if the session has begun.      *)
LEMMA WorldStep ==
  ASSUME EInv, NEW e \in Events, Traced(e),
         UNCHANGED <<sensorVars, truthVars, startVars, etwLost, agent>>,
         procs' \in [Pids -> Procs], Agent' = Apply(Agent, e), Parents' = Rename(Parents, e),
         e.type = "call" => e.pid \in Agent,
         agent = "held" /\ Agent = {Root} =>
           Agent' = {Root} /\ Parents'[Root] = Parents[Root]
  PROVE  EInv'
<1>1. /\ tracked' = tracked /\ names' = names /\ recent' = recent /\ queue' = queue
      /\ queueLost' = queueLost /\ misseeded' = misseeded /\ reported' = reported
      /\ hidden' = hidden /\ phase' = phase /\ etwLost' = etwLost /\ agent' = agent
      /\ seeds' = seeds
  BY DEF sensorVars, truthVars, startVars
<1>2. etw' = IF phase = "on" THEN Append(etw, e) ELSE etw BY DEF Traced
<1>3. etw \in Seq(Events) BY InvTypes
<1>4. Append(etw, e) \in Seq(Events) BY <1>3, AppendProperties
<1>5. etw' \in Seq(Events) BY <1>2, <1>3, <1>4
<1>6. TypeOK' /\ SensorTypes' BY <1>1, <1>5, InvTypes, TypesInv
<1>7. Early' BY <1>1, <1>2 DEF EInv, Early
<1>8. Complete' = Complete BY <1>1 DEF Complete
<1>9. Lags'
  <2> SUFFICES ASSUME Complete'
               PROVE  Replay(etw', tracked', names', Agent', Parents')
    BY DEF Lags
  <2>1. phase = "on" /\ Replay(etw, tracked, names, Agent, Parents)
    BY <1>8 DEF EInv, Lags, Complete
  <2>2. Replay(Append(etw, e), tracked, names, Apply(Agent, e), Rename(Parents, e))
    BY <1>3, <2>1, ReplayMore DEF Agent, Live
  <2> QED BY <1>1, <1>2, <2>1, <2>2
<1>10. NotedIsReported' BY <1>1 DEF EInv, NotedIsReported
<1>11. NothingHidden' BY <1>1, <1>8 DEF EInv, NothingHidden
<1> QED BY <1>6, <1>7, <1>9, <1>10, <1>11 DEF EInv

LEMMA SpawnKeeps ==
  ASSUME EInv, NEW p \in Pids, NEW c \in Pids, Spawn(p, c)
  PROVE  EInv'
<1> DEFINE e == [type |-> "start", pid |-> c, ppid |-> p]
           x == [live |-> TRUE, agent |-> procs[p].agent, ppid |-> p]
<1>1. procs \in [Pids -> Procs] BY InvTypes
<1>2. /\ Runs(p) /\ c \notin Live /\ procs' = [procs EXCEPT ![c] = x] /\ Traced(e)
      /\ UNCHANGED <<sensorVars, truthVars, startVars, etwLost, agent>>
  BY DEF Spawn
<1>3. /\ e \in Events /\ e.type = "start" /\ e.pid = c /\ e.ppid = p BY DEF Events
<1>4. /\ x \in Procs /\ x.live /\ x.agent = procs[p].agent /\ x.ppid = p
  BY <1>1 DEF Procs
<1> HIDE DEF e, x
<1>5. /\ procs' \in [Pids -> Procs] /\ procs'[c] = x
      /\ \A q \in Pids : q # c => procs'[q] = procs[q]
  BY <1>1, <1>2, <1>4
<1>6. p \in Agent <=> procs[p].agent BY <1>2 DEF Agent, Runs
<1>7. \A q : q \in Agent <=> q \in Pids /\ procs[q].live /\ procs[q].agent
  BY DEF Agent, Live
<1>8. \A q : q \in Agent' <=> q \in Pids /\ procs'[q].live /\ procs'[q].agent
  BY DEF Agent, Live
<1>9. c \notin Agent BY <1>2 DEF Agent
<1>10. Agent' = Apply(Agent, e)
  <2>1. CASE p \in Agent
    <3>1. \A q : q \in Agent' <=> q \in Agent \/ q = c
      BY <1>4, <1>5, <1>6, <1>7, <1>8, <2>1
    <3>2. Agent' = Agent \cup {c} BY <3>1
    <3> QED BY <1>3, <2>1, <3>2 DEF Apply
  <2>2. CASE p \notin Agent
    <3>1. \A q : q \in Agent' <=> q \in Agent
      BY <1>4, <1>5, <1>6, <1>7, <1>8, <1>9, <2>2
    <3>2. Agent' = Agent BY <3>1
    <3> QED BY <1>3, <2>2, <3>2 DEF Apply
  <2> QED BY <2>1, <2>2
<1>11. Parents' = Rename(Parents, e)
  <2>1. Parents' = [q \in Pids |-> procs'[q].ppid] BY DEF Parents
  <2>2. \A q \in Pids : procs'[q].ppid = IF q = c THEN p ELSE Parents[q]
    BY <1>4, <1>5 DEF Parents
  <2> QED BY <1>3, <2>1, <2>2 DEF Rename
<1>12. agent = "held" /\ Agent = {Root} =>
         Agent' = {Root} /\ Parents'[Root] = Parents[Root]
  <2> SUFFICES ASSUME agent = "held", Agent = {Root}
               PROVE  Agent' = {Root} /\ Parents'[Root] = Parents[Root]
    OBVIOUS
  <2>1. p # Root /\ c # Root BY <1>2, <1>9 DEF Runs
  <2>2. Agent' = {Root} BY <1>3, <1>10, <2>1 DEF Apply
  <2>3. Parents'[Root] = Parents[Root] BY <1>5, <2>1, EtwRoot DEF Parents
  <2> QED BY <2>2, <2>3
<1> QED BY <1>2, <1>3, <1>5, <1>10, <1>11, <1>12, WorldStep

LEMMA ExitKeeps ==
  ASSUME EInv, NEW p \in Pids, Exit(p)
  PROVE  EInv'
<1> DEFINE e == [type |-> "stop", pid |-> p]
           x == [procs[p] EXCEPT !.live = FALSE]
<1>1. procs \in [Pids -> Procs] BY InvTypes
<1>2. /\ Runs(p) /\ procs' = [procs EXCEPT ![p] = x] /\ Traced(e)
      /\ UNCHANGED <<sensorVars, truthVars, startVars, etwLost, agent>>
  BY DEF Exit
<1>3. e \in Events /\ e.type = "stop" /\ e.pid = p BY DEF Events
<1>4. x \in Procs /\ ~x.live /\ x.ppid = procs[p].ppid BY <1>1 DEF Procs
<1> HIDE DEF e, x
<1>5. /\ procs' \in [Pids -> Procs] /\ procs'[p] = x
      /\ \A q \in Pids : q # p => procs'[q] = procs[q]
  BY <1>1, <1>2, <1>4
<1>6. Agent' = Apply(Agent, e)
  <2>1. \A q : q \in Agent' <=> q \in Agent /\ q # p
    BY <1>4, <1>5 DEF Agent, Live
  <2>2. Agent' = Agent \ {p} BY <2>1
  <2> QED BY <1>3, <2>2 DEF Apply
<1>7. Parents' = Rename(Parents, e)
  <2>1. Parents' = Parents BY <1>4, <1>5 DEF Parents
  <2> QED BY <1>3, <2>1 DEF Rename, Parents
<1>8. agent = "held" /\ Agent = {Root} =>
        Agent' = {Root} /\ Parents'[Root] = Parents[Root]
  <2>1. Parents' = Parents BY <1>4, <1>5 DEF Parents
  <2> QED BY <1>2, <1>3, <1>6, <2>1 DEF Apply, Runs
<1> QED BY <1>2, <1>3, <1>5, <1>6, <1>7, <1>8, WorldStep

LEMMA CallKeeps ==
  ASSUME EInv, NEW p \in Pids, NEW c \in Calls, Call(p, c)
  PROVE  EInv'
<1> DEFINE e == [type |-> "call", pid |-> p, kind |-> c.kind, dest |-> c.dest]
<1>1. procs \in [Pids -> Procs] BY InvTypes
<1>2. /\ Runs(p) /\ procs[p].agent /\ procs' = procs /\ Traced(e)
      /\ UNCHANGED <<sensorVars, truthVars, startVars, etwLost, agent>>
  BY DEF Call
<1>3. e \in Events /\ e.type = "call" /\ e.pid = p
  <2>1. c.kind \in Kinds /\ c.dest \in Dests BY EtwCalls DEF Dests
  <2> QED BY <2>1 DEF Events
<1> HIDE DEF e
<1>4. p \in Agent BY <1>2 DEF Agent, Runs
<1>5. Agent' = Agent /\ Parents' = Parents BY <1>2 DEF Agent, Live, Parents
<1>6. Agent' = Apply(Agent, e) /\ Parents' = Rename(Parents, e)
  BY <1>3, <1>5 DEF Apply, Rename, Parents
<1> QED BY <1>1, <1>2, <1>3, <1>4, <1>5, <1>6, WorldStep

-----------------------------------------------------------------------------
(* The queue and the rate-limiting maps.                                   *)

LEMMA SentIs ==
  ASSUME queue \in 0..QueueCap, queueLost \in Nat, NEW m \in Nat, Sent(m)
  PROVE  /\ queue' \in 0..QueueCap /\ queueLost' \in Nat
         /\ queueLost' = 0 => queueLost = 0 /\ m <= QueueCap - queue
<1> DEFINE fit == IF m <= QueueCap - queue THEN m ELSE QueueCap - queue
<1>1. QueueCap \in Nat BY EtwBounds
<1>2. fit \in Nat /\ fit <= m /\ fit <= QueueCap - queue /\ (fit = m => m <= QueueCap - queue)
  BY <1>1
<1>3. queue' = queue + fit /\ queueLost' = queueLost + m - fit BY DEF Sent
<1> HIDE DEF fit
<1> QED BY <1>1, <1>2, <1>3

(* A map stays within its bound, with one entry per process and            *)
(* destination.                                                            *)
LEMMA NotedIs ==
  ASSUME NEW k \in Limited, NEW rs, MapOK(rs, k), NEW e, e.pid \in Pids, e.dest \in Dests
  PROVE  /\ MapOK(Noted(rs, e), k)
         /\ \A r \in Noted(rs, e) : r \in rs \/ (r.pid = e.pid /\ r.dest = e.dest)
<1> DEFINE x == [pid |-> e.pid, dest |-> e.dest, age |-> 0]
           kept == {r \in rs : Cardinality(rs) <= MaxRecent /\ (r.pid # e.pid \/ r.dest # e.dest)}
<1>1. MaxRecent \in Nat BY EtwBounds
<1>2. x \in Notes(k) /\ x.pid = e.pid /\ x.dest = e.dest
  <2>1. Limit[k] \in Nat BY EtwLimits DEF Limited
  <2> QED BY <2>1 DEF Notes
<1>3. Noted(rs, e) = kept \cup {x} BY DEF Noted
<1>4. IsFiniteSet(rs) /\ Cardinality(rs) \in Nat BY FS_CardinalityType DEF MapOK
<1>5. kept \in SUBSET rs /\ \A r \in kept : r.pid # e.pid \/ r.dest # e.dest OBVIOUS
<1>6. IsFiniteSet(kept) /\ Cardinality(kept) \in Nat /\ Cardinality(kept) <= MaxRecent
  <2>1. CASE Cardinality(rs) <= MaxRecent
    <3>1. IsFiniteSet(kept) /\ Cardinality(kept) <= Cardinality(rs)
      BY <1>4, <1>5, FS_Subset
    <3>2. Cardinality(kept) \in Nat BY <3>1, FS_CardinalityType
    <3> QED BY <1>1, <1>4, <2>1, <3>1, <3>2
  <2>2. CASE ~(Cardinality(rs) <= MaxRecent)
    <3>1. kept = {} BY <2>2
    <3> QED BY <1>1, <3>1, FS_EmptySet
  <2> QED BY <2>1, <2>2
<1> HIDE DEF x, kept
<1>7. IsFiniteSet(kept \cup {x}) /\ Cardinality(kept \cup {x}) <= MaxRecent + 1
  <2>1. /\ IsFiniteSet(kept \cup {x})
        /\ Cardinality(kept \cup {x}) =
             IF x \in kept THEN Cardinality(kept) ELSE Cardinality(kept) + 1
    BY <1>6, FS_AddElement
  <2> QED BY <1>1, <1>6, <2>1
<1>8. kept \cup {x} \in SUBSET Notes(k) BY <1>2, <1>5 DEF MapOK
<1>9. \A r, s \in kept \cup {x} : r.pid = s.pid /\ r.dest = s.dest => r = s
  BY <1>2, <1>5 DEF MapOK
<1>10. MapOK(kept \cup {x}, k) BY <1>7, <1>8, <1>9 DEF MapOK
<1> QED BY <1>2, <1>3, <1>5, <1>10

(* A second passes over a map.                                             *)
Aged(r, k) == [r EXCEPT !.age = IF r.age < Limit[k] THEN r.age + 1 ELSE r.age]

LEMMA AgedIs ==
  ASSUME NEW k \in Limited, NEW rs, MapOK(rs, k)
  PROVE  /\ MapOK({Aged(r, k) : r \in rs}, k)
         /\ \A s \in {Aged(r, k) : r \in rs} :
              \E r \in rs : s.pid = r.pid /\ s.dest = r.dest
<1> DEFINE T == {Aged(r, k) : r \in rs}
<1>1. Limit[k] \in Nat BY EtwLimits DEF Limited
<1>2. ASSUME NEW r \in Notes(k)
      PROVE  Aged(r, k) \in Notes(k) /\ Aged(r, k).pid = r.pid /\ Aged(r, k).dest = r.dest
  <2> DEFINE a == IF r.age < Limit[k] THEN r.age + 1 ELSE r.age
  <2>1. r.age \in 0..Limit[k] BY DEF Notes
  <2>2. a \in 0..Limit[k] BY <1>1, <2>1
  <2>3. Aged(r, k) = [r EXCEPT !.age = a] BY DEF Aged
  <2> HIDE DEF a
  <2> QED BY <2>2, <2>3 DEF Notes
<1>3. rs \in SUBSET Notes(k) /\ IsFiniteSet(rs) BY DEF MapOK
<1>4. T \in SUBSET Notes(k) BY <1>2, <1>3
<1>5. \A s \in T : \E r \in rs : s = Aged(r, k) /\ s.pid = r.pid /\ s.dest = r.dest
  BY <1>2, <1>3
<1>6. \A s, t \in T : s.pid = t.pid /\ s.dest = t.dest => s = t
  BY <1>5 DEF MapOK
<1>7. IsFiniteSet(T) /\ Cardinality(T) <= Cardinality(rs)
  <2> DEFINE f == [r \in rs |-> Aged(r, k)]
  <2>1. f \in Surjection(rs, T) BY DEF Surjection
  <2> HIDE DEF f, T
  <2> QED BY <1>3, <2>1, FS_Surjection
<1>8. Cardinality(T) <= MaxRecent + 1
  <2>1. Cardinality(rs) \in Nat /\ Cardinality(T) \in Nat BY <1>3, <1>7, FS_CardinalityType
  <2> QED BY <1>7, <2>1, EtwBounds DEF MapOK
<1> QED BY <1>4, <1>5, <1>6, <1>7, <1>8 DEF MapOK

-----------------------------------------------------------------------------
(* The sensor.                                                             *)

LEMMA SnapshotKeeps ==
  ASSUME EInv, Snapshot
  PROVE  EInv'
<1>1. /\ phase = "off" /\ phase' = "named"
      /\ names' = [p \in Pids |-> IF p \in Live THEN procs[p].ppid ELSE NoPid]
      /\ procs' = procs /\ agent' = agent /\ seeds' = seeds /\ etw' = etw
      /\ etwLost' = etwLost /\ tracked' = tracked /\ recent' = recent
      /\ queue' = queue /\ queueLost' = queueLost
      /\ misseeded' = misseeded /\ reported' = reported /\ hidden' = hidden
  BY DEF Snapshot, worldVars, truthVars
<1>2. Agent' = Agent /\ Parents' = Parents BY <1>1 DEF Agent, Live, Parents
<1>3. procs \in [Pids -> Procs] BY InvTypes
<1>4. names' \in [Pids -> Pids \cup {NoPid}]
  <2>1. \A p \in Pids : procs[p].ppid \in Pids \cup {NoPid} BY <1>3 DEF Procs
  <2> QED BY <1>1, <2>1
<1>5. TypeOK' /\ SensorTypes' BY <1>1, <1>4, InvTypes, TypesInv
<1>6. Early'
  <2>1. ASSUME agent = "held" PROVE names'[Root] = Parents[Root]
    <3>1. Root \in Agent BY <1>1, <2>1 DEF EInv, Early
    <3> QED BY <1>1, <3>1 DEF Agent, Live, Parents
  <2> QED BY <1>1, <1>2, <2>1 DEF EInv, Early
<1>7. Lags' BY <1>1 DEF Lags, Complete
<1>8. NotedIsReported' BY <1>1 DEF EInv, NotedIsReported
<1>9. NothingHidden' BY <1>1 DEF EInv, Early, NothingHidden
<1> QED BY <1>5, <1>6, <1>7, <1>8, <1>9 DEF EInv

LEMMA StartKeeps ==
  ASSUME EInv, Start
  PROVE  EInv'
<1>1. /\ phase = "named" /\ phase' = "on"
      /\ misseeded' = (tracked # Agent \/ \E p \in Agent : names[p] # procs[p].ppid)
      /\ procs' = procs /\ agent' = agent /\ seeds' = seeds /\ etw' = etw
      /\ etwLost' = etwLost /\ tracked' = tracked /\ names' = names
      /\ recent' = recent /\ queue' = queue /\ queueLost' = queueLost
      /\ reported' = reported /\ hidden' = hidden
  BY DEF Start, worldVars, sensorVars
<1>2. Agent' = Agent /\ Parents' = Parents BY <1>1 DEF Agent, Live, Parents
<1>3. misseeded' \in BOOLEAN BY <1>1
<1>4. TypeOK' /\ SensorTypes' BY <1>1, <1>3, InvTypes, TypesInv
<1>5. Early' BY <1>1 DEF Early
<1>6. Lags'
  <2> SUFFICES ASSUME Complete'
               PROVE  Replay(etw', tracked', names', Agent', Parents')
    BY DEF Lags
  <2>1. /\ etw' = <<>> /\ agent # "released"
        /\ agent = "held" =>
             tracked = {Root} /\ Agent = {Root} /\ names[Root] = Parents[Root]
    BY <1>1 DEF EInv, Early
  <2>2. agent \in {"attached", "held", "released"} BY InvTypes
  <2>3. CASE agent = "attached"
    <3>1. tracked = Agent /\ \A p \in Agent : names[p] = procs[p].ppid
      BY <1>1, <2>3 DEF Complete
    <3>2. Agree(names, Parents, Agent) BY <3>1 DEF Agree, Parents, Agent, Live
    <3> QED BY <1>1, <1>2, <2>1, <3>1, <3>2, ReplayNothing
  <2>4. CASE agent = "held"
    <3>1. tracked = Agent /\ Agree(names, Parents, Agent) BY <2>1, <2>4 DEF Agree
    <3> QED BY <1>1, <1>2, <2>1, <3>1, ReplayNothing
  <2> QED BY <2>1, <2>2, <2>3, <2>4
<1>7. NotedIsReported' BY <1>1 DEF EInv, NotedIsReported
<1>8. NothingHidden' BY <1>1 DEF EInv, Early, NothingHidden
<1> QED BY <1>4, <1>5, <1>6, <1>7, <1>8 DEF EInv

(* A step that leaves alone the world, what the sensor tracks and what it  *)
(* reported, and completes nothing.                                        *)
LEMMA AsideStep ==
  ASSUME EInv,
         UNCHANGED <<procs, etw, tracked, names, misseeded, reported, hidden>>,
         phase' = phase, etwLost' = etwLost, seeds' \in SUBSET seeds,
         queueLost' \in Nat, queueLost' = 0 => queueLost = 0,
         \/ agent' = agent
         \/ agent = "held" /\ agent' = "released" /\ phase \in {"on", "gone"},
         queue' \in 0..QueueCap,
         recent' \in [Limited -> SUBSET [pid : Pids, dest : Dests, age : Nat]],
         \A k \in Limited : MapOK(recent'[k], k),
         \A k \in Limited : \A s \in recent'[k] :
           \E r \in recent[k] : s.pid = r.pid /\ s.dest = r.dest
  PROVE  EInv'
<1>1. TypeOK' /\ SensorTypes' BY InvTypes, TypesInv
<1>2. Agent' = Agent /\ Parents' = Parents BY DEF Agent, Live, Parents
<1>3. Complete' => Complete BY DEF Complete
<1>4. Early' BY <1>2 DEF EInv, Early
<1>5. Lags' BY <1>2, <1>3 DEF EInv, Lags
<1>6. NotedIsReported' BY DEF EInv, NotedIsReported
<1>7. NothingHidden' BY <1>3 DEF EInv, NothingHidden
<1> QED BY <1>1, <1>4, <1>5, <1>6, <1>7 DEF EInv

LEMMA ReleaseKeeps ==
  ASSUME EInv, Release
  PROVE  EInv'
<1>1. /\ UNCHANGED <<procs, etw, tracked, names, misseeded, reported, hidden>>
      /\ phase' = phase /\ seeds' = seeds /\ etwLost' = etwLost /\ queueLost' = queueLost
      /\ agent = "held" /\ agent' = "released" /\ phase \in {"on", "gone"}
      /\ queue' = queue /\ recent' = recent
  BY DEF Release, Started, sensorVars, truthVars, startVars
<1> QED BY <1>1, InvTypes, AsideStep

LEMMA PollKeeps ==
  ASSUME EInv, Poll
  PROVE  EInv'
<1>1. /\ UNCHANGED <<procs, etw, tracked, names, misseeded, reported, hidden>>
      /\ phase' = phase /\ seeds' = seeds /\ etwLost' = etwLost /\ queueLost' = queueLost
      /\ agent' = agent /\ recent' = recent
      /\ queue' = IF queue <= MaxPoll THEN 0 ELSE queue - MaxPoll
  BY DEF Poll, worldVars, truthVars, startVars
<1>2. queue' \in 0..QueueCap BY <1>1, InvTypes, EtwBounds
<1> QED BY <1>1, <1>2, InvTypes, AsideStep

LEMMA SeedKeeps ==
  ASSUME EInv, NEW p \in Pids, Seed(p)
  PROVE  EInv'
<1>1. /\ UNCHANGED <<procs, etw, tracked, names, misseeded, reported, hidden>>
      /\ phase' = phase /\ seeds' = seeds \ {p} /\ etwLost' = etwLost
      /\ agent' = agent /\ recent' = recent /\ Sent(IF p \in Live THEN 1 ELSE 0)
  BY DEF Seed, worldVars, truthVars
<1>2. queue' \in 0..QueueCap /\ queueLost' \in Nat /\ (queueLost' = 0 => queueLost = 0)
  <2>1. queue \in 0..QueueCap /\ queueLost \in Nat BY InvTypes
  <2> QED BY <1>1, <2>1, SentIs
<1> QED BY <1>1, <1>2, InvTypes, AsideStep

LEMMA SecondKeeps ==
  ASSUME EInv, Second
  PROVE  EInv'
<1>1. /\ UNCHANGED <<procs, etw, tracked, names, misseeded, reported, hidden>>
      /\ phase' = phase /\ seeds' = seeds /\ etwLost' = etwLost /\ queueLost' = queueLost
      /\ agent' = agent /\ queue' = queue
      /\ recent' = [k \in Limited |-> {Aged(r, k) : r \in recent[k]}]
  BY DEF Second, worldVars, truthVars, startVars, Aged, Limited
<1>2. ASSUME NEW k \in Limited
      PROVE  /\ MapOK(recent'[k], k)
             /\ \A s \in recent'[k] : \E r \in recent[k] : s.pid = r.pid /\ s.dest = r.dest
  <2>1. MapOK(recent[k], k) /\ recent'[k] = {Aged(r, k) : r \in recent[k]}
    BY <1>1, InvTypes
  <2> QED BY <2>1, AgedIs
<1>3. recent' \in [Limited -> SUBSET [pid : Pids, dest : Dests, age : Nat]]
  <2>1. ASSUME NEW k \in Limited
        PROVE  recent'[k] \in SUBSET [pid : Pids, dest : Dests, age : Nat]
    <3>1. recent'[k] \in SUBSET Notes(k) BY <1>2 DEF MapOK
    <3>2. 0..Limit[k] \in SUBSET Nat BY EtwLimits DEF Limited
    <3>3. Notes(k) \in SUBSET [pid : Pids, dest : Dests, age : Nat]
      BY <3>2 DEF Notes
    <3> QED BY <3>1, <3>3
  <2> QED BY <1>1, <2>1
<1>4. queue' \in 0..QueueCap /\ queueLost' \in Nat BY <1>1, InvTypes
<1> QED BY <1>1, <1>2, <1>3, <1>4, AsideStep

(* After a loss of the session nothing more is claimed of it.              *)
LEMMA LossStep ==
  ASSUME EInv, UNCHANGED <<worldVars, sensorVars, truthVars>>,
         seeds' = seeds,
         etw' \in Seq(Events), etwLost' \in Nat, phase' \in {"on", "gone"},
         phase' = "gone" \/ etwLost' # 0
  PROVE  EInv'
<1>1. /\ procs' = procs /\ agent' = agent /\ tracked' = tracked /\ names' = names
      /\ recent' = recent /\ queue' = queue /\ queueLost' = queueLost
      /\ misseeded' = misseeded /\ reported' = reported /\ hidden' = hidden
  BY DEF worldVars, sensorVars, truthVars
<1>2. TypeOK' /\ SensorTypes' BY <1>1, InvTypes, TypesInv
<1>3. ~Complete' BY DEF Complete
<1>4. Early' BY DEF Early
<1>5. Lags' /\ NothingHidden' BY <1>3 DEF Lags, NothingHidden
<1>6. NotedIsReported' BY <1>1 DEF EInv, NotedIsReported
<1> QED BY <1>2, <1>4, <1>5, <1>6 DEF EInv

LEMMA StopsKeeps ==
  ASSUME EInv, SessionStops
  PROVE  EInv'
<1>1. /\ phase' = "gone" /\ etw' = <<>> /\ etwLost' = etwLost /\ seeds' = seeds
      /\ UNCHANGED <<worldVars, sensorVars, truthVars>>
  BY DEF SessionStops
<1>2. etwLost \in Nat BY InvTypes
<1>3. etw' \in Seq(Events) BY <1>1
<1> QED BY <1>1, <1>2, <1>3, LossStep

LEMMA LoseKeeps ==
  ASSUME EInv, NEW i \in 1..Len(etw), Lose(i)
  PROVE  EInv'
<1>1. /\ phase = "on" /\ phase' = phase /\ etw' = RemoveAt(etw, i)
      /\ etwLost' = etwLost + 1 /\ seeds' = seeds
      /\ UNCHANGED <<worldVars, sensorVars, truthVars>>
  BY DEF Lose, startVars
<1>2. etwLost \in Nat /\ etw \in Seq(Events) BY InvTypes
<1>3. Len(etw) \in Nat /\ \A j \in 1..Len(etw) : etw[j] \in Events BY <1>2, ElementOfSeq
<1>4. SubSeq(etw, 1, i - 1) \in Seq(Events)
  <2>1. \A j \in 1..(i - 1) : etw[j] \in Events BY <1>3
  <2> QED BY <1>3, <2>1, SubSeqProperties
<1>5. SubSeq(etw, i + 1, Len(etw)) \in Seq(Events)
  <2>1. \A j \in (i + 1)..Len(etw) : etw[j] \in Events BY <1>3
  <2> QED BY <1>3, <2>1, SubSeqProperties
<1>6. etw' \in Seq(Events) BY <1>1, <1>4, <1>5, ConcatProperties DEF RemoveAt
<1>7. etwLost' \in Nat /\ etwLost' # 0 BY <1>1, <1>2
<1> QED BY <1>1, <1>6, <1>7, LossStep

(* An event is taken: the sensor does to its tree and its parents what the *)
(* event did to the world's.                                               *)
LEMMA TakenStep ==
  ASSUME EInv, phase = "on", etw # <<>>, etw' = Tail(etw),
         UNCHANGED <<worldVars, misseeded, startVars, etwLost>>,
         tracked' = Apply(tracked, Head(etw)), names' = Rename(names, Head(etw)),
         queue' \in 0..QueueCap, queueLost' \in Nat, queueLost' = 0 => queueLost = 0,
         recent' \in [Limited -> SUBSET [pid : Pids, dest : Dests, age : Nat]],
         \A k \in Limited : MapOK(recent'[k], k),
         NotedIsReported', NothingHidden'
  PROVE  EInv'
<1>1. /\ procs' = procs /\ agent' = agent /\ Agent' = Agent /\ Parents' = Parents
      /\ phase' = phase /\ seeds' = seeds
  BY DEF worldVars, startVars, Agent, Live, Parents
<1>2. /\ tracked \in SUBSET Pids /\ names \in [Pids -> Pids \cup {NoPid}]
      /\ etw \in Seq(Events)
  BY InvTypes
<1>3. Head(etw) \in Events /\ Tail(etw) \in Seq(Events) BY <1>2, HeadTailProperties
<1>4. tracked' \in SUBSET Pids /\ names' \in [Pids -> Pids \cup {NoPid}]
  BY <1>2, <1>3, EventIs DEF Apply, Rename
<1>5. TypeOK' /\ SensorTypes' BY <1>1, <1>3, <1>4, InvTypes, TypesInv
<1>6. Early' BY <1>1 DEF Early
<1>7. Lags'
  <2> SUFFICES ASSUME Complete'
               PROVE  Replay(etw', tracked', names', Agent', Parents')
    BY DEF Lags
  <2>1. Complete BY <1>1 DEF Complete
  <2>2. Replay(etw, tracked, names, Agent, Parents) BY <2>1 DEF EInv, Lags
  <2>3. Replay(Tail(etw), Apply(tracked, Head(etw)), Rename(names, Head(etw)), Agent, Parents)
    BY <1>2, <2>2, ReplayNext
  <2> QED BY <1>1, <2>3
<1> QED BY <1>5, <1>6, <1>7 DEF EInv

LEMMA CallbackKeeps ==
  ASSUME EInv, Callback
  PROVE  EInv'
<1> DEFINE e == Head(etw)
<1>1. /\ phase = "on" /\ etw # <<>> /\ etw' = Tail(etw)
      /\ UNCHANGED <<worldVars, misseeded, startVars, etwLost>>
      /\ \/ e.type = "start" /\ OnStart(e)
         \/ e.type = "stop" /\ OnStop(e)
         \/ e.type = "call" /\ OnCall(e)
  BY DEF Callback
<1>2. /\ etw \in Seq(Events) /\ queue \in 0..QueueCap /\ queueLost \in Nat
      /\ recent \in [Limited -> SUBSET [pid : Pids, dest : Dests, age : Nat]]
      /\ \A k \in Limited : MapOK(recent[k], k)
  BY InvTypes
<1>3. e \in Events BY <1>1, <1>2, HeadTailProperties
<1>4. e = Head(etw) OBVIOUS
<1>5. Complete' => Complete BY <1>1 DEF Complete, worldVars, startVars
<1>9. names \in [Pids -> Pids \cup {NoPid}] BY InvTypes
<1> HIDE DEF e
<1>6. CASE e.type = "start" /\ OnStart(e)
  <2>1. /\ names' = [names EXCEPT ![e.pid] = e.ppid]
        /\ \/ e.ppid \notin tracked /\ UNCHANGED <<tracked, queue, queueLost>>
           \/ e.ppid \in tracked /\ tracked' = tracked \cup {e.pid} /\ Sent(2)
        /\ UNCHANGED <<recent, reported, hidden>>
    BY <1>6 DEF OnStart
  <2>2. tracked' = Apply(tracked, e) /\ names' = Rename(names, e)
    BY <1>6, <1>9, <2>1 DEF Apply, Rename
  <2>3. queue' \in 0..QueueCap /\ queueLost' \in Nat /\ (queueLost' = 0 => queueLost = 0)
    <3>1. CASE Sent(2) BY <1>2, <3>1, SentIs
    <3> QED BY <1>2, <2>1, <3>1
  <2>4. NotedIsReported' BY <2>1, <2>3 DEF EInv, NotedIsReported
  <2>5. NothingHidden' BY <1>5, <2>1, <2>3 DEF EInv, NothingHidden
  <2> QED BY <1>1, <1>2, <1>4, <2>1, <2>2, <2>3, <2>4, <2>5, TakenStep
<1>7. CASE e.type = "stop" /\ OnStop(e)
  <2>1. /\ tracked' = tracked \ {e.pid} /\ Sent(IF e.pid \in tracked THEN 1 ELSE 0)
        /\ UNCHANGED <<names, recent, reported, hidden>>
    BY <1>7 DEF OnStop
  <2>2. tracked' = Apply(tracked, e) /\ names' = Rename(names, e)
    BY <1>7, <1>9, <2>1 DEF Apply, Rename
  <2>3. queue' \in 0..QueueCap /\ queueLost' \in Nat /\ (queueLost' = 0 => queueLost = 0)
    BY <1>2, <2>1, SentIs
  <2>4. NotedIsReported' BY <2>1, <2>3 DEF EInv, NotedIsReported
  <2>5. NothingHidden' BY <1>5, <2>1, <2>3 DEF EInv, NothingHidden
  <2> QED BY <1>1, <1>2, <1>4, <2>1, <2>2, <2>3, <2>4, <2>5, TakenStep
<1>8. CASE e.type = "call" /\ OnCall(e)
  <2> DEFINE call == [kind |-> e.kind, pid |-> e.pid, dest |-> e.dest]
             sent == e.pid \in tracked /\ ~Repeats(e)
  <2>1. /\ Sent(IF sent THEN 1 ELSE 0)
        /\ recent' = IF sent /\ e.kind # "file"
                     THEN [recent EXCEPT ![e.kind] = Noted(recent[e.kind], e)]
                     ELSE recent
        /\ sent /\ queue < QueueCap => reported' = reported \cup {call} /\ hidden' = hidden
        /\ ~(sent /\ queue < QueueCap) =>
             /\ hidden' = IF call \notin reported THEN hidden \cup {call} ELSE hidden
             /\ reported' = reported
        /\ tracked' = tracked /\ names' = names
    BY <1>8 DEF OnCall
  <2>2. sent \in BOOLEAN /\ sent = (e.pid \in tracked /\ ~Repeats(e)) OBVIOUS
  <2>3. call = [kind |-> e.kind, pid |-> e.pid, dest |-> e.dest] OBVIOUS
  <2> HIDE DEF sent, call
  <2>4. tracked' = Apply(tracked, e) /\ names' = Rename(names, e)
    BY <1>8, <1>9, <2>1 DEF Apply, Rename
  <2>5. e.pid \in Pids /\ e.kind \in Kinds /\ e.dest \in Dests BY <1>3, <1>8, EventIs
  <2>6. e.kind # "file" => e.kind \in Limited BY <2>5 DEF Kinds, Limited
  <2>7. /\ queue' \in 0..QueueCap /\ queueLost' \in Nat /\ (queueLost' = 0 => queueLost = 0)
        /\ queueLost' = 0 /\ sent => queue < QueueCap
    <3>1. /\ queue' \in 0..QueueCap /\ queueLost' \in Nat
          /\ queueLost' = 0 => queueLost = 0
                               /\ (IF sent THEN 1 ELSE 0) <= QueueCap - queue
      BY <1>2, <2>1, <2>2, SentIs
    <3>2. QueueCap \in Nat BY EtwBounds
    <3> QED BY <1>2, <2>2, <3>1, <3>2
  <2>8. ASSUME NEW k \in Limited
        PROVE  /\ recent'[k] = recent[k] \/
                    (sent /\ k = e.kind /\ recent'[k] = Noted(recent[k], e))
               /\ MapOK(recent'[k], k)
    <3>1. recent'[k] = recent[k] \/ (sent /\ k = e.kind /\ recent'[k] = Noted(recent[k], e))
      BY <1>2, <2>1, <2>6
    <3>2. MapOK(recent[k], k) /\ MapOK(Noted(recent[k], e), k)
      BY <1>2, <2>5, NotedIs
    <3> QED BY <3>1, <3>2
  <2>9. recent' \in [Limited -> SUBSET [pid : Pids, dest : Dests, age : Nat]]
    <3>1. ASSUME NEW k \in Limited
          PROVE  recent'[k] \in SUBSET [pid : Pids, dest : Dests, age : Nat]
      <4>1. recent'[k] \in SUBSET Notes(k) BY <2>8 DEF MapOK
      <4>2. 0..Limit[k] \in SUBSET Nat BY EtwLimits DEF Limited
      <4>3. Notes(k) \in SUBSET [pid : Pids, dest : Dests, age : Nat]
        BY <4>2 DEF Notes
      <4> QED BY <4>1, <4>3
    <3>2. recent' = [k \in Limited |-> recent'[k]] BY <1>2, <2>1
    <3> QED BY <3>1, <3>2
  <2>10. NotedIsReported'
    <3> SUFFICES ASSUME queueLost' = 0, NEW k \in Limited, NEW r \in recent'[k]
                 PROVE  [kind |-> k, pid |-> r.pid, dest |-> r.dest] \in reported'
      BY DEF NotedIsReported
    <3>1. queueLost = 0 /\ (sent => reported' = reported \cup {call})
      BY <2>1, <2>2, <2>7
    <3>2. reported \subseteq reported' BY <2>1, <2>2, <3>1
    <3>3. CASE r \in recent[k] BY <3>1, <3>2, <3>3 DEF EInv, NotedIsReported
    <3>4. CASE r \notin recent[k]
      <4>1. sent /\ k = e.kind /\ recent'[k] = Noted(recent[k], e) BY <2>8, <3>4
      <4>2. MapOK(recent[k], k) BY <1>2
      <4>3. r.pid = e.pid /\ r.dest = e.dest BY <2>5, <3>4, <4>1, <4>2, NotedIs
      <4> QED BY <2>3, <3>1, <4>1, <4>3
    <3> QED BY <3>3, <3>4
  <2>11. NothingHidden'
    <3> SUFFICES ASSUME Complete', queueLost' = 0 PROVE hidden' = {}
      BY DEF NothingHidden
    <3>1. Complete /\ queueLost = 0 /\ hidden = {}
      BY <1>5, <2>7 DEF EInv, NothingHidden
    <3>2. e.pid \in tracked
      <4>1. Replay(etw, tracked, names, Agent, Parents) BY <3>1 DEF EInv, Lags
      <4> QED BY <1>1, <1>2, <1>4, <1>8, <4>1, ReplayNext
    <3>3. CASE sent BY <2>1, <2>7, <3>1, <3>3
    <3>4. CASE ~sent
      <4>1. Repeats(e) BY <2>2, <3>2, <3>4
      <4>2. PICK r \in recent[e.kind] : r.pid = e.pid /\ r.dest = e.dest
        BY <4>1 DEF Repeats
      <4>3. e.kind \in Limited BY <2>6, <4>1 DEF Repeats
      <4>4. call \in reported BY <2>3, <3>1, <4>2, <4>3 DEF EInv, NotedIsReported
      <4> QED BY <2>1, <3>1, <3>4, <4>4
    <3> QED BY <2>2, <3>3, <3>4
  <2> QED BY <1>1, <1>4, <2>4, <2>7, <2>8, <2>9, <2>10, <2>11, TakenStep
<1> QED BY <1>1, <1>6, <1>7, <1>8

-----------------------------------------------------------------------------

LEMMA NoMaps ==
  ASSUME NEW f, f = [net |-> {}, dns |-> {}]
  PROVE  f = [k \in {"net", "dns"} |-> {}]
OBVIOUS

LEMMA EtwInit == Init => EInv
<1> SUFFICES ASSUME Init PROVE EInv OBVIOUS
<1> DEFINE World(mine, host, had) ==
             [p \in Pids |->
               [live |-> p \in {Root} \cup mine \cup host,
                agent |-> p \in {Root} \cup mine,
                ppid |-> IF p \in mine THEN Root
                         ELSE IF p \in host THEN had ELSE NoPid]]
           Few(mine, host) == Cardinality(mine) <= 1 /\ Cardinality(host) <= 1
<1>0. \E mine, host \in SUBSET (Pids \ {Root}), had \in {NoPid, Root} :
        /\ mine \cap host = {} /\ (agent = "held" => mine = {})
        /\ Few(mine, host) /\ procs = World(mine, host, had)
  BY Zenon DEF Init
<1> HIDE DEF World, Few
<1>1. PICK mine \in SUBSET (Pids \ {Root}), host \in SUBSET (Pids \ {Root}),
           had \in {NoPid, Root} :
        /\ mine \cap host = {} /\ (agent = "held" => mine = {})
        /\ procs = World(mine, host, had)
  BY <1>0
<1>2. /\ agent \in {"attached", "held"}
      /\ tracked = IF agent = "held" THEN {Root} ELSE PidTree
      /\ phase = "off" /\ etw = <<>> /\ etwLost = 0
      /\ names = [p \in Pids |-> NoPid] /\ recent = [net |-> {}, dns |-> {}]
      /\ queue = 0 /\ queueLost = 0 /\ misseeded = FALSE /\ hidden = {}
      /\ seeds = tracked
  BY DEF Init
<1>3. procs \in [Pids -> Procs]
  <2>1. ASSUME NEW p \in Pids
        PROVE  (IF p \in mine THEN Root ELSE IF p \in host THEN had ELSE NoPid)
                 \in Pids \cup {NoPid}
    BY EtwRoot
  <2>2. \A p \in Pids :
          [live |-> p \in {Root} \cup mine \cup host,
           agent |-> p \in {Root} \cup mine,
           ppid |-> IF p \in mine THEN Root
                    ELSE IF p \in host THEN had ELSE NoPid] \in Procs
    BY <2>1 DEF Procs
  <2> QED BY <1>1, <2>2 DEF World
<1>4. \A p \in Pids :
        /\ procs[p].live <=> p \in {Root} \cup mine \cup host
        /\ procs[p].agent <=> p \in {Root} \cup mine
  BY <1>1 DEF World
<1>5. Agent = {Root} \cup mine
  <2>1. \A p : p \in Agent <=> p \in {Root} \cup mine BY <1>4, EtwRoot DEF Agent, Live
  <2> QED BY <2>1
<1>6. tracked \in SUBSET Pids
  <2>1. PidTree \in SUBSET Pids BY EtwRoot DEF PidTree, Live
  <2> QED BY <1>2, <2>1, EtwRoot
<1>7. recent = [k \in Limited |-> {}]
  <2>1. recent = [net |-> {}, dns |-> {}] BY <1>2
  <2> QED BY <2>1, NoMaps, Zenon DEF Limited
<1>8. \A k \in Limited : recent[k] = {} BY <1>7
<1>9. recent \in [Limited -> SUBSET [pid : Pids, dest : Dests, age : Nat]] BY <1>7
<1>10. TypeOK
  <2>1. \A k \in Limited :
          /\ recent[k] \in SUBSET Notes(k)
          /\ Cardinality(recent[k]) <= MaxRecent + 1
          /\ \A r, s \in recent[k] : r.pid = s.pid /\ r.dest = s.dest => r = s
    BY <1>8, EtwBounds, FS_EmptySet
  <2>2. names \in [Pids -> Pids \cup {NoPid}] BY <1>2
  <2>3. queue \in 0..QueueCap BY <1>2, EtwBounds
  <2> QED BY <1>2, <1>3, <1>6, <2>1, <2>2, <2>3 DEF TypeOK, Procs, Limited
<1>11. SensorTypes
  <2>1. etw \in Seq(Events) BY <1>2
  <2>2. \A k \in Limited : IsFiniteSet(recent[k]) BY <1>8, FS_EmptySet
  <2> QED BY <1>9, <2>1, <2>2 DEF SensorTypes
<1>12. Early BY <1>1, <1>2, <1>5 DEF Early
<1>13. Lags BY <1>2 DEF Lags, Complete
<1>14. NotedIsReported BY <1>8 DEF NotedIsReported
<1>15. NothingHidden BY <1>2 DEF NothingHidden
<1> QED BY <1>10, <1>11, <1>12, <1>13, <1>14, <1>15 DEF EInv

LEMMA EtwStep == EInv /\ [Next]_vars => EInv'
<1> SUFFICES ASSUME EInv, [Next]_vars PROVE EInv' OBVIOUS
<1>1. ASSUME NEW p \in Pids, NEW c \in Pids, Spawn(p, c) PROVE EInv' BY <1>1, SpawnKeeps
<1>2. ASSUME NEW p \in Pids, Exit(p) PROVE EInv' BY <1>2, ExitKeeps
<1>3. ASSUME NEW p \in Pids, NEW c \in Calls, Call(p, c) PROVE EInv' BY <1>3, CallKeeps
<1>4. ASSUME NEW i \in 1..Len(etw), Lose(i) PROVE EInv' BY <1>4, LoseKeeps
<1>5. CASE Start BY <1>5, StartKeeps
<1>6. CASE Release BY <1>6, ReleaseKeeps
<1>7. CASE Callback BY <1>7, CallbackKeeps
<1>8. CASE Poll BY <1>8, PollKeeps
<1>9. CASE Second BY <1>9, SecondKeeps
<1>10. CASE SessionStops BY <1>10, StopsKeeps
<1>11. CASE Snapshot BY <1>11, SnapshotKeeps
<1>12. ASSUME NEW p \in Pids, Seed(p) PROVE EInv' BY <1>12, SeedKeeps
<1>13. CASE UNCHANGED vars
  <2>1. /\ UNCHANGED <<procs, etw, tracked, names, misseeded, reported, hidden>>
        /\ phase' = phase /\ seeds' = seeds /\ etwLost' = etwLost /\ queueLost' = queueLost
        /\ agent' = agent /\ queue' = queue /\ recent' = recent
    BY <1>13 DEF vars, worldVars, sensorVars, truthVars, startVars
  <2> QED BY <2>1, InvTypes, AsideStep
<1> QED
  BY <1>1, <1>2, <1>3, <1>4, <1>5, <1>6, <1>7, <1>8, <1>9, <1>10, <1>11, <1>12,
     <1>13 DEF Next, Sensing, Acts

-----------------------------------------------------------------------------
(* The responses.                                                          *)

(* A response is a step of the sensor's world, or none: it acts on the     *)
(* processes, by ending them.                                              *)
LEMMA RespondStep == [RNext]_rvars => [Next]_vars
<1> SUFFICES ASSUME [RNext]_rvars PROVE [Next]_vars OBVIOUS
<1>1. ASSUME NEW a \in {"freeze", "terminate", "resume"}, Begin(a) PROVE UNCHANGED vars
  BY <1>1 DEF Begin
<1>2. ASSUME NEW p \in Pids, ActOne(p) PROVE UNCHANGED vars \/ Exit(p)
  BY <1>2 DEF ActOne
<1>3. ASSUME SecondPass \/ Finish PROVE UNCHANGED vars BY <1>3 DEF SecondPass, Finish
<1>4. ASSUME UNCHANGED rvars PROVE UNCHANGED vars BY <1>4 DEF rvars
<1> QED BY <1>1, <1>2, <1>3, <1>4 DEF RNext, Respond, Next, Acts

(* The inductive invariant of the responses: one at a time, in the order   *)
(* freeze, resumes; and how often a process may be suspended meanwhile.    *)
RespondTypes ==
  /\ suspensions \in [Pids -> Nat]
  /\ \A p \in Pids : suspensions[p] > 0 => p \in Live
  /\ action \in {"none", "freeze", "terminate", "resume"}
  /\ pass \in {1, 2} /\ todo \in SUBSET Pids
  /\ last \in {"none", "freeze", "terminate", "resume"}
  /\ resumes \in Nat /\ resumes <= MaxResumes /\ late \in BOOLEAN

InOrder ==
  /\ action \in {"freeze", "terminate"} => last = "none"
  /\ action = "resume" => last \in {"freeze", "resume"} /\ resumes < MaxResumes
  /\ last \in {"none", "freeze"} => resumes = 0
  /\ phase \in {"off", "named"} => action = "none" /\ last = "none"

Most(p) ==
  IF action = "freeze" THEN IF p \in todo THEN pass - 1 ELSE pass
  ELSE IF last \in {"freeze", "resume"} THEN 2 ELSE 0

AtMost == \A p \in Pids : suspensions[p] <= Most(p)

(* What a completed resume and the one under way have taken back.          *)
Taken(p) == IF action = "resume" /\ p \notin todo THEN resumes + 1 ELSE resumes

TakenBack ==
  Complete /\ ~late =>
    \A p \in Agent : suspensions[p] = 0 \/ suspensions[p] + Taken(p) <= 2

WInv == RespondTypes /\ InOrder /\ AtMost /\ TakenBack

LEMMA AgentIn == Agent \in SUBSET Live /\ Live \in SUBSET Pids
BY DEF Agent, Live

LEMMA BeginKeeps ==
  ASSUME EInv, WInv, NEW a, Begin(a)
  PROVE  WInv'
<1>1. /\ phase = "on" /\ action = "none"
      /\ \/ a \in {"freeze", "terminate"} /\ last = "none" /\ late' = late
         \/ /\ a = "resume" /\ last \in {"freeze", "resume"} /\ resumes < MaxResumes
            /\ late' = (late \/ etw # <<>>)
      /\ action' = a /\ pass' = 1 /\ todo' = tracked
      /\ last' = last /\ resumes' = resumes /\ suspensions' = suspensions
      /\ procs' = procs /\ phase' = phase /\ Complete' = Complete
  BY DEF Begin, vars, worldVars, startVars, truthVars, Complete
<1>2. Live' = Live /\ Agent' = Agent BY <1>1 DEF Live, Agent
<1>3. tracked \in SUBSET Pids BY InvTypes
<1>4. RespondTypes' BY <1>1, <1>2, <1>3 DEF WInv, RespondTypes
<1>5. InOrder' BY <1>1 DEF WInv, InOrder
<1>6. AtMost'
  <2> SUFFICES ASSUME NEW p \in Pids PROVE suspensions[p] <= Most(p)'
    BY <1>1 DEF AtMost
  <2>1. suspensions[p] \in Nat /\ suspensions[p] <= Most(p)
    BY DEF WInv, RespondTypes, AtMost
  <2> QED BY <1>1, <2>1 DEF Most
<1>7. TakenBack'
  <2> SUFFICES ASSUME Complete', ~late', NEW p \in Agent
               PROVE  suspensions[p] = 0 \/ suspensions[p] + Taken(p)' <= 2
    BY <1>1, <1>2 DEF TakenBack
  <2>1. p \in Pids /\ suspensions[p] \in Nat /\ suspensions[p] <= Most(p)
    BY AgentIn DEF WInv, RespondTypes, AtMost
  <2>2. CASE a \in {"freeze", "terminate"} /\ last = "none"
    BY <1>1, <2>1, <2>2 DEF Most
  <2>3. CASE a = "resume" /\ late' = (late \/ etw # <<>>)
    <3>1. Complete /\ ~late /\ etw = <<>> BY <1>1, <2>3
    <3>2. p \in tracked
      <4>1. Replay(<<>>, tracked, names, Agent, Parents) BY <3>1 DEF EInv, Lags
      <4> QED BY <4>1, ReplayNothing
    <3>3. Taken(p)' = resumes /\ Taken(p) = resumes BY <1>1, <3>2 DEF Taken
    <3> QED BY <3>1, <3>3 DEF WInv, TakenBack
  <2> QED BY <1>1, <2>2, <2>3
<1> QED BY <1>4, <1>5, <1>6, <1>7 DEF WInv

LEMMA ActOneKeeps ==
  ASSUME EInv, WInv, NEW p \in Pids, ActOne(p)
  PROVE  WInv'
<1>1. /\ action # "none" /\ p \in todo /\ todo' = todo \ {p}
      /\ action' = action /\ pass' = pass /\ last' = last /\ resumes' = resumes
      /\ late' = late
      /\ \/ p \notin Live /\ UNCHANGED <<vars, suspensions>>
         \/ /\ p \in Live /\ action = "freeze" /\ UNCHANGED vars
            /\ suspensions' = [suspensions EXCEPT ![p] = @ + 1]
         \/ /\ p \in Live /\ action = "resume" /\ UNCHANGED vars
            /\ suspensions' = [suspensions EXCEPT ![p] = Resumed(@)]
         \/ /\ p \in Live /\ action = "terminate" /\ Exit(p)
            /\ suspensions' = [suspensions EXCEPT ![p] = 0]
  BY DEF ActOne
<1>2. /\ suspensions \in [Pids -> Nat] /\ procs \in [Pids -> Procs]
      /\ action \in {"none", "freeze", "terminate", "resume"}
      /\ pass \in {1, 2} /\ todo \in SUBSET Pids /\ resumes \in Nat
  BY InvTypes DEF WInv, RespondTypes
<1>3. /\ phase' = phase /\ Complete' = Complete
      /\ \A q : q \in Agent' => q \in Agent
      /\ \A q : q \in Live /\ (q # p \/ action # "terminate") => q \in Live'
  <2>1. CASE UNCHANGED vars
    <3>1. /\ procs' = procs /\ phase' = phase /\ etwLost' = etwLost /\ agent' = agent
          /\ misseeded' = misseeded
      BY <2>1 DEF vars, worldVars, startVars, truthVars
    <3> QED BY <3>1 DEF Complete, Agent, Live
  <2>2. CASE action = "terminate" /\ Exit(p)
    <3>1. /\ procs' = [procs EXCEPT ![p] = [procs[p] EXCEPT !.live = FALSE]]
          /\ phase' = phase /\ etwLost' = etwLost /\ agent' = agent
          /\ misseeded' = misseeded
      BY <2>2 DEF Exit, startVars, truthVars
    <3>2. \A q \in Pids : q # p => procs'[q] = procs[q] BY <1>2, <3>1
    <3>3. ~procs'[p].live BY <1>2, <3>1 DEF Procs
    <3> QED BY <2>2, <3>1, <3>2, <3>3 DEF Complete, Agent, Live
  <2> QED BY <1>1, <2>1, <2>2
<1>4. /\ suspensions' \in [Pids -> Nat]
      /\ \A q \in Pids : q # p => suspensions'[q] = suspensions[q]
      /\ action = "freeze" => suspensions'[p] <= suspensions[p] + 1
      /\ action = "resume" /\ p \in Live =>
           suspensions'[p] = 0 \/ suspensions'[p] + 1 = suspensions[p]
      /\ action # "freeze" => suspensions'[p] <= suspensions[p]
      /\ action = "terminate" /\ p \in Live => suspensions'[p] = 0
      /\ p \notin Live => suspensions'[p] = suspensions[p]
  BY <1>1, <1>2 DEF Resumed
<1>5. RespondTypes'
  <2>1. ASSUME NEW q \in Pids, suspensions'[q] > 0 PROVE q \in Live'
    <3>1. q \in Live
      <4>1. CASE q # p BY <1>4, <2>1, <4>1 DEF WInv, RespondTypes
      <4>2. CASE q = p BY <1>4, <2>1, <4>2 DEF WInv, RespondTypes
      <4> QED BY <4>1, <4>2
    <3>2. q # p \/ action # "terminate" BY <1>4, <2>1, <3>1
    <3> QED BY <1>3, <3>1, <3>2
  <2>2. todo' \in SUBSET Pids BY <1>1, <1>2
  <2> QED BY <1>1, <1>4, <2>1, <2>2 DEF WInv, RespondTypes
<1>6. InOrder' BY <1>1, <1>3 DEF WInv, InOrder
<1>7. AtMost'
  <2> SUFFICES ASSUME NEW q \in Pids PROVE suspensions'[q] <= Most(q)'
    BY DEF AtMost
  <2>1. suspensions[q] <= Most(q) BY DEF WInv, AtMost
  <2>2. suspensions[q] \in Nat /\ suspensions'[q] \in Nat BY <1>2, <1>4
  <2>3. CASE q # p
    <3>1. Most(q)' = Most(q) BY <1>1, <2>3 DEF Most
    <3> QED BY <1>4, <2>1, <2>3, <3>1
  <2>4. CASE q = p /\ action = "freeze"
    <3>1. Most(q) = pass - 1 /\ Most(q)' = pass BY <1>1, <2>4 DEF Most
    <3> QED BY <1>2, <1>4, <2>1, <2>2, <2>4, <3>1
  <2>5. CASE q = p /\ action # "freeze"
    <3>1. Most(q)' = Most(q) /\ Most(q) \in Nat BY <1>1, <2>5 DEF Most
    <3> QED BY <1>4, <2>1, <2>2, <2>5, <3>1
  <2> QED BY <2>3, <2>4, <2>5
<1>8. TakenBack'
  <2> SUFFICES ASSUME Complete', ~late', NEW q \in Agent'
               PROVE  suspensions'[q] = 0 \/ suspensions'[q] + Taken(q)' <= 2
    BY DEF TakenBack
  <2>1. q \in Agent /\ q \in Live /\ q \in Pids BY <1>3, AgentIn
  <2>2. suspensions[q] \in Nat /\ suspensions'[q] \in Nat BY <1>2, <1>4, <2>1
  <2>3. suspensions[q] = 0 \/ suspensions[q] + Taken(q) <= 2
    BY <1>1, <1>3, <2>1 DEF WInv, TakenBack
  <2>4. CASE q # p
    <3>1. Taken(q)' = Taken(q) BY <1>1, <2>4 DEF Taken
    <3> QED BY <1>4, <2>1, <2>3, <2>4, <3>1
  <2>5. CASE q = p /\ action = "resume"
    <3>1. Taken(q) = resumes /\ Taken(q)' = resumes + 1 BY <1>1, <2>5 DEF Taken
    <3> QED BY <1>2, <1>4, <2>1, <2>2, <2>3, <2>5, <3>1
  <2>6. CASE q = p /\ action = "freeze"
    <3>1. resumes = 0 /\ Taken(q)' = 0 BY <1>1, <2>6 DEF WInv, InOrder, Taken
    <3>2. suspensions[q] <= pass - 1
      BY <1>1, <2>1, <2>6 DEF WInv, AtMost, Most
    <3> QED BY <1>2, <1>4, <2>2, <2>6, <3>1, <3>2
  <2>7. CASE q = p /\ action = "terminate" BY <1>4, <2>1, <2>7
  <2> QED BY <1>1, <1>2, <2>4, <2>5, <2>6, <2>7
<1> QED BY <1>5, <1>6, <1>7, <1>8 DEF WInv

LEMMA SecondPassKeeps ==
  ASSUME EInv, WInv, SecondPass
  PROVE  WInv'
<1>1. /\ action \in {"freeze", "terminate"} /\ pass = 1 /\ todo = {}
      /\ pass' = 2 /\ todo' = tracked /\ action' = action /\ last' = last
      /\ resumes' = resumes /\ late' = late /\ suspensions' = suspensions
      /\ procs' = procs /\ phase' = phase /\ Complete' = Complete
  BY DEF SecondPass, vars, worldVars, startVars, truthVars, Complete
<1>2. Live' = Live /\ Agent' = Agent BY <1>1 DEF Live, Agent
<1>3. tracked \in SUBSET Pids BY InvTypes
<1>4. RespondTypes' BY <1>1, <1>2, <1>3 DEF WInv, RespondTypes
<1>5. InOrder' BY <1>1 DEF WInv, InOrder
<1>6. AtMost'
  <2> SUFFICES ASSUME NEW p \in Pids PROVE suspensions[p] <= Most(p)'
    BY <1>1 DEF AtMost
  <2>1. suspensions[p] \in Nat /\ suspensions[p] <= Most(p)
    BY DEF WInv, RespondTypes, AtMost
  <2> QED BY <1>1, <2>1 DEF Most
<1>7. TakenBack' BY <1>1, <1>2 DEF WInv, TakenBack, Taken
<1> QED BY <1>4, <1>5, <1>6, <1>7 DEF WInv

LEMMA FinishKeeps ==
  ASSUME EInv, WInv, Finish
  PROVE  WInv'
<1>1. /\ action # "none" /\ todo = {} /\ (pass = 2 \/ action = "resume")
      /\ last' = action /\ action' = "none"
      /\ resumes' = IF action = "resume" THEN resumes + 1 ELSE resumes
      /\ pass' = pass /\ todo' = todo /\ late' = late /\ suspensions' = suspensions
      /\ procs' = procs /\ phase' = phase /\ Complete' = Complete
  BY DEF Finish, vars, worldVars, startVars, truthVars, Complete
<1>2. Live' = Live /\ Agent' = Agent BY <1>1 DEF Live, Agent
<1>3. /\ action \in {"none", "freeze", "terminate", "resume"} /\ resumes \in Nat
      /\ MaxResumes \in Nat /\ InOrder
  BY EtwResumes DEF WInv, RespondTypes
<1>4. resumes' \in Nat /\ resumes' <= MaxResumes
  BY <1>1, <1>3 DEF WInv, RespondTypes, InOrder
<1>5. RespondTypes' BY <1>1, <1>2, <1>4 DEF WInv, RespondTypes
<1>6. InOrder' BY <1>1, <1>3 DEF InOrder
<1>7. AtMost'
  <2> SUFFICES ASSUME NEW p \in Pids PROVE suspensions[p] <= Most(p)'
    BY <1>1 DEF AtMost
  <2>1. suspensions[p] \in Nat /\ suspensions[p] <= Most(p)
    BY DEF WInv, RespondTypes, AtMost
  <2> QED BY <1>1, <1>3, <2>1 DEF Most, InOrder
<1>8. TakenBack'
  <2>1. \A p \in Agent : Taken(p)' = Taken(p) BY <1>1 DEF Taken
  <2> QED BY <1>1, <1>2, <2>1 DEF WInv, TakenBack
<1> QED BY <1>5, <1>6, <1>7, <1>8 DEF WInv

(* The sensor and the session: they touch no process, and where the        *)
(* session begins nothing has been suspended.                              *)
LEMMA SensingIs ==
  ASSUME EInv, Sensing
  PROVE  /\ procs' = procs
         /\ phase' \in {"off", "named"} => phase \in {"off", "named"}
         /\ Complete' => Complete \/ phase = "named"
<1>1. CASE Start BY <1>1 DEF Start, worldVars
<1>2. CASE Snapshot BY <1>2 DEF Snapshot, worldVars, Complete
<1>3. CASE Release BY <1>3 DEF Release, startVars, truthVars, Complete
<1>4. CASE Callback BY <1>4 DEF Callback, startVars, worldVars, Complete
<1>5. CASE Poll BY <1>5 DEF Poll, startVars, worldVars, truthVars, Complete
<1>6. CASE Second BY <1>6 DEF Second, startVars, worldVars, truthVars, Complete
<1>7. CASE SessionStops BY <1>7 DEF SessionStops, worldVars, Complete
<1>8. ASSUME NEW p \in Pids, Seed(p)
      PROVE  procs' = procs /\ phase' = phase /\ Complete' = Complete
  BY <1>8 DEF Seed, worldVars, truthVars, Complete
<1>9. ASSUME NEW i \in 1..Len(etw), Lose(i)
      PROVE  procs' = procs /\ phase' = phase /\ ~Complete'
  <2>1. etwLost \in Nat BY InvTypes
  <2> QED BY <1>9, <2>1 DEF Lose, worldVars, startVars, Complete
<1> QED BY <1>1, <1>2, <1>3, <1>4, <1>5, <1>6, <1>7, <1>8, <1>9 DEF Sensing

(* What a process of the world does leaves its suspensions alone, and a    *)
(* new process has none.                                                   *)
LEMMA ActsIs ==
  ASSUME EInv, NEW p \in Pids, Acts(p)
  PROVE  /\ phase' = phase /\ Complete' = Complete
         /\ \A q : q \in Agent' => q \in Agent \/ q \notin Live
         /\ \A q : q \in Live /\ q # p => q \in Live'
<1>1. procs \in [Pids -> Procs] BY InvTypes
<1>2. ASSUME NEW c \in Pids, Spawn(p, c)
      PROVE  /\ phase' = phase /\ Complete' = Complete
             /\ \A q : q \in Agent' => q \in Agent \/ q \notin Live
             /\ \A q : q \in Live /\ q # p => q \in Live'
  <2>1. /\ c \notin Live /\ phase' = phase /\ Complete' = Complete
        /\ procs' = [procs EXCEPT ![c] = [live |-> TRUE, agent |-> procs[p].agent,
                                          ppid |-> p]]
    BY <1>2 DEF Spawn, startVars, truthVars, Complete
  <2>2. \A q \in Pids : q # c => procs'[q] = procs[q] BY <1>1, <2>1
  <2> QED BY <2>1, <2>2 DEF Agent, Live
<1>3. ASSUME Exit(p)
      PROVE  /\ phase' = phase /\ Complete' = Complete
             /\ \A q : q \in Agent' => q \in Agent \/ q \notin Live
             /\ \A q : q \in Live /\ q # p => q \in Live'
  <2>1. /\ phase' = phase /\ Complete' = Complete
        /\ procs' = [procs EXCEPT ![p] = [procs[p] EXCEPT !.live = FALSE]]
    BY <1>3 DEF Exit, startVars, truthVars, Complete
  <2>2. \A q \in Pids : q # p => procs'[q] = procs[q] BY <1>1, <2>1
  <2>3. p \in Live BY <1>3 DEF Exit, Runs
  <2>4. ~procs'[p].live BY <1>1, <2>1 DEF Procs
  <2> QED BY <2>1, <2>2, <2>3, <2>4 DEF Agent, Live
<1>4. ASSUME NEW c \in Calls, Call(p, c)
      PROVE  procs' = procs /\ phase' = phase /\ Complete' = Complete
  BY <1>4 DEF Call, startVars, truthVars, Complete
<1> QED BY <1>2, <1>3, <1>4 DEF Acts, Agent, Live

LEMMA AloneKeeps ==
  ASSUME EInv, WInv, UNCHANGED <<respondVars, suspensions>>,
         Sensing \/ \E p \in Pids : suspensions[p] = 0 /\ Acts(p)
  PROVE  WInv'
<1>1. /\ action' = action /\ pass' = pass /\ todo' = todo /\ last' = last
      /\ resumes' = resumes /\ late' = late /\ suspensions' = suspensions
  BY DEF respondVars
<1>2. suspensions \in [Pids -> Nat] BY DEF WInv, RespondTypes
<1>3. /\ phase' \in {"off", "named"} => phase \in {"off", "named"}
      /\ Complete' => Complete \/ phase = "named"
      /\ \A q : q \in Agent' => q \in Agent \/ q \notin Live
      /\ \A q \in Pids : suspensions[q] > 0 => q \in Live'
  <2>1. CASE Sensing
    <3>1. /\ procs' = procs
          /\ phase' \in {"off", "named"} => phase \in {"off", "named"}
          /\ Complete' => Complete \/ phase = "named"
      BY <2>1, SensingIs
    <3> QED BY <3>1 DEF WInv, RespondTypes, Agent, Live
  <2>2. ASSUME NEW p \in Pids, suspensions[p] = 0, Acts(p)
        PROVE  /\ phase' = phase /\ Complete' = Complete
               /\ \A q : q \in Agent' => q \in Agent \/ q \notin Live
               /\ \A q \in Pids : suspensions[q] > 0 => q \in Live'
    BY <2>2, ActsIs DEF WInv, RespondTypes
  <2> QED BY <2>1, <2>2
<1>4. RespondTypes' BY <1>1, <1>3 DEF WInv, RespondTypes
<1>5. InOrder' BY <1>1, <1>3 DEF WInv, InOrder
<1>6. AtMost' BY <1>1 DEF WInv, AtMost, Most
<1>7. TakenBack'
  <2> SUFFICES ASSUME Complete', ~late', NEW q \in Agent'
               PROVE  suspensions[q] = 0 \/ suspensions[q] + Taken(q) <= 2
    BY <1>1 DEF TakenBack, Taken
  <2>1. q \in Pids /\ suspensions[q] \in Nat /\ suspensions[q] <= Most(q)
    BY <1>2 DEF Agent, Live, WInv, AtMost
  <2>2. CASE phase = "named"
    BY <2>1, <2>2 DEF WInv, InOrder, Most
  <2>3. CASE q \notin Live BY <2>1, <2>3 DEF WInv, RespondTypes
  <2>4. CASE Complete /\ q \in Agent BY <1>1, <2>4 DEF WInv, TakenBack
  <2> QED BY <1>3, <2>2, <2>3, <2>4
<1> QED BY <1>4, <1>5, <1>6, <1>7 DEF WInv

LEMMA WInit == RInit => WInv
<1> SUFFICES ASSUME RInit PROVE WInv OBVIOUS
<1>1. /\ suspensions = [p \in Pids |-> 0] /\ action = "none" /\ pass = 1 /\ todo = {}
      /\ last = "none" /\ resumes = 0 /\ late = FALSE
  BY DEF RInit
<1>2. RespondTypes
  <2>1. MaxResumes \in Nat /\ 0 <= MaxResumes BY EtwResumes
  <2>2. suspensions \in [Pids -> Nat] /\ \A p \in Pids : suspensions[p] = 0 BY <1>1
  <2>3. \A p \in Pids : suspensions[p] > 0 => p \in Live BY <2>2
  <2> QED BY <1>1, <2>1, <2>2, <2>3 DEF RespondTypes
<1>3. InOrder /\ AtMost BY <1>1 DEF InOrder, AtMost, Most
<1>4. TakenBack BY <1>1, AgentIn DEF TakenBack
<1> QED BY <1>2, <1>3, <1>4 DEF WInv

LEMMA WStep == EInv /\ WInv /\ [RNext]_rvars => WInv'
<1> SUFFICES ASSUME EInv, WInv, [RNext]_rvars PROVE WInv' OBVIOUS
<1>1. ASSUME NEW a \in {"freeze", "terminate", "resume"}, Begin(a) PROVE WInv'
  BY <1>1, BeginKeeps
<1>2. ASSUME NEW p \in Pids, ActOne(p) PROVE WInv' BY <1>2, ActOneKeeps
<1>3. CASE SecondPass BY <1>3, SecondPassKeeps
<1>4. CASE Finish BY <1>4, FinishKeeps
<1>5. CASE /\ Sensing \/ \E p \in Pids : suspensions[p] = 0 /\ Acts(p)
           /\ UNCHANGED <<respondVars, suspensions>>
  BY <1>5, AloneKeeps
<1>6. CASE UNCHANGED rvars
  <2>1. /\ action' = action /\ pass' = pass /\ todo' = todo /\ last' = last
        /\ resumes' = resumes /\ late' = late /\ suspensions' = suspensions
        /\ phase' = phase /\ Complete' = Complete /\ Agent' = Agent /\ Live' = Live
    BY <1>6 DEF rvars, respondVars, vars, startVars, worldVars, truthVars, Complete,
                Agent, Live
  <2>2. RespondTypes' /\ InOrder' BY <2>1 DEF WInv, RespondTypes, InOrder
  <2>3. AtMost' BY <2>1 DEF WInv, AtMost, Most
  <2>4. TakenBack' BY <2>1 DEF WInv, TakenBack, Taken
  <2> QED BY <2>2, <2>3, <2>4 DEF WInv
<1> QED BY <1>1, <1>2, <1>3, <1>4, <1>5, <1>6 DEF RNext, Respond

LEMMA RespondAlways == RSpec => [](EInv /\ WInv)
<1>1. RInit => EInv /\ WInv BY EtwInit, WInit DEF RInit
<1>2. EInv /\ WInv /\ [RNext]_rvars => EInv' /\ WInv'
  BY EtwStep, RespondStep, WStep
<1> QED BY <1>1, <1>2, PTL DEF RSpec

(* The types of the Windows sensor, the bound of its queue and of both     *)
(* rate-limiting maps, and one entry per process and destination in each;  *)
(* and of the responses, which suspend nobody more than twice and nobody   *)
(* who is gone.                                                            *)
THEOREM EtwTypes == RSpec => []RTypeOK
<1>1. EInv /\ WInv => RTypeOK
  <2> SUFFICES ASSUME EInv, WInv PROVE RTypeOK OBVIOUS
  <2>1. \A p \in Pids : suspensions[p] \in 0..2
    <3> SUFFICES ASSUME NEW p \in Pids PROVE suspensions[p] \in 0..2 OBVIOUS
    <3>1. /\ suspensions[p] \in Nat /\ suspensions[p] <= Most(p) /\ pass \in {1, 2}
      BY DEF WInv, RespondTypes, AtMost
    <3> QED BY <3>1 DEF Most
  <2>2. suspensions \in [Pids -> 0..2] BY <2>1 DEF WInv, RespondTypes
  <2>3. resumes \in 0..MaxResumes BY EtwResumes DEF WInv, RespondTypes
  <2> QED BY <2>2, <2>3 DEF EInv, WInv, RespondTypes, RTypeOK
<1> QED BY <1>1, RespondAlways, PTL

(* on_process keeps the tracked set equal to the agent's tree, and the     *)
(* parents right: whatever was forked, ended and given an old id while     *)
(* events were on their way.                                               *)
THEOREM EtwTracksTheTree == RSpec => []TreeIsTracked
<1>1. EInv => TreeIsTracked
  <2> SUFFICES ASSUME EInv, Complete, etw = <<>>
               PROVE  tracked = Agent /\ \A p \in tracked : names[p] = procs[p].ppid
    BY DEF TreeIsTracked
  <2>1. Replay(<<>>, tracked, names, Agent, Parents) BY DEF EInv, Lags
  <2>2. tracked = Agent /\ Agree(names, Parents, Agent) BY <2>1, ReplayNothing
  <2>3. tracked \in SUBSET Pids BY InvTypes
  <2> QED BY <2>2, <2>3 DEF Agree, Parents
<1> QED BY <1>1, RespondAlways, PTL

(* What a process of the agent did is reported or was before, unless       *)
(* emit() or the session counted a loss.                                   *)
THEOREM EtwHidesNothing == RSpec => []NothingHidden
<1>1. EInv => NothingHidden BY DEF EInv
<1> QED BY <1>1, RespondAlways, PTL

(* Each resume takes back one of the two suspensions of a freeze on        *)
(* Windows, from every process of the agent and however many there are; so *)
(* one resume may leave them suspended, and two do not.                    *)
THEOREM EtwTwoResumesRelease == RSpec => []TwoResumesRelease
<1>1. WInv => TwoResumesRelease
  <2> SUFFICES ASSUME WInv, Complete, ~late, action = "none", NEW p \in Agent
               PROVE  suspensions[p] = 0 \/ suspensions[p] + resumes <= 2
    BY DEF TwoResumesRelease
  <2> QED BY DEF WInv, TakenBack, Taken
<1> QED BY <1>1, RespondAlways, PTL
============================================================================
