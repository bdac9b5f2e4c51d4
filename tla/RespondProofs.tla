--------------------------- MODULE RespondProofs ---------------------------
(***************************************************************************)
(* What the tracked map and the signals guarantee, for every set of ids    *)
(* and every set of environments.  The invariant has four parts: the tree  *)
(* of tasks is a tree (World), the map follows it (Untracked, Seen,        *)
(* Labels), and a response covers it (Escaping, Releasing).                *)
(***************************************************************************)
EXTENDS Respond, FiniteSetTheorems, TLAPS

(* The tasks: ended main threads are those of processes that go on, a      *)
(* container has its init, and an id not yet given out names nobody.       *)
World ==
  /\ env \in Environments
  /\ TypeOK
  /\ \A z \in zombie : Live(z)
  /\ ~env.mainFirst => zombie = {}
  /\ env.container => Live(Root) /\ Root \notin zombie
  /\ \A p \in fresh : owner[p] = NoPid
  /\ ~env.threaded => \A p \in Pids : owner[p] \in {p, NoPid}
  /\ \A g \in Pids : Live(g) => origin[g] # "none"
  /\ \A g \in Pids : origin[g] = "entered" => env.container

(* An id that may be given out is not in the map, so that a process of the *)
(* host does not find itself there.                                        *)
Untracked ==
  ~(env.threaded /\ env.reused) =>
    /\ \A c \in Pids : Free(c) => tracked[c] = "none"
    /\ HostIsUntracked

(* The agent is in the map, not just adoptable.                            *)
Seen ==
  Sighted => \A g \in Pids : Live(g) /\ origin[g] = "agent" => tracked[g] # "none"

(* The label, on those that have it and on those that would be given it.   *)
Labels ==
  Sighted /\ ~env.ringFills /\ ~(env.threaded /\ env.reused) =>
    \A g \in Pids :
      Live(g) /\ (tracked[g] = "adopted" \/ (InNamespace(g) /\ tracked[g] = "none"))
        => origin[g] = "entered" /\ ~execd[g]

MapInv == World /\ Untracked /\ Seen /\ Labels

(* Whom a response has still to reach.                                     *)
Escapee(g) == Live(g) /\ origin[g] = "agent" /\ g \notin suspended

Escaping ==
  Sighted =>
    \A g \in Pids : Escapee(g) =>
      /\ action \in {"freeze", "terminate"} /\ pass = 1 =>
           born[g] = "between" \/ (born[g] = "before" /\ g \in todo)
      /\ action \in {"freeze", "terminate"} /\ pass = 2 =>
           born[g] = "late" \/ (born[g] = "between" /\ g \in todo)
      /\ action = "none" /\ last \in {"freeze", "terminate"} => born[g] = "late"

(* Without reuse, no id that a response signals is one of the host's.      *)
Aimed ==
  ~env.reused =>
    /\ todo \cap fresh = {}
    /\ \A p \in Pids : owner[p] # NoPid /\ (tracked[p] # "none" \/ p \in todo)
                         => origin[owner[p]] # "host"
    /\ \A g \in suspended : origin[g] # "host"

(* What a resume has still to release is in its snapshot.                  *)
Releasing ==
  Sighted =>
    /\ action = "resume" =>
         \A g \in suspended : (env.reused /\ origin[g] = "host") \/ g \in todo
    /\ action = "none" /\ last = "resume" =>
         \A g \in suspended : env.reused /\ origin[g] = "host"

Responses ==
  /\ RTypeOK
  /\ action # "none" => ~env.container
  /\ suspended # {} => ~env.container

RInv == MapInv /\ Responses /\ Escaping /\ Aimed /\ Releasing

-----------------------------------------------------------------------------
(* The map's operators.                                                    *)

(* Of an entry p that is not there, a map with room takes it.              *)
LEMMA RoomyTakes ==
  ASSUME Roomy, env \in Environments, NEW map \in [Pids -> Marks],
         NEW p \in Pids, map[p] = "none"
  PROVE  ~(Cardinality({q \in Pids : map[q] # "none"}) >= env.room)
<1> DEFINE S == {q \in Pids : map[q] # "none"}
<1>1. IsFiniteSet(Pids) BY TrackingPids
<1>2. S \subseteq Pids /\ S # Pids OBVIOUS
<1> HIDE DEF S
<1>3. Cardinality(S) < Cardinality(Pids) /\ IsFiniteSet(S)
  <2>1. /\ IsFiniteSet(S) /\ Cardinality(S) <= Cardinality(Pids)
        /\ Cardinality(S) = Cardinality(Pids) => S = Pids
    BY <1>1, <1>2, FS_Subset, Zenon
  <2>2. Cardinality(S) \in Nat /\ Cardinality(Pids) \in Nat
    BY <1>1, <2>1, FS_CardinalityType
  <2> QED BY <1>2, <2>1, <2>2
<1>4. Cardinality(S) \in Nat /\ Cardinality(Pids) \in Nat
  BY <1>1, <1>3, FS_CardinalityType
<1>5. env.room \in Nat BY TrackingEnvironments
<1> QED BY <1>3, <1>4, <1>5 DEF Roomy, S

(* Put writes p's entry at most, and nothing but the mark.                 *)
LEMMA PutIs ==
  ASSUME env \in Environments, NEW map \in [Pids -> Marks],
         NEW p \in Pids, NEW mark \in Marks
  PROVE  /\ Put(map, p, mark) \in [Pids -> Marks]
         /\ \A q \in Pids : q # p => Put(map, p, mark)[q] = map[q]
         /\ Put(map, p, mark)[p] \in {map[p], mark}
         /\ map[p] # "none" \/ Roomy => Put(map, p, mark)[p] = mark
<1>1. CASE map[p] = "none" /\ Cardinality({q \in Pids : map[q] # "none"}) >= env.room
  <2>1. Put(map, p, mark) = map BY <1>1 DEF Put
  <2>2. ~Roomy BY <1>1, RoomyTakes
  <2> QED BY <1>1, <2>1, <2>2
<1>2. CASE ~(map[p] = "none" /\ Cardinality({q \in Pids : map[q] # "none"}) >= env.room)
  <2>1. Put(map, p, mark) = [map EXCEPT ![p] = mark] BY <1>2, Zenon DEF Put
  <2> QED BY <2>1
<1> QED BY <1>1, <1>2

(* track_state() finds what is in the map, and nothing outside the         *)
(* namespace.                                                              *)
LEMMA TrackStateIs ==
  ASSUME TypeOK, NEW g \in Pids
  PROVE  /\ TrackState(g) \in Marks
         /\ tracked[g] # "none" => TrackState(g) = tracked[g]
         /\ tracked[g] = "none" /\ TrackState(g) # "none"
              => env.container /\ InNamespace(g)
         /\ env.container /\ InNamespace(g) => TrackState(g) # "none"
<1>1. tracked[g] \in Marks BY DEF TypeOK
<1> QED BY <1>1 DEF TrackState, Marks

(* A hook in g touches the entry of g alone, and only to adopt it.         *)
LEMMA AdoptIs ==
  ASSUME env \in Environments, TypeOK, NEW g \in Pids
  PROVE  /\ Adopting(g) \in [Pids -> Marks]
         /\ \A q \in Pids : q # g => Adopting(g)[q] = tracked[q]
         /\ Adopting(g)[g] \in {tracked[g], TrackState(g)}
         /\ Roomy => Adopting(g)[g] = TrackState(g)
<1>1. tracked \in [Pids -> Marks] BY DEF TypeOK
<1>2. TrackState(g) \in Marks /\ (tracked[g] # "none" => TrackState(g) = tracked[g])
  BY TrackStateIs
<1>3. CASE TrackState(g) = "none"
  <2>1. Adopting(g) = tracked BY <1>3 DEF Adopting
  <2> QED BY <1>1, <1>2, <1>3, <2>1
<1>4. CASE TrackState(g) # "none"
  <2>1. Adopting(g) = Put(tracked, g, TrackState(g)) BY <1>4 DEF Adopting
  <2> QED BY <1>1, <1>2, <2>1, PutIs
<1> QED BY <1>3, <1>4

(* kl_fork: the child's entry is the parent's state, if it had none.       *)
LEMMA TracingIs ==
  ASSUME env \in Environments, TypeOK, NEW g \in Pids, NEW c \in Pids, c # g,
         Tracing(g, c)
  PROVE  /\ tracked' \in [Pids -> Marks]
         /\ \A q \in Pids : q # g /\ q # c => tracked'[q] = tracked[q]
         /\ tracked'[g] \in {tracked[g], TrackState(g)}
         /\ tracked'[c] \in {tracked[c], TrackState(g)}
         /\ tracked[c] # "none" => tracked'[c] = tracked[c]
         /\ Roomy => /\ tracked'[g] = TrackState(g)
                     /\ tracked[c] = "none" => tracked'[c] = TrackState(g)
<1>1. tracked \in [Pids -> Marks] BY DEF TypeOK
<1>2. TrackState(g) \in Marks /\ (tracked[g] # "none" => TrackState(g) = tracked[g])
  BY TrackStateIs
<1>3. CASE TrackState(g) = "none"
  BY <1>1, <1>2, <1>3 DEF Tracing
<1>4. CASE TrackState(g) # "none"
  <2> DEFINE m == Adopting(g)
  <2>1. tracked' = PutNew(m, c, TrackState(g)) BY <1>4 DEF Tracing
  <2>2. /\ m \in [Pids -> Marks]
        /\ \A q \in Pids : q # g => m[q] = tracked[q]
        /\ m[g] \in {tracked[g], TrackState(g)}
        /\ Roomy => m[g] = TrackState(g)
    BY AdoptIs
  <2> HIDE DEF m
  <2>3. CASE m[c] = "none"
    <3>1. tracked' = Put(m, c, TrackState(g)) BY <2>1, <2>3 DEF PutNew
    <3>2. /\ tracked' \in [Pids -> Marks]
          /\ \A q \in Pids : q # c => tracked'[q] = m[q]
          /\ tracked'[c] \in {m[c], TrackState(g)}
          /\ Roomy => tracked'[c] = TrackState(g)
      BY <3>1, <2>2, <1>2, PutIs
    <3> QED BY <1>1, <1>2, <2>2, <2>3, <3>2
  <2>4. CASE m[c] # "none"
    <3>1. tracked' = m BY <2>1, <2>4 DEF PutNew
    <3> QED BY <1>1, <1>2, <2>2, <2>4, <3>1
  <2> QED BY <2>3, <2>4
<1> QED BY <1>3, <1>4

(* handle_exec: as adoption, but that the label is dropped if ok.          *)
LEMMA UnlabelledIs ==
  ASSUME env \in Environments, TypeOK, NEW g \in Pids, NEW ok
  PROVE  /\ Unlabelled(g, ok) \in [Pids -> Marks]
         /\ \A q \in Pids : q # g => Unlabelled(g, ok)[q] = tracked[q]
         /\ Unlabelled(g, ok)[g] \in {tracked[g], TrackState(g), "forked"}
         /\ Unlabelled(g, ok)[g] = "none" => Adopting(g)[g] = "none"
         /\ Unlabelled(g, ok)[g] # "none" => TrackState(g) # "none"
         /\ Roomy /\ ok => Unlabelled(g, ok)[g] \in {"none", "forked"}
<1> DEFINE m == Adopting(g)
<1>1. /\ m \in [Pids -> Marks]
      /\ \A q \in Pids : q # g => m[q] = tracked[q]
      /\ m[g] \in {tracked[g], TrackState(g)}
      /\ Roomy => m[g] = TrackState(g)
  BY AdoptIs
<1>2. TrackState(g) \in Marks /\ (tracked[g] # "none" => TrackState(g) = tracked[g])
  BY TrackStateIs
<1>3. CASE ok /\ TrackState(g) = "adopted" /\ m[g] # "none"
  <2>1. Unlabelled(g, ok) = [m EXCEPT ![g] = "forked"] BY <1>3, Zenon DEF Unlabelled
  <2> HIDE DEF m
  <2>2. "forked" \in Marks BY DEF Marks
  <2> QED BY <1>1, <1>2, <1>3, <2>1, <2>2
<1>4. CASE ~(ok /\ TrackState(g) = "adopted" /\ m[g] # "none")
  <2>1. Unlabelled(g, ok) = m BY <1>4, Zenon DEF Unlabelled
  <2>2. Adopting(g) = m OBVIOUS
  <2> HIDE DEF m
  <2> QED BY <1>1, <1>2, <1>4, <2>1, <2>2 DEF Marks
<1> QED BY <1>3, <1>4

-----------------------------------------------------------------------------
(* What the steps have in common: the ones that end a process, the ones    *)
(* that end some of its threads, and the ones that only run a hook in it.  *)

OnlyMarks(g) ==
  /\ tracked' \in [Pids -> Marks]
  /\ \A q \in Pids : q # g => tracked'[q] = tracked[q]

Gone(g) ==
  /\ Live(g) /\ (env.container => g # Root)
  /\ Reaped(g, {p \in Pids : owner[p] = g})
  /\ UNCHANGED fresh
  /\ OnlyMarks(g)
  /\ env.threaded \/ tracked'[g] = "none"

Trimmed(g) ==
  /\ env.threaded /\ Live(g)
  /\ owner' \in [Pids -> Pids \cup {NoPid}]
  /\ \A p \in Pids : \/ owner'[p] = owner[p]
                     \/ owner[p] = g /\ p # g /\ owner'[p] = NoPid
  /\ \/ zombie' = zombie \/ zombie' = zombie \ {g}
     \/ env.mainFirst /\ zombie' = zombie \cup {g} /\ (env.container => g # Root)
  /\ UNCHANGED <<fresh, parent, origin>>
  /\ execd' \in [Pids -> BOOLEAN]
  /\ OnlyMarks(g)
  /\ origin[g] = "host" /\ tracked[g] = "none" => tracked'[g] = "none"
  /\ env.mainFirst \/ UNCHANGED <<execd, tracked>>

Hooked(g) ==
  /\ Live(g)
  /\ UNCHANGED <<owner, fresh, zombie, parent, origin>>
  /\ execd' \in [Pids -> BOOLEAN]
  /\ \A q \in Pids : q # g => execd'[q] = execd[q]
  /\ OnlyMarks(g)
  /\ tracked[g] # "none" => tracked'[g] # "none"
  /\ tracked'[g] # "none" => TrackState(g) # "none"
  /\ Roomy /\ ~env.ringFills =>
       \/ tracked'[g] = TrackState(g) /\ execd' = execd
       \/ TrackState(g) # "none" => tracked'[g] = "forked"

(* A task's process is one, and it is the only one a step is about.        *)
LEMMA OwnerIs ==
  ASSUME World, NEW t \in Pids, Runs(t)
  PROVE  owner[t] \in Pids /\ Live(owner[t])
BY DEF World, TypeOK, Runs

(* The last task to end is the last of its process's ids.                  *)
LEMMA LastOfAll ==
  ASSUME World, NEW t \in Pids, Runs(t), Others(t) = {}
  PROVE  /\ {t, owner[t]} = {p \in Pids : owner[p] = owner[t]}
         /\ owner[t] # t => (env.container => owner[t] # Root)
<1>1. owner[t] \in Pids /\ Live(owner[t]) BY OwnerIs
<1>2. owner \in [Pids -> Pids \cup {NoPid}] BY DEF World, TypeOK
<1>3. owner[t] # NoPid BY DEF Runs
<1>4. \A p \in Pids : p # t /\ owner[p] = owner[t] => p \in zombie
  BY <1>3 DEF Others, Runs
<1>5. \A p \in Pids : p # t /\ owner[p] = owner[t] => p = owner[t]
  BY <1>4 DEF World, Live
<1>6. owner[owner[t]] = owner[t] BY <1>1 DEF Live
<1>7. {t, owner[t]} = {p \in Pids : owner[p] = owner[t]}
  BY <1>1, <1>5, <1>6
<1>8. owner[t] # t => (env.container => owner[t] # Root)
  BY <1>1, <1>4, <1>6 DEF World
<1> QED BY <1>7, <1>8

LEMMA SyscallHooks ==
  ASSUME World, NEW t \in Pids, Syscall(t)
  PROVE  Hooked(owner[t])
<1> DEFINE g == owner[t]
<1>1. g \in Pids /\ Live(g) BY OwnerIs DEF Syscall
<1>2. env \in Environments /\ TypeOK BY DEF World
<1>3. execd \in [Pids -> BOOLEAN] BY <1>2 DEF TypeOK
<1>4. tracked' = Adopting(g) /\ UNCHANGED taskVars BY DEF Syscall
<1> HIDE DEF g
<1>5. /\ tracked' \in [Pids -> Marks]
      /\ \A q \in Pids : q # g => tracked'[q] = tracked[q]
      /\ tracked'[g] \in {tracked[g], TrackState(g)}
      /\ Roomy => tracked'[g] = TrackState(g)
  BY <1>1, <1>2, <1>4, AdoptIs
<1>6. tracked[g] # "none" => TrackState(g) = tracked[g]
  BY <1>1, <1>2, TrackStateIs
<1>7. Hooked(g)
  BY <1>1, <1>3, <1>4, <1>5, <1>6 DEF Hooked, OnlyMarks, taskVars
<1> QED BY <1>7 DEF g

LEMMA ExecHooks ==
  ASSUME World, NEW t \in Pids, Exec(t)
  PROVE  Hooked(owner[t])
<1> DEFINE g == owner[t]
<1>1. g \in Pids /\ Live(g) BY OwnerIs DEF Exec
<1>2. env \in Environments /\ TypeOK BY DEF World
<1>3. execd \in [Pids -> BOOLEAN] BY <1>2 DEF TypeOK
<1>4. PICK ok \in Reserved : tracked' = Unlabelled(g, ok) BY DEF Exec
<1>5. execd' = [execd EXCEPT ![g] = TRUE] /\ UNCHANGED <<owner, fresh, zombie, parent, origin>>
  BY DEF Exec
<1> HIDE DEF g
<1>6. /\ tracked' \in [Pids -> Marks]
      /\ \A q \in Pids : q # g => tracked'[q] = tracked[q]
      /\ tracked'[g] = "none" => Adopting(g)[g] = "none"
      /\ tracked'[g] # "none" => TrackState(g) # "none"
      /\ Roomy /\ ok => tracked'[g] \in {"none", "forked"}
  BY <1>1, <1>2, <1>4, UnlabelledIs
<1>7. /\ Adopting(g)[g] \in {tracked[g], TrackState(g)}
      /\ Roomy => Adopting(g)[g] = TrackState(g)
  BY <1>1, <1>2, AdoptIs
<1>8. tracked[g] # "none" => TrackState(g) = tracked[g]
  BY <1>1, <1>2, TrackStateIs
<1>9. ~env.ringFills => ok BY <1>4 DEF Reserved
<1>10. execd' \in [Pids -> BOOLEAN] /\ \A q \in Pids : q # g => execd'[q] = execd[q]
  BY <1>1, <1>3, <1>5
<1>11. Hooked(g)
  BY <1>1, <1>5, <1>6, <1>7, <1>8, <1>9, <1>10 DEF Hooked, OnlyMarks
<1> QED BY <1>11 DEF g

(* kl_exit's deletion, and what Adopting leaves alone before it.           *)
LEMMA DeletedIs ==
  ASSUME World, NEW g \in Pids, tracked' = [Adopting(g) EXCEPT ![g] = "none"]
  PROVE  OnlyMarks(g) /\ tracked'[g] = "none"
<1>1. /\ Adopting(g) \in [Pids -> Marks]
      /\ \A q \in Pids : q # g => Adopting(g)[q] = tracked[q]
  BY AdoptIs DEF World
<1>2. "none" \in Marks BY DEF Marks
<1> QED BY <1>1, <1>2 DEF OnlyMarks

LEMMA ThreadExits ==
  ASSUME World, NEW t \in Pids, ThreadExit(t)
  PROVE  Gone(owner[t]) \/ Trimmed(owner[t])
<1>1. Runs(t) /\ owner[t] # t /\ UNCHANGED <<fresh, tracked>> BY DEF ThreadExit
<1>2. owner[t] \in Pids /\ Live(owner[t]) BY <1>1, OwnerIs
<1>3. env.threaded BY <1>1 DEF World, Runs
<1>4. OnlyMarks(owner[t]) BY <1>1 DEF OnlyMarks, World, TypeOK
<1>5. CASE Others(t) = {}
  <2>1. Reaped(owner[t], {t, owner[t]}) BY <1>5 DEF ThreadExit
  <2>2. Reaped(owner[t], {p \in Pids : owner[p] = owner[t]})
    BY <1>1, <1>5, <2>1, LastOfAll
  <2> QED BY <1>1, <1>2, <1>3, <1>4, <1>5, <2>2, LastOfAll DEF Gone
<1>6. CASE Others(t) # {}
  <2>1. /\ owner' = [owner EXCEPT ![t] = NoPid]
        /\ UNCHANGED <<zombie, parent, origin, execd>>
    BY <1>6 DEF ThreadExit
  <2>2. owner \in [Pids -> Pids \cup {NoPid}] /\ execd \in [Pids -> BOOLEAN]
    BY DEF World, TypeOK
  <2> QED BY <1>1, <1>2, <1>3, <1>4, <2>1, <2>2 DEF Trimmed
<1> QED BY <1>5, <1>6

LEMMA LeaderExits ==
  ASSUME World, NEW t \in Pids, LeaderExit(t)
  PROVE  Gone(owner[t]) \/ Trimmed(owner[t])
<1>1. /\ Runs(t) /\ owner[t] = t /\ ~(env.container /\ t = Root)
      /\ env.mainFirst \/ Others(t) = {}
      /\ UNCHANGED fresh /\ tracked' = [Adopting(t) EXCEPT ![t] = "none"]
  BY DEF LeaderExit
<1>2. Live(t) BY <1>1 DEF Live
<1>3. OnlyMarks(t) /\ tracked'[t] = "none" BY <1>1, DeletedIs
<1>4. CASE Others(t) = {}
  <2>1. Reaped(t, {t}) BY <1>4 DEF LeaderExit
  <2>2. {t} = {p \in Pids : owner[p] = t} BY <1>1, <1>4, LastOfAll
  <2>3. Reaped(t, {p \in Pids : owner[p] = t}) BY <2>1, <2>2
  <2>4. Gone(t) BY <1>1, <1>2, <1>3, <2>3 DEF Gone
  <2> QED BY <1>1, <2>4
<1>5. CASE Others(t) # {}
  <2>1. zombie' = zombie \cup {t} /\ UNCHANGED <<owner, parent, origin, execd>>
    BY <1>5 DEF LeaderExit
  <2>2. owner \in [Pids -> Pids \cup {NoPid}] /\ execd \in [Pids -> BOOLEAN]
    BY DEF World, TypeOK
  <2>3. env.threaded BY <1>1, <1>5 DEF World, Others, Runs
  <2>4. Trimmed(t) BY <1>1, <1>2, <1>3, <1>5, <2>1, <2>2, <2>3 DEF Trimmed
  <2> QED BY <1>1, <2>4
<1> QED BY <1>4, <1>5

LEMMA ThreadExecs ==
  ASSUME World, NEW t \in Pids, ExecOfThread(t)
  PROVE  Trimmed(owner[t])
<1> DEFINE g == owner[t]
<1>1. Runs(t) /\ g # t /\ env.mainFirst /\ UNCHANGED <<fresh, parent, origin>>
  BY DEF ExecOfThread
<1>2. g \in Pids /\ Live(g) BY <1>1, OwnerIs
<1>3. env.threaded BY <1>1 DEF World, Runs
<1>4. PICK ok \in Reserved :
        tracked' = IF g \in zombie THEN Unlabelled(g, ok)
                   ELSE [Unlabelled(g, ok) EXCEPT ![g] = "none"]
  BY DEF ExecOfThread
<1>5. /\ owner' = [p \in Pids |-> IF owner[p] = g /\ p # g THEN NoPid ELSE owner[p]]
      /\ zombie' = zombie \ {g}
      /\ execd' = [execd EXCEPT ![g] = TRUE]
  BY DEF ExecOfThread
<1>6. env \in Environments /\ TypeOK BY DEF World
<1>7. owner \in [Pids -> Pids \cup {NoPid}] /\ execd \in [Pids -> BOOLEAN]
  BY <1>6 DEF TypeOK
<1> HIDE DEF g
<1>8. /\ Unlabelled(g, ok) \in [Pids -> Marks]
      /\ \A q \in Pids : q # g => Unlabelled(g, ok)[q] = tracked[q]
      /\ Unlabelled(g, ok)[g] # "none" => TrackState(g) # "none"
  BY <1>2, <1>6, UnlabelledIs
<1>9. OnlyMarks(g) /\ (tracked'[g] # "none" => TrackState(g) # "none")
  BY <1>2, <1>4, <1>8 DEF OnlyMarks, Marks
<1>10. origin[g] = "host" /\ tracked[g] = "none" => TrackState(g) = "none"
  BY <1>2, <1>6, TrackStateIs DEF InNamespace
<1>11. execd' \in [Pids -> BOOLEAN] BY <1>2, <1>5, <1>7
<1>12. /\ owner' \in [Pids -> Pids \cup {NoPid}]
       /\ \A p \in Pids : \/ owner'[p] = owner[p]
                          \/ owner[p] = g /\ p # g /\ owner'[p] = NoPid
  BY <1>5, <1>7
<1>13. Trimmed(g)
  BY <1>1, <1>2, <1>3, <1>5, <1>9, <1>10, <1>11, <1>12 DEF Trimmed
<1> QED BY <1>13 DEF g

(* Every step of a task is one of these, or makes a new task.              *)
LEMMA TaskSteps ==
  ASSUME World, NEW t \in Pids, TaskStep(t)
  PROVE  \/ \E c \in Pids : Fork(t, c) \/ Clone(t, c)
         \/ owner[t] \in Pids
            /\ (Hooked(owner[t]) \/ Gone(owner[t]) \/ Trimmed(owner[t]))
<1>1. CASE \E c \in Pids : Fork(t, c) \/ Clone(t, c) BY <1>1
<1>2. CASE Syscall(t) BY <1>2, SyscallHooks, OwnerIs DEF Syscall
<1>3. CASE Exec(t) BY <1>3, ExecHooks, OwnerIs DEF Exec
<1>4. CASE ThreadExit(t) BY <1>4, ThreadExits, OwnerIs DEF ThreadExit
<1>5. CASE LeaderExit(t) BY <1>5, LeaderExits, OwnerIs DEF LeaderExit
<1>6. CASE ExecOfThread(t) BY <1>6, ThreadExecs, OwnerIs DEF ExecOfThread
<1> QED BY <1>1, <1>2, <1>3, <1>4, <1>5, <1>6 DEF TaskStep

-----------------------------------------------------------------------------
(* The tree stays one.                                                     *)

LEMMA HookedWorld ==
  ASSUME World, NEW g \in Pids, Hooked(g), UNCHANGED env
  PROVE  World'
BY DEF World, TypeOK, Hooked, OnlyMarks, Live

LEMMA TrimmedWorld ==
  ASSUME World, NEW g \in Pids, Trimmed(g), UNCHANGED env
  PROVE  World'
<1>1. TypeOK' BY DEF World, TypeOK, Trimmed, OnlyMarks, Live
<1>2. \A z \in zombie' : Live(z)' BY DEF World, TypeOK, Trimmed, Live
<1>3. \A p \in Pids : Live(p)' <=> Live(p)
  BY TrackingPids DEF World, TypeOK, Trimmed, Live, NoPid
<1>4. \A p \in Pids : Live(p)' => origin'[p] # "none"
  BY <1>3 DEF World, Trimmed
<1>5. ~env.threaded => \A p \in Pids : owner'[p] \in {p, NoPid}
  BY DEF Trimmed
<1>6. env.container => Live(Root)' /\ Root \notin zombie'
  BY <1>3, TrackingRoot DEF World, Trimmed
<1>7. ~env.mainFirst => zombie' = {} BY DEF World, Trimmed
<1>8. \A p \in fresh' : owner'[p] = NoPid BY DEF World, TypeOK, Trimmed
<1>9. \A p \in Pids : origin'[p] = "entered" => env.container
  BY DEF World, Trimmed
<1> QED BY <1>1, <1>2, <1>4, <1>5, <1>6, <1>7, <1>8, <1>9 DEF World

LEMMA GoneWorld ==
  ASSUME World, NEW g \in Pids, Gone(g), UNCHANGED env
  PROVE  World'
<1>1. /\ owner \in [Pids -> Pids \cup {NoPid}] /\ zombie \in SUBSET Pids
      /\ parent \in [Pids -> Pids \cup {NoPid}]
      /\ origin \in [Pids -> {"agent", "entered", "host", "none"}]
      /\ execd \in [Pids -> BOOLEAN] /\ fresh \in SUBSET Pids
  BY DEF World, TypeOK
<1>2. /\ \A p \in Pids : owner'[p] = IF owner[p] = g THEN NoPid ELSE owner[p]
      /\ owner' \in [Pids -> Pids \cup {NoPid}]
  BY <1>1 DEF Gone, Reaped
<1>3. /\ origin' = [origin EXCEPT ![g] = "none"]
      /\ execd' = [execd EXCEPT ![g] = FALSE]
      /\ zombie' = zombie \ {g} /\ fresh' = fresh
      /\ tracked' \in [Pids -> Marks] /\ owner[g] = g
  BY DEF Gone, Reaped, OnlyMarks, Live
<1>4. /\ parent' \in [Pids -> Pids \cup {NoPid}]
      /\ \A p \in Pids : parent'[p] =
           IF p = g THEN NoPid
           ELSE IF parent[p] = g THEN (IF env.container THEN Root ELSE NoPid)
           ELSE parent[p]
  BY <1>1, TrackingRoot DEF Gone, Reaped
<1>5. \A p \in Pids : Live(p)' <=> (Live(p) /\ p # g)
  BY <1>1, <1>2, <1>3, TrackingPids DEF Live, NoPid
<1>6. \A p \in Pids : owner'[p] # NoPid => owner'[owner'[p]] = owner'[p]
  BY <1>1, <1>2, <1>5 DEF World, TypeOK, Live
<1>7. env.container => Live(Root) /\ Root # g BY DEF World, Gone
<1>8. \A p \in Pids : parent'[p] # NoPid => owner'[parent'[p]] = parent'[p]
  BY <1>1, <1>4, <1>5, <1>7, TrackingRoot DEF World, TypeOK, Live
<1>9. TypeOK'
  BY <1>1, <1>2, <1>3, <1>4, <1>6, <1>8 DEF TypeOK, Live
<1>10. \A p \in Pids : Live(p)' => origin'[p] # "none"
  BY <1>1, <1>3, <1>5 DEF World
<1>11. ~env.threaded => \A p \in Pids : owner'[p] \in {p, NoPid}
  BY <1>2 DEF World
<1>12. \A p \in Pids : origin'[p] = "entered" => env.container
  BY <1>1, <1>3 DEF World
<1>13. \A z \in zombie' : Live(z)' BY <1>1, <1>3, <1>5 DEF World
<1>14. \A p \in fresh' : owner'[p] = NoPid BY <1>1, <1>2, <1>3 DEF World
<1>15. env.container => Live(Root)' /\ Root \notin zombie'
  BY <1>3, <1>5, <1>7, TrackingRoot DEF World
<1>16. ~env.mainFirst => zombie' = {} BY <1>3 DEF World
<1>17. env' \in Environments BY DEF World
<1> QED BY <1>9, <1>10, <1>11, <1>12, <1>13, <1>14, <1>15, <1>16, <1>17 DEF World

(* A new process c, whose entry in the map may be set.                     *)
Born(c) ==
  /\ Free(c)
  /\ owner' = [owner EXCEPT ![c] = c]
  /\ \E p \in Pids \cup {NoPid} : 
       /\ p # NoPid => Live(p)
       /\ parent' = [parent EXCEPT ![c] = p]
  /\ \E o \in {"agent", "entered", "host"} :
       /\ o = "entered" => env.container
       /\ origin' = [origin EXCEPT ![c] = o]
  /\ \E x \in BOOLEAN : execd' = [execd EXCEPT ![c] = x]
  /\ fresh' = fresh \ {c}
  /\ UNCHANGED zombie
  /\ tracked' \in [Pids -> Marks]

LEMMA BornWorld ==
  ASSUME World, NEW c \in Pids, Born(c), UNCHANGED env
  PROVE  World'
<1>1. /\ owner \in [Pids -> Pids \cup {NoPid}] /\ zombie \in SUBSET Pids
      /\ parent \in [Pids -> Pids \cup {NoPid}]
      /\ origin \in [Pids -> {"agent", "entered", "host", "none"}]
      /\ execd \in [Pids -> BOOLEAN] /\ fresh \in SUBSET Pids
      /\ owner[c] = NoPid /\ c # NoPid
  BY TrackingPids DEF World, TypeOK, Born, Free, NoPid
<1>2. owner' = [owner EXCEPT ![c] = c] /\ owner' \in [Pids -> Pids \cup {NoPid}]
  BY <1>1 DEF Born
<1>3. PICK p \in Pids \cup {NoPid} :
        (p # NoPid => Live(p)) /\ parent' = [parent EXCEPT ![c] = p]
  BY DEF Born
<1>4. PICK o \in {"agent", "entered", "host"} :
        (o = "entered" => env.container) /\ origin' = [origin EXCEPT ![c] = o]
  BY DEF Born
<1>5. execd' \in [Pids -> BOOLEAN] BY <1>1 DEF Born
<1>6. \A q \in Pids : Live(q)' <=> (Live(q) \/ q = c)
  BY <1>1, <1>2 DEF Live
<1>7. fresh' = fresh \ {c} /\ zombie' = zombie /\ tracked' \in [Pids -> Marks]
  BY DEF Born
<1>8. \A q \in Pids : owner'[q] # NoPid => owner'[owner'[q]] = owner'[q]
  BY <1>1, <1>2, <1>6 DEF World, TypeOK, Live
<1>9. \A q \in Pids : parent'[q] # NoPid => owner'[parent'[q]] = parent'[q]
  BY <1>1, <1>3, <1>6 DEF World, TypeOK, Live
<1>10. TypeOK'
  BY <1>1, <1>2, <1>3, <1>4, <1>5, <1>7, <1>8, <1>9 DEF TypeOK, Live
<1>11. \A q \in Pids : Live(q)' => origin'[q] # "none"
  BY <1>1, <1>4, <1>6 DEF World
<1>12. \A q \in Pids : origin'[q] = "entered" => env.container
  BY <1>1, <1>4 DEF World
<1>13. ~env.threaded => \A q \in Pids : owner'[q] \in {q, NoPid}
  BY <1>1, <1>2 DEF World
<1>14. \A z \in zombie' : Live(z)' BY <1>1, <1>6, <1>7 DEF World
<1>15. \A q \in fresh' : owner'[q] = NoPid BY <1>1, <1>2, <1>7 DEF World
<1>16. env.container => Live(Root)' /\ Root \notin zombie'
  BY <1>6, <1>7, TrackingRoot DEF World
<1> QED BY <1>7, <1>10, <1>11, <1>12, <1>13, <1>14, <1>15, <1>16 DEF World

LEMMA ForkBears ==
  ASSUME World, NEW t \in Pids, NEW c \in Pids, Fork(t, c)
  PROVE  /\ Born(c)
         /\ owner[t] \in Pids /\ Live(owner[t]) /\ c # owner[t]
         /\ Tracing(owner[t], c)
         /\ parent'[c] = owner[t] /\ parent'[c] # NoPid
         /\ origin'[c] = origin[owner[t]]
         /\ execd'[c] = execd[owner[t]]
<1> DEFINE g == owner[t]
<1>1. Runs(t) /\ Free(c) BY DEF Fork
<1>2. g \in Pids /\ Live(g) /\ c # g /\ g # NoPid
  BY <1>1, OwnerIs, TrackingPids DEF Free, Live, NoPid
<1>3. env \in Environments /\ TypeOK BY DEF World
<1>4. /\ owner' = [owner EXCEPT ![c] = c]
      /\ parent' = [parent EXCEPT ![c] = g]
      /\ origin' = [origin EXCEPT ![c] = origin[g]]
      /\ execd' = [execd EXCEPT ![c] = execd[g]]
      /\ Tracing(g, c)
      /\ fresh' = fresh \ {c} /\ UNCHANGED zombie
  BY DEF Fork
<1>5. tracked' \in [Pids -> Marks] BY <1>2, <1>3, <1>4, TracingIs
<1>6. /\ origin[g] \in {"agent", "entered", "host"}
      /\ origin[g] = "entered" => env.container
      /\ execd[g] \in BOOLEAN
  BY <1>2 DEF World, TypeOK
<1>7. /\ parent \in [Pids -> Pids \cup {NoPid}]
      /\ origin \in [Pids -> {"agent", "entered", "host", "none"}]
      /\ execd \in [Pids -> BOOLEAN]
  BY <1>3 DEF TypeOK
<1>8. /\ parent'[c] = g /\ parent'[c] # NoPid
      /\ origin'[c] = origin[g] /\ execd'[c] = execd[g]
  BY <1>2, <1>4, <1>7
<1> HIDE DEF g
<1>9. Born(c)
  BY <1>1, <1>2, <1>4, <1>5, <1>6 DEF Born
<1> QED BY <1>2, <1>4, <1>8, <1>9 DEF g

LEMMA AppearBears ==
  ASSUME World, NEW c \in Pids, HostSpawns(c) \/ Enters(c)
  PROVE  /\ Born(c) /\ UNCHANGED tracked
         /\ origin'[c] \in {"host", "entered"} /\ ~execd'[c]
<1>1. PICK o \in {"host", "entered"} :
        (o = "entered" => env.container) /\ Appear(c, o)
  BY DEF HostSpawns, Enters
<1>2. /\ parent \in [Pids -> Pids \cup {NoPid}]
      /\ origin \in [Pids -> {"agent", "entered", "host", "none"}]
      /\ execd \in [Pids -> BOOLEAN] /\ tracked \in [Pids -> Marks]
  BY DEF World, TypeOK
<1>3. Born(c) BY <1>1, <1>2 DEF Born, Appear
<1> QED BY <1>1, <1>2, <1>3 DEF Appear

(* A thread is given the next id, and an entry in the map.                 *)
LEMMA CloneWorld ==
  ASSUME World, NEW t \in Pids, NEW c \in Pids, Clone(t, c), UNCHANGED env
  PROVE  World'
<1> DEFINE g == owner[t]
<1>1. env.threaded /\ Runs(t) /\ Free(c) BY DEF Clone
<1>2. g \in Pids /\ Live(g) /\ c # g /\ g # NoPid
  BY <1>1, OwnerIs, TrackingPids DEF Free, Live, NoPid
<1>3. env \in Environments /\ TypeOK BY DEF World
<1>4. /\ owner' = [owner EXCEPT ![c] = g]
      /\ fresh' = fresh \ {c} /\ Tracing(g, c)
      /\ UNCHANGED <<zombie, parent, origin, execd>>
  BY DEF Clone
<1>5. tracked' \in [Pids -> Marks] BY <1>2, <1>3, <1>4, TracingIs
<1>6. /\ owner \in [Pids -> Pids \cup {NoPid}] /\ owner[c] = NoPid
      /\ c # NoPid
  BY <1>1, <1>3, TrackingPids DEF TypeOK, Free, NoPid
<1> HIDE DEF g
<1>7. \A q \in Pids : Live(q)' <=> Live(q) BY <1>2, <1>4, <1>6 DEF Live
<1>8. owner' \in [Pids -> Pids \cup {NoPid}] BY <1>2, <1>4, <1>6
<1>9. \A q \in Pids : owner'[q] # NoPid => owner'[owner'[q]] = owner'[q]
  BY <1>2, <1>3, <1>4, <1>6, <1>7 DEF TypeOK, Live
<1>10. TypeOK' BY <1>3, <1>4, <1>5, <1>7, <1>8, <1>9 DEF TypeOK, Live
<1> QED BY <1>1, <1>4, <1>6, <1>7, <1>10, TrackingRoot DEF World, TypeOK

LEMMA WorldStep ==
  ASSUME World, NEW p \in Pids, TaskStep(p) \/ HostSpawns(p) \/ Enters(p),
         UNCHANGED env
  PROVE  World'
<1>1. CASE HostSpawns(p) \/ Enters(p) BY <1>1, AppearBears, BornWorld
<1>2. CASE TaskStep(p)
  <2>1. CASE \E c \in Pids : Fork(p, c) \/ Clone(p, c)
    BY <2>1, ForkBears, BornWorld, CloneWorld
  <2>2. CASE owner[p] \in Pids
             /\ (Hooked(owner[p]) \/ Gone(owner[p]) \/ Trimmed(owner[p]))
    BY <2>2, HookedWorld, GoneWorld, TrimmedWorld
  <2> QED BY <1>2, <2>1, <2>2, TaskSteps
<1> QED BY <1>1, <1>2

-----------------------------------------------------------------------------
(* The map follows the tree.                                               *)

LEMMA HookedMap ==
  ASSUME MapInv, NEW g \in Pids, Hooked(g), UNCHANGED env
  PROVE  Untracked' /\ Seen' /\ Labels'
<1>1. World /\ Untracked /\ Seen /\ Labels /\ TypeOK BY DEF MapInv, World
<1>2. /\ tracked[g] # "none" => TrackState(g) = tracked[g]
      /\ tracked[g] = "none" /\ TrackState(g) # "none" => env.container /\ InNamespace(g)
      /\ env.container /\ InNamespace(g) => TrackState(g) # "none"
  BY <1>1, TrackStateIs
<1>3. /\ Live(g) /\ UNCHANGED <<owner, fresh, origin>>
      /\ \A q \in Pids : q # g => execd'[q] = execd[q] /\ tracked'[q] = tracked[q]
      /\ tracked[g] # "none" => tracked'[g] # "none"
      /\ tracked'[g] # "none" => TrackState(g) # "none"
      /\ Roomy /\ ~env.ringFills =>
           \/ tracked'[g] = TrackState(g) /\ execd' = execd
           \/ TrackState(g) # "none" => tracked'[g] = "forked"
  BY DEF Hooked, OnlyMarks
<1>4. \A q \in Pids : (Live(q)' <=> Live(q)) /\ (Free(q)' <=> Free(q))
  BY <1>3 DEF Live, Free
<1>5. Untracked'
  <2>1. CASE env.threaded /\ env.reused BY <2>1 DEF Untracked
  <2>2. CASE ~(env.threaded /\ env.reused)
    <3>1. Free(g) => tracked'[g] = "none"
      BY <1>1, <1>3, TrackingPids DEF Free, Live, NoPid
    <3>2. Live(g) /\ origin[g] = "host" => tracked'[g] = "none"
      BY <1>1, <1>2, <1>3, <2>2 DEF Untracked, HostIsUntracked, InNamespace
    <3> QED BY <1>1, <1>3, <1>4, <2>2, <3>1, <3>2 DEF Untracked, HostIsUntracked
  <2> QED BY <2>1, <2>2
<1>6. Seen'
  BY <1>1, <1>3, <1>4 DEF Seen, Sighted, Roomy, Seeds
<1>7. Labels'
  <2> SUFFICES ASSUME Sighted, ~env.ringFills, ~(env.threaded /\ env.reused),
                      NEW q \in Pids, Live(q)',
                      tracked'[q] = "adopted" \/ (InNamespace(q)' /\ tracked'[q] = "none")
               PROVE  origin'[q] = "entered" /\ ~execd'[q]
    BY DEF Labels, Sighted, Roomy, Seeds
  <2>1. CASE q # g
    BY <1>1, <1>3, <1>4, <2>1 DEF Labels, InNamespace
  <2>2. CASE q = g
    <3>1. origin[g] = "entered" => env.container BY <1>1 DEF World
    <3>2. origin[g] = "agent" => tracked[g] # "none" BY <1>1, <1>3 DEF Seen
    <3>3. InNamespace(g)' = InNamespace(g) BY <1>3 DEF InNamespace
    <3>4. TrackState(g) # "none"
      BY <1>2, <1>3, <2>2, <3>1, <3>2, <3>3 DEF InNamespace
    <3>5. tracked'[g] = TrackState(g) /\ execd' = execd
      BY <1>3, <2>2, <3>4 DEF Sighted
    <3>6. TrackState(g) = "adopted" BY <2>2, <3>4, <3>5
    <3>7. tracked[g] = "adopted" \/ (InNamespace(g) /\ tracked[g] = "none")
      BY <1>2, <3>6
    <3> QED BY <1>1, <1>3, <2>2, <3>5, <3>7 DEF Labels
  <2> QED BY <2>1, <2>2
<1> QED BY <1>5, <1>6, <1>7

LEMMA TrimmedMap ==
  ASSUME MapInv, NEW g \in Pids, Trimmed(g), UNCHANGED env
  PROVE  Untracked' /\ Seen' /\ Labels'
<1>1. World /\ Untracked /\ Seen /\ Labels BY DEF MapInv
<1>2. /\ Live(g) /\ UNCHANGED <<fresh, origin>>
      /\ \A p \in Pids : \/ owner'[p] = owner[p]
                         \/ owner[p] = g /\ p # g /\ owner'[p] = NoPid
      /\ \A q \in Pids : q # g => tracked'[q] = tracked[q]
      /\ origin[g] = "host" /\ tracked[g] = "none" => tracked'[g] = "none"
      /\ env.mainFirst \/ UNCHANGED <<execd, tracked>>
      /\ env.threaded
  BY DEF Trimmed, OnlyMarks
<1>3. \A q \in Pids : Live(q)' <=> Live(q)
  BY <1>2, TrackingPids DEF Live, NoPid
<1>4. Untracked'
  <2>1. CASE env.reused BY <1>2, <2>1 DEF Untracked
  <2>2. CASE ~env.reused
    <3>1. \A q \in Pids : Free(q)' => Free(q) BY <1>1, <1>2, <2>2 DEF Free, World
    <3>2. ~Free(g) BY <1>2, TrackingPids DEF Free, Live, NoPid
    <3> QED BY <1>1, <1>2, <1>3, <2>2, <3>1, <3>2 DEF Untracked, HostIsUntracked
  <2> QED BY <2>1, <2>2
<1>5. Seen' BY <1>1, <1>2, <1>3 DEF Seen, Sighted, Roomy, Seeds
<1>6. Labels' BY <1>1, <1>2, <1>3 DEF Labels, Sighted, Roomy, Seeds, InNamespace
<1> QED BY <1>4, <1>5, <1>6

LEMMA GoneMap ==
  ASSUME MapInv, NEW g \in Pids, Gone(g), UNCHANGED env
  PROVE  Untracked' /\ Seen' /\ Labels'
<1>1. World /\ Untracked /\ Seen /\ Labels BY DEF MapInv
<1>2. /\ owner \in [Pids -> Pids \cup {NoPid}]
      /\ origin \in [Pids -> {"agent", "entered", "host", "none"}]
      /\ execd \in [Pids -> BOOLEAN]
  BY <1>1 DEF World, TypeOK
<1>3. /\ \A p \in Pids : owner'[p] = IF owner[p] = g THEN NoPid ELSE owner[p]
      /\ \A p \in Pids : p # g => origin'[p] = origin[p] /\ execd'[p] = execd[p]
      /\ \A p \in Pids : p # g => tracked'[p] = tracked[p]
      /\ fresh' = fresh /\ owner[g] = g
      /\ env.threaded \/ tracked'[g] = "none"
  BY <1>2 DEF Gone, Reaped, OnlyMarks, Live
<1>4. \A p \in Pids : Live(p)' <=> (Live(p) /\ p # g)
  BY <1>2, <1>3, TrackingPids DEF Live, NoPid
<1>5. Untracked'
  <2>1. CASE env.threaded /\ env.reused BY <2>1 DEF Untracked
  <2>2. CASE ~env.reused
    <3>1. \A q \in Pids : Free(q)' => Free(q) BY <1>1, <1>2, <1>3, <2>2 DEF Free, World
    <3>2. ~Free(g) BY <1>3, TrackingPids DEF Free, NoPid
    <3> QED BY <1>1, <1>3, <1>4, <2>2, <3>1, <3>2 DEF Untracked, HostIsUntracked
  <2>3. CASE env.reused /\ ~env.threaded
    <3>1. \A q \in Pids : Free(q)' /\ q # g => Free(q)
      BY <1>1, <1>3, <2>3 DEF Free, World
    <3> QED BY <1>1, <1>3, <1>4, <2>3, <3>1 DEF Untracked, HostIsUntracked
  <2> QED BY <2>1, <2>2, <2>3
<1>6. Seen' BY <1>1, <1>3, <1>4 DEF Seen, Sighted, Roomy, Seeds
<1>7. Labels' BY <1>1, <1>3, <1>4 DEF Labels, Sighted, Roomy, Seeds, InNamespace
<1> QED BY <1>5, <1>6, <1>7

(* What a new process leaves of the others.                                *)
LEMMA BornRest ==
  ASSUME World, NEW c \in Pids, Born(c), UNCHANGED env
  PROVE  /\ \A q \in Pids : Live(q)' <=> (Live(q) \/ q = c)
         /\ \A q \in Pids : Free(q)' <=> (Free(q) /\ q # c)
         /\ \A q \in Pids : q # c => /\ origin'[q] = origin[q] /\ owner'[q] = owner[q]
                                     /\ execd'[q] = execd[q] /\ parent'[q] = parent[q]
         /\ Free(c) /\ ~Live(c) /\ owner[c] = NoPid /\ owner'[c] = c
         /\ fresh' = fresh \ {c}
<1>1. /\ owner \in [Pids -> Pids \cup {NoPid}] /\ fresh \in SUBSET Pids
      /\ parent \in [Pids -> Pids \cup {NoPid}]
      /\ origin \in [Pids -> {"agent", "entered", "host", "none"}]
      /\ execd \in [Pids -> BOOLEAN]
  BY DEF World, TypeOK
<1>2. /\ Free(c) /\ owner[c] = NoPid /\ c # NoPid
      /\ owner' = [owner EXCEPT ![c] = c] /\ fresh' = fresh \ {c}
  BY TrackingPids DEF Born, Free, NoPid
<1>3. \A q \in Pids : Live(q)' <=> (Live(q) \/ q = c) BY <1>1, <1>2 DEF Live
<1>4. \A q \in Pids : Free(q)' <=> (Free(q) /\ q # c) BY <1>1, <1>2 DEF Free
<1>5. \A q \in Pids : q # c => /\ origin'[q] = origin[q] /\ owner'[q] = owner[q]
                               /\ execd'[q] = execd[q] /\ parent'[q] = parent[q]
  BY <1>1 DEF Born
<1> QED BY <1>1, <1>2, <1>3, <1>4, <1>5 DEF Live

LEMMA AppearMap ==
  ASSUME MapInv, NEW c \in Pids, HostSpawns(c) \/ Enters(c), UNCHANGED env
  PROVE  Untracked' /\ Seen' /\ Labels'
<1>1. World /\ Untracked /\ Seen /\ Labels BY DEF MapInv
<1>2. /\ Born(c) /\ UNCHANGED tracked
      /\ origin'[c] \in {"host", "entered"} /\ ~execd'[c]
  BY <1>1, AppearBears
<1>3. /\ \A q \in Pids : Live(q)' <=> (Live(q) \/ q = c)
      /\ \A q \in Pids : Free(q)' <=> (Free(q) /\ q # c)
      /\ \A q \in Pids : q # c => origin'[q] = origin[q] /\ execd'[q] = execd[q]
      /\ Free(c)
  BY <1>1, <1>2, BornRest
<1>4. Untracked' BY <1>1, <1>2, <1>3 DEF Untracked, HostIsUntracked
<1>5. Seen' BY <1>1, <1>2, <1>3 DEF Seen, Sighted, Roomy, Seeds
<1>6. Labels'
  BY <1>1, <1>2, <1>3 DEF Labels, Untracked, Sighted, Roomy, Seeds, InNamespace
<1> QED BY <1>4, <1>5, <1>6

(* The forking process is adopted on the way, and its child is what it is. *)
LEMMA ForkMap ==
  ASSUME MapInv, NEW t \in Pids, NEW c \in Pids, Fork(t, c), UNCHANGED env
  PROVE  Untracked' /\ Seen' /\ Labels'
<1> DEFINE g == owner[t]
<1>1. World /\ Untracked /\ Seen /\ Labels /\ env \in Environments /\ TypeOK
  BY DEF MapInv, World
<1>2. /\ Born(c) /\ g \in Pids /\ Live(g) /\ c # g /\ Tracing(g, c)
      /\ origin'[c] = origin[g] /\ execd'[c] = execd[g]
  BY <1>1, ForkBears
<1> HIDE DEF g
<1>3. /\ \A q \in Pids : Live(q)' <=> (Live(q) \/ q = c)
      /\ \A q \in Pids : Free(q)' <=> (Free(q) /\ q # c)
      /\ \A q \in Pids : q # c => origin'[q] = origin[q] /\ execd'[q] = execd[q]
      /\ Free(c)
  BY <1>1, <1>2, BornRest
<1>4. /\ \A q \in Pids : q # g /\ q # c => tracked'[q] = tracked[q]
      /\ tracked'[g] \in {tracked[g], TrackState(g)}
      /\ tracked'[c] \in {tracked[c], TrackState(g)}
      /\ tracked[c] # "none" => tracked'[c] = tracked[c]
      /\ Roomy => /\ tracked'[g] = TrackState(g)
                  /\ tracked[c] = "none" => tracked'[c] = TrackState(g)
  BY <1>1, <1>2, TracingIs
<1>5. /\ tracked[g] # "none" => TrackState(g) = tracked[g]
      /\ tracked[g] = "none" /\ TrackState(g) # "none" => env.container /\ InNamespace(g)
      /\ env.container /\ InNamespace(g) => TrackState(g) # "none"
  BY <1>1, <1>2, TrackStateIs
<1>6. Untracked'
  <2>1. CASE env.threaded /\ env.reused BY <2>1 DEF Untracked
  <2>2. CASE ~(env.threaded /\ env.reused)
    <3>1. ~Free(g) BY <1>2, TrackingPids DEF Free, Live, NoPid
    <3>2. origin[g] = "host" => tracked'[g] = "none" /\ tracked'[c] = "none"
      BY <1>1, <1>2, <1>3, <1>4, <1>5, <2>2 DEF Untracked, HostIsUntracked, InNamespace
    <3> QED BY <1>1, <1>2, <1>3, <1>4, <2>2, <3>1, <3>2 DEF Untracked, HostIsUntracked
  <2> QED BY <2>1, <2>2
<1>7. Seen'
  <2> SUFFICES ASSUME Sighted, NEW q \in Pids, Live(q)', origin'[q] = "agent"
               PROVE  tracked'[q] # "none"
    BY DEF Seen, Sighted, Roomy, Seeds
  <2>1. origin[g] = "agent" => tracked[g] # "none" /\ TrackState(g) # "none"
    BY <1>1, <1>2, <1>5 DEF Seen
  <2> QED BY <1>1, <1>2, <1>3, <1>4, <2>1 DEF Seen, Sighted
<1>8. Labels'
  <2> SUFFICES ASSUME Sighted, ~env.ringFills, ~(env.threaded /\ env.reused),
                      NEW q \in Pids, Live(q)',
                      tracked'[q] = "adopted" \/ (InNamespace(q)' /\ tracked'[q] = "none")
               PROVE  origin'[q] = "entered" /\ ~execd'[q]
    BY DEF Labels, Sighted, Roomy, Seeds
  <2>1. CASE q # g /\ q # c
    BY <1>1, <1>3, <1>4, <2>1 DEF Labels, InNamespace
  <2>2. CASE q = g \/ q = c
    <3>1. tracked'[q] = TrackState(g) /\ origin'[q] = origin[g] /\ execd'[q] = execd[g]
      BY <1>1, <1>2, <1>3, <1>4, <2>2 DEF Untracked, Sighted
    <3>2. origin[g] = "entered" => env.container BY <1>1, <1>2 DEF World
    <3>3. origin[g] = "agent" => tracked[g] # "none" BY <1>1, <1>2 DEF Seen
    <3>4. InNamespace(q)' <=> InNamespace(g) BY <3>1 DEF InNamespace
    <3>5. TrackState(g) # "none"
      BY <1>5, <3>1, <3>2, <3>3, <3>4 DEF InNamespace
    <3>6. TrackState(g) = "adopted" BY <3>1, <3>5
    <3>7. tracked[g] = "adopted" \/ (InNamespace(g) /\ tracked[g] = "none")
      BY <1>5, <3>6
    <3> QED BY <1>1, <1>2, <3>1, <3>7 DEF Labels
  <2> QED BY <2>1, <2>2
<1> QED BY <1>6, <1>7, <1>8

LEMMA CloneMap ==
  ASSUME MapInv, NEW t \in Pids, NEW c \in Pids, Clone(t, c), UNCHANGED env
  PROVE  Untracked' /\ Seen' /\ Labels'
<1> DEFINE g == owner[t]
<1>1. World /\ Untracked /\ Seen /\ Labels /\ env \in Environments /\ TypeOK
  BY DEF MapInv, World
<1>2. env.threaded /\ Runs(t) /\ Free(c) BY DEF Clone
<1>3. g \in Pids /\ Live(g) /\ c # g /\ g # NoPid
  BY <1>1, <1>2, OwnerIs, TrackingPids DEF Free, Live, NoPid
<1>4. /\ owner' = [owner EXCEPT ![c] = g]
      /\ fresh' = fresh \ {c} /\ Tracing(g, c)
      /\ UNCHANGED <<zombie, parent, origin, execd>>
  BY DEF Clone
<1>5. /\ owner \in [Pids -> Pids \cup {NoPid}] /\ owner[c] = NoPid /\ c # NoPid
  BY <1>1, <1>2, TrackingPids DEF TypeOK, Free, NoPid
<1> HIDE DEF g
<1>6. \A q \in Pids : /\ Live(q)' <=> Live(q)
                      /\ Free(q)' <=> (Free(q) /\ q # c)
  BY <1>3, <1>4, <1>5 DEF Live, Free
<1>7. /\ \A q \in Pids : q # g /\ q # c => tracked'[q] = tracked[q]
      /\ tracked'[g] \in {tracked[g], TrackState(g)}
      /\ Roomy => tracked'[g] = TrackState(g)
  BY <1>1, <1>3, <1>4, TracingIs
<1>8. /\ tracked[g] # "none" => TrackState(g) = tracked[g]
      /\ tracked[g] = "none" /\ TrackState(g) # "none" => env.container /\ InNamespace(g)
      /\ env.container /\ InNamespace(g) => TrackState(g) # "none"
  BY <1>1, <1>3, TrackStateIs
<1>9. ~Live(c) /\ ~Free(g) BY <1>3, <1>5, TrackingPids DEF Live, Free, NoPid
<1>10. Untracked'
  <2>1. CASE env.reused BY <1>2, <2>1 DEF Untracked
  <2>2. CASE ~env.reused
    <3>1. origin[g] = "host" => tracked'[g] = "none"
      BY <1>1, <1>3, <1>7, <1>8, <2>2 DEF Untracked, HostIsUntracked, InNamespace
    <3> QED BY <1>1, <1>4, <1>6, <1>7, <1>9, <2>2, <3>1 DEF Untracked, HostIsUntracked
  <2> QED BY <2>1, <2>2
<1>11. Seen' BY <1>1, <1>4, <1>6, <1>7, <1>8, <1>9 DEF Seen, Sighted, Roomy, Seeds
<1>12. Labels'
  <2> SUFFICES ASSUME Sighted, ~env.ringFills, ~(env.threaded /\ env.reused),
                      NEW q \in Pids, Live(q)',
                      tracked'[q] = "adopted" \/ (InNamespace(q)' /\ tracked'[q] = "none")
               PROVE  origin'[q] = "entered" /\ ~execd'[q]
    BY DEF Labels, Sighted, Roomy, Seeds
  <2>1. CASE q # g
    BY <1>1, <1>4, <1>6, <1>7, <1>9, <2>1 DEF Labels, InNamespace
  <2>2. CASE q = g
    <3>1. origin[g] = "entered" => env.container BY <1>1, <1>3 DEF World
    <3>2. origin[g] = "agent" => tracked[g] # "none" BY <1>1, <1>3 DEF Seen
    <3>3. tracked'[g] = TrackState(g) BY <1>7 DEF Sighted
    <3>4. TrackState(g) # "none"
      BY <1>4, <1>8, <2>2, <3>1, <3>2, <3>3 DEF InNamespace
    <3>5. tracked[g] = "adopted" \/ (InNamespace(g) /\ tracked[g] = "none")
      BY <1>8, <2>2, <3>3, <3>4
    <3> QED BY <1>1, <1>3, <1>4, <2>2, <3>5 DEF Labels
  <2> QED BY <2>1, <2>2
<1> QED BY <1>10, <1>11, <1>12

LEMMA MapStep ==
  ASSUME MapInv, NEW p \in Pids, TaskStep(p) \/ HostSpawns(p) \/ Enters(p),
         UNCHANGED env
  PROVE  MapInv'
<1>1. World /\ World' BY WorldStep DEF MapInv
<1>2. CASE HostSpawns(p) \/ Enters(p) BY <1>1, <1>2, AppearMap DEF MapInv
<1>3. CASE TaskStep(p)
  <2>1. CASE \E c \in Pids : Fork(p, c) \/ Clone(p, c)
    BY <1>1, <2>1, ForkMap, CloneMap DEF MapInv
  <2>2. CASE owner[p] \in Pids
             /\ (Hooked(owner[p]) \/ Gone(owner[p]) \/ Trimmed(owner[p]))
    BY <1>1, <2>2, HookedMap, GoneMap, TrimmedMap DEF MapInv
  <2> QED BY <1>1, <1>3, <2>1, <2>2, TaskSteps
<1> QED BY <1>2, <1>3

LEMMA InitMap == Init => MapInv
<1> SUFFICES ASSUME Init PROVE MapInv OBVIOUS
<1>1. PICK ps \in SUBSET Pids :
        /\ Seeded(ps) /\ Root \in ps /\ (Seeds => ps = {Root})
        /\ parent \in [Pids -> Pids \cup {NoPid}]
        /\ \A p \in Pids : parent[p] \in ps \cup {NoPid}
  <2> DEFINE One == Seeded({Root}) /\ parent = [p \in Pids |-> NoPid]
             Two(c) == /\ env.seedMisses
                       /\ Seeded({Root, c})
                       /\ parent = [p \in Pids |-> IF p = c THEN Root ELSE NoPid]
             Three(c, d) == /\ env.seedMisses
                            /\ Seeded({Root, c, d})
                            /\ parent = [p \in Pids |-> IF p = c THEN Root
                                           ELSE IF p = d THEN c ELSE NoPid]
  <2>1. \/ One
        \/ \E c \in Pids \ {Root} : Two(c)
        \/ \E c \in Pids \ {Root} : \E d \in Pids \ {Root, c} : Three(c, d)
    BY Zenon DEF Init
  <2>2. CASE One BY <2>2, TrackingRoot
  <2>3. ASSUME NEW c \in Pids \ {Root}, Two(c)
        PROVE  /\ {Root, c} \in SUBSET Pids /\ Seeded({Root, c}) /\ ~Seeds
               /\ parent \in [Pids -> Pids \cup {NoPid}]
               /\ \A p \in Pids : parent[p] \in {Root, c} \cup {NoPid}
    BY <2>3, TrackingRoot DEF Seeds
  <2>4. ASSUME NEW c \in Pids \ {Root}, NEW d \in Pids \ {Root, c}, Three(c, d)
        PROVE  /\ {Root, c, d} \in SUBSET Pids /\ Seeded({Root, c, d}) /\ ~Seeds
               /\ parent \in [Pids -> Pids \cup {NoPid}]
               /\ \A p \in Pids : parent[p] \in {Root, c, d} \cup {NoPid}
    BY <2>4, TrackingRoot DEF Seeds
  <2> HIDE DEF One, Two, Three
  <2>5. CASE \E c \in Pids \ {Root} : Two(c)
    <3>1. PICK c \in Pids \ {Root} : Two(c) BY <2>5
    <3> QED BY <2>3, <3>1
  <2>6. CASE \E c \in Pids \ {Root} : \E d \in Pids \ {Root, c} : Three(c, d)
    <3>1. PICK c \in Pids \ {Root} : \E d \in Pids \ {Root, c} : Three(c, d) BY <2>6
    <3>2. PICK d \in Pids \ {Root, c} : Three(c, d) BY <3>1
    <3> QED BY <2>4, <3>2
  <2> QED BY <2>1, <2>2, <2>5, <2>6
<1>2. /\ owner = [p \in Pids |-> IF p \in ps THEN p ELSE NoPid]
      /\ fresh = Pids \ ps
      /\ origin = [p \in Pids |-> IF p \in ps THEN "agent" ELSE "none"]
      /\ execd = [p \in Pids |-> p \in ps]
  BY <1>1 DEF Seeded
<1>3. /\ env \in Environments /\ zombie = {}
      /\ tracked = [p \in Pids |-> IF p = Root THEN "forked" ELSE "none"]
  BY DEF Init
<1>4. \A p \in Pids : Live(p) <=> p \in ps
  BY <1>1, <1>2, TrackingPids DEF Live, NoPid
<1>5. execd \in [Pids -> BOOLEAN] BY <1>2
<1>6. TypeOK
  <2>1. \A p \in Pids : owner[p] # NoPid => Live(owner[p])
    BY <1>1, <1>2, <1>4
  <2>2. \A p \in Pids : parent[p] # NoPid => Live(parent[p])
    BY <1>1, <1>4
  <2> QED BY <1>1, <1>2, <1>3, <1>5, <2>1, <2>2 DEF TypeOK, Marks
<1>7. World BY <1>1, <1>2, <1>3, <1>4, <1>6, TrackingRoot DEF World
<1>8. Untracked
  <2>1. \A c \in Pids : Free(c) => tracked[c] = "none"
    BY <1>1, <1>2, <1>3, TrackingPids DEF Free, NoPid
  <2>2. HostIsUntracked BY <1>2, <1>4 DEF HostIsUntracked
  <2> QED BY <2>1, <2>2 DEF Untracked
<1>9. Seen BY <1>1, <1>3, <1>4 DEF Seen, Sighted
<1>10. Labels BY <1>1, <1>3, <1>4 DEF Labels, Sighted
<1> QED BY <1>7, <1>8, <1>9, <1>10 DEF MapInv

LEMMA MapSays ==
  ASSUME MapInv
  PROVE  TypeOK /\ TreeIsSeen /\ HostStaysUntracked /\ LabelIsSetup
<1>1. TypeOK /\ Untracked /\ Seen /\ Labels BY DEF MapInv, World
<1>2. TreeIsSeen BY <1>1, TrackStateIs DEF TreeIsSeen, AgentIsSeen, Seen
<1> QED BY <1>1, <1>2 DEF HostStaysUntracked, Untracked, LabelIsSetup, Labels

-----------------------------------------------------------------------------
(* The responses.                                                          *)

(* SIGKILL ends a process as its last task does.                           *)
LEMMA KilledGone ==
  ASSUME World, NEW g \in Pids, Live(g), ~env.container, Killed(g)
  PROVE  Gone(g)
BY DeletedIs DEF Killed, Gone

(* The parts of the state that only a task's step changes.                 *)
LEMMA MapStutter == ASSUME MapInv, UNCHANGED vars PROVE MapInv'
BY DEF vars, taskVars, MapInv, World, TypeOK, Untracked, Seen, Labels, Live,
       Free, HostIsUntracked, InNamespace, Sighted, Roomy, Seeds

(* What ActOne does to the tree: nothing, or the end of one process.       *)
LEMMA ActOneMap ==
  ASSUME MapInv, Responses, NEW p \in Pids, ActOne(p)
  PROVE  /\ MapInv'
         /\ UNCHANGED vars \/ \E g \in Pids : /\ Gone(g) /\ owner[p] = g
                                              /\ action = "terminate" /\ env' = env
<1>1. action # "none" /\ ~env.container /\ World
  BY DEF ActOne, Responses, MapInv
<1>2. CASE UNCHANGED vars BY <1>2, MapStutter
<1>3. CASE owner[p] # NoPid /\ action = "terminate" /\ Killed(owner[p]) /\ UNCHANGED env
  <2>1. owner[p] \in Pids /\ Live(owner[p]) BY <1>1, <1>3 DEF World, TypeOK
  <2>2. Gone(owner[p]) BY <1>1, <1>3, <2>1, KilledGone
  <2> QED BY <1>1, <1>3, <2>1, <2>2, GoneMap, GoneWorld DEF MapInv
<1> QED BY <1>2, <1>3 DEF ActOne

LEMMA RMapStep ==
  ASSUME MapInv, Responses, [RNext]_rvars
  PROVE  MapInv'
<1>1. CASE UNCHANGED rvars BY <1>1, MapStutter DEF rvars
<1>2. CASE \E a \in {"freeze", "terminate", "resume"} : Begin(a)
  BY <1>2, MapStutter DEF Begin
<1>3. CASE \E p \in Pids : ActOne(p) BY <1>3, ActOneMap
<1>4. CASE SecondPass BY <1>4, MapStutter DEF SecondPass
<1>5. CASE Finish BY <1>5, MapStutter DEF Finish
<1>6. CASE \E p \in Pids : Alone(p) BY <1>6, MapStep DEF Alone
<1> QED BY <1>1, <1>2, <1>3, <1>4, <1>5, <1>6 DEF RNext, Respond

(* What a step of a running process leaves as it was: the suspended ones,  *)
(* and the processes of the agent but for a child of one that runs.        *)
Undisturbed ==
  /\ UNCHANGED <<env, respondVars, suspended>>
  /\ \A g \in suspended : Live(g)' /\ origin'[g] = origin[g]
  /\ \A g \in Pids : Live(g)' /\ origin'[g] = "agent" =>
       \/ Live(g) /\ origin[g] = "agent" /\ born'[g] = born[g]
       \/ ~Live(g) /\ \E h \in Pids : Escapee(h) /\ born'[g] = Birth(h)

Ages == {"before", "between", "after", "late"}

LEMMA AloneDisturbs ==
  ASSUME World, Responses, NEW p \in Pids, Alone(p)
  PROVE  Undisturbed /\ born' \in [Pids -> Ages]
<1>1. /\ UNCHANGED <<env, respondVars, suspended>>
      /\ (owner[p] \notin suspended /\ TaskStep(p)) \/ HostSpawns(p) \/ Enters(p)
      /\ born' = [c \in Pids |->
           IF owner[c] = NoPid /\ owner'[c] = c /\ parent'[c] # NoPid
           THEN Birth(parent'[c]) ELSE born[c]]
  BY DEF Alone
<1>2. \A g \in suspended : g \in Pids /\ Live(g) /\ g # NoPid
  BY TrackingPids DEF Responses, RTypeOK, NoPid
<1>3. born \in [Pids -> Ages] BY DEF Responses, RTypeOK, Ages
<1>4. born' \in [Pids -> Ages] BY <1>1, <1>3 DEF Birth, Ages
<1>5. \A c \in Pids : owner[c] # NoPid => born'[c] = born[c] BY <1>1
<1>6. \A c \in Pids : Live(c) => owner[c] # NoPid BY TrackingPids DEF Live, NoPid
<1>7. CASE HostSpawns(p) \/ Enters(p)
  <2>1. Born(p) /\ origin'[p] \in {"host", "entered"} BY <1>7, AppearBears
  <2>2. /\ \A q \in Pids : Live(q)' <=> (Live(q) \/ q = p)
        /\ \A q \in Pids : q # p => origin'[q] = origin[q]
        /\ ~Live(p)
    BY <1>1, <2>1, BornRest
  <2> QED BY <1>1, <1>2, <1>4, <1>5, <1>6, <2>1, <2>2 DEF Undisturbed
<1>8. CASE owner[p] \notin suspended /\ TaskStep(p)
  <2>1. ASSUME NEW c \in Pids, Fork(p, c) PROVE Undisturbed
    <3> DEFINE g == owner[p]
    <3>1. /\ Born(c) /\ g \in Pids /\ Live(g)
          /\ parent'[c] = g /\ parent'[c] # NoPid /\ origin'[c] = origin[g]
      BY <2>1, ForkBears
    <3>2. /\ \A q \in Pids : Live(q)' <=> (Live(q) \/ q = c)
          /\ \A q \in Pids : q # c => origin'[q] = origin[q]
          /\ ~Live(c) /\ owner[c] = NoPid /\ owner'[c] = c
      BY <1>1, <3>1, BornRest
    <3>3. born'[c] = Birth(g) BY <1>1, <3>1, <3>2
    <3>4. origin[g] = "agent" => Escapee(g) BY <1>8, <3>1 DEF Escapee
    <3> HIDE DEF g
    <3> QED BY <1>1, <1>2, <1>5, <1>6, <3>1, <3>2, <3>3, <3>4 DEF Undisturbed
  <2>2. ASSUME NEW c \in Pids, Clone(p, c) PROVE Undisturbed
    <3>1. Runs(p) /\ Free(c) /\ UNCHANGED origin /\ owner' = [owner EXCEPT ![c] = owner[p]]
      BY <2>2 DEF Clone
    <3>2. owner[p] \in Pids /\ Live(owner[p]) BY <3>1, OwnerIs
    <3>3. owner \in [Pids -> Pids \cup {NoPid}] /\ owner[c] = NoPid
      BY <3>1 DEF Free, World, TypeOK
    <3>4. \A q \in Pids : Live(q)' <=> Live(q)
      BY <3>1, <3>2, <3>3, TrackingPids DEF Live, NoPid
    <3> QED BY <1>1, <1>2, <1>5, <1>6, <3>1, <3>4 DEF Undisturbed
  <2>3. ASSUME owner[p] \in Pids, Hooked(owner[p]) PROVE Undisturbed
    <3>1. UNCHANGED <<owner, origin>> BY <2>3 DEF Hooked
    <3> QED BY <1>1, <1>2, <1>5, <1>6, <3>1 DEF Undisturbed, Live
  <2>4. ASSUME owner[p] \in Pids, Trimmed(owner[p]) PROVE Undisturbed
    <3>1. \A q \in Pids : Live(q)' <=> Live(q)
      BY <2>4, TrackingPids DEF Trimmed, Live, NoPid
    <3>2. UNCHANGED origin BY <2>4 DEF Trimmed
    <3> QED BY <1>1, <1>2, <1>5, <1>6, <3>1, <3>2 DEF Undisturbed
  <2>5. ASSUME owner[p] \in Pids, Gone(owner[p]) PROVE Undisturbed
    <3> DEFINE g == owner[p]
    <3>1. /\ \A q \in Pids : owner'[q] = IF owner[q] = g THEN NoPid ELSE owner[q]
          /\ origin' = [origin EXCEPT ![g] = "none"] /\ owner[g] = g
      BY <2>5 DEF Gone, Reaped, Live
    <3>2. /\ origin \in [Pids -> {"agent", "entered", "host", "none"}]
      BY DEF World, TypeOK
    <3>3. g \notin suspended /\ g \in Pids BY <1>8, <2>5
    <3> HIDE DEF g
    <3>4. \A q \in Pids : Live(q)' <=> (Live(q) /\ q # g)
      BY <3>1, <3>3, TrackingPids DEF Live, NoPid
    <3>5. \A q \in Pids : q # g => origin'[q] = origin[q] BY <3>1, <3>2
    <3> QED BY <1>1, <1>2, <1>5, <1>6, <3>3, <3>4, <3>5 DEF Undisturbed
  <2> QED BY <1>4, <1>8, <2>1, <2>2, <2>3, <2>4, <2>5, TaskSteps
<1> QED BY <1>1, <1>7, <1>8

(* One process of the agent less, or none.                                 *)
LEMMA GoneRest ==
  ASSUME World, NEW g \in Pids, Gone(g)
  PROVE  /\ \A q \in Pids : Live(q)' <=> (Live(q) /\ q # g)
         /\ \A q \in Pids : q # g => origin'[q] = origin[q] /\ tracked'[q] = tracked[q]
         /\ \A q \in Pids : owner'[q] = IF owner[q] = g THEN NoPid ELSE owner[q]
         /\ fresh' = fresh /\ Live(g)
<1>1. /\ \A q \in Pids : owner'[q] = IF owner[q] = g THEN NoPid ELSE owner[q]
      /\ origin' = [origin EXCEPT ![g] = "none"] /\ owner[g] = g
      /\ fresh' = fresh
      /\ \A q \in Pids : q # g => tracked'[q] = tracked[q]
  BY DEF Gone, Reaped, Live, OnlyMarks
<1>2. origin \in [Pids -> {"agent", "entered", "host", "none"}] BY DEF World, TypeOK
<1>3. \A q \in Pids : Live(q)' <=> (Live(q) /\ q # g)
  BY <1>1, TrackingPids DEF Live, NoPid
<1> QED BY <1>1, <1>2, <1>3 DEF Live

(* A signal reaches the process that owns the id.                          *)
LEMMA Signalled ==
  ASSUME World, Responses, NEW p \in Pids, ActOne(p)
  PROVE  /\ UNCHANGED <<env, action, pass, last, born>> /\ action # "none"
         /\ p \in todo /\ todo' = todo \ {p}
         /\ \/ owner[p] = NoPid /\ UNCHANGED <<vars, suspended>>
            \/ /\ owner[p] \in Pids /\ Live(owner[p])
               /\ \/ action = "freeze" /\ UNCHANGED vars
                       /\ suspended' = suspended \cup {owner[p]}
                  \/ action = "resume" /\ UNCHANGED vars
                       /\ suspended' = suspended \ {owner[p]}
                  \/ action = "terminate" /\ Gone(owner[p])
                       /\ suspended' = suspended \ {owner[p]}
<1>1. /\ action # "none" /\ p \in todo /\ todo' = todo \ {p}
      /\ UNCHANGED <<action, pass, last, born>>
  BY DEF ActOne
<1>2. ~env.container BY <1>1 DEF Responses
<1>3. CASE owner[p] = NoPid /\ UNCHANGED <<vars, suspended>>
  BY <1>1, <1>3 DEF vars
<1>4. CASE owner[p] # NoPid
  <2>1. owner[p] \in Pids /\ Live(owner[p]) BY <1>4 DEF World, TypeOK
  <2>2. CASE action = "freeze" /\ suspended' = suspended \cup {owner[p]} /\ UNCHANGED vars
    BY <1>1, <2>1, <2>2 DEF vars
  <2>3. CASE action = "resume" /\ suspended' = suspended \ {owner[p]} /\ UNCHANGED vars
    BY <1>1, <2>1, <2>3 DEF vars
  <2>4. CASE action = "terminate" /\ Killed(owner[p]) /\ UNCHANGED env
    <3>1. Gone(owner[p]) BY <1>2, <2>1, <2>4, KilledGone
    <3>2. suspended' = suspended \ {owner[p]} BY <2>4 DEF Killed
    <3> QED BY <1>1, <2>1, <2>4, <3>1, <3>2
  <2> QED BY <1>4, <2>2, <2>3, <2>4 DEF ActOne
<1> QED BY <1>3, <1>4 DEF ActOne

LEMMA ResponsesStep ==
  ASSUME MapInv, MapInv', Responses, [RNext]_rvars
  PROVE  Responses'
<1>1. World /\ TypeOK' BY DEF MapInv, World
<1>2. /\ suspended \in SUBSET {p \in Pids : Live(p)}
      /\ action \in {"none", "freeze", "terminate", "resume"}
      /\ pass \in {1, 2} /\ todo \in SUBSET Pids
      /\ last \in {"none", "freeze", "terminate", "resume"}
      /\ born \in [Pids -> Ages]
      /\ action # "none" => ~env.container
      /\ suspended # {} => ~env.container
  BY DEF Responses, RTypeOK, Ages
<1>3. CASE UNCHANGED rvars
  BY <1>1, <1>2, <1>3 DEF rvars, respondVars, vars, taskVars, Responses, RTypeOK, Live, Ages
<1>4. ASSUME NEW a \in {"freeze", "terminate", "resume"}, Begin(a) PROVE Responses'
  <2>1. TrackedPids \in SUBSET Pids BY DEF TrackedPids
  <2>2. [p \in Pids |-> "before"] \in [Pids -> Ages] BY DEF Ages
  <2> QED BY <1>1, <1>2, <1>4, <2>1, <2>2
           DEF Begin, vars, taskVars, Responses, RTypeOK, Live, Ages
<1>5. ASSUME NEW p \in Pids, ActOne(p) PROVE Responses'
  <2>1. /\ UNCHANGED <<env, action, pass, last, born>> /\ action # "none"
        /\ todo' = todo \ {p}
    BY <1>1, <1>5, Signalled
  <2>2. suspended' \in SUBSET {q \in Pids : Live(q)'}
    <3>1. CASE owner[p] = NoPid /\ UNCHANGED <<vars, suspended>>
      BY <1>2, <3>1 DEF vars, taskVars, Live
    <3>2. CASE /\ owner[p] \in Pids /\ Live(owner[p]) /\ UNCHANGED vars
               /\ suspended' \in {suspended \cup {owner[p]}, suspended \ {owner[p]}}
      BY <1>2, <3>2 DEF vars, taskVars, Live
    <3>3. CASE owner[p] \in Pids /\ Gone(owner[p]) /\ suspended' = suspended \ {owner[p]}
      BY <1>1, <1>2, <3>3, GoneRest
    <3> QED BY <1>1, <1>5, <3>1, <3>2, <3>3, Signalled
  <2> QED BY <1>1, <1>2, <2>1, <2>2 DEF Responses, RTypeOK, Ages
<1>6. CASE SecondPass
  <2>1. TrackedPids \in SUBSET Pids BY DEF TrackedPids
  <2> QED BY <1>1, <1>2, <1>6, <2>1
           DEF SecondPass, vars, taskVars, Responses, RTypeOK, Live, Ages
<1>7. CASE Finish
  BY <1>1, <1>2, <1>7 DEF Finish, vars, taskVars, Responses, RTypeOK, Live, Ages
<1>8. ASSUME NEW p \in Pids, Alone(p) PROVE Responses'
  <2>1. Undisturbed /\ born' \in [Pids -> Ages] BY <1>1, <1>8, AloneDisturbs
  <2> QED BY <1>1, <1>2, <2>1 DEF Undisturbed, respondVars, Responses, RTypeOK, Ages
<1> QED BY <1>3, <1>4, <1>5, <1>6, <1>7, <1>8 DEF RNext, Respond

LEMMA EscapingStep ==
  ASSUME MapInv, MapInv', Responses, Escaping, [RNext]_rvars
  PROVE  Escaping'
<1>1. World /\ Seen BY DEF MapInv
<1>2. /\ suspended \in SUBSET {p \in Pids : Live(p)}
      /\ pass \in {1, 2} /\ todo \in SUBSET Pids
  BY DEF Responses, RTypeOK
<1>3. CASE UNCHANGED rvars
  BY <1>3 DEF rvars, respondVars, vars, taskVars, Escaping, Escapee, Live, Sighted,
              Roomy, Seeds
<1>4. ASSUME NEW a \in {"freeze", "terminate", "resume"}, Begin(a) PROVE Escaping'
  <2>1. /\ UNCHANGED <<vars, last, suspended>> /\ action' = a /\ pass' = 1
        /\ todo' = TrackedPids /\ born' = [p \in Pids |-> "before"]
    BY <1>4 DEF Begin
  <2>2. Sighted => \A g \in Pids : Escapee(g)' => g \in TrackedPids
    BY <1>1, <2>1 DEF vars, taskVars, Escapee, Seen, TrackedPids, Live
  <2> QED BY <2>1, <2>2 DEF vars, Escaping, Sighted, Roomy, Seeds
<1>5. ASSUME NEW p \in Pids, ActOne(p) PROVE Escaping'
  <2>1. /\ UNCHANGED <<env, action, pass, last, born>> /\ action # "none"
        /\ todo' = todo \ {p}
    BY <1>1, <1>5, Signalled
  <2>2. \A g \in Pids :
          Escapee(g)' /\ action \in {"freeze", "terminate"} => Escapee(g) /\ g # p
    <3>1. CASE owner[p] = NoPid /\ UNCHANGED <<vars, suspended>>
      BY <3>1, TrackingPids DEF vars, taskVars, Live, Escapee, NoPid
    <3>2. CASE /\ owner[p] \in Pids /\ Live(owner[p]) /\ UNCHANGED vars
               /\ action = "freeze" /\ suspended' = suspended \cup {owner[p]}
      BY <3>2 DEF vars, taskVars, Live, Escapee
    <3>3. CASE action = "resume" BY <3>3
    <3>4. CASE owner[p] \in Pids /\ Gone(owner[p]) /\ suspended' = suspended \ {owner[p]}
      <4>1. \A q \in Pids : Live(q)' => Live(q) /\ q # owner[p] /\ origin'[q] = origin[q]
        BY <1>1, <3>4, GoneRest
      <4> QED BY <3>4, <4>1 DEF Escapee, Live
    <3> QED BY <1>1, <1>5, <3>1, <3>2, <3>3, <3>4, Signalled
  <2> QED BY <1>2, <2>1, <2>2 DEF Escaping, Sighted, Roomy, Seeds
<1>6. CASE SecondPass
  <2>1. /\ UNCHANGED <<vars, action, last, suspended, born>> /\ pass = 1 /\ pass' = 2
        /\ todo = {} /\ todo' = TrackedPids /\ action \in {"freeze", "terminate"}
    BY <1>6 DEF SecondPass
  <2>2. Sighted => \A g \in Pids : Escapee(g)' => Escapee(g) /\ g \in TrackedPids
    BY <1>1, <2>1 DEF vars, taskVars, Escapee, Seen, TrackedPids, Live
  <2> QED BY <2>1, <2>2 DEF vars, Escaping, Sighted, Roomy, Seeds
<1>7. CASE Finish
  <2>1. /\ UNCHANGED <<vars, pass, todo, suspended, born>>
        /\ action # "none" /\ todo = {} /\ (pass = 2 \/ action = "resume")
        /\ last' = action /\ action' = "none"
    BY <1>7 DEF Finish
  <2>2. \A g \in Pids : Escapee(g)' => Escapee(g)
    BY <2>1 DEF vars, taskVars, Escapee, Live
  <2> QED BY <2>1, <2>2 DEF vars, Escaping, Sighted, Roomy, Seeds
<1>8. ASSUME NEW p \in Pids, Alone(p) PROVE Escaping'
  <2>1. Undisturbed BY <1>1, <1>8, AloneDisturbs
  <2>2. UNCHANGED <<env, action, pass, todo, last, suspended>>
    BY <2>1 DEF Undisturbed, respondVars
  <2> SUFFICES ASSUME Sighted, NEW g \in Pids, Escapee(g)'
               PROVE  /\ action \in {"freeze", "terminate"} /\ pass = 1 =>
                           born'[g] = "between" \/ (born'[g] = "before" /\ g \in todo)
                      /\ action \in {"freeze", "terminate"} /\ pass = 2 =>
                           born'[g] = "late" \/ (born'[g] = "between" /\ g \in todo)
                      /\ action = "none" /\ last \in {"freeze", "terminate"} =>
                           born'[g] = "late"
    BY <2>2 DEF Escaping, Sighted, Roomy, Seeds
  <2>3. \/ Escapee(g) /\ born'[g] = born[g]
        \/ \E h \in Pids : Escapee(h) /\ born'[g] = Birth(h)
    BY <2>1, <2>2 DEF Undisturbed, Escapee
  <2>4. CASE Escapee(g) /\ born'[g] = born[g] BY <2>4 DEF Escaping
  <2>5. CASE \E h \in Pids : Escapee(h) /\ born'[g] = Birth(h)
    <3>1. PICK h \in Pids : Escapee(h) /\ born'[g] = Birth(h) BY <2>5
    <3> QED BY <1>2, <3>1 DEF Escaping, Birth
  <2> QED BY <2>3, <2>4, <2>5
<1> QED BY <1>3, <1>4, <1>5, <1>6, <1>7, <1>8 DEF RNext, Respond

LEMMA ReleasingStep ==
  ASSUME MapInv, Responses, Aimed, Releasing, [RNext]_rvars
  PROVE  Releasing'
<1>1. World /\ Seen BY DEF MapInv
<1>2. /\ \A g \in suspended : g \in Pids /\ Live(g)
      /\ suspended # {} => ~env.container
  BY DEF Responses, RTypeOK
<1>3. CASE UNCHANGED rvars
  BY <1>3 DEF rvars, respondVars, vars, taskVars, Releasing, Live, Sighted, Roomy, Seeds
<1>4. ASSUME NEW a \in {"freeze", "terminate", "resume"}, Begin(a) PROVE Releasing'
  <2>1. /\ UNCHANGED <<vars, last, suspended>> /\ action' = a
        /\ todo' = TrackedPids
    BY <1>4 DEF Begin
  <2>2. Sighted => \A g \in suspended :
          (env.reused /\ origin[g] = "host") \/ g \in TrackedPids
    <3> SUFFICES ASSUME Sighted, NEW g \in suspended
                 PROVE  (env.reused /\ origin[g] = "host") \/ g \in TrackedPids
      OBVIOUS
    <3>1. origin[g] \in {"agent", "entered", "host"} BY <1>1, <1>2 DEF World, TypeOK
    <3>2. origin[g] # "entered" BY <1>1, <1>2 DEF World
    <3>3. origin[g] = "agent" => g \in TrackedPids BY <1>1, <1>2 DEF Seen, TrackedPids
    <3>4. origin[g] = "host" => env.reused BY DEF Aimed
    <3> QED BY <3>1, <3>2, <3>3, <3>4
  <2> QED BY <2>1, <2>2 DEF vars, taskVars, Releasing, Sighted, Roomy, Seeds
<1>5. ASSUME NEW p \in Pids, ActOne(p) PROVE Releasing'
  <2>1. /\ UNCHANGED <<env, action, pass, last, born>> /\ action # "none"
        /\ todo' = todo \ {p}
    BY <1>1, <1>5, Signalled
  <2>2. CASE action # "resume" BY <2>1, <2>2 DEF Releasing
  <2>3. CASE action = "resume"
    <3>1. UNCHANGED vars /\ \A g \in suspended' : g \in suspended /\ g # p
      BY <1>1, <1>2, <1>5, <2>3, Signalled, TrackingPids DEF Live, NoPid
    <3> QED BY <2>1, <2>3, <3>1 DEF vars, taskVars, Releasing, Sighted, Roomy, Seeds
  <2> QED BY <2>2, <2>3
<1>6. CASE SecondPass
  <2>1. action' \in {"freeze", "terminate"} BY <1>6 DEF SecondPass
  <2> QED BY <2>1 DEF Releasing
<1>7. CASE Finish
  BY <1>7 DEF Finish, vars, taskVars, Releasing, Sighted, Roomy, Seeds
<1>8. ASSUME NEW p \in Pids, Alone(p) PROVE Releasing'
  <2>1. Undisturbed BY <1>1, <1>8, AloneDisturbs
  <2> QED BY <2>1 DEF Undisturbed, respondVars, Releasing, Sighted, Roomy, Seeds
<1> QED BY <1>3, <1>4, <1>5, <1>6, <1>7, <1>8 DEF RNext, Respond

(* Ids that name nobody of the host: todo's, and the map's.                *)
AimedAt ==
  \A p \in Pids : owner[p] # NoPid /\ (tracked[p] # "none" \/ p \in todo)
                    => origin[owner[p]] # "host"

LEMMA AloneAims ==
  ASSUME MapInv, MapInv', Responses, Aimed, ~env.reused, NEW p \in Pids, Alone(p)
  PROVE  AimedAt'
<1>1. /\ World /\ Untracked /\ env \in Environments /\ TypeOK /\ Untracked'
      /\ owner \in [Pids -> Pids \cup {NoPid}]
      /\ \A q \in Pids : owner[q] # NoPid => owner[q] \in Pids /\ Live(owner[q])
      /\ origin \in [Pids -> {"agent", "entered", "host", "none"}]
  BY DEF MapInv, World, TypeOK
<1>2. /\ AimedAt /\ todo \cap fresh = {} /\ UNCHANGED <<env, todo>>
      /\ \A q \in Pids : Free(q) => q \in fresh /\ q \notin todo /\ tracked[q] = "none"
      /\ \A g \in Pids : Live(g) /\ origin[g] = "host" => tracked[g] = "none"
      /\ \A g \in Pids : Live(g)' /\ origin'[g] = "host" => tracked'[g] = "none"
  BY <1>1 DEF Aimed, AimedAt, Alone, respondVars, Untracked, Free, HostIsUntracked
<1>3. \A g \in Pids : Live(g) /\ origin[g] = "host" => TrackState(g) = "none"
  BY <1>1, <1>2, TrackStateIs DEF InNamespace
<1>4. CASE HostSpawns(p) \/ Enters(p)
  <2>1. Born(p) /\ UNCHANGED tracked BY <1>1, <1>4, AppearBears
  <2>2. /\ \A q \in Pids : q # p => origin'[q] = origin[q] /\ owner'[q] = owner[q]
        /\ Free(p) /\ owner[p] = NoPid /\ owner'[p] = p
    BY <1>1, <1>2, <2>1, BornRest
  <2>3. \A q \in Pids : owner[q] # p
    BY <1>1, <2>2, TrackingPids DEF Live, NoPid
  <2> QED BY <1>1, <1>2, <2>1, <2>2, <2>3 DEF AimedAt
<1>5. CASE TaskStep(p)
  <2>1. ASSUME NEW c \in Pids, Fork(p, c) PROVE AimedAt'
    <3> DEFINE g == owner[p]
    <3>1. /\ Born(c) /\ g \in Pids /\ Live(g) /\ c # g /\ Tracing(g, c)
          /\ origin'[c] = origin[g]
      BY <1>1, <2>1, ForkBears
    <3>2. /\ \A q \in Pids : q # c => origin'[q] = origin[q] /\ owner'[q] = owner[q]
          /\ Free(c) /\ owner[c] = NoPid /\ owner'[c] = c
      BY <1>1, <1>2, <3>1, BornRest
    <3>3. \A q \in Pids : owner[q] # c
      BY <1>1, <3>2, TrackingPids DEF Live, NoPid
    <3>4. /\ \A q \in Pids : q # g /\ q # c => tracked'[q] = tracked[q]
          /\ tracked'[g] \in {tracked[g], TrackState(g)}
          /\ tracked'[c] \in {tracked[c], TrackState(g)}
      BY <1>1, <3>1, TracingIs
    <3> HIDE DEF g
    <3>5. owner[g] = g BY <3>1 DEF Live
    <3> QED BY <1>1, <1>2, <1>3, <3>1, <3>2, <3>3, <3>4, <3>5 DEF AimedAt
  <2>2. ASSUME NEW c \in Pids, Clone(p, c) PROVE AimedAt'
    <3> DEFINE g == owner[p]
    <3>1. Runs(p) /\ Free(c) /\ UNCHANGED origin /\ owner' = [owner EXCEPT ![c] = g]
          /\ Tracing(g, c)
      BY <2>2 DEF Clone
    <3>2. g \in Pids /\ Live(g) BY <1>1, <3>1, OwnerIs
    <3>3. c # g /\ owner[g] = g BY <3>1, <3>2, TrackingPids DEF Free, Live, NoPid
    <3>4. /\ \A q \in Pids : q # g /\ q # c => tracked'[q] = tracked[q]
          /\ tracked'[g] \in {tracked[g], TrackState(g)}
          /\ tracked'[c] \in {tracked[c], TrackState(g)}
      BY <1>1, <3>1, <3>2, <3>3, TracingIs
    <3> HIDE DEF g
    <3>5. owner'[c] = g /\ \A q \in Pids : q # c => owner'[q] = owner[q]
      BY <1>1, <3>1, <3>2
    <3> QED BY <1>1, <1>2, <1>3, <3>1, <3>2, <3>3, <3>4, <3>5 DEF AimedAt
  <2>3. ASSUME owner[p] \in Pids, Hooked(owner[p]) PROVE AimedAt'
    <3> DEFINE g == owner[p]
    <3>1. /\ UNCHANGED <<owner, origin>> /\ g \in Pids /\ Live(g) /\ owner[g] = g
          /\ \A q \in Pids : q # g => tracked'[q] = tracked[q]
          /\ tracked'[g] # "none" => TrackState(g) # "none"
      BY <2>3 DEF Hooked, OnlyMarks, Live
    <3> HIDE DEF g
    <3> QED BY <1>1, <1>2, <1>3, <3>1 DEF AimedAt
  <2>4. ASSUME owner[p] \in Pids, Trimmed(owner[p]) PROVE AimedAt'
    <3> DEFINE g == owner[p]
    <3>1. /\ UNCHANGED origin /\ g \in Pids /\ Live(g) /\ owner[g] = g
          /\ \A q \in Pids : q # g => tracked'[q] = tracked[q]
          /\ origin[g] = "host" /\ tracked[g] = "none" => tracked'[g] = "none"
          /\ \A q \in Pids : owner'[q] = owner[q] \/ owner'[q] = NoPid
      BY <2>4 DEF Trimmed, OnlyMarks, Live
    <3> HIDE DEF g
    <3> QED BY <1>1, <1>2, <1>3, <3>1 DEF AimedAt
  <2>5. ASSUME owner[p] \in Pids, Gone(owner[p]) PROVE AimedAt'
    <3> DEFINE g == owner[p]
    <3>1. /\ \A q \in Pids : q # g => origin'[q] = origin[q] /\ tracked'[q] = tracked[q]
          /\ \A q \in Pids : owner'[q] = IF owner[q] = g THEN NoPid ELSE owner[q]
          /\ g \in Pids /\ owner[g] = g
      BY <1>1, <2>5, GoneRest DEF Live
    <3> HIDE DEF g
    <3> QED BY <1>1, <1>2, <3>1 DEF AimedAt
  <2> QED BY <1>1, <1>5, <2>1, <2>2, <2>3, <2>4, <2>5, TaskSteps
<1> QED BY <1>4, <1>5 DEF Alone

LEMMA AimedStep ==
  ASSUME MapInv, MapInv', Responses, Aimed, [RNext]_rvars
  PROVE  Aimed'
<1> SUFFICES ASSUME ~env'.reused
             PROVE  /\ todo' \cap fresh' = {} /\ AimedAt'
                    /\ \A g \in suspended' : origin'[g] # "host"
  BY DEF Aimed, AimedAt
<1>1. /\ World /\ Untracked /\ TypeOK
      /\ \A q \in Pids : owner[q] # NoPid => owner[q] \in Pids /\ Live(owner[q])
  BY DEF MapInv, World, TypeOK
<1>2. /\ \A g \in suspended : g \in Pids /\ Live(g)
      /\ todo \in SUBSET Pids
  BY DEF Responses, RTypeOK
<1>3. CASE UNCHANGED rvars
  BY <1>3 DEF rvars, respondVars, vars, taskVars, Aimed, AimedAt
<1>4. ASSUME UNCHANGED vars, todo' = TrackedPids, UNCHANGED suspended
      PROVE  /\ todo' \cap fresh' = {} /\ AimedAt'
             /\ \A g \in suspended' : origin'[g] # "host"
  <2>1. ~env.reused BY <1>4 DEF vars
  <2>2. \A q \in fresh : q \notin TrackedPids
    BY <1>1, <2>1 DEF Untracked, Free, TrackedPids, World, TypeOK
  <2> QED BY <1>4, <2>1, <2>2 DEF vars, taskVars, TrackedPids, Aimed, AimedAt
<1>5. CASE \E a \in {"freeze", "terminate", "resume"} : Begin(a)
  BY <1>4, <1>5 DEF Begin
<1>6. CASE SecondPass BY <1>4, <1>6 DEF SecondPass
<1>7. CASE Finish BY <1>7 DEF Finish, vars, taskVars, Aimed, AimedAt
<1>8. ASSUME NEW p \in Pids, ActOne(p)
      PROVE  /\ todo' \cap fresh' = {} /\ AimedAt'
             /\ \A g \in suspended' : origin'[g] # "host"
  <2>1. /\ UNCHANGED env /\ p \in todo /\ todo' = todo \ {p} /\ ~env.reused
        /\ AimedAt /\ todo \cap fresh = {} /\ \A g \in suspended : origin[g] # "host"
    BY <1>1, <1>8, Signalled DEF Aimed, AimedAt
  <2>2. CASE owner[p] = NoPid /\ UNCHANGED <<vars, suspended>>
    BY <2>1, <2>2 DEF vars, taskVars, AimedAt
  <2>3. CASE /\ owner[p] \in Pids /\ UNCHANGED vars
             /\ suspended' \in {suspended \cup {owner[p]}, suspended \ {owner[p]}}
    <3>1. origin[owner[p]] # "host"
      BY <2>1, <2>3, TrackingPids DEF AimedAt, NoPid
    <3> QED BY <2>1, <2>3, <3>1 DEF vars, taskVars, AimedAt
  <2>4. CASE owner[p] \in Pids /\ Gone(owner[p]) /\ suspended' = suspended \ {owner[p]}
    <3> DEFINE g == owner[p]
    <3>1. /\ \A q \in Pids : q # g => origin'[q] = origin[q] /\ tracked'[q] = tracked[q]
          /\ \A q \in Pids : owner'[q] = IF owner[q] = g THEN NoPid ELSE owner[q]
          /\ g \in Pids /\ owner[g] = g /\ fresh' = fresh
          /\ suspended' = suspended \ {g}
      BY <1>1, <2>4, GoneRest DEF Live
    <3> HIDE DEF g
    <3>2. AimedAt' BY <1>1, <2>1, <3>1 DEF AimedAt
    <3> QED BY <1>2, <2>1, <3>1, <3>2
  <2> QED BY <1>1, <1>8, <2>2, <2>3, <2>4, Signalled
<1>9. ASSUME NEW p \in Pids, Alone(p)
      PROVE  /\ todo' \cap fresh' = {} /\ AimedAt'
             /\ \A g \in suspended' : origin'[g] # "host"
  <2>1. Undisturbed BY <1>1, <1>9, AloneDisturbs
  <2>2. /\ UNCHANGED <<env, todo, suspended>> /\ ~env.reused
        /\ \A g \in suspended : origin'[g] = origin[g]
    BY <2>1 DEF Undisturbed, respondVars
  <2>3. AimedAt' BY <1>9, <2>2, AloneAims
  <2>4. fresh' \subseteq fresh
    <3>1. CASE HostSpawns(p) \/ Enters(p) BY <3>1 DEF HostSpawns, Enters, Appear
    <3>2. CASE TaskStep(p)
      <4>1. CASE \E c \in Pids : Fork(p, c) \/ Clone(p, c) BY <4>1 DEF Fork, Clone
      <4>2. CASE Hooked(owner[p]) \/ Gone(owner[p]) \/ Trimmed(owner[p])
        BY <4>2 DEF Hooked, Gone, Trimmed
      <4> QED BY <1>1, <3>2, <4>1, <4>2, TaskSteps
    <3> QED BY <1>9, <3>1, <3>2 DEF Alone
  <2> QED BY <2>2, <2>3, <2>4 DEF Aimed
<1> QED BY <1>3, <1>5, <1>6, <1>7, <1>8, <1>9 DEF RNext, Respond

-----------------------------------------------------------------------------
(* The theorems.                                                           *)

LEMMA RInit_RInv == RInit => RInv
<1> SUFFICES ASSUME RInit PROVE RInv OBVIOUS
<1>1. MapInv /\ TypeOK BY InitMap DEF RInit, MapInv, World
<1>2. /\ suspended = {} /\ action = "none" /\ pass = 1 /\ todo = {}
      /\ last = "none" /\ born = [p \in Pids |-> "before"]
  BY DEF RInit
<1>3. Responses BY <1>1, <1>2 DEF Responses, RTypeOK
<1>4. Escaping BY <1>2 DEF Escaping
<1>5. Releasing BY <1>2 DEF Releasing
<1>6. Aimed
  <2> SUFFICES ASSUME ~env.reused, NEW p \in Pids, owner[p] # NoPid, tracked[p] # "none"
               PROVE  origin[owner[p]] # "host"
    BY <1>2 DEF Aimed
  <2>1. tracked = [q \in Pids |-> IF q = Root THEN "forked" ELSE "none"]
    BY DEF RInit, Init
  <2>2. p = Root BY <2>1
  <2>3. \A q \in Pids : origin[q] \in {"agent", "none"}
    BY DEF RInit, Init, Seeded
  <2> QED BY <1>1, <2>2, <2>3 DEF TypeOK
<1> QED BY <1>1, <1>3, <1>4, <1>5, <1>6 DEF RInv

LEMMA RespondAlways == RSpec => []RInv
<1>1. RInv /\ [RNext]_rvars => RInv'
  <2> SUFFICES ASSUME RInv, [RNext]_rvars PROVE RInv' OBVIOUS
  <2>1. MapInv /\ Responses /\ Escaping /\ Aimed /\ Releasing BY DEF RInv
  <2>2. MapInv' BY <2>1, RMapStep
  <2>3. Responses' BY <2>1, <2>2, ResponsesStep
  <2>4. Escaping' BY <2>1, <2>2, EscapingStep
  <2>5. Aimed' BY <2>1, <2>2, AimedStep
  <2>6. Releasing' BY <2>1, ReleasingStep
  <2> QED BY <2>2, <2>3, <2>4, <2>5, <2>6 DEF RInv
<1> QED BY RInit_RInv, <1>1, PTL DEF RSpec

LEMMA MapAlways == Spec => []MapInv
<1>1. MapInv /\ [Next]_vars => MapInv'
  <2> SUFFICES ASSUME MapInv, [Next]_vars PROVE MapInv' OBVIOUS
  <2>1. CASE UNCHANGED vars BY <2>1, MapStutter
  <2>2. CASE Next BY <2>2, MapStep DEF Next
  <2> QED BY <2>1, <2>2
<1> QED BY InitMap, <1>1, PTL DEF Spec

(* Type correctness of the map, the tasks and the responses (respond.rs,   *)
(* killline.bpf.c); in particular a parent and a thread's process exist,   *)
(* and only processes that exist are suspended.                            *)
THEOREM RespondTypes == RSpec => []RTypeOK
<1>1. RInv => RTypeOK BY DEF RInv, Responses
<1> QED BY RespondAlways, <1>1, PTL

(* Under kl_fork, kl_exit and handle_exec, with any number of processes    *)
(* and threads, any reuse of ids and any losses in the ring, the agent is  *)
(* in sight if the seeds were complete, the map has room and no main       *)
(* thread ends before the others; whether or not Kill Line responds.       *)
THEOREM AgentStaysInSight == RSpec => []TreeIsSeen
<1>1. RInv => TreeIsSeen BY MapSays DEF RInv
<1> QED BY RespondAlways, <1>1, PTL

(* "unrelated host activity is dropped in the kernel", as long as the ids  *)
(* of threads are not reused; also while Kill Line kills processes.        *)
THEOREM HostStaysOut == RSpec => []HostStaysUntracked
<1>1. RInv => HostStaysUntracked BY MapSays DEF RInv
<1> QED BY RespondAlways, <1>1, PTL

(* The runtime-setup label (event.rs) is on processes that entered the     *)
(* container and have not made an execve, and on none else.                *)
THEOREM LabelIsTheRuntimes == RSpec => []LabelIsSetup
<1>1. RInv => LabelIsSetup BY MapSays DEF RInv
<1> QED BY RespondAlways, <1>1, PTL

(* The same three of the sensor alone (module Tracking).                   *)
THEOREM SensorTracks == Spec => [](TypeOK /\ TreeIsSeen /\ HostStaysUntracked /\ LabelIsSetup)
<1>1. MapInv => TypeOK /\ TreeIsSeen /\ HostStaysUntracked /\ LabelIsSetup BY MapSays
<1> QED BY MapAlways, <1>1, PTL

(* freeze() and terminate() of respond.rs act "twice to catch children     *)
(* created in between": a process of the agent that still runs when they   *)
(* return was forked after the second snapshot by one forked after the     *)
(* first, however many there are and however they interleave.              *)
THEOREM OnlyLateForksEscape == RSpec => []EscapeesAreLate
<1>1. RInv => EscapeesAreLate
  <2> SUFFICES ASSUME RInv PROVE EscapeesAreLate OBVIOUS
  <2>1. Escaping BY DEF RInv
  <2> QED BY <2>1 DEF Escaping, Escapee, EscapeesAreLate
<1> QED BY RespondAlways, <1>1, PTL

(* With signals, resume() of respond.rs releases whatever freeze() stopped *)
(* in either pass, but for a process of the host that was given an id of   *)
(* the snapshot.  (With the suspensions of Windows it does not: see        *)
(* EtwTwoResumesRelease of module EtwProofs.)                              *)
THEOREM ResumeUndoesFreeze == RSpec => []ResumeReleases
<1>1. RInv => ResumeReleases
  <2> SUFFICES ASSUME RInv PROVE ResumeReleases OBVIOUS
  <2>1. Releasing BY DEF RInv
  <2> QED BY <2>1 DEF Releasing, ResumeReleases
<1> QED BY RespondAlways, <1>1, PTL
=============================================================================
