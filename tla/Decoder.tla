------------------------------ MODULE Decoder ------------------------------
(***************************************************************************)
(* From a system call to an observation with its outcome, on Linux: the    *)
(* hooks of bpf/killline.bpf.c put an entry record and, when the call      *)
(* returns, a result record into a bounded ring; Sensor::poll              *)
(* (killline-sensor/src/ebpf.rs) reads them and Decoder::feed              *)
(* (decode.rs) holds each entry, by thread, until its result arrives or    *)
(* 250 ms have passed.                                                     *)
(*                                                                         *)
(* A system call is named by its number in `calls', which only the         *)
(* properties look at: the program sees thread ids and the order of the    *)
(* ring.  A record's data are abstracted to whether decode() makes an      *)
(* observation of it (`shown').                                            *)
(***************************************************************************)
EXTENDS Naturals, Sequences

CONSTANTS
  Threads, Leader,   \* the threads of a tracked process
  Container,         \* container mode: an untracked process is adopted again
  ResultsEnabled,    \* Decoder::results_enabled: the result hooks attached
  Decodes,           \* which results decode() may have: an observation or not
  RingCap, MaxPoll,  \* capacity of the ring; records read by one poll
  MaxCalls           \* bound: system calls made

ASSUME LeaderAssumption == Leader \in Threads
ASSUME ResultsAssumption ==
  ResultsEnabled \in BOOLEAN /\ Container \in BOOLEAN /\ Decodes \in SUBSET BOOLEAN
ASSUME DecoderBounds ==
  RingCap \in Nat \ {0} /\ MaxPoll \in Nat \ {0} /\ MaxCalls \in Nat

Returns == {"ok", "fail"}
Results == Returns \cup {"none"}

VARIABLES
  calls,    \* each call made: its thread and what it has returned
  active,   \* the call each thread is in, 0 in user mode
  gone,     \* threads that have ended
  tracked,  \* the process is in the `tracked' map
  ring, drops,
  held,     \* Decoder::pending: per thread, {} or the set of one entry
  out,      \* observations handed to the engine, in order
  pc, n     \* Sensor::poll: "wait", "read" or "flush"; records read

kernelVars == <<calls, active, gone, tracked>>
vars == <<kernelVars, ring, drops, held, out, pc, n>>

(* hook: the call has a result hook (has_result); opened: security_file_open *)
(* has been seen for it.                                                   *)
Calls   == [tid : Threads, hook : BOOLEAN, opened : BOOLEAN, ret : Results]
Records == [kind : {"entry", "opened", "result"}, tid : Threads, call : Nat,
            hook : BOOLEAN, shown : BOOLEAN, ret : Results]
Obs     == [call : Nat, tid : Threads, part : {"entry", "opened"},
            outcome : Results, how : {"direct", "result", "stale", "lost"}]
Entries == [call : Nat, shown : BOOLEAN, companions : Seq(Obs), old : BOOLEAN]

Init ==
  /\ calls = <<>> /\ active = [t \in Threads |-> 0] /\ gone = {}
  /\ tracked = TRUE
  /\ ring = <<>> /\ drops = 0
  /\ held = [t \in Threads |-> {}]
  /\ out = <<>> /\ pc = "wait" /\ n = 0

-----------------------------------------------------------------------------
(* The kernel: a hook says nothing of an untracked process; otherwise      *)
(* bpf_ringbuf_reserve succeeds or the drop is counted.                    *)

Reserve(r) ==
  IF ~tracked THEN UNCHANGED <<ring, drops>>
  ELSE IF Len(ring) < RingCap
  THEN ring' = Append(ring, r) /\ UNCHANGED drops
  ELSE drops' = drops + 1 /\ UNCHANGED ring

Enter(t, hook, shown) ==
  /\ t \notin gone /\ active[t] = 0 /\ Len(calls) < MaxCalls
  /\ calls' = Append(calls, [tid |-> t, hook |-> hook, opened |-> FALSE,
                             ret |-> "none"])
  /\ active' = [active EXCEPT ![t] = Len(calls) + 1]
  /\ Reserve([kind |-> "entry", tid |-> t, call |-> Len(calls) + 1,
              hook |-> hook, shown |-> shown, ret |-> "none"])
  /\ UNCHANGED <<gone, tracked, held, out, pc, n>>

(* kl_file_open, inside an open or an exec.                                *)
FileOpened(t, shown) ==
  /\ active[t] # 0 /\ ~calls[active[t]].opened
  /\ calls' = [calls EXCEPT ![active[t]].opened = TRUE]
  /\ Reserve([kind |-> "opened", tid |-> t, call |-> active[t],
              hook |-> FALSE, shown |-> shown, ret |-> "none"])
  /\ UNCHANGED <<active, gone, tracked, held, out, pc, n>>

(* The call returns in thread t, as thread `as', and emit_result runs.     *)
ReturnAs(t, as, ret) ==
  /\ calls' = [calls EXCEPT ![active[t]].ret = ret]
  /\ active' = [active EXCEPT ![t] = 0]
  /\ IF calls[active[t]].hook
     THEN Reserve([kind |-> "result", tid |-> as, call |-> active[t],
                   hook |-> FALSE, shown |-> FALSE, ret |-> ret])
     ELSE UNCHANGED <<ring, drops>>
  /\ UNCHANGED <<tracked, held, out, pc, n>>

Return(t, ret) == active[t] # 0 /\ ReturnAs(t, t, ret) /\ UNCHANGED gone

(* kl_exit: the main thread ends and the process is untracked at once,     *)
(* whatever its other threads are doing; in a container the next hook      *)
(* adopts it again.                                                        *)
LeaderExits ==
  /\ Leader \notin gone /\ active[Leader] = 0 /\ Len(calls) < MaxCalls
  /\ calls' = Append(calls, [tid |-> Leader, hook |-> FALSE, opened |-> FALSE,
                             ret |-> "none"])
  /\ Reserve([kind |-> "entry", tid |-> Leader, call |-> Len(calls) + 1,
              hook |-> FALSE, shown |-> TRUE, ret |-> "none"])
  /\ gone' = gone \cup {Leader}
  /\ tracked' = Container
  /\ UNCHANGED <<active, held, out, pc, n>>

(* A successful execve outside the main thread: the other threads have     *)
(* been ended and the caller returns under the leader's id.                *)
ExecAsLeader(t) ==
  /\ t # Leader /\ active[t] # 0 /\ Leader \in gone
  /\ \A u \in Threads \ {t} : active[u] = 0
  /\ ReturnAs(t, Leader, "ok")
  /\ gone' = Threads \ {Leader}

(* 250 ms pass: whatever is held now has been held that long.              *)
Elapse ==
  /\ held' = [t \in Threads |-> {[e EXCEPT !.old = TRUE] : e \in held[t]}]
  /\ UNCHANGED <<kernelVars, ring, drops, out, pc, n>>

-----------------------------------------------------------------------------
(* Sensor::poll and the decoder.                                           *)

Wait ==
  /\ pc = "wait"
  /\ pc' = "read" /\ n' = 0
  /\ UNCHANGED <<kernelVars, ring, drops, held, out>>

Observation(call, t, part, outcome, how) ==
  [call |-> call, tid |-> t, part |-> part, outcome |-> outcome, how |-> how]

(* Faulty: the companions go first.                                        *)
ReleasedLast(e, t, outcome, how) ==
  e.companions \o (IF e.shown
                   THEN <<Observation(e.call, t, "entry", outcome, how)>>
                   ELSE <<>>)

(* An entry is released with its companions after it.                      *)
Released(e, t, outcome, how) ==
  (IF e.shown THEN <<Observation(e.call, t, "entry", outcome, how)>>
              ELSE <<>>) \o e.companions

(* Faulty: entries are looked up by process; or get() stands for remove(). *)
FeedResultByProcess(r) ==
  /\ r.kind = "result"
  /\ \/ /\ \A t \in Threads : held[t] = {}
        /\ UNCHANGED <<held, out>>
     \/ \E t \in Threads : \E e \in held[t] :
          /\ out' = out \o Released(e, t, r.ret, "result")
          /\ held' = [held EXCEPT ![t] = {}]

FeedResultKeeps(r) ==
  /\ r.kind = "result"
  /\ \/ held[r.tid] = {} /\ UNCHANGED out
     \/ \E e \in held[r.tid] : out' = out \o Released(e, r.tid, r.ret, "result")
  /\ UNCHANGED held

(* A result: the thread's held entry, if any, is released with it.         *)
FeedResult(r) ==
  /\ r.kind = "result"
  /\ \/ /\ held[r.tid] = {}
        /\ UNCHANGED <<held, out>>
     \/ \E e \in held[r.tid] :
          /\ out' = out \o Released(e, r.tid, r.ret, "result")
          /\ held' = [held EXCEPT ![r.tid] = {}]

(* An entry with a result hook is held; one already held for the thread    *)
(* has lost its result and is released as it is.                           *)
Holds(r) == r.kind = "entry" /\ r.hook /\ ResultsEnabled

(* Faulty: a later entry is held beside the earlier one.                   *)
FeedEntryBeside(r) ==
  /\ Holds(r)
  /\ held' = [held EXCEPT ![r.tid] = @ \cup
       {[call |-> r.call, shown |-> r.shown, companions |-> <<>>,
         old |-> FALSE]}]
  /\ UNCHANGED out

FeedEntry(r) ==
  /\ Holds(r)
  /\ \/ held[r.tid] = {} /\ UNCHANGED out
     \/ \E e \in held[r.tid] : out' = out \o Released(e, r.tid, "none", "lost")
  /\ held' = [held EXCEPT ![r.tid] =
       {[call |-> r.call, shown |-> r.shown, companions |-> <<>>,
         old |-> FALSE]}]

(* A kernel-resolved open joins the entry held for its thread.             *)
Joins(r) == r.kind = "opened" /\ held[r.tid] # {}

FeedCompanion(r) ==
  /\ Joins(r)
  /\ \E e \in held[r.tid] :
       held' = [held EXCEPT ![r.tid] =
         {[e EXCEPT !.companions =
             IF r.shown
             THEN Append(e.companions,
                    Observation(r.call, r.tid, "opened", "none", "direct"))
             ELSE e.companions]}]
  /\ UNCHANGED out

FeedDirect(r) ==
  /\ r.kind # "result" /\ ~Holds(r) /\ ~Joins(r)
  /\ out' = IF r.shown
            THEN Append(out, Observation(r.call, r.tid, r.kind, "none", "direct"))
            ELSE out
  /\ UNCHANGED held

Feed ==
  /\ pc = "read" /\ n < MaxPoll /\ ring # <<>>
  /\ \/ FeedResult(Head(ring)) \/ FeedEntry(Head(ring))
     \/ FeedCompanion(Head(ring)) \/ FeedDirect(Head(ring))
  /\ ring' = Tail(ring) /\ n' = n + 1
  /\ UNCHANGED <<kernelVars, drops, pc>>

ReadDone ==
  /\ pc = "read" /\ (n >= MaxPoll \/ ring = <<>>)
  /\ pc' = "flush"
  /\ UNCHANGED <<kernelVars, ring, drops, held, out, n>>

(* Faulty: a stale entry is forgotten.                                     *)
FlushStaleForgets(t) ==
  /\ pc = "flush"
  /\ \E e \in held[t] : e.old
  /\ held' = [held EXCEPT ![t] = {}]
  /\ UNCHANGED <<kernelVars, ring, drops, out, pc, n>>

(* flush_stale, in the arbitrary order of a HashMap.                       *)
FlushStale(t) ==
  /\ pc = "flush"
  /\ \E e \in held[t] :
       /\ e.old
       /\ out' = out \o Released(e, t, "none", "stale")
  /\ held' = [held EXCEPT ![t] = {}]
  /\ UNCHANGED <<kernelVars, ring, drops, pc, n>>

FlushDone ==
  /\ pc = "flush" /\ \A t \in Threads : \A e \in held[t] : ~e.old
  /\ pc' = "wait"
  /\ UNCHANGED <<kernelVars, ring, drops, held, out, n>>

Poll == Wait \/ Feed \/ ReadDone \/ (\E t \in Threads : FlushStale(t))
        \/ FlushDone

Next ==
  \/ Poll \/ Elapse
  \/ \E t \in Threads :
       \/ \E hook \in BOOLEAN, shown \in Decodes : Enter(t, hook, shown)
       \/ \E shown \in Decodes : FileOpened(t, shown)
       \/ \E ret \in Returns : Return(t, ret)
       \/ ExecAsLeader(t)
  \/ LeaderExits

(* The monitor keeps polling and time passes; a call may block for ever.   *)
Spec == Init /\ [][Next]_vars /\ WF_vars(Poll) /\ WF_vars(Elapse)

-----------------------------------------------------------------------------
(* Type correctness; at most one entry is held for a thread, as in a       *)
(* HashMap keyed by thread id.                                             *)
TypeOK ==
  /\ calls \in Seq(Calls) /\ active \in [Threads -> 0..Len(calls)]
  /\ gone \in SUBSET Threads /\ tracked \in BOOLEAN
  /\ ring \in Seq(Records) /\ drops \in Nat
  /\ held \in [Threads -> SUBSET Entries]
  /\ \A t \in Threads : \A d, e \in held[t] : d = e
  /\ out \in Seq(Obs)
  /\ pc \in {"wait", "read", "flush"} /\ n \in Nat

(* An outcome is never another call's: as long as nothing was dropped, the *)
(* outcome an observation carries is what that very call returned.         *)
OwnOutcome(o) == o.outcome # "none" => o.outcome = calls[o.call].ret

OutcomeIsOwn == drops = 0 => \A i \in 1..Len(out) : OwnOutcome(out[i])

(* "The previous syscall's result was lost; release it as-is": an entry is *)
(* given up for a later one only if the ring really dropped something.     *)
LostOnlyByDrop == drops = 0 => \A i \in 1..Len(out) : out[i].how # "lost"

(* Nothing is observed twice, drops or not.  Without drops, observations   *)
(* of a thread come out in the order of its calls, and a call's own        *)
(* observation before the kernel's account of the same open (which         *)
(* Engine::process matches with the last open of the thread).              *)
Before(a, b) == a.call < b.call \/ (a.call = b.call /\ a.part = "entry"
                                                    /\ b.part = "opened")
ThreadOrder ==
  \A i, j \in 1..Len(out) : i < j =>
    /\ out[i].call # out[j].call \/ out[i].part # out[j].part
    /\ drops = 0 /\ out[i].tid = out[j].tid => Before(out[i], out[j])

(* An entry that reached the ring is handed on, with or without outcome,   *)
(* whether its call ever returns or not.                                   *)
AllHandedOn ==
  \A c \in 1..MaxCalls :
    (\E i \in 1..Len(ring) : ring[i].kind = "entry" /\ ring[i].call = c
                             /\ ring[i].shown)
      ~> (\E i \in 1..Len(out) : out[i].call = c /\ out[i].part = "entry")
=============================================================================
