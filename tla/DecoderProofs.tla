--------------------------- MODULE DecoderProofs ---------------------------
(***************************************************************************)
(* The decoder pairs a call with its own result, hands a thread's          *)
(* observations on in order, and none twice: for any number of threads,    *)
(* any capacity of the ring and any length of a poll.                      *)
(*                                                                         *)
(* What the program relies on is an order that no part of it states: of a  *)
(* thread, what was handed on comes before what is held, and that before   *)
(* what is in the ring; and of a hooked call, the result is in the ring    *)
(* before anything else of the thread, unless the call is still running,   *)
(* or its thread or its process can send nothing more.                     *)
(***************************************************************************)
EXTENDS Decoder, SequenceTheorems, TLAPS

(* Records and observations of thread t about call c name a call that      *)
(* t made, the current one at the latest.                                  *)
Known(cs, ac, c, t, part) ==
  /\ c \in 1..Len(cs) /\ cs[c].tid = t
  /\ part = "opened" => cs[c].opened
  /\ ac[t] # 0 => c <= ac[t]

Precedes(c, part, d, qart) ==
  c < d \/ (c = d /\ part = "entry" /\ qart = "opened")

IsResult(r, t, c) == r.kind = "result" /\ r.tid = t /\ r.call = c
IsHooked(r) == r.kind = "entry" /\ r.hook

(* The kernel's side.                                                      *)
CallsInv ==
  /\ \A t \in Threads : active[t] # 0 =>
       calls[active[t]].tid = t /\ calls[active[t]].ret = "none"
  /\ \A t \in gone : active[t] = 0
  /\ Container => tracked

(* A record is about a call of its thread, and in order.                   *)
Sound(cs, ac, q) ==
  IF q.kind = "result"
  THEN q.call \in 1..Len(cs) /\ q.ret # "none" /\ cs[q.call].ret = q.ret
  ELSE Known(cs, ac, q.call, q.tid, q.kind) /\ (IsHooked(q) => cs[q.call].hook)

Ordered(p, q) ==
  p.tid = q.tid /\ p.kind # "result" /\ q.kind # "result"
    => Precedes(p.call, p.kind, q.call, q.kind)

RingI(rg) ==
  /\ \A i \in 1..Len(rg) : Sound(calls, active, rg[i])
  /\ \A i, j \in 1..Len(rg) : i < j => Ordered(rg[i], rg[j])

(* What is held of thread t as entry e, against the calls and the ring.    *)
EntrySound(cs, ac, t, e) ==
  /\ Known(cs, ac, e.call, t, "entry") /\ cs[e.call].hook
  /\ \A k \in 1..Len(e.companions) :
       Known(cs, ac, e.companions[k].call, t, "opened")

EntryWhole(t, e) ==
  \A k \in 1..Len(e.companions) :
    /\ e.companions[k].tid = t /\ e.companions[k].part = "opened"
    /\ e.companions[k].outcome = "none" /\ e.companions[k].how = "direct"
    /\ e.call <= e.companions[k].call
    /\ \A m \in 1..Len(e.companions) :
         k < m => e.companions[k].call < e.companions[m].call

EntryBefore(e, t, q) ==
  q.tid = t /\ q.kind # "result" =>
    /\ Precedes(e.call, "entry", q.call, q.kind)
    /\ \A k \in 1..Len(e.companions) :
         Precedes(e.companions[k].call, "opened", q.call, q.kind)

(* What is held of a thread comes before what is in the ring.              *)
HeldI(rg, hd) ==
  \A t \in Threads : \A e \in hd[t] :
    /\ EntrySound(calls, active, t, e) /\ EntryWhole(t, e)
    /\ \A j \in 1..Len(rg) : EntryBefore(e, t, rg[j])

(* What was handed on comes before what is in the ring, is not what is     *)
(* held, and without drops comes before that too.                          *)
ObsBefore(o, q) ==
  q.tid = o.tid /\ q.kind # "result" => Precedes(o.call, o.part, q.call, q.kind)

ObsApart(o, e) ==
  /\ o.call # e.call \/ o.part # "entry"
  /\ \A k \in 1..Len(e.companions) :
       o.call # e.companions[k].call \/ o.part # "opened"

ObsFirst(o, e) ==
  /\ Precedes(o.call, o.part, e.call, "entry")
  /\ \A k \in 1..Len(e.companions) :
       Precedes(o.call, o.part, e.companions[k].call, "opened")

OutI(rg, hd, ou) ==
  \A i \in 1..Len(ou) :
    /\ Known(calls, active, ou[i].call, ou[i].tid, ou[i].part)
    /\ \A j \in 1..Len(rg) : ObsBefore(ou[i], rg[j])
    /\ \A t \in Threads : \A e \in hd[t] :
         /\ ObsApart(ou[i], e)
         /\ drops = 0 /\ ou[i].tid = t => ObsFirst(ou[i], e)

(* A hooked call's result is there before anything else of its thread ...  *)
PairI(rg, hd) ==
  drops = 0 =>
    /\ \A i, j \in 1..Len(rg) :
         /\ i < j /\ IsHooked(rg[i])
         /\ rg[j].tid = rg[i].tid /\ rg[j].call # rg[i].call
         => \E k \in (i + 1)..(j - 1) : IsResult(rg[k], rg[i].tid, rg[i].call)
    /\ \A t \in Threads : \A e \in hd[t] : \A j \in 1..Len(rg) :
         rg[j].tid = t /\ rg[j].call # e.call =>
           \E k \in 1..(j - 1) : IsResult(rg[k], t, e.call)

(* ... unless it is still running, or nothing more will come.              *)
Sends(tr, gn, t) == tr /\ (t = Leader \/ t \notin gn)

OpenI(rg, hd) ==
  drops = 0 =>
    /\ \A i \in 1..Len(rg) :
         IsHooked(rg[i]) /\ Sends(tracked, gone, rg[i].tid) =>
           \/ active[rg[i].tid] = rg[i].call
           \/ \E k \in (i + 1)..Len(rg) :
                IsResult(rg[k], rg[i].tid, rg[i].call)
    /\ \A t \in Threads : \A e \in hd[t] :
         Sends(tracked, gone, t) =>
           \/ active[t] = e.call
           \/ \E k \in 1..Len(rg) : IsResult(rg[k], t, e.call)

RingInv == RingI(ring)
HeldInv == HeldI(ring, held)
OutInv  == OutI(ring, held, out)
PairInv == PairI(ring, held)
OpenInv == OpenI(ring, held)

Pipeline == CallsInv /\ RingInv /\ HeldInv /\ OutInv /\ PairInv /\ OpenInv

Says == OutcomeIsOwn /\ LostOnlyByDrop /\ ThreadOrder

DInv == TypeOK /\ Pipeline /\ Says

-----------------------------------------------------------------------------
(* The kernel's steps: a call is made, goes on or returns, and one record  *)
(* of it is put into the ring, or not.                                     *)

Grown ==
  /\ Len(calls) <= Len(calls')
  /\ \A c \in 1..Len(calls) :
       /\ calls'[c].tid = calls[c].tid /\ calls'[c].hook = calls[c].hook
       /\ calls[c].opened => calls'[c].opened
       /\ calls[c].ret # "none" => calls'[c].ret = calls[c].ret
  /\ \A t \in Threads :
       active'[t] = active[t] \/ active'[t] = 0 \/ active'[t] > Len(calls)

(* The record is the newest of its thread.                                 *)
Newest(r) ==
  IF r.kind = "result"
  THEN r.call \in 1..Len(calls') /\ r.ret # "none" /\ calls'[r.call].ret = r.ret
  ELSE /\ Known(calls', active', r.call, r.tid, r.kind)
       /\ IsHooked(r) => calls'[r.call].hook /\ active'[r.tid] = r.call
       /\ \A c \in Nat, part \in {"entry", "opened"} :
            Known(calls, active, c, r.tid, part) => Precedes(c, part, r.call, r.kind)

Put(r) ==
  \/ UNCHANGED <<ring, drops>>
  \/ tracked /\ ring' = Append(ring, r) /\ UNCHANGED drops
  \/ drops' = drops + 1 /\ UNCHANGED ring

(* A call that is over has had its result put there.                       *)
Answered(r, t) ==
  Sends(tracked', gone', t) =>
    /\ Sends(tracked, gone, t)
    /\ \/ active'[t] = active[t] \/ active[t] = 0 \/ ~calls[active[t]].hook
       \/ drops' # drops
       \/ ring' = Append(ring, r) /\ IsResult(r, t, active[t])

KernelStep(r) ==
  /\ UNCHANGED <<held, out>>
  /\ r \in Records /\ Put(r) /\ Grown /\ Newest(r)
  /\ (r.tid = Leader \/ r.tid \notin gone) /\ active[r.tid] \in {0, r.call}
  /\ \A t \in Threads : Answered(r, t)

LEMMA KnownStays ==
  ASSUME TypeOK, TypeOK', Grown, NEW t \in Threads, NEW c \in Nat, NEW part, Known(calls, active, c, t, part)
  PROVE  Known(calls', active', c, t, part)
<1>1. Len(calls) \in Nat /\ Len(calls') \in Nat /\ Len(calls') >= Len(calls)
      /\ active[t] \in Nat /\ active'[t] \in Nat
  <2>1. calls \in Seq(Calls) /\ active \in [Threads -> 0..Len(calls)]
    BY Zenon DEF TypeOK
  <2>2. calls' \in Seq(Calls) /\ active' \in [Threads -> 0..Len(calls')]
    BY Zenon DEF TypeOK
  <2> QED BY <2>1, <2>2 DEF Grown
<1> QED BY <1>1 DEF Known, Grown

(* The types a proof about the ring starts from.                           *)
LEMMA RingTypes ==
  ASSUME TypeOK
  PROVE  /\ calls \in Seq(Calls) /\ Len(calls) \in Nat
         /\ active \in [Threads -> Nat]
         /\ ring \in Seq(Records) /\ Len(ring) \in Nat
         /\ \A i \in 1..Len(ring) :
              /\ ring[i] \in Records /\ ring[i].tid \in Threads /\ ring[i].call \in Nat
              /\ ring[i].kind \in {"entry", "opened", "result"}
         /\ out \in Seq(Obs) /\ Len(out) \in Nat
         /\ \A i \in 1..Len(out) :
              /\ out[i] \in Obs /\ out[i].tid \in Threads /\ out[i].call \in Nat
              /\ out[i].part \in {"entry", "opened"}
         /\ \A t \in Threads : \A e \in held[t] :
              /\ e \in Entries /\ e.call \in Nat
              /\ e.companions \in Seq(Obs) /\ Len(e.companions) \in Nat
              /\ \A k \in 1..Len(e.companions) :
                   e.companions[k] \in Obs /\ e.companions[k].call \in Nat
         /\ drops \in Nat
<1>1. calls \in Seq(Calls) /\ Len(calls) \in Nat BY DEF TypeOK
<1>2. active \in [Threads -> Nat] BY <1>1 DEF TypeOK
<1>3. ring \in Seq(Records) /\ out \in Seq(Obs) /\ drops \in Nat BY DEF TypeOK
<1>4. Len(ring) \in Nat /\ Len(out) \in Nat BY <1>3
<1>5. \A i \in 1..Len(ring) : ring[i] \in Records BY <1>3, ElementOfSeq
<1>6. \A i \in 1..Len(ring) :
        /\ ring[i].tid \in Threads /\ ring[i].call \in Nat
        /\ ring[i].kind \in {"entry", "opened", "result"}
  BY <1>5 DEF Records
<1>7. \A i \in 1..Len(out) : out[i] \in Obs BY <1>3, ElementOfSeq
<1>8. \A i \in 1..Len(out) :
        /\ out[i].tid \in Threads /\ out[i].call \in Nat
        /\ out[i].part \in {"entry", "opened"}
  BY <1>7 DEF Obs
<1>9. ASSUME NEW t \in Threads, NEW e \in held[t]
      PROVE  /\ e \in Entries /\ e.call \in Nat
             /\ e.companions \in Seq(Obs) /\ Len(e.companions) \in Nat
             /\ \A k \in 1..Len(e.companions) :
                  e.companions[k] \in Obs /\ e.companions[k].call \in Nat
  <2>1. e \in Entries BY <1>9 DEF TypeOK
  <2>2. e.call \in Nat /\ e.companions \in Seq(Obs) BY <2>1 DEF Entries
  <2>3. Len(e.companions) \in Nat BY <2>2
  <2>4. \A k \in 1..Len(e.companions) : e.companions[k] \in Obs BY <2>2, ElementOfSeq
  <2> QED BY <2>1, <2>2, <2>3, <2>4 DEF Obs
<1> QED BY <1>1, <1>2, <1>3, <1>4, <1>5, <1>6, <1>7, <1>8, <1>9

(* The ring after the step is the old one, or has r at its end.            *)
LEMMA PutIs ==
  ASSUME TypeOK, NEW r \in Records, Put(r)
  PROVE  \/ ring' = ring
         \/ /\ tracked /\ drops' = drops /\ ring' = Append(ring, r)
            /\ Len(ring') = Len(ring) + 1
            /\ \A i \in 1..Len(ring) : ring'[i] = ring[i]
            /\ ring'[Len(ring) + 1] = r
<1>1. ring \in Seq(Records) BY DEF TypeOK
<1> QED BY <1>1, AppendProperties DEF Put

(* Drops are counted, never forgotten.                                     *)
LEMMA PutDrops ==
  ASSUME TypeOK, NEW r \in Records, Put(r), drops' = 0
  PROVE  drops = 0
BY DEF Put, TypeOK

LEMMA CallsGrow ==
  ASSUME TypeOK, TypeOK', Grown
  PROVE  Len(calls) \in Nat /\ Len(calls') \in Nat /\ Len(calls) <= Len(calls')
<1>1. calls \in Seq(Calls) BY Zenon DEF TypeOK
<1>2. calls' \in Seq(Calls) BY Zenon DEF TypeOK
<1> QED BY <1>1, <1>2 DEF Grown

LEMMA KernelRing ==
  ASSUME TypeOK, TypeOK', RingInv, NEW r, KernelStep(r)
  PROVE  RingInv'
<1>1. r \in Records /\ Put(r) /\ Grown /\ Newest(r) BY DEF KernelStep
<1>2. /\ Len(ring) \in Nat
      /\ \A i \in 1..Len(ring) :
           /\ ring[i].tid \in Threads /\ ring[i].call \in Nat
           /\ ring[i].kind \in {"entry", "opened", "result"}
  BY RingTypes
<1>3. Len(calls) \in Nat /\ Len(calls') \in Nat /\ Len(calls) <= Len(calls')
  BY <1>1, CallsGrow
<1>4. ASSUME NEW i \in 1..Len(ring) PROVE Sound(calls', active', ring[i])
  <2>1. Sound(calls, active, ring[i]) BY DEF RingInv, RingI
  <2>2. CASE ring[i].kind = "result" BY <1>1, <1>3, <2>1, <2>2 DEF Sound, Grown
  <2>3. CASE ring[i].kind # "result"
    <3>1. Known(calls, active, ring[i].call, ring[i].tid, ring[i].kind)
      BY <2>1, <2>3 DEF Sound
    <3>2. Known(calls', active', ring[i].call, ring[i].tid, ring[i].kind)
      BY <1>1, <1>2, <3>1, KnownStays
    <3>3. IsHooked(ring[i]) => calls'[ring[i].call].hook
      BY <1>1, <2>1, <2>3, <3>1 DEF Sound, Known, Grown
    <3> QED BY <2>3, <3>2, <3>3 DEF Sound
  <2> QED BY <2>2, <2>3
<1>5. CASE ring' = ring BY <1>4, <1>5 DEF RingInv, RingI
<1>6. CASE /\ Len(ring') = Len(ring) + 1
           /\ \A i \in 1..Len(ring) : ring'[i] = ring[i]
           /\ ring'[Len(ring) + 1] = r
  <2>1. Sound(calls', active', r) BY <1>1 DEF Newest, Sound
  <2>2. ASSUME NEW i \in 1..Len(ring) PROVE Ordered(ring[i], r)
    <3> SUFFICES ASSUME ring[i].tid = r.tid, ring[i].kind # "result", r.kind # "result"
                 PROVE  Precedes(ring[i].call, ring[i].kind, r.call, r.kind)
      BY DEF Ordered
    <3>1. Known(calls, active, ring[i].call, r.tid, ring[i].kind)
      BY DEF RingInv, RingI, Sound
    <3>2. ring[i].call \in Nat /\ ring[i].kind \in {"entry", "opened"} BY <1>2
    <3> QED BY <1>1, <3>1, <3>2 DEF Newest
  <2>3. \A i \in 1..Len(ring') : i \in 1..Len(ring) \/ (i = Len(ring) + 1)
    BY <1>2, <1>6
  <2>4. \A i \in 1..Len(ring') : Sound(calls', active', ring'[i])
    BY <1>4, <1>6, <2>1, <2>3
  <2>5. ASSUME NEW i \in 1..Len(ring'), NEW j \in 1..Len(ring'), i < j
        PROVE  Ordered(ring'[i], ring'[j])
    <3>1. i \in 1..Len(ring) BY <1>2, <1>6, <2>5
    <3>2. CASE j \in 1..Len(ring) BY <1>6, <2>5, <3>1, <3>2 DEF RingInv, RingI
    <3>3. CASE j = Len(ring) + 1 BY <1>6, <2>2, <3>1, <3>3
    <3> QED BY <2>3, <3>2, <3>3
  <2> QED BY <2>4, <2>5 DEF RingInv, RingI
<1> QED BY <1>1, <1>5, <1>6, PutIs

LEMMA EntryStaysSound ==
  ASSUME TypeOK, TypeOK', Grown, NEW t \in Threads, NEW e \in held[t],
         EntrySound(calls, active, t, e)
  PROVE  EntrySound(calls', active', t, e)
<1>1. /\ e.call \in Nat
      /\ \A k \in 1..Len(e.companions) : e.companions[k].call \in Nat
  BY RingTypes
<1>2. Known(calls', active', e.call, t, "entry")
  BY <1>1, KnownStays DEF EntrySound
<1>3. calls'[e.call].hook BY DEF EntrySound, Known, Grown
<1>4. \A k \in 1..Len(e.companions) :
        Known(calls', active', e.companions[k].call, t, "opened")
  BY <1>1, KnownStays DEF EntrySound
<1> QED BY <1>2, <1>3, <1>4 DEF EntrySound

LEMMA KernelHeld ==
  ASSUME TypeOK, TypeOK', HeldInv, NEW r, KernelStep(r)
  PROVE  HeldInv'
<1>1. r \in Records /\ Put(r) /\ Grown /\ Newest(r) /\ held' = held
  BY DEF KernelStep
<1> SUFFICES ASSUME NEW t \in Threads, NEW e \in held[t]
             PROVE  /\ EntrySound(calls', active', t, e) /\ EntryWhole(t, e)
                    /\ \A j \in 1..Len(ring') : EntryBefore(e, t, ring'[j])
  BY <1>1 DEF HeldInv, HeldI
<1>2. /\ EntrySound(calls, active, t, e) /\ EntryWhole(t, e)
      /\ \A j \in 1..Len(ring) : EntryBefore(e, t, ring[j])
  BY DEF HeldInv, HeldI
<1>3. EntrySound(calls', active', t, e) BY <1>1, <1>2, EntryStaysSound
<1>4. EntryBefore(e, t, r)
  <2> SUFFICES ASSUME r.tid = t, r.kind # "result"
               PROVE  /\ Precedes(e.call, "entry", r.call, r.kind)
                      /\ \A k \in 1..Len(e.companions) :
                           Precedes(e.companions[k].call, "opened", r.call, r.kind)
    BY DEF EntryBefore
  <2>1. /\ e.call \in Nat
        /\ \A k \in 1..Len(e.companions) : e.companions[k].call \in Nat
    BY RingTypes
  <2>2. \A c \in Nat, part \in {"entry", "opened"} :
          Known(calls, active, c, t, part) => Precedes(c, part, r.call, r.kind)
    BY <1>1 DEF Newest
  <2> QED BY <1>2, <2>1, <2>2 DEF EntrySound
<1>5. Len(ring) \in Nat BY RingTypes
<1> QED BY <1>1, <1>2, <1>3, <1>4, <1>5, PutIs

LEMMA KernelOut ==
  ASSUME TypeOK, TypeOK', OutInv, NEW r, KernelStep(r)
  PROVE  OutInv'
<1>1. r \in Records /\ Put(r) /\ Grown /\ Newest(r) /\ held' = held /\ out' = out
  BY DEF KernelStep
<1> SUFFICES ASSUME NEW i \in 1..Len(out)
             PROVE  /\ Known(calls', active', out[i].call, out[i].tid, out[i].part)
                    /\ \A j \in 1..Len(ring') : ObsBefore(out[i], ring'[j])
                    /\ \A t \in Threads : \A e \in held[t] :
                         /\ ObsApart(out[i], e)
                         /\ drops' = 0 /\ out[i].tid = t => ObsFirst(out[i], e)
  BY <1>1 DEF OutInv, OutI
<1>2. /\ Known(calls, active, out[i].call, out[i].tid, out[i].part)
      /\ \A j \in 1..Len(ring) : ObsBefore(out[i], ring[j])
      /\ \A t \in Threads : \A e \in held[t] :
           /\ ObsApart(out[i], e)
           /\ drops = 0 /\ out[i].tid = t => ObsFirst(out[i], e)
  BY DEF OutInv, OutI
<1>3. /\ out[i].tid \in Threads /\ out[i].call \in Nat
      /\ out[i].part \in {"entry", "opened"} /\ Len(ring) \in Nat
  BY RingTypes
<1>4. Known(calls', active', out[i].call, out[i].tid, out[i].part)
  BY <1>1, <1>2, <1>3, KnownStays
<1>5. ObsBefore(out[i], r) BY <1>1, <1>2, <1>3 DEF ObsBefore, Newest
<1>6. ASSUME NEW j \in 1..Len(ring') PROVE ObsBefore(out[i], ring'[j])
  <2>1. CASE ring' = ring BY <1>2, <2>1
  <2>2. CASE /\ Len(ring') = Len(ring) + 1
             /\ \A k \in 1..Len(ring) : ring'[k] = ring[k]
             /\ ring'[Len(ring) + 1] = r
    <3>1. CASE j = Len(ring) + 1 BY <1>5, <2>2, <3>1
    <3>2. CASE j \in 1..Len(ring) BY <1>2, <2>2, <3>2
    <3> QED BY <1>3, <2>2, <3>1, <3>2
  <2> QED BY <1>1, <2>1, <2>2, PutIs
<1>7. drops' = 0 => drops = 0 BY <1>1, PutDrops
<1> QED BY <1>2, <1>4, <1>6, <1>7

(* What comes next of a thread finds its hooked calls over.                *)
LEMMA KernelPair ==
  ASSUME TypeOK, RingInv, HeldInv, PairInv, OpenInv, NEW r, KernelStep(r)
  PROVE  PairInv'
<1>1. /\ r \in Records /\ Put(r) /\ held' = held
      /\ r.tid = Leader \/ r.tid \notin gone
      /\ active[r.tid] \in {0, r.call}
  BY DEF KernelStep
<1> SUFFICES ASSUME drops' = 0
             PROVE  /\ \A i, j \in 1..Len(ring') :
                         /\ i < j /\ IsHooked(ring'[i])
                         /\ ring'[j].tid = ring'[i].tid /\ ring'[j].call # ring'[i].call
                         => \E k \in (i + 1)..(j - 1) :
                              IsResult(ring'[k], ring'[i].tid, ring'[i].call)
                    /\ \A t \in Threads : \A e \in held[t] : \A j \in 1..Len(ring') :
                         ring'[j].tid = t /\ ring'[j].call # e.call =>
                           \E k \in 1..(j - 1) : IsResult(ring'[k], t, e.call)
  BY <1>1 DEF PairInv, PairI
<1>2. drops = 0 BY <1>1, PutDrops
<1>3. /\ \A i, j \in 1..Len(ring) :
           /\ i < j /\ IsHooked(ring[i])
           /\ ring[j].tid = ring[i].tid /\ ring[j].call # ring[i].call
           => \E k \in (i + 1)..(j - 1) : IsResult(ring[k], ring[i].tid, ring[i].call)
      /\ \A t \in Threads : \A e \in held[t] : \A j \in 1..Len(ring) :
           ring[j].tid = t /\ ring[j].call # e.call =>
             \E k \in 1..(j - 1) : IsResult(ring[k], t, e.call)
  BY <1>2 DEF PairInv, PairI
<1>4. CASE ring' = ring BY <1>3, <1>4
<1>5. CASE /\ tracked /\ Len(ring') = Len(ring) + 1
           /\ \A i \in 1..Len(ring) : ring'[i] = ring[i]
           /\ ring'[Len(ring) + 1] = r
  <2>1. Len(ring) \in Nat /\ \A i \in 1..Len(ring) : ring[i].tid \in Threads
    BY RingTypes
  <2>2. Sends(tracked, gone, r.tid) BY <1>1, <1>5 DEF Sends
  <2>3. ASSUME NEW i \in 1..Len(ring'), NEW j \in 1..Len(ring'), i < j,
               IsHooked(ring'[i]), ring'[j].tid = ring'[i].tid,
               ring'[j].call # ring'[i].call
        PROVE  \E k \in (i + 1)..(j - 1) :
                 IsResult(ring'[k], ring'[i].tid, ring'[i].call)
    <3>1. i \in 1..Len(ring) /\ ring'[i] = ring[i] BY <1>5, <2>1, <2>3
    <3>2. CASE j \in 1..Len(ring)
      <4>1. PICK k \in (i + 1)..(j - 1) : IsResult(ring[k], ring[i].tid, ring[i].call)
        BY <1>3, <1>5, <2>3, <3>1, <3>2
      <4>2. k \in 1..Len(ring) BY <2>1, <3>1, <3>2
      <4> QED BY <1>5, <3>1, <4>1, <4>2
    <3>3. CASE j = Len(ring) + 1
      <4>1. /\ ring'[j] = r /\ r.tid = ring[i].tid /\ r.call # ring[i].call
            /\ IsHooked(ring[i])
        BY <1>5, <2>3, <3>1, <3>3
      <4>2. Known(calls, active, ring[i].call, ring[i].tid, ring[i].kind)
        BY <3>1, <4>1 DEF RingInv, RingI, Sound, IsHooked
      <4>3. active[ring[i].tid] # ring[i].call BY <1>1, <4>1, <4>2 DEF Known
      <4>4. PICK k \in (i + 1)..Len(ring) : IsResult(ring[k], ring[i].tid, ring[i].call)
        BY <1>2, <2>2, <3>1, <4>1, <4>3 DEF OpenInv, OpenI
      <4>5. k \in (i + 1)..(j - 1) /\ k \in 1..Len(ring) BY <2>1, <3>1, <3>3
      <4> QED BY <1>5, <3>1, <4>4, <4>5
    <3> QED BY <1>5, <2>1, <3>2, <3>3
  <2>4. ASSUME NEW t \in Threads, NEW e \in held[t], NEW j \in 1..Len(ring'),
               ring'[j].tid = t, ring'[j].call # e.call
        PROVE  \E k \in 1..(j - 1) : IsResult(ring'[k], t, e.call)
    <3>1. CASE j \in 1..Len(ring)
      <4>1. PICK k \in 1..(j - 1) : IsResult(ring[k], t, e.call)
        BY <1>3, <1>5, <2>4, <3>1
      <4>2. k \in 1..Len(ring) BY <2>1, <3>1
      <4> QED BY <1>5, <4>1, <4>2
    <3>2. CASE j = Len(ring) + 1
      <4>1. r.tid = t /\ r.call # e.call BY <1>5, <2>4, <3>2
      <4>2. Known(calls, active, e.call, t, "entry") BY DEF HeldInv, HeldI, EntrySound
      <4>3. active[t] # e.call BY <1>1, <4>1, <4>2 DEF Known
      <4>4. PICK k \in 1..Len(ring) : IsResult(ring[k], t, e.call)
        BY <1>2, <2>2, <4>1, <4>3 DEF OpenInv, OpenI
      <4> QED BY <1>5, <2>1, <3>2, <4>4
    <3> QED BY <1>5, <2>1, <3>1, <3>2
  <2> QED BY <2>3, <2>4
<1> QED BY <1>1, <1>4, <1>5, PutIs

LEMMA KernelOpen ==
  ASSUME TypeOK, RingInv, HeldInv, OpenInv, NEW r, KernelStep(r)
  PROVE  OpenInv'
<1>1. /\ r \in Records /\ Put(r) /\ held' = held /\ Newest(r)
      /\ \A t \in Threads : Answered(r, t)
  BY DEF KernelStep
<1> SUFFICES ASSUME drops' = 0
             PROVE  /\ \A i \in 1..Len(ring') :
                         IsHooked(ring'[i]) /\ Sends(tracked', gone', ring'[i].tid) =>
                           \/ active'[ring'[i].tid] = ring'[i].call
                           \/ \E k \in (i + 1)..Len(ring') :
                                IsResult(ring'[k], ring'[i].tid, ring'[i].call)
                    /\ \A t \in Threads : \A e \in held[t] :
                         Sends(tracked', gone', t) =>
                           \/ active'[t] = e.call
                           \/ \E k \in 1..Len(ring') : IsResult(ring'[k], t, e.call)
  BY <1>1 DEF OpenInv, OpenI
<1>2. drops = 0 BY <1>1, PutDrops
<1>3. Len(ring) \in Nat /\ \A i \in 1..Len(ring) : ring[i].tid \in Threads
  BY RingTypes
<1>4. \/ ring' = ring
      \/ /\ ring' = Append(ring, r) /\ Len(ring') = Len(ring) + 1
         /\ \A i \in 1..Len(ring) : ring'[i] = ring[i]
         /\ ring'[Len(ring) + 1] = r
  BY <1>1, PutIs
<1>5. Len(ring') \in Nat /\ Len(ring') >= Len(ring)
      /\ \A i \in 1..Len(ring) : ring'[i] = ring[i]
  BY <1>3, <1>4
<1>6. ring' = Append(ring, r) => Len(ring') = Len(ring) + 1 /\ ring'[Len(ring) + 1] = r
  <2>1. ring \in Seq(Records) BY DEF TypeOK
  <2> QED BY <1>1, <2>1, AppendProperties
<1>7. ASSUME NEW i \in 1..Len(ring), IsHooked(ring[i]),
             Sends(tracked', gone', ring[i].tid)
      PROVE  \/ active'[ring[i].tid] = ring[i].call
             \/ \E k \in (i + 1)..Len(ring') :
                  IsResult(ring'[k], ring[i].tid, ring[i].call)
  <2> DEFINE t == ring[i].tid
  <2>1. t \in Threads BY <1>3
  <2>2. Known(calls, active, ring[i].call, t, ring[i].kind) /\ calls[ring[i].call].hook
    BY <1>7 DEF RingInv, RingI, Sound, IsHooked
  <2>3. Sends(tracked, gone, t) BY <1>1, <1>7, <2>1 DEF Answered
  <2>4. CASE \E k \in (i + 1)..Len(ring) : IsResult(ring[k], t, ring[i].call)
    <3>1. PICK k \in (i + 1)..Len(ring) : IsResult(ring[k], t, ring[i].call) BY <2>4
    <3>2. k \in (i + 1)..Len(ring') /\ k \in 1..Len(ring) BY <1>3, <1>5
    <3> QED BY <1>5, <3>1, <3>2
  <2>5. CASE active[t] = ring[i].call
    <3>1. active[t] # 0 /\ calls[active[t]].hook BY <2>2, <2>5 DEF Known
    <3>2. CASE active'[t] = active[t] BY <2>5, <3>2
    <3>3. CASE ring' = Append(ring, r) /\ IsResult(r, t, active[t])
      <4>1. Len(ring) + 1 \in (i + 1)..Len(ring') BY <1>3, <1>6, <3>3
      <4> QED BY <1>6, <2>5, <3>3, <4>1
    <3> QED BY <1>1, <1>2, <1>7, <2>1, <3>1, <3>2, <3>3 DEF Answered
  <2> QED BY <1>2, <1>7, <2>3, <2>4, <2>5 DEF OpenInv, OpenI
<1>8. ASSUME NEW i \in 1..Len(ring'), IsHooked(ring'[i]),
             Sends(tracked', gone', ring'[i].tid)
      PROVE  \/ active'[ring'[i].tid] = ring'[i].call
             \/ \E k \in (i + 1)..Len(ring') :
                  IsResult(ring'[k], ring'[i].tid, ring'[i].call)
  <2>1. CASE i \in 1..Len(ring)
    <3>1. ring'[i] = ring[i] BY <1>5, <2>1
    <3> QED BY <1>7, <1>8, <2>1, <3>1
  <2>2. CASE i \notin 1..Len(ring)
    <3>1. ring'[i] = r BY <1>3, <1>4, <2>2
    <3> QED BY <1>1, <1>8, <3>1 DEF Newest, IsHooked
  <2> QED BY <2>1, <2>2
<1>9. ASSUME NEW t \in Threads, NEW e \in held[t], Sends(tracked', gone', t)
      PROVE  \/ active'[t] = e.call
             \/ \E k \in 1..Len(ring') : IsResult(ring'[k], t, e.call)
  <2>1. Known(calls, active, e.call, t, "entry") /\ calls[e.call].hook
    BY DEF HeldInv, HeldI, EntrySound
  <2>2. Sends(tracked, gone, t) BY <1>1, <1>9 DEF Answered
  <2>3. CASE \E k \in 1..Len(ring) : IsResult(ring[k], t, e.call)
    <3>1. PICK k \in 1..Len(ring) : IsResult(ring[k], t, e.call) BY <2>3
    <3>2. k \in 1..Len(ring') BY <1>3, <1>5
    <3> QED BY <1>5, <3>1, <3>2
  <2>4. CASE active[t] = e.call
    <3>1. active[t] # 0 /\ calls[active[t]].hook BY <2>1, <2>4 DEF Known
    <3>2. CASE active'[t] = active[t] BY <2>4, <3>2
    <3>3. CASE ring' = Append(ring, r) /\ IsResult(r, t, active[t])
      <4>1. Len(ring) + 1 \in 1..Len(ring') BY <1>3, <1>6, <3>3
      <4> QED BY <1>6, <2>4, <3>3, <4>1
    <3> QED BY <1>1, <1>2, <1>9, <3>1, <3>2, <3>3 DEF Answered
  <2> QED BY <1>2, <2>2, <2>3, <2>4 DEF OpenInv, OpenI
<1> QED BY <1>8, <1>9

LEMMA KernelSays ==
  ASSUME TypeOK, TypeOK', Pipeline, Says, CallsInv', NEW r, KernelStep(r)
  PROVE  Pipeline' /\ Says'
<1>1. r \in Records /\ Put(r) /\ Grown /\ out' = out BY DEF KernelStep
<1>2. drops' = 0 => drops = 0 BY <1>1, PutDrops
<1>3. OutcomeIsOwn'
  <2> SUFFICES ASSUME drops = 0, NEW i \in 1..Len(out), out[i].outcome # "none"
               PROVE  out[i].outcome = calls'[out[i].call].ret
    BY <1>1, <1>2 DEF OutcomeIsOwn, OwnOutcome
  <2>1. out[i].outcome = calls[out[i].call].ret BY DEF Says, OutcomeIsOwn, OwnOutcome
  <2>2. out[i].call \in 1..Len(calls) BY DEF Pipeline, OutInv, OutI, Known
  <2> QED BY <1>1, <2>1, <2>2 DEF Grown
<1>4. LostOnlyByDrop' BY <1>1, <1>2 DEF Says, LostOnlyByDrop
<1>5. ThreadOrder' BY <1>1, <1>2 DEF Says, ThreadOrder
<1> QED BY <1>3, <1>4, <1>5, KernelRing, KernelHeld, KernelOut, KernelPair, KernelOpen
        DEF Says, Pipeline

LEMMA KernelTypes ==
  ASSUME TypeOK, calls' \in Seq(Calls), active' \in [Threads -> 0..Len(calls')],
         gone' \in SUBSET Threads, tracked' \in BOOLEAN,
         NEW r \in Records, Put(r), UNCHANGED <<held, out, pc, n>>
  PROVE  TypeOK'
<1>1. ring \in Seq(Records) /\ drops \in Nat BY DEF TypeOK
<1>2. ring' \in Seq(Records) /\ drops' \in Nat
  <2>1. Append(ring, r) \in Seq(Records) BY <1>1, AppendProperties
  <2>2. ring' = ring \/ ring' = Append(ring, r) BY DEF Put
  <2>3. drops' = drops \/ drops' = drops + 1 BY DEF Put
  <2>4. ring' \in Seq(Records) BY <1>1, <2>1, <2>2, Zenon
  <2>5. drops' \in Nat BY <1>1, <2>3
  <2> QED BY <2>4, <2>5
<1>3. /\ held' \in [Threads -> SUBSET Entries]
      /\ \A t \in Threads : \A d, e \in held'[t] : d = e
      /\ out' \in Seq(Obs)
      /\ pc' \in {"wait", "read", "flush"} /\ n' \in Nat
  BY DEF TypeOK
<1> QED BY <1>2, <1>3 DEF TypeOK

LEMMA ReservePuts ==
  ASSUME NEW r, Reserve(r)
  PROVE  Put(r) /\ (tracked => drops' # drops \/ ring' = Append(ring, r) \/ ~(drops \in Nat))
BY DEF Reserve, Put

(* A call's fields, one of them changed.                                   *)
LEMMA CallOpened ==
  ASSUME TypeOK, NEW a \in 1..Len(calls), calls' = [calls EXCEPT ![a].opened = TRUE]
  PROVE  /\ calls' \in Seq(Calls) /\ Len(calls') = Len(calls)
         /\ \A c \in 1..Len(calls) :
              /\ calls'[c].tid = calls[c].tid /\ calls'[c].hook = calls[c].hook
              /\ calls'[c].ret = calls[c].ret
              /\ calls[c].opened \/ c = a => calls'[c].opened
<1> DEFINE x == [calls[a] EXCEPT !.opened = TRUE]
<1>1. calls \in Seq(Calls) /\ calls[a] \in Calls
  <2>1. calls \in Seq(Calls) BY DEF TypeOK
  <2> QED BY <2>1, ElementOfSeq
<1>2. /\ x \in Calls /\ x.tid = calls[a].tid /\ x.hook = calls[a].hook
      /\ x.ret = calls[a].ret /\ x.opened
  BY <1>1 DEF Calls
<1>3. calls' = [calls EXCEPT ![a] = x] OBVIOUS
<1> HIDE DEF x
<1>4. /\ calls' \in Seq(Calls) /\ Len(calls') = Len(calls)
      /\ \A c \in 1..Len(calls) : calls'[c] = IF c = a THEN x ELSE calls[c]
  <2>1. /\ [calls EXCEPT ![a] = x] \in Seq(Calls)
        /\ Len([calls EXCEPT ![a] = x]) = Len(calls)
        /\ \A c \in 1..Len(calls) :
             [calls EXCEPT ![a] = x][c] = IF c = a THEN x ELSE calls[c]
    BY <1>1, <1>2, ExceptSeq
  <2> QED BY <1>3, <2>1, Zenon
<1> QED BY <1>2, <1>4

LEMMA CallReturned ==
  ASSUME TypeOK, NEW a \in 1..Len(calls), NEW v \in Returns,
         calls' = [calls EXCEPT ![a].ret = v]
  PROVE  /\ calls' \in Seq(Calls) /\ Len(calls') = Len(calls)
         /\ \A c \in 1..Len(calls) :
              /\ calls'[c].tid = calls[c].tid /\ calls'[c].hook = calls[c].hook
              /\ calls'[c].ret = IF c = a THEN v ELSE calls[c].ret
              /\ calls'[c].opened = calls[c].opened
<1> DEFINE x == [calls[a] EXCEPT !.ret = v]
<1>1. calls \in Seq(Calls) /\ calls[a] \in Calls
  <2>1. calls \in Seq(Calls) BY DEF TypeOK
  <2> QED BY <2>1, ElementOfSeq
<1>2. /\ x \in Calls /\ x.tid = calls[a].tid /\ x.hook = calls[a].hook
      /\ x.ret = v /\ x.opened = calls[a].opened
  BY <1>1 DEF Calls, Results
<1>3. calls' = [calls EXCEPT ![a] = x] OBVIOUS
<1> HIDE DEF x
<1>4. /\ calls' \in Seq(Calls) /\ Len(calls') = Len(calls)
      /\ \A c \in 1..Len(calls) : calls'[c] = IF c = a THEN x ELSE calls[c]
  <2>1. /\ [calls EXCEPT ![a] = x] \in Seq(Calls)
        /\ Len([calls EXCEPT ![a] = x]) = Len(calls)
        /\ \A c \in 1..Len(calls) :
             [calls EXCEPT ![a] = x][c] = IF c = a THEN x ELSE calls[c]
    BY <1>1, <1>2, ExceptSeq
  <2> QED BY <1>3, <2>1, Zenon
<1> QED BY <1>2, <1>4

LEMMA CallMade ==
  ASSUME TypeOK, NEW t \in Threads, NEW hook \in BOOLEAN,
         calls' = Append(calls, [tid |-> t, hook |-> hook, opened |-> FALSE,
                                 ret |-> "none"])
  PROVE  /\ calls' \in Seq(Calls) /\ Len(calls') = Len(calls) + 1 /\ Len(calls) \in Nat
         /\ \A c \in 1..Len(calls) : calls'[c] = calls[c]
         /\ calls'[Len(calls) + 1].tid = t /\ calls'[Len(calls) + 1].hook = hook
         /\ calls'[Len(calls) + 1].ret = "none"
<1> DEFINE x == [tid |-> t, hook |-> hook, opened |-> FALSE, ret |-> "none"]
<1>1. x \in Calls /\ x.tid = t /\ x.hook = hook /\ x.ret = "none"
  BY DEF Calls, Results
<1>2. calls \in Seq(Calls) BY DEF TypeOK
<1>3. calls' = Append(calls, x) OBVIOUS
<1> HIDE DEF x
<1> QED BY <1>1, <1>2, <1>3, AppendProperties

(* A call made in t, and its entry record; of a running thread or, without *)
(* a result hook, of the leader that ends.                                 *)
LEMMA EnterSteps ==
  ASSUME TypeOK, CallsInv, NEW t \in Threads, NEW hook \in BOOLEAN, NEW shown \in Decodes,
         Enter(t, hook, shown)
  PROVE  TypeOK' /\ CallsInv' /\ \E r : KernelStep(r)
<1> DEFINE c == Len(calls) + 1
           r == [kind |-> "entry", tid |-> t, call |-> c,
                 hook |-> hook, shown |-> shown, ret |-> "none"]
<1>1. /\ t \notin gone /\ active[t] = 0
      /\ calls' = Append(calls, [tid |-> t, hook |-> hook, opened |-> FALSE,
                                 ret |-> "none"])
      /\ active' = [active EXCEPT ![t] = c] /\ Reserve(r)
      /\ UNCHANGED <<gone, tracked, held, out, pc, n>>
  BY DEF Enter
<1>2. /\ calls' \in Seq(Calls) /\ Len(calls') = c /\ Len(calls) \in Nat
      /\ \A d \in 1..Len(calls) : calls'[d] = calls[d]
      /\ calls'[c].tid = t /\ calls'[c].hook = hook /\ calls'[c].ret = "none"
  BY <1>1, CallMade
<1>3. /\ active \in [Threads -> 0..Len(calls)] /\ gone \in SUBSET Threads
      /\ tracked \in BOOLEAN /\ drops \in Nat
  BY DEF TypeOK
<1>4. /\ r \in Records /\ r.kind = "entry" /\ r.tid = t /\ r.call = c /\ r.hook = hook
  BY <1>2, ResultsAssumption DEF Records, Results
<1>5. Put(r) BY <1>1, ReservePuts
<1>6. c \in Nat /\ c = Len(calls) + 1 BY <1>2
<1> HIDE DEF c, r
<1>7. /\ active' \in [Threads -> 0..Len(calls')] /\ active'[t] = c
      /\ \A u \in Threads : u # t => active'[u] = active[u]
  BY <1>1, <1>2, <1>3, <1>6
<1>8. TypeOK' BY <1>1, <1>2, <1>3, <1>4, <1>5, <1>7, KernelTypes
<1>9. CallsInv'
  <2>1. \A u \in Threads : active'[u] # 0 =>
          calls'[active'[u]].tid = u /\ calls'[active'[u]].ret = "none"
    BY <1>2, <1>3, <1>7 DEF CallsInv
  <2> QED BY <1>1, <1>3, <1>7, <2>1 DEF CallsInv
<1>10. Grown BY <1>2, <1>6, <1>7 DEF Grown
<1>11. Newest(r)
  <2>1. Known(calls', active', c, t, "entry") BY <1>2, <1>6, <1>7 DEF Known
  <2>2. \A d \in Nat, part \in {"entry", "opened"} :
          Known(calls, active, d, t, part) => Precedes(d, part, c, "entry")
    BY <1>2, <1>6 DEF Known, Precedes
  <2> QED BY <1>2, <1>4, <1>7, <2>1, <2>2 DEF Newest, IsHooked
<1>12. \A u \in Threads : Answered(r, u) BY <1>1, <1>7 DEF Answered
<1>13. KernelStep(r)
  BY <1>1, <1>4, <1>5, <1>10, <1>11, <1>12 DEF KernelStep
<1> QED BY <1>8, <1>9, <1>13

LEMMA LeaderExitSteps ==
  ASSUME TypeOK, CallsInv, LeaderExits
  PROVE  TypeOK' /\ CallsInv' /\ \E r : KernelStep(r)
<1> DEFINE c == Len(calls) + 1
           r == [kind |-> "entry", tid |-> Leader, call |-> c,
                 hook |-> FALSE, shown |-> TRUE, ret |-> "none"]
<1>1. /\ Leader \notin gone /\ active[Leader] = 0
      /\ calls' = Append(calls, [tid |-> Leader, hook |-> FALSE, opened |-> FALSE,
                                 ret |-> "none"])
      /\ gone' = gone \cup {Leader} /\ tracked' = Container /\ Reserve(r)
      /\ UNCHANGED <<active, held, out, pc, n>>
  BY DEF LeaderExits
<1>2. /\ calls' \in Seq(Calls) /\ Len(calls') = c /\ Len(calls) \in Nat
      /\ \A d \in 1..Len(calls) : calls'[d] = calls[d]
      /\ calls'[c].tid = Leader
  BY <1>1, CallMade, LeaderAssumption
<1>3. /\ active \in [Threads -> 0..Len(calls)] /\ gone \in SUBSET Threads
      /\ tracked \in BOOLEAN /\ drops \in Nat
  BY DEF TypeOK
<1>4. /\ r \in Records /\ r.kind = "entry" /\ r.tid = Leader /\ r.call = c /\ ~r.hook
  BY <1>2, LeaderAssumption DEF Records, Results
<1>5. Put(r) BY <1>1, ReservePuts
<1>6. c \in Nat /\ c = Len(calls) + 1 BY <1>2
<1> HIDE DEF c, r
<1>7. active' \in [Threads -> 0..Len(calls')]
  BY <1>1, <1>2, <1>3, <1>6
<1>8. TypeOK'
  BY <1>1, <1>2, <1>3, <1>4, <1>5, <1>7, KernelTypes, ResultsAssumption, LeaderAssumption
<1>9. CallsInv'
  <2>1. \A u \in Threads : active'[u] # 0 =>
          calls'[active'[u]].tid = u /\ calls'[active'[u]].ret = "none"
    BY <1>1, <1>2, <1>3 DEF CallsInv
  <2> QED BY <1>1, <2>1 DEF CallsInv
<1>10. Grown BY <1>1, <1>2, <1>6 DEF Grown
<1>11. Newest(r)
  <2>1. Known(calls', active', c, Leader, "entry") BY <1>1, <1>2, <1>6 DEF Known
  <2>2. \A d \in Nat, part \in {"entry", "opened"} :
          Known(calls, active, d, Leader, part) => Precedes(d, part, c, "entry")
    BY <1>2, <1>6 DEF Known, Precedes
  <2> QED BY <1>4, <2>1, <2>2 DEF Newest, IsHooked
<1>12. \A u \in Threads : Answered(r, u)
  BY <1>1 DEF Answered, Sends, CallsInv
<1>13. KernelStep(r)
  BY <1>1, <1>4, <1>5, <1>10, <1>11, <1>12 DEF KernelStep
<1> QED BY <1>8, <1>9, <1>13

LEMMA OpenedSteps ==
  ASSUME TypeOK, CallsInv, NEW t \in Threads, NEW shown \in Decodes, FileOpened(t, shown)
  PROVE  TypeOK' /\ CallsInv' /\ \E r : KernelStep(r)
<1> DEFINE c == active[t]
           r == [kind |-> "opened", tid |-> t, call |-> c,
                 hook |-> FALSE, shown |-> shown, ret |-> "none"]
<1>1. /\ c # 0 /\ ~calls[c].opened /\ calls' = [calls EXCEPT ![c].opened = TRUE]
      /\ Reserve(r) /\ UNCHANGED <<active, gone, tracked, held, out, pc, n>>
  BY DEF FileOpened
<1>2. /\ active \in [Threads -> 0..Len(calls)] /\ gone \in SUBSET Threads
      /\ tracked \in BOOLEAN /\ drops \in Nat /\ Len(calls) \in Nat
  BY DEF TypeOK
<1>3. c \in 1..Len(calls) /\ c \in Nat /\ c = active[t] /\ calls[c].tid = t
  BY <1>1, <1>2 DEF CallsInv
<1>4. /\ r \in Records /\ r.kind = "opened" /\ r.tid = t /\ r.call = c /\ ~r.hook
  BY <1>3, ResultsAssumption DEF Records, Results
<1>5. Put(r) BY <1>1, ReservePuts
<1> HIDE DEF c, r
<1>6. /\ calls' \in Seq(Calls) /\ Len(calls') = Len(calls)
      /\ \A d \in 1..Len(calls) :
           /\ calls'[d].tid = calls[d].tid /\ calls'[d].hook = calls[d].hook
           /\ calls'[d].ret = calls[d].ret
           /\ calls[d].opened \/ d = c => calls'[d].opened
  BY <1>1, <1>3, CallOpened
<1>7. TypeOK' BY <1>1, <1>2, <1>4, <1>5, <1>6, KernelTypes
<1>8. CallsInv'
  <2>1. \A u \in Threads : active'[u] # 0 =>
          calls'[active'[u]].tid = u /\ calls'[active'[u]].ret = "none"
    BY <1>1, <1>2, <1>6 DEF CallsInv
  <2> QED BY <1>1, <2>1 DEF CallsInv
<1>9. Grown BY <1>1, <1>2, <1>6 DEF Grown
<1>10. Newest(r)
  <2>1. Known(calls', active', c, t, "opened") BY <1>1, <1>3, <1>6 DEF Known
  <2>2. \A d \in Nat, part \in {"entry", "opened"} :
          Known(calls, active, d, t, part) => Precedes(d, part, c, "opened")
    BY <1>1, <1>3 DEF Known, Precedes
  <2> QED BY <1>4, <2>1, <2>2 DEF Newest, IsHooked
<1>11. \A u \in Threads : Answered(r, u) BY <1>1 DEF Answered
<1>12. t \notin gone BY <1>1, <1>3 DEF CallsInv
<1>13. KernelStep(r)
  BY <1>1, <1>3, <1>4, <1>5, <1>9, <1>10, <1>11, <1>12 DEF KernelStep
<1> QED BY <1>7, <1>8, <1>13

LEMMA ReturnedAs ==
  ASSUME TypeOK, CallsInv, NEW t \in Threads, NEW as \in Threads, NEW v \in Returns,
         active[t] # 0, ReturnAs(t, as, v), gone' \in SUBSET Threads,
         as = Leader \/ as \notin gone, active[as] \in {0, active[t]},
         \A u \in gone' : u = t \/ active[u] = 0,
         as = t \/ (t # Leader /\ t \in gone'),
         \A u \in Threads : u # Leader /\ u \in gone => u \in gone'
  PROVE  TypeOK' /\ CallsInv' /\ \E r : KernelStep(r)
<1> DEFINE c == active[t]
           r == [kind |-> "result", tid |-> as, call |-> c,
                 hook |-> FALSE, shown |-> FALSE, ret |-> v]
<1>1. /\ calls' = [calls EXCEPT ![c].ret = v]
      /\ active' = [active EXCEPT ![t] = 0]
      /\ calls[c].hook => Reserve(r)
      /\ ~calls[c].hook => UNCHANGED <<ring, drops>>
      /\ UNCHANGED <<tracked, held, out, pc, n>>
  BY DEF ReturnAs
<1>2. /\ active \in [Threads -> 0..Len(calls)]
      /\ tracked \in BOOLEAN /\ drops \in Nat /\ Len(calls) \in Nat
  BY DEF TypeOK
<1>3. /\ c \in 1..Len(calls) /\ c \in Nat /\ c = active[t]
      /\ calls[c].tid = t /\ calls[c].ret = "none"
  BY <1>2 DEF CallsInv
<1>4. /\ r \in Records /\ r.kind = "result" /\ r.tid = as /\ r.call = c /\ r.ret = v
  BY <1>3 DEF Records, Results
<1>5. Put(r) BY <1>1, ReservePuts DEF Put
<1>6. tracked /\ calls[c].hook => drops' # drops \/ ring' = Append(ring, r)
  BY <1>1, <1>2, ReservePuts
<1> HIDE DEF c, r
<1>7. /\ calls' \in Seq(Calls) /\ Len(calls') = Len(calls)
      /\ \A d \in 1..Len(calls) :
           /\ calls'[d].tid = calls[d].tid /\ calls'[d].hook = calls[d].hook
           /\ calls'[d].ret = IF d = c THEN v ELSE calls[d].ret
           /\ calls'[d].opened = calls[d].opened
  BY <1>1, <1>3, CallReturned, Zenon
<1>8. /\ active' \in [Threads -> 0..Len(calls')] /\ active'[t] = 0
      /\ \A u \in Threads : u # t => active'[u] = active[u]
  BY <1>1, <1>2, <1>7
<1>9. TypeOK' BY <1>1, <1>2, <1>4, <1>5, <1>7, <1>8, KernelTypes
<1>10. CallsInv'
  <2>1. ASSUME NEW u \in Threads, active'[u] # 0
        PROVE  calls'[active'[u]].tid = u /\ calls'[active'[u]].ret = "none"
    <3>1. u # t /\ active'[u] = active[u] BY <1>8, <2>1
    <3>2. /\ calls[active[u]].tid = u /\ calls[active[u]].ret = "none"
          /\ active[u] \in 1..Len(calls)
      BY <1>2, <2>1, <3>1 DEF CallsInv
    <3>3. active[u] # c BY <1>3, <3>1, <3>2
    <3> QED BY <1>7, <3>1, <3>2, <3>3
  <2> QED BY <1>1, <1>8, <2>1 DEF CallsInv
<1>11. Grown BY <1>2, <1>3, <1>7, <1>8 DEF Grown
<1>12. Newest(r) BY <1>3, <1>4, <1>7 DEF Newest, Returns
<1>13. \A u \in Threads : Answered(r, u)
  <2> SUFFICES ASSUME NEW u \in Threads, Sends(tracked', gone', u)
               PROVE  /\ Sends(tracked, gone, u)
                      /\ \/ active'[u] = active[u] \/ active[u] = 0
                         \/ ~calls[active[u]].hook \/ drops' # drops
                         \/ ring' = Append(ring, r) /\ IsResult(r, u, active[u])
    BY DEF Answered
  <2>1. tracked /\ Sends(tracked, gone, u) BY <1>1 DEF Sends
  <2>2. CASE u # t BY <1>8, <2>1, <2>2
  <2>3. CASE u = t
    <3>1. as = t BY <2>3 DEF Sends
    <3> QED BY <1>3, <1>4, <1>6, <2>1, <2>3, <3>1 DEF IsResult
  <2> QED BY <2>2, <2>3
<1>14. KernelStep(r)
  BY <1>1, <1>3, <1>4, <1>5, <1>11, <1>12, <1>13 DEF KernelStep
<1> QED BY <1>9, <1>10, <1>14

LEMMA ReturnSteps ==
  ASSUME TypeOK, CallsInv, NEW t \in Threads, NEW v \in Returns, Return(t, v)
  PROVE  TypeOK' /\ CallsInv' /\ \E r : KernelStep(r)
<1>1. active[t] # 0 /\ ReturnAs(t, t, v) /\ gone' = gone BY DEF Return
<1>2. gone \in SUBSET Threads BY DEF TypeOK
<1>3. t \notin gone /\ \A u \in gone : active[u] = 0 BY <1>1 DEF CallsInv
<1> QED BY <1>1, <1>2, <1>3, ReturnedAs

LEMMA ExecSteps ==
  ASSUME TypeOK, CallsInv, NEW t \in Threads, ExecAsLeader(t)
  PROVE  TypeOK' /\ CallsInv' /\ \E r : KernelStep(r)
<1>1. /\ t # Leader /\ active[t] # 0 /\ Leader \in gone
      /\ \A u \in Threads \ {t} : active[u] = 0
      /\ ReturnAs(t, Leader, "ok") /\ gone' = Threads \ {Leader}
  BY DEF ExecAsLeader
<1>2. "ok" \in Returns /\ Leader \in Threads BY LeaderAssumption DEF Returns
<1>3. active[Leader] = 0 BY <1>1, <1>2
<1>4. t \in gone' BY <1>1
<1> QED BY <1>1, <1>2, <1>3, <1>4, ReturnedAs

-----------------------------------------------------------------------------
(* The decoder's steps.  They leave the calls alone, and are put together  *)
(* of a few changes to what is in the ring, held and handed on.            *)

Typed(rg, hd, ou) ==
  /\ rg \in Seq(Records) /\ ou \in Seq(Obs)
  /\ hd \in [Threads -> SUBSET Entries]
  /\ \A t \in Threads : \A d, e \in hd[t] : d = e

OwnI(ou)  == drops = 0 => \A i \in 1..Len(ou) : OwnOutcome(ou[i])
LostI(ou) == drops = 0 => \A i \in 1..Len(ou) : ou[i].how # "lost"

Follows(a, b) ==
  /\ a.call # b.call \/ a.part # b.part
  /\ drops = 0 /\ a.tid = b.tid => Before(a, b)

OrderI(ou) == \A i, j \in 1..Len(ou) : i < j => Follows(ou[i], ou[j])

Flow(rg, hd, ou) ==
  /\ Typed(rg, hd, ou)
  /\ RingI(rg) /\ HeldI(rg, hd) /\ OutI(rg, hd, ou) /\ PairI(rg, hd) /\ OpenI(rg, hd)
  /\ OwnI(ou) /\ LostI(ou) /\ OrderI(ou)

LEMMA FlowTypes ==
  ASSUME NEW rg, NEW hd, NEW ou, Typed(rg, hd, ou)
  PROVE  /\ Len(rg) \in Nat /\ Len(ou) \in Nat
         /\ \A i \in 1..Len(rg) :
              /\ rg[i] \in Records /\ rg[i].tid \in Threads /\ rg[i].call \in Nat
              /\ rg[i].kind \in {"entry", "opened", "result"}
         /\ \A i \in 1..Len(ou) :
              /\ ou[i] \in Obs /\ ou[i].tid \in Threads /\ ou[i].call \in Nat
              /\ ou[i].part \in {"entry", "opened"}
         /\ \A t \in Threads : \A e \in hd[t] :
              /\ e \in Entries /\ e.call \in Nat /\ e.shown \in BOOLEAN
              /\ e.companions \in Seq(Obs) /\ Len(e.companions) \in Nat
              /\ \A k \in 1..Len(e.companions) :
                   e.companions[k] \in Obs /\ e.companions[k].call \in Nat
<1>1. rg \in Seq(Records) /\ ou \in Seq(Obs) /\ hd \in [Threads -> SUBSET Entries]
  BY DEF Typed
<1>2. Len(rg) \in Nat /\ Len(ou) \in Nat BY <1>1
<1>3. \A i \in 1..Len(rg) : rg[i] \in Records BY <1>1, ElementOfSeq
<1>4. \A i \in 1..Len(ou) : ou[i] \in Obs BY <1>1, ElementOfSeq
<1>5. \A i \in 1..Len(rg) :
        /\ rg[i].tid \in Threads /\ rg[i].call \in Nat
        /\ rg[i].kind \in {"entry", "opened", "result"}
  BY <1>3 DEF Records
<1>6. \A i \in 1..Len(ou) :
        /\ ou[i].tid \in Threads /\ ou[i].call \in Nat
        /\ ou[i].part \in {"entry", "opened"}
  BY <1>4 DEF Obs
<1>7. ASSUME NEW t \in Threads, NEW e \in hd[t]
      PROVE  /\ e \in Entries /\ e.call \in Nat /\ e.shown \in BOOLEAN
             /\ e.companions \in Seq(Obs) /\ Len(e.companions) \in Nat
             /\ \A k \in 1..Len(e.companions) :
                  e.companions[k] \in Obs /\ e.companions[k].call \in Nat
  <2>1. e \in Entries BY <1>1
  <2>2. e.call \in Nat /\ e.shown \in BOOLEAN /\ e.companions \in Seq(Obs)
    BY <2>1 DEF Entries
  <2>3. Len(e.companions) \in Nat BY <2>2
  <2>4. \A k \in 1..Len(e.companions) : e.companions[k] \in Obs
    BY <2>2, ElementOfSeq
  <2> QED BY <2>1, <2>2, <2>3, <2>4 DEF Obs
<1> QED BY <1>2, <1>3, <1>4, <1>5, <1>6, <1>7

(* A record that is not a result one waits for leaves the ring.            *)
LEMMA SkipStep ==
  ASSUME NEW rg, NEW hd, NEW ou, Flow(rg, hd, ou), rg # <<>>,
         rg[1].kind = "result" => hd[rg[1].tid] = {}
  PROVE  Flow(Tail(rg), hd, ou)
<1> DEFINE q == Tail(rg)
<1>1. Typed(rg, hd, ou) BY DEF Flow
<1>2. rg \in Seq(Records) /\ Len(rg) \in Nat BY <1>1, FlowTypes DEF Typed
<1>3. /\ q \in Seq(Records) /\ Len(q) \in Nat /\ Len(q) + 1 = Len(rg)
      /\ \A i \in 1..Len(q) : q[i] = rg[i + 1] /\ i + 1 \in 1..Len(rg)
  <2>1. /\ q \in Seq(Records) /\ Len(q) = Len(rg) - 1
        /\ \A i \in 1..Len(q) : q[i] = rg[i + 1]
    BY <1>2, HeadTailProperties
  <2>2. Len(rg) # 0 BY <1>2, EmptySeq
  <2> QED BY <1>2, <2>1, <2>2
<1> HIDE DEF q
<1>4. Typed(q, hd, ou) BY <1>1, <1>3 DEF Typed
<1>5. RingI(q)
  <2>1. RingI(rg) BY DEF Flow
  <2>2. \A i \in 1..Len(q) : Sound(calls, active, q[i]) BY <1>3, <2>1 DEF RingI
  <2>3. ASSUME NEW i \in 1..Len(q), NEW j \in 1..Len(q), i < j
        PROVE  Ordered(q[i], q[j])
    <3>1. i + 1 < j + 1 /\ i + 1 \in 1..Len(rg) /\ j + 1 \in 1..Len(rg) BY <1>3, <2>3
    <3> QED BY <1>3, <2>1, <3>1 DEF RingI
  <2> QED BY <2>2, <2>3 DEF RingI
<1>6. HeldI(q, hd)
  <2>1. HeldI(rg, hd) BY DEF Flow
  <2> QED BY <1>3, <2>1 DEF HeldI
<1>7. OutI(q, hd, ou)
  <2>1. OutI(rg, hd, ou) BY DEF Flow
  <2> QED BY <1>3, <2>1 DEF OutI
<1>8. \A t \in Threads : \A e \in hd[t] : ~IsResult(rg[1], t, e.call)
  BY DEF IsResult
<1>9. ASSUME NEW m \in 0..Len(rg), NEW l \in Nat, NEW t, NEW c,
             m >= 1, \E k \in 1..l : k > m /\ IsResult(rg[k], t, c),
             l <= Len(rg)
      PROVE  \E k \in m..(l - 1) : IsResult(q[k], t, c)
  <2>1. PICK k \in 1..l : k > m /\ IsResult(rg[k], t, c) BY <1>9
  <2>2. k - 1 \in m..(l - 1) /\ k - 1 \in 1..Len(q) /\ (k - 1) + 1 = k
    BY <1>2, <1>3, <1>9, <2>1
  <2>3. q[k - 1] = rg[k] BY <1>3, <2>2
  <2> QED BY <2>1, <2>2, <2>3
<1>10. PairI(q, hd)
  <2> SUFFICES ASSUME drops = 0
               PROVE  /\ \A i, j \in 1..Len(q) :
                           /\ i < j /\ IsHooked(q[i])
                           /\ q[j].tid = q[i].tid /\ q[j].call # q[i].call
                           => \E k \in (i + 1)..(j - 1) : IsResult(q[k], q[i].tid, q[i].call)
                      /\ \A t \in Threads : \A e \in hd[t] : \A j \in 1..Len(q) :
                           q[j].tid = t /\ q[j].call # e.call =>
                             \E k \in 1..(j - 1) : IsResult(q[k], t, e.call)
    BY DEF PairI
  <2>1. /\ \A i, j \in 1..Len(rg) :
             /\ i < j /\ IsHooked(rg[i])
             /\ rg[j].tid = rg[i].tid /\ rg[j].call # rg[i].call
             => \E k \in (i + 1)..(j - 1) : IsResult(rg[k], rg[i].tid, rg[i].call)
        /\ \A t \in Threads : \A e \in hd[t] : \A j \in 1..Len(rg) :
             rg[j].tid = t /\ rg[j].call # e.call =>
               \E k \in 1..(j - 1) : IsResult(rg[k], t, e.call)
    BY DEF Flow, PairI
  <2>2. ASSUME NEW i \in 1..Len(q), NEW j \in 1..Len(q), i < j, IsHooked(q[i]),
               q[j].tid = q[i].tid, q[j].call # q[i].call
        PROVE  \E k \in (i + 1)..(j - 1) : IsResult(q[k], q[i].tid, q[i].call)
    <3>1. /\ i + 1 \in 1..Len(rg) /\ j + 1 \in 1..Len(rg) /\ i + 1 < j + 1
          /\ rg[i + 1] = q[i] /\ rg[j + 1] = q[j]
      BY <1>3, <2>2
    <3>2. \E k \in ((i + 1) + 1)..((j + 1) - 1) : IsResult(rg[k], q[i].tid, q[i].call)
      BY <2>1, <2>2, <3>1
    <3>3. (j + 1) - 1 = j /\ j \in Nat /\ j <= Len(rg) /\ i + 1 \in 0..Len(rg) /\ i + 1 >= 1
      BY <1>2, <1>3
    <3>4. PICK k \in ((i + 1) + 1)..((j + 1) - 1) : IsResult(rg[k], q[i].tid, q[i].call)
      BY <3>2
    <3>5. k \in 1..j /\ k > i + 1 BY <3>3, i \in Nat
    <3>6. \E m \in 1..j : m > i + 1 /\ IsResult(rg[m], q[i].tid, q[i].call)
      BY <3>4, <3>5
    <3> QED BY <1>9, <3>3, <3>6
  <2>3. ASSUME NEW t \in Threads, NEW e \in hd[t], NEW j \in 1..Len(q),
               q[j].tid = t, q[j].call # e.call
        PROVE  \E k \in 1..(j - 1) : IsResult(q[k], t, e.call)
    <3>1. j + 1 \in 1..Len(rg) /\ rg[j + 1] = q[j] BY <1>3
    <3>2. \E k \in 1..((j + 1) - 1) : IsResult(rg[k], t, e.call) BY <2>1, <2>3, <3>1
    <3>3. (j + 1) - 1 = j /\ j \in Nat /\ j <= Len(rg) /\ 1 \in 0..Len(rg) BY <1>2, <1>3
    <3>4. PICK k \in 1..j : IsResult(rg[k], t, e.call) BY <3>2, <3>3
    <3>5. k # 1 BY <1>8, <3>4
    <3>6. k - 1 \in 1..(j - 1) /\ k - 1 \in 1..Len(q) /\ (k - 1) + 1 = k
      BY <1>3, <3>3, <3>4, <3>5
    <3>7. q[k - 1] = rg[k] BY <1>3, <3>6
    <3> QED BY <3>4, <3>6, <3>7
  <2> QED BY <2>2, <2>3
<1>11. OpenI(q, hd)
  <2> SUFFICES ASSUME drops = 0
               PROVE  /\ \A i \in 1..Len(q) :
                           IsHooked(q[i]) /\ Sends(tracked, gone, q[i].tid) =>
                             \/ active[q[i].tid] = q[i].call
                             \/ \E k \in (i + 1)..Len(q) : IsResult(q[k], q[i].tid, q[i].call)
                      /\ \A t \in Threads : \A e \in hd[t] :
                           Sends(tracked, gone, t) =>
                             \/ active[t] = e.call
                             \/ \E k \in 1..Len(q) : IsResult(q[k], t, e.call)
    BY DEF OpenI
  <2>1. /\ \A i \in 1..Len(rg) :
             IsHooked(rg[i]) /\ Sends(tracked, gone, rg[i].tid) =>
               \/ active[rg[i].tid] = rg[i].call
               \/ \E k \in (i + 1)..Len(rg) : IsResult(rg[k], rg[i].tid, rg[i].call)
        /\ \A t \in Threads : \A e \in hd[t] :
             Sends(tracked, gone, t) =>
               \/ active[t] = e.call
               \/ \E k \in 1..Len(rg) : IsResult(rg[k], t, e.call)
    BY DEF Flow, OpenI
  <2>2. Len(rg) - 1 = Len(q) /\ Len(rg) <= Len(rg) /\ 1 \in 0..Len(rg) BY <1>2, <1>3
  <2>3. ASSUME NEW i \in 1..Len(q), IsHooked(q[i]), Sends(tracked, gone, q[i].tid),
               active[q[i].tid] # q[i].call
        PROVE  \E k \in (i + 1)..Len(q) : IsResult(q[k], q[i].tid, q[i].call)
    <3>1. i + 1 \in 1..Len(rg) /\ rg[i + 1] = q[i] /\ i + 1 \in 0..Len(rg) /\ i + 1 >= 1
      BY <1>3
    <3>2. \E k \in ((i + 1) + 1)..Len(rg) : IsResult(rg[k], q[i].tid, q[i].call)
      BY <2>1, <2>3, <3>1
    <3>3. \E k \in 1..Len(rg) : k > i + 1 /\ IsResult(rg[k], q[i].tid, q[i].call)
      BY <1>2, <3>2
    <3>4. \E k \in (i + 1)..(Len(rg) - 1) : IsResult(q[k], q[i].tid, q[i].call)
      BY <1>2, <1>9, <2>2, <3>1, <3>3
    <3> QED BY <2>2, <3>4
  <2>4. ASSUME NEW t \in Threads, NEW e \in hd[t], Sends(tracked, gone, t),
               active[t] # e.call
        PROVE  \E k \in 1..Len(q) : IsResult(q[k], t, e.call)
    <3>1. PICK k \in 1..Len(rg) : IsResult(rg[k], t, e.call) BY <2>1, <2>4
    <3>2. k # 1 BY <1>8, <3>1
    <3>3. k - 1 \in 1..Len(q) /\ (k - 1) + 1 = k BY <1>2, <1>3, <3>1, <3>2
    <3>4. q[k - 1] = rg[k] BY <1>3, <3>3
    <3> QED BY <3>1, <3>3, <3>4
  <2> QED BY <2>3, <2>4
<1>12. Flow(q, hd, ou)
  BY <1>4, <1>5, <1>6, <1>7, <1>10, <1>11 DEF Flow
<1> QED BY <1>12 DEF q

(* What is handed on next.                                                 *)
Fits(o, rg, hd, ou) ==
  /\ Known(calls, active, o.call, o.tid, o.part)
  /\ \A j \in 1..Len(rg) : ObsBefore(o, rg[j])
  /\ \A t \in Threads : \A e \in hd[t] :
       ObsApart(o, e) /\ (drops = 0 /\ o.tid = t => ObsFirst(o, e))
  /\ \A i \in 1..Len(ou) : Follows(ou[i], o)
  /\ drops = 0 => OwnOutcome(o) /\ o.how # "lost"

LEMMA AddStep ==
  ASSUME NEW rg, NEW hd, NEW ou, NEW w \in Seq(Obs), Flow(rg, hd, ou),
         \A k \in 1..Len(w) : Fits(w[k], rg, hd, ou),
         \A k, m \in 1..Len(w) : k < m => Follows(w[k], w[m])
  PROVE  Flow(rg, hd, ou \o w)
<1> DEFINE v == ou \o w
<1>1. Typed(rg, hd, ou) BY DEF Flow
<1>2. ou \in Seq(Obs) /\ Len(ou) \in Nat /\ Len(w) \in Nat BY <1>1, FlowTypes DEF Typed
<1>3. /\ v \in Seq(Obs) /\ Len(v) = Len(ou) + Len(w)
      /\ \A i \in 1..Len(v) : v[i] = IF i <= Len(ou) THEN ou[i] ELSE w[i - Len(ou)]
  BY <1>2, ConcatProperties
<1> HIDE DEF v
<1>4. ASSUME NEW i \in 1..Len(v)
      PROVE  \/ i \in 1..Len(ou) /\ v[i] = ou[i]
             \/ /\ i - Len(ou) \in 1..Len(w) /\ v[i] = w[i - Len(ou)]
                /\ i > Len(ou)
  <2>1. CASE i <= Len(ou) BY <1>2, <1>3, <2>1
  <2>2. CASE i > Len(ou) BY <1>2, <1>3, <2>2
  <2> QED BY <1>2, <2>1, <2>2
<1>5. Typed(rg, hd, v) BY <1>1, <1>3 DEF Typed
<1>6. OutI(rg, hd, v)
  <2>1. OutI(rg, hd, ou) BY DEF Flow
  <2> SUFFICES ASSUME NEW i \in 1..Len(v)
               PROVE  /\ Known(calls, active, v[i].call, v[i].tid, v[i].part)
                      /\ \A j \in 1..Len(rg) : ObsBefore(v[i], rg[j])
                      /\ \A t \in Threads : \A e \in hd[t] :
                           /\ ObsApart(v[i], e)
                           /\ drops = 0 /\ v[i].tid = t => ObsFirst(v[i], e)
    BY DEF OutI
  <2>2. CASE i \in 1..Len(ou) /\ v[i] = ou[i] BY <2>1, <2>2 DEF OutI
  <2>3. CASE i - Len(ou) \in 1..Len(w) /\ v[i] = w[i - Len(ou)]
    <3>1. Fits(v[i], rg, hd, ou) BY <2>3
    <3> QED BY <3>1 DEF Fits
  <2> QED BY <1>4, <2>2, <2>3
<1>7. OwnI(v) /\ LostI(v)
  <2> SUFFICES ASSUME drops = 0, NEW i \in 1..Len(v)
               PROVE  OwnOutcome(v[i]) /\ v[i].how # "lost"
    BY DEF OwnI, LostI
  <2>1. CASE i \in 1..Len(ou) /\ v[i] = ou[i] BY <2>1 DEF Flow, OwnI, LostI
  <2>2. CASE i - Len(ou) \in 1..Len(w) /\ v[i] = w[i - Len(ou)]
    <3>1. Fits(v[i], rg, hd, ou) BY <2>2
    <3> QED BY <3>1 DEF Fits
  <2> QED BY <1>4, <2>1, <2>2
<1>8. OrderI(v)
  <2> SUFFICES ASSUME NEW i \in 1..Len(v), NEW j \in 1..Len(v), i < j
               PROVE  Follows(v[i], v[j])
    BY DEF OrderI
  <2>1. CASE j \in 1..Len(ou) /\ v[j] = ou[j]
    <3>1. i \in 1..Len(ou) /\ v[i] = ou[i] BY <1>2, <1>4, <2>1
    <3> QED BY <2>1, <3>1 DEF Flow, OrderI
  <2>2. CASE j - Len(ou) \in 1..Len(w) /\ v[j] = w[j - Len(ou)] /\ j > Len(ou)
    <3>1. CASE i \in 1..Len(ou) /\ v[i] = ou[i]
      <4>1. Fits(v[j], rg, hd, ou) BY <2>2
      <4> QED BY <3>1, <4>1 DEF Fits
    <3>2. CASE i - Len(ou) \in 1..Len(w) /\ v[i] = w[i - Len(ou)] /\ i > Len(ou)
      <4>1. i - Len(ou) < j - Len(ou) BY <1>2
      <4> QED BY <2>2, <3>2, <4>1
    <3> QED BY <1>4, <3>1, <3>2
  <2> QED BY <1>4, <2>1, <2>2
<1>9. Flow(rg, hd, v) BY <1>5, <1>6, <1>7, <1>8 DEF Flow
<1> QED BY <1>9 DEF v

(* The entry held for a thread is forgotten, by itself.                    *)
LEMMA ForgetStep ==
  ASSUME NEW rg, NEW hd, NEW ou, Flow(rg, hd, ou), NEW t \in Threads
  PROVE  Flow(rg, [hd EXCEPT ![t] = {}], ou)
<1> DEFINE h == [hd EXCEPT ![t] = {}]
<1>1. hd \in [Threads -> SUBSET Entries] BY DEF Flow, Typed
<1>2. /\ h \in [Threads -> SUBSET Entries] /\ h[t] = {}
      /\ \A u \in Threads : h[u] \in SUBSET hd[u]
  BY <1>1
<1> HIDE DEF h
<1>3. Typed(rg, h, ou) BY <1>2 DEF Flow, Typed
<1>4. HeldI(rg, h) BY <1>2 DEF Flow, HeldI
<1>5. OutI(rg, h, ou) BY <1>2 DEF Flow, OutI
<1>6. PairI(rg, h)
  <2>1. PairI(rg, hd) BY DEF Flow
  <2> QED BY <1>2, <2>1 DEF PairI
<1>7. OpenI(rg, h)
  <2>1. OpenI(rg, hd) BY DEF Flow
  <2> QED BY <1>2, <2>1 DEF OpenI
<1>8. Flow(rg, h, ou) BY <1>3, <1>4, <1>5, <1>6, <1>7 DEF Flow
<1> QED BY <1>8 DEF h

Hows == {"direct", "result", "stale", "lost"}

(* What is released of an entry: itself, if shown, and its companions.     *)
LEMMA ReleasedIs ==
  ASSUME NEW e \in Entries, NEW t \in Threads, NEW v \in Results, NEW how \in Hows
  PROVE  /\ Released(e, t, v, how) \in Seq(Obs)
         /\ \E s \in {0, 1} :
              \A k \in 1..Len(Released(e, t, v, how)) :
                \/ k = 1 /\ s = 1 /\ Released(e, t, v, how)[k] = Observation(e.call, t, "entry", v, how)
                \/ /\ k > s /\ k - s \in 1..Len(e.companions)
                   /\ Released(e, t, v, how)[k] = e.companions[k - s]
<1> DEFINE o == Observation(e.call, t, "entry", v, how)
           f == IF e.shown THEN <<o>> ELSE <<>>
           w == f \o e.companions
           s == Len(f)
<1>1. e.call \in Nat /\ e.companions \in Seq(Obs) BY DEF Entries
<1>2. o \in Obs BY <1>1 DEF Observation, Obs, Hows
<1> HIDE DEF o
<1>3. f \in Seq(Obs) /\ s \in {0, 1} /\ (s = 1 => f[1] = o) BY <1>2
<1> HIDE DEF f, s
<1>4. Len(e.companions) \in Nat BY <1>1
<1>5. s = Len(f) BY DEF s
<1>6. /\ w \in Seq(Obs) /\ Len(w) = s + Len(e.companions)
      /\ \A k \in 1..Len(w) : w[k] = IF k <= s THEN f[k] ELSE e.companions[k - s]
  BY <1>1, <1>3, <1>5, ConcatProperties
<1>7. w = Released(e, t, v, how) BY DEF Released, f, o
<1> HIDE DEF w
<1>8. ASSUME NEW k \in 1..Len(w)
      PROVE  \/ k = 1 /\ s = 1 /\ w[k] = o
             \/ k > s /\ k - s \in 1..Len(e.companions) /\ w[k] = e.companions[k - s]
  <2>1. CASE k <= s
    <3>1. k = 1 /\ s = 1 BY <1>3, <2>1
    <3> QED BY <1>3, <1>6, <2>1, <3>1
  <2>2. CASE k > s BY <1>3, <1>4, <1>6, <2>2
  <2> QED BY <1>3, <2>1, <2>2
<1> QED BY <1>3, <1>6, <1>7, <1>8 DEF o

LEMMA ReleaseStep ==
  ASSUME NEW rg, NEW hd, NEW ou, Flow(rg, hd, ou), NEW t \in Threads, NEW e \in hd[t],
         NEW v \in Results, NEW how \in Hows,
         drops = 0 => how # "lost" /\ v \in {"none", calls[e.call].ret}
  PROVE  Flow(rg, [hd EXCEPT ![t] = {}], ou \o Released(e, t, v, how))
<1> DEFINE h == [hd EXCEPT ![t] = {}]
           w == Released(e, t, v, how)
           o == Observation(e.call, t, "entry", v, how)
<1>1. Typed(rg, hd, ou) BY DEF Flow
<1>2. /\ e \in Entries /\ e.call \in Nat
      /\ e.companions \in Seq(Obs) /\ Len(e.companions) \in Nat
      /\ \A k \in 1..Len(e.companions) :
           e.companions[k] \in Obs /\ e.companions[k].call \in Nat
  BY <1>1, FlowTypes
<1>3. Flow(rg, h, ou) BY ForgetStep
<1>4. /\ h[t] = {} /\ \A u \in Threads : h[u] \in SUBSET hd[u]
  BY <1>1 DEF Typed
<1>5. w \in Seq(Obs) BY <1>2, ReleasedIs
<1>6. PICK s \in {0, 1} :
        \A k \in 1..Len(w) :
          \/ k = 1 /\ s = 1 /\ w[k] = o
          \/ k > s /\ k - s \in 1..Len(e.companions) /\ w[k] = e.companions[k - s]
  BY <1>2, ReleasedIs
<1>7. /\ o.call = e.call /\ o.tid = t /\ o.part = "entry" /\ o.outcome = v /\ o.how = how
  BY DEF Observation
<1> HIDE DEF h, w, o
<1>8. /\ EntrySound(calls, active, t, e) /\ EntryWhole(t, e)
      /\ \A j \in 1..Len(rg) : EntryBefore(e, t, rg[j])
  BY DEF Flow, HeldI
<1>9. \A i \in 1..Len(ou) :
        /\ Known(calls, active, ou[i].call, ou[i].tid, ou[i].part)
        /\ ObsApart(ou[i], e) /\ (drops = 0 /\ ou[i].tid = t => ObsFirst(ou[i], e))
  BY DEF Flow, OutI
<1>10. ASSUME NEW u \in Threads, NEW d \in h[u]
       PROVE  /\ u # t /\ calls[d.call].tid = u
              /\ \A k \in 1..Len(d.companions) : calls[d.companions[k].call].tid = u
  <2>1. d \in hd[u] /\ u # t BY <1>4
  <2>2. EntrySound(calls, active, u, d) BY <2>1 DEF Flow, HeldI
  <2> QED BY <2>1, <2>2 DEF EntrySound, Known
<1>11. ASSUME NEW p, p.tid = t, calls[p.call].tid = t, NEW u \in Threads, NEW d \in h[u]
       PROVE  ObsApart(p, d) /\ (drops = 0 /\ p.tid = u => ObsFirst(p, d))
  BY <1>10, <1>11 DEF ObsApart
<1>12. Fits(o, rg, h, ou)
  <2>1. Known(calls, active, o.call, o.tid, o.part) /\ calls[o.call].tid = t
    BY <1>7, <1>8 DEF EntrySound, Known
  <2>2. \A j \in 1..Len(rg) : ObsBefore(o, rg[j])
    BY <1>7, <1>8 DEF EntryBefore, ObsBefore
  <2>3. \A i \in 1..Len(ou) : Follows(ou[i], o)
    BY <1>7, <1>9 DEF ObsApart, ObsFirst, Follows, Before, Precedes
  <2>4. drops = 0 => OwnOutcome(o) /\ o.how # "lost" BY <1>7 DEF OwnOutcome
  <2> QED BY <1>7, <1>11, <2>1, <2>2, <2>3, <2>4 DEF Fits
<1>13. ASSUME NEW k \in 1..Len(e.companions) PROVE Fits(e.companions[k], rg, h, ou)
  <2> DEFINE p == e.companions[k]
  <2>1. /\ p.tid = t /\ p.part = "opened" /\ p.outcome = "none" /\ p.how = "direct"
        /\ Known(calls, active, p.call, t, "opened")
    BY <1>8 DEF EntryWhole, EntrySound
  <2>2. calls[p.call].tid = t BY <2>1 DEF Known
  <2>3. \A j \in 1..Len(rg) : ObsBefore(p, rg[j])
    BY <1>8, <2>1 DEF EntryBefore, ObsBefore
  <2>4. \A i \in 1..Len(ou) : Follows(ou[i], p)
    BY <1>9, <2>1 DEF ObsApart, ObsFirst, Follows, Before, Precedes
  <2>5. drops = 0 => OwnOutcome(p) /\ p.how # "lost" BY <2>1 DEF OwnOutcome
  <2> HIDE DEF p
  <2>6. Fits(p, rg, h, ou) BY <1>11, <2>1, <2>2, <2>3, <2>4, <2>5 DEF Fits
  <2> QED BY <2>6 DEF p
<1>14. \A k \in 1..Len(w) : Fits(w[k], rg, h, ou) BY <1>6, <1>12, <1>13
<1>15. ASSUME NEW k \in 1..Len(w), NEW m \in 1..Len(w), k < m
       PROVE  Follows(w[k], w[m])
  <2>1. m > s /\ m - s \in 1..Len(e.companions) /\ w[m] = e.companions[m - s]
    BY <1>6, <1>15
  <2>2. /\ e.companions[m - s].tid = t /\ e.companions[m - s].part = "opened"
        /\ e.call <= e.companions[m - s].call /\ e.companions[m - s].call \in Nat
    BY <1>2, <1>8, <2>1 DEF EntryWhole
  <2>3. CASE w[k] = o
    BY <1>2, <1>7, <2>1, <2>2, <2>3 DEF Follows, Before
  <2>4. CASE k - s \in 1..Len(e.companions) /\ w[k] = e.companions[k - s]
    <3>1. k - s < m - s BY <1>15
    <3>2. /\ e.companions[k - s].call < e.companions[m - s].call
          /\ e.companions[k - s].call \in Nat
      BY <1>2, <1>8, <2>1, <2>4, <3>1 DEF EntryWhole
    <3> QED BY <2>1, <2>2, <2>4, <3>2 DEF Follows, Before
  <2> QED BY <1>6, <2>3, <2>4
<1>16. Flow(rg, h, ou \o w) BY <1>3, <1>5, <1>14, <1>15, AddStep
<1> QED BY <1>16 DEF h, w

(* What may be held for thread t.                                          *)
Carried(d, t, rg, ou) ==
  /\ d \in Entries /\ EntrySound(calls, active, t, d) /\ EntryWhole(t, d)
  /\ \A j \in 1..Len(rg) : EntryBefore(d, t, rg[j])
  /\ \A i \in 1..Len(ou) :
       ObsApart(ou[i], d) /\ (drops = 0 /\ ou[i].tid = t => ObsFirst(ou[i], d))
  /\ drops = 0 =>
       /\ \A j \in 1..Len(rg) :
            rg[j].tid = t /\ rg[j].call # d.call =>
              \E k \in 1..(j - 1) : IsResult(rg[k], t, d.call)
       /\ Sends(tracked, gone, t) =>
            active[t] = d.call \/ \E k \in 1..Len(rg) : IsResult(rg[k], t, d.call)

(* Held entries are replaced by others that may be held.                   *)
LEMMA PlaceStep ==
  ASSUME NEW rg, NEW hd, NEW h, NEW ou, Flow(rg, hd, ou),
         h \in [Threads -> SUBSET Entries],
         \A t \in Threads : \A d, e \in h[t] : d = e,
         \A t \in Threads : \A d \in h[t] : d \in hd[t] \/ Carried(d, t, rg, ou)
  PROVE  Flow(rg, h, ou)
<1>1. HeldI(rg, hd) /\ OutI(rg, hd, ou) /\ PairI(rg, hd) /\ OpenI(rg, hd) BY DEF Flow
<1>2. ASSUME NEW t \in Threads, NEW d \in hd[t] PROVE Carried(d, t, rg, ou)
  <2>1. d \in Entries BY <1>2 DEF Flow, Typed
  <2>2. /\ EntrySound(calls, active, t, d) /\ EntryWhole(t, d)
        /\ \A j \in 1..Len(rg) : EntryBefore(d, t, rg[j])
    BY <1>1 DEF HeldI
  <2>3. \A i \in 1..Len(ou) :
          ObsApart(ou[i], d) /\ (drops = 0 /\ ou[i].tid = t => ObsFirst(ou[i], d))
    BY <1>1 DEF OutI
  <2>4. ASSUME drops = 0
        PROVE  /\ \A j \in 1..Len(rg) :
                    rg[j].tid = t /\ rg[j].call # d.call =>
                      \E k \in 1..(j - 1) : IsResult(rg[k], t, d.call)
               /\ Sends(tracked, gone, t) =>
                    active[t] = d.call \/ \E k \in 1..Len(rg) : IsResult(rg[k], t, d.call)
    BY <1>1, <2>4 DEF PairI, OpenI
  <2> QED BY <2>1, <2>2, <2>3, <2>4 DEF Carried
<1>3. \A t \in Threads : \A d \in h[t] : Carried(d, t, rg, ou) BY <1>2
<1>4. Typed(rg, h, ou) BY DEF Flow, Typed
<1>5. HeldI(rg, h) BY <1>3 DEF HeldI, Carried
<1>6. OutI(rg, h, ou) BY <1>1, <1>3 DEF OutI, Carried
<1>7. PairI(rg, h) BY <1>1, <1>3 DEF PairI, Carried
<1>8. OpenI(rg, h) BY <1>1, <1>3 DEF OpenI, Carried
<1> QED BY <1>4, <1>5, <1>6, <1>7, <1>8 DEF Flow

(* One entry is held for t.                                                *)
LEMMA HoldOne ==
  ASSUME NEW rg, NEW hd, NEW ou, Flow(rg, hd, ou), NEW t \in Threads, NEW d,
         Carried(d, t, rg, ou)
  PROVE  Flow(rg, [hd EXCEPT ![t] = {d}], ou)
<1>1. d \in Entries BY DEF Carried
<1>2. hd \in [Threads -> SUBSET Entries] /\ \A u \in Threads : \A c, e \in hd[u] : c = e
  BY DEF Flow, Typed
<1>3. [hd EXCEPT ![t] = {d}] \in [Threads -> SUBSET Entries] BY <1>1, <1>2
<1>4. \A u \in Threads : [hd EXCEPT ![t] = {d}][u] = IF u = t THEN {d} ELSE hd[u]
  BY <1>2
<1>5. \A u \in Threads : \A c, e \in [hd EXCEPT ![t] = {d}][u] : c = e BY <1>2, <1>4
<1>6. \A u \in Threads : \A c \in [hd EXCEPT ![t] = {d}][u] :
        c \in hd[u] \/ Carried(c, u, rg, ou)
  BY <1>4
<1> QED BY <1>3, <1>5, <1>6, PlaceStep

(* Time passes over what is held.                                          *)
LEMMA AgeStep ==
  ASSUME NEW rg, NEW hd, NEW ou, Flow(rg, hd, ou)
  PROVE  Flow(rg, [t \in Threads |-> {[e EXCEPT !.old = TRUE] : e \in hd[t]}], ou)
<1> DEFINE Old(e) == [e EXCEPT !.old = TRUE]
           h == [t \in Threads |-> {Old(e) : e \in hd[t]}]
<1>1. hd \in [Threads -> SUBSET Entries] /\ \A t \in Threads : \A c, e \in hd[t] : c = e
  BY DEF Flow, Typed
<1>2. \A e \in Entries :
        Old(e) \in Entries /\ Old(e).call = e.call /\ Old(e).companions = e.companions
  BY DEF Entries
<1> HIDE DEF Old
<1>3. h \in [Threads -> SUBSET Entries] BY <1>1, <1>2
<1>4. \A t \in Threads : \A c, e \in h[t] : c = e BY <1>1
<1>5. ASSUME NEW t \in Threads, NEW d \in h[t] PROVE Carried(d, t, rg, ou)
  <2>1. PICK e \in hd[t] : d = Old(e) BY <1>5
  <2>2. d \in Entries /\ d.call = e.call /\ d.companions = e.companions
    BY <1>1, <1>2, <2>1
  <2>3. EntrySound(calls, active, t, e) /\ EntryWhole(t, e)
        /\ \A j \in 1..Len(rg) : EntryBefore(e, t, rg[j])
    BY DEF Flow, HeldI
  <2>4. EntrySound(calls, active, t, d) BY <2>2, <2>3 DEF EntrySound
  <2>5. EntryWhole(t, d) BY <2>2, <2>3 DEF EntryWhole
  <2>6. \A j \in 1..Len(rg) : EntryBefore(d, t, rg[j]) BY <2>2, <2>3 DEF EntryBefore
  <2>7. ASSUME NEW i \in 1..Len(ou)
        PROVE  ObsApart(ou[i], d) /\ (drops = 0 /\ ou[i].tid = t => ObsFirst(ou[i], d))
    <3>1. ObsApart(ou[i], e) /\ (drops = 0 /\ ou[i].tid = t => ObsFirst(ou[i], e))
      BY DEF Flow, OutI
    <3> QED BY <2>2, <3>1 DEF ObsApart, ObsFirst
  <2>8. ASSUME drops = 0
        PROVE  /\ \A j \in 1..Len(rg) :
                    rg[j].tid = t /\ rg[j].call # d.call =>
                      \E k \in 1..(j - 1) : IsResult(rg[k], t, d.call)
               /\ Sends(tracked, gone, t) =>
                    active[t] = d.call \/ \E k \in 1..Len(rg) : IsResult(rg[k], t, d.call)
    <3>1. PairI(rg, hd) /\ OpenI(rg, hd) BY DEF Flow
    <3> QED BY <2>2, <2>8, <3>1 DEF PairI, OpenI
  <2> QED BY <2>2, <2>4, <2>5, <2>6, <2>7, <2>8 DEF Carried
<1>6. Flow(rg, h, ou) BY <1>3, <1>4, <1>5, PlaceStep
<1> QED BY <1>6 DEF h, Old

(* The record read next comes before the rest of the ring, after all that  *)
(* was handed on or is held; without drops it is about the call held.      *)
LEMMA HeadIs ==
  ASSUME NEW rg, NEW hd, NEW ou, Flow(rg, hd, ou), rg # <<>>
  PROVE  /\ Head(rg) \in Records /\ Head(rg) = rg[1] /\ Sound(calls, active, Head(rg))
         /\ \A j \in 1..Len(Tail(rg)) : Ordered(Head(rg), Tail(rg)[j])
         /\ \A t \in Threads : \A e \in hd[t] : EntryBefore(e, t, Head(rg))
         /\ \A i \in 1..Len(ou) : ObsBefore(ou[i], Head(rg))
         /\ drops = 0 => \A e \in hd[Head(rg).tid] : Head(rg).call = e.call
         /\ drops = 0 /\ IsHooked(Head(rg)) =>
              /\ \A j \in 1..Len(Tail(rg)) :
                   Tail(rg)[j].tid = Head(rg).tid /\ Tail(rg)[j].call # Head(rg).call =>
                     \E k \in 1..(j - 1) : IsResult(Tail(rg)[k], Head(rg).tid, Head(rg).call)
              /\ Sends(tracked, gone, Head(rg).tid) =>
                   \/ active[Head(rg).tid] = Head(rg).call
                   \/ \E k \in 1..Len(Tail(rg)) : IsResult(Tail(rg)[k], Head(rg).tid, Head(rg).call)
<1> DEFINE q == Tail(rg)
           r == Head(rg)
<1>1. Typed(rg, hd, ou) BY DEF Flow
<1>2. rg \in Seq(Records) /\ Len(rg) \in Nat BY <1>1, FlowTypes DEF Typed
<1>3. /\ q \in Seq(Records) /\ Len(q) \in Nat /\ Len(q) + 1 = Len(rg)
      /\ \A i \in 1..Len(q) : q[i] = rg[i + 1] /\ i + 1 \in 1..Len(rg)
  <2>1. /\ q \in Seq(Records) /\ Len(q) = Len(rg) - 1
        /\ \A i \in 1..Len(q) : q[i] = rg[i + 1]
    BY <1>2, HeadTailProperties
  <2>2. Len(rg) # 0 BY <1>2, EmptySeq
  <2> QED BY <1>2, <2>1, <2>2
<1>4. r = rg[1] /\ r \in Records BY <1>2, HeadTailProperties
<1>5. 1 \in 1..Len(rg) /\ r.tid \in Threads BY <1>1, <1>2, <1>3, <1>4, FlowTypes
<1> HIDE DEF q, r
<1>6. Sound(calls, active, r) /\ \A j \in 1..Len(q) : Ordered(r, q[j])
  <2>1. RingI(rg) BY DEF Flow
  <2>2. Sound(calls, active, r) BY <1>4, <1>5, <2>1 DEF RingI
  <2>3. ASSUME NEW j \in 1..Len(q) PROVE Ordered(r, q[j])
    <3>1. j + 1 \in 1..Len(rg) /\ 1 < j + 1 /\ q[j] = rg[j + 1] BY <1>3
    <3> QED BY <1>4, <1>5, <2>1, <3>1 DEF RingI
  <2> QED BY <2>2, <2>3
<1>7. \A t \in Threads : \A e \in hd[t] : EntryBefore(e, t, r)
  BY <1>4, <1>5 DEF Flow, HeldI
<1>8. \A i \in 1..Len(ou) : ObsBefore(ou[i], r)
  BY <1>4, <1>5 DEF Flow, OutI
<1>9. ASSUME drops = 0, NEW e \in hd[r.tid] PROVE r.call = e.call
  <2>1. PairI(rg, hd) BY DEF Flow
  <2> SUFFICES ASSUME r.call # e.call PROVE FALSE OBVIOUS
  <2>2. \E k \in 1..(1 - 1) : IsResult(rg[k], r.tid, e.call)
    BY <1>4, <1>5, <1>9, <2>1 DEF PairI
  <2> QED BY <2>2
<1>10. ASSUME drops = 0, IsHooked(r)
       PROVE  /\ \A j \in 1..Len(q) :
                   q[j].tid = r.tid /\ q[j].call # r.call =>
                     \E k \in 1..(j - 1) : IsResult(q[k], r.tid, r.call)
              /\ Sends(tracked, gone, r.tid) =>
                   \/ active[r.tid] = r.call
                   \/ \E k \in 1..Len(q) : IsResult(q[k], r.tid, r.call)
  <2>1. ASSUME NEW j \in 1..Len(q), q[j].tid = r.tid, q[j].call # r.call
        PROVE  \E k \in 1..(j - 1) : IsResult(q[k], r.tid, r.call)
    <3>1. j + 1 \in 1..Len(rg) /\ 1 < j + 1 /\ q[j] = rg[j + 1] BY <1>3
    <3>2. PICK k \in (1 + 1)..((j + 1) - 1) : IsResult(rg[k], r.tid, r.call)
      <4>1. PairI(rg, hd) BY DEF Flow
      <4> QED BY <1>4, <1>5, <1>10, <2>1, <3>1, <4>1 DEF PairI
    <3>3. k - 1 \in 1..(j - 1) /\ k - 1 \in 1..Len(q) /\ (k - 1) + 1 = k
      BY <1>3, <3>2
    <3>4. q[k - 1] = rg[k] BY <1>3, <3>3
    <3> QED BY <3>2, <3>3, <3>4
  <2>2. ASSUME Sends(tracked, gone, r.tid), active[r.tid] # r.call
        PROVE  \E k \in 1..Len(q) : IsResult(q[k], r.tid, r.call)
    <3>1. PICK k \in (1 + 1)..Len(rg) : IsResult(rg[k], r.tid, r.call)
      <4>1. OpenI(rg, hd) BY DEF Flow
      <4> QED BY <1>4, <1>5, <1>10, <2>2, <4>1 DEF OpenI
    <3>2. k - 1 \in 1..Len(q) /\ (k - 1) + 1 = k BY <1>2, <1>3, <3>1
    <3>3. q[k - 1] = rg[k] BY <1>3, <3>2
    <3> QED BY <3>1, <3>2, <3>3
  <2> QED BY <2>1, <2>2
<1> QED BY <1>4, <1>6, <1>7, <1>8, <1>9, <1>10 DEF q, r

(* A result releases the entry held for its thread, which without drops    *)
(* is the entry of its own call.                                           *)
LEMMA ResultFed ==
  ASSUME Flow(ring, held, out), ring # <<>>, FeedResult(Head(ring))
  PROVE  Flow(Tail(ring), held', out')
<1> DEFINE r == Head(ring)
<1>1. /\ r \in Records /\ r = ring[1] /\ Sound(calls, active, r)
      /\ drops = 0 => \A e \in held[r.tid] : r.call = e.call
  BY HeadIs
<1>2. /\ r.kind = "result"
      /\ \/ held[r.tid] = {} /\ held' = held /\ out' = out
         \/ \E e \in held[r.tid] :
              /\ out' = out \o Released(e, r.tid, r.ret, "result")
              /\ held' = [held EXCEPT ![r.tid] = {}]
  BY DEF FeedResult
<1>3. r.tid \in Threads /\ r.ret \in Results BY <1>1 DEF Records
<1> HIDE DEF r
<1>4. CASE held[r.tid] = {} /\ held' = held /\ out' = out
  BY <1>1, <1>4, SkipStep
<1>5. CASE \E e \in held[r.tid] :
             /\ out' = out \o Released(e, r.tid, r.ret, "result")
             /\ held' = [held EXCEPT ![r.tid] = {}]
  <2>1. PICK e \in held[r.tid] :
          /\ out' = out \o Released(e, r.tid, r.ret, "result")
          /\ held' = [held EXCEPT ![r.tid] = {}]
    BY <1>5
  <2>2. drops = 0 => r.ret = calls[e.call].ret BY <1>1, <1>2 DEF Sound
  <2>3. "result" \in Hows /\ "result" # "lost" BY DEF Hows
  <2>4. Flow(ring, [held EXCEPT ![r.tid] = {}], out \o Released(e, r.tid, r.ret, "result"))
    BY <1>3, <2>2, <2>3, ReleaseStep
  <2>5. held'[r.tid] = {}
    <3>1. held \in [Threads -> SUBSET Entries] BY DEF Flow, Typed
    <3> QED BY <1>3, <2>1, <3>1
  <2>6. Flow(ring, held', out') BY <2>1, <2>4
  <2> QED BY <1>1, <2>5, <2>6, SkipStep
<1> QED BY <1>2, <1>4, <1>5

(* A hooked entry is held.                                                 *)
LEMMA EntryHeld ==
  ASSUME NEW rg, NEW hd, NEW ou, Flow(rg, hd, ou), rg # <<>>, Holds(Head(rg)), NEW d,
         d = [call |-> Head(rg).call, shown |-> Head(rg).shown, companions |-> <<>>,
              old |-> FALSE]
  PROVE  Flow(Tail(rg), [hd EXCEPT ![Head(rg).tid] = {d}], ou)
<1> DEFINE r == Head(rg)
           q == Tail(rg)
           t == r.tid
<1>1. /\ r \in Records /\ r = rg[1] /\ Sound(calls, active, r)
      /\ \A j \in 1..Len(q) : Ordered(r, q[j])
      /\ \A i \in 1..Len(ou) : ObsBefore(ou[i], r)
      /\ drops = 0 /\ IsHooked(r) =>
           /\ \A j \in 1..Len(q) :
                q[j].tid = t /\ q[j].call # r.call =>
                  \E k \in 1..(j - 1) : IsResult(q[k], t, r.call)
           /\ Sends(tracked, gone, t) =>
                active[t] = r.call \/ \E k \in 1..Len(q) : IsResult(q[k], t, r.call)
  BY HeadIs
<1>2. r.kind = "entry" /\ IsHooked(r) BY DEF Holds, IsHooked
<1>3. t \in Threads /\ r.call \in Nat /\ r.shown \in BOOLEAN BY <1>1 DEF Records
<1>4. /\ d \in Entries /\ d.call = r.call /\ d.companions = <<>> /\ Len(d.companions) = 0
  BY <1>3 DEF Entries
<1> HIDE DEF r, q, t
<1>5. Known(calls, active, r.call, t, "entry") /\ calls[r.call].hook
  BY <1>1, <1>2 DEF Sound, t
<1>6. EntrySound(calls, active, t, d) /\ EntryWhole(t, d)
  BY <1>4, <1>5 DEF EntrySound, EntryWhole
<1>7. \A j \in 1..Len(q) : EntryBefore(d, t, q[j])
  BY <1>1, <1>2, <1>4 DEF EntryBefore, Ordered, t
<1>8. ASSUME NEW i \in 1..Len(ou)
      PROVE  ObsApart(ou[i], d) /\ (drops = 0 /\ ou[i].tid = t => ObsFirst(ou[i], d))
  <2>1. ObsBefore(ou[i], r) /\ Known(calls, active, ou[i].call, ou[i].tid, ou[i].part)
    BY <1>1 DEF Flow, OutI
  <2>2. ou[i].tid = t => Precedes(ou[i].call, ou[i].part, r.call, "entry")
    BY <1>2, <2>1 DEF ObsBefore, t
  <2>3. ou[i].call \in Nat
    <3>1. Typed(rg, hd, ou) BY DEF Flow
    <3> QED BY <3>1, FlowTypes
  <2>4. ou[i].call # r.call \/ ou[i].part # "entry"
    BY <1>3, <1>5, <2>1, <2>2, <2>3 DEF Known, Precedes
  <2> QED BY <1>4, <2>2, <2>4 DEF ObsApart, ObsFirst
<1>9. Carried(d, t, q, ou)
  BY <1>1, <1>2, <1>4, <1>6, <1>7, <1>8 DEF Carried
<1>10. Flow(q, hd, ou) BY <1>1, <1>2, SkipStep DEF q
<1>11. Flow(q, [hd EXCEPT ![t] = {d}], ou) BY <1>3, <1>9, <1>10, HoldOne
<1> QED BY <1>11 DEF q, r, t

(* One already held for the thread lost its result, by a drop.             *)
LEMMA EntryFed ==
  ASSUME Flow(ring, held, out), ring # <<>>, FeedEntry(Head(ring))
  PROVE  Flow(Tail(ring), held', out')
<1> DEFINE r == Head(ring)
           d == [call |-> r.call, shown |-> r.shown, companions |-> <<>>, old |-> FALSE]
<1>1. /\ r \in Records
      /\ \A t \in Threads : \A e \in held[t] : EntryBefore(e, t, r)
      /\ drops = 0 => \A e \in held[r.tid] : r.call = e.call
  BY HeadIs
<1>2. /\ Holds(r) /\ held' = [held EXCEPT ![r.tid] = {d}]
      /\ \/ held[r.tid] = {} /\ out' = out
         \/ \E e \in held[r.tid] : out' = out \o Released(e, r.tid, "none", "lost")
  BY DEF FeedEntry
<1>3. r.tid \in Threads /\ r.call \in Nat BY <1>1 DEF Records
<1>4. \A hd, ou : Flow(ring, hd, ou) => Flow(Tail(ring), [hd EXCEPT ![r.tid] = {d}], ou)
  BY <1>2, EntryHeld
<1> HIDE DEF r, d
<1>5. CASE held[r.tid] = {} /\ out' = out BY <1>2, <1>4, <1>5
<1>6. CASE \E e \in held[r.tid] : out' = out \o Released(e, r.tid, "none", "lost")
  <2>1. PICK e \in held[r.tid] : out' = out \o Released(e, r.tid, "none", "lost")
    BY <1>6
  <2>2. drops # 0
    <3>1. EntryBefore(e, r.tid, r) BY <1>1, <1>3
    <3>2. r.kind = "entry" BY <1>2 DEF Holds
    <3>3. Precedes(e.call, "entry", r.call, "entry") BY <3>1, <3>2 DEF EntryBefore
    <3> QED BY <1>1, <1>3, <3>3 DEF Precedes
  <2>3. "lost" \in Hows /\ "none" \in Results BY DEF Hows, Results
  <2>4. Flow(ring, [held EXCEPT ![r.tid] = {}], out')
    BY <1>3, <2>1, <2>2, <2>3, ReleaseStep
  <2>5. [[held EXCEPT ![r.tid] = {}] EXCEPT ![r.tid] = {d}] = held'
    <3>1. held \in [Threads -> SUBSET Entries] BY DEF Flow, Typed
    <3> QED BY <1>2, <3>1
  <2> QED BY <1>4, <2>4, <2>5
<1> QED BY <1>2, <1>5, <1>6

(* A kernel-resolved open joins what is held for its thread.               *)
LEMMA CompanionFed ==
  ASSUME Flow(ring, held, out), ring # <<>>, FeedCompanion(Head(ring))
  PROVE  Flow(Tail(ring), held', out')
<1> DEFINE r == Head(ring)
           q == Tail(ring)
           t == r.tid
           o == Observation(r.call, t, "opened", "none", "direct")
<1>1. /\ r \in Records /\ r = ring[1] /\ Sound(calls, active, r)
      /\ \A j \in 1..Len(q) : Ordered(r, q[j])
      /\ \A i \in 1..Len(out) : ObsBefore(out[i], r)
      /\ \A u \in Threads : \A e \in held[u] : EntryBefore(e, u, r)
  BY HeadIs
<1>2. r.kind = "opened" /\ out' = out BY DEF FeedCompanion, Joins
<1>3. PICK e \in held[t] :
        held' = [held EXCEPT ![t] =
                   {[e EXCEPT !.companions = IF r.shown THEN Append(e.companions, o)
                                                        ELSE e.companions]}]
  BY DEF FeedCompanion
<1>4. t \in Threads /\ r.call \in Nat /\ r.shown \in BOOLEAN BY <1>1 DEF Records
<1>5. /\ o \in Obs /\ o.call = r.call /\ o.tid = t /\ o.part = "opened"
      /\ o.outcome = "none" /\ o.how = "direct"
  BY <1>4 DEF Observation, Obs, Results
<1>6. Flow(q, held, out) BY <1>1, <1>2, SkipStep
<1>7. Typed(ring, held, out) /\ Typed(q, held, out) BY <1>6 DEF Flow
<1>8. /\ e \in Entries /\ e.call \in Nat
      /\ e.companions \in Seq(Obs) /\ Len(e.companions) \in Nat
      /\ \A k \in 1..Len(e.companions) :
           e.companions[k] \in Obs /\ e.companions[k].call \in Nat
  BY <1>4, <1>7, FlowTypes
<1> HIDE DEF r, q, t, o
<1>9. CASE ~r.shown
  <2>1. [e EXCEPT !.companions = e.companions] = e BY <1>8 DEF Entries
  <2>2. held' = [held EXCEPT ![t] = {e}] BY <1>3, <1>9, <2>1
  <2>3. held' = held
    <3>1. held \in [Threads -> SUBSET Entries] /\ held[t] = {e}
      BY <1>4, <1>7 DEF Typed
    <3> QED BY <1>4, <2>2, <3>1
  <2> QED BY <1>2, <1>6, <2>3 DEF q
<1>10. CASE r.shown
  <2> DEFINE w == Append(e.companions, o)
             d == [e EXCEPT !.companions = w]
  <2>1. /\ w \in Seq(Obs) /\ Len(w) = Len(e.companions) + 1
        /\ \A k \in 1..Len(e.companions) : w[k] = e.companions[k]
        /\ w[Len(e.companions) + 1] = o
    BY <1>5, <1>8, AppendProperties
  <2> HIDE DEF w
  <2>2. d \in Entries /\ d.call = e.call /\ d.companions = w BY <1>8, <2>1 DEF Entries
  <2>3. held' = [held EXCEPT ![t] = {d}] BY <1>3, <1>10 DEF w
  <2> HIDE DEF d
  <2>4. \A k \in 1..Len(w) :
          \/ k \in 1..Len(e.companions) /\ w[k] = e.companions[k]
          \/ k = Len(e.companions) + 1 /\ w[k] = o
    BY <1>8, <2>1
  <2>5. /\ EntrySound(calls, active, t, e) /\ EntryWhole(t, e)
        /\ \A j \in 1..Len(q) : EntryBefore(e, t, q[j])
    BY <1>4, <1>6 DEF Flow, HeldI
  <2>6. Known(calls, active, r.call, t, "opened")
    BY <1>1, <1>2 DEF Sound, t
  <2>7. /\ Precedes(e.call, "entry", r.call, "opened")
        /\ \A k \in 1..Len(e.companions) :
             Precedes(e.companions[k].call, "opened", r.call, "opened")
    <3>1. EntryBefore(e, t, r) BY <1>1, <1>4
    <3> QED BY <1>2, <3>1 DEF EntryBefore, t
  <2>8. EntrySound(calls, active, t, d)
    BY <1>5, <2>2, <2>4, <2>5, <2>6 DEF EntrySound
  <2>9. EntryWhole(t, d)
    <3>1. ASSUME NEW k \in 1..Len(w)
          PROVE  /\ w[k].tid = t /\ w[k].part = "opened"
                 /\ w[k].outcome = "none" /\ w[k].how = "direct" /\ e.call <= w[k].call
      <4>1. CASE k \in 1..Len(e.companions) /\ w[k] = e.companions[k]
        BY <2>5, <4>1 DEF EntryWhole
      <4>2. CASE w[k] = o BY <1>4, <1>5, <1>8, <2>7, <4>2 DEF Precedes
      <4> QED BY <2>4, <4>1, <4>2
    <3>2. ASSUME NEW k \in 1..Len(w), NEW m \in 1..Len(w), k < m
          PROVE  w[k].call < w[m].call
      <4>1. k \in 1..Len(e.companions) /\ w[k] = e.companions[k]
        BY <1>8, <2>1, <2>4, <3>2
      <4>2. CASE m \in 1..Len(e.companions) /\ w[m] = e.companions[m]
        BY <2>5, <3>2, <4>1, <4>2 DEF EntryWhole
      <4>3. CASE w[m] = o BY <1>5, <2>7, <4>1, <4>3 DEF Precedes
      <4> QED BY <2>4, <4>2, <4>3
    <3> QED BY <2>2, <3>1, <3>2 DEF EntryWhole
  <2>10. ASSUME NEW j \in 1..Len(q) PROVE EntryBefore(d, t, q[j])
    <3> SUFFICES ASSUME q[j].tid = t, q[j].kind # "result"
                 PROVE  /\ Precedes(d.call, "entry", q[j].call, q[j].kind)
                        /\ \A k \in 1..Len(d.companions) :
                             Precedes(d.companions[k].call, "opened", q[j].call, q[j].kind)
      BY DEF EntryBefore
    <3>1. Precedes(r.call, "opened", q[j].call, q[j].kind)
      BY <1>1, <1>2 DEF Ordered, t
    <3>2. /\ Precedes(e.call, "entry", q[j].call, q[j].kind)
          /\ \A k \in 1..Len(e.companions) :
               Precedes(e.companions[k].call, "opened", q[j].call, q[j].kind)
      BY <2>5 DEF EntryBefore
    <3> QED BY <1>5, <2>2, <2>4, <3>1, <3>2
  <2>11. ASSUME NEW i \in 1..Len(out)
         PROVE  ObsApart(out[i], d) /\ (drops = 0 /\ out[i].tid = t => ObsFirst(out[i], d))
    <3>1. /\ ObsBefore(out[i], r) /\ Known(calls, active, out[i].call, out[i].tid, out[i].part)
          /\ ObsApart(out[i], e) /\ (drops = 0 /\ out[i].tid = t => ObsFirst(out[i], e))
      BY <1>1, <1>4 DEF Flow, OutI
    <3>2. out[i].tid = t => Precedes(out[i].call, out[i].part, r.call, "opened")
      BY <1>2, <3>1 DEF ObsBefore, t
    <3>3. out[i].call \in Nat BY <1>7, FlowTypes
    <3>4. out[i].call # r.call \/ out[i].part # "opened"
      BY <1>4, <2>6, <3>1, <3>2, <3>3 DEF Known, Precedes
    <3>5. ObsApart(out[i], d) BY <1>5, <2>2, <2>4, <3>1, <3>4 DEF ObsApart
    <3>6. drops = 0 /\ out[i].tid = t => ObsFirst(out[i], d)
      BY <1>5, <2>2, <2>4, <3>1, <3>2 DEF ObsFirst
    <3> QED BY <3>5, <3>6
  <2>12. ASSUME drops = 0
         PROVE  /\ \A j \in 1..Len(q) :
                     q[j].tid = t /\ q[j].call # d.call =>
                       \E k \in 1..(j - 1) : IsResult(q[k], t, d.call)
                /\ Sends(tracked, gone, t) =>
                     active[t] = d.call \/ \E k \in 1..Len(q) : IsResult(q[k], t, d.call)
    <3>1. PairI(q, held) /\ OpenI(q, held) BY <1>6 DEF Flow
    <3> QED BY <1>4, <2>2, <2>12, <3>1 DEF PairI, OpenI
  <2>13. Carried(d, t, q, out)
    BY <2>2, <2>8, <2>9, <2>10, <2>11, <2>12 DEF Carried
  <2>14. Flow(q, [held EXCEPT ![t] = {d}], out) BY <1>4, <1>6, <2>13, HoldOne
  <2> QED BY <1>2, <2>3, <2>14 DEF q
<1> QED BY <1>9, <1>10

(* Anything else is handed on at once.                                     *)
LEMMA DirectFed ==
  ASSUME Flow(ring, held, out), ring # <<>>, FeedDirect(Head(ring))
  PROVE  Flow(Tail(ring), held', out')
<1> DEFINE r == Head(ring)
           q == Tail(ring)
           t == r.tid
           o == Observation(r.call, t, r.kind, "none", "direct")
<1>1. /\ r \in Records /\ r = ring[1] /\ Sound(calls, active, r)
      /\ \A j \in 1..Len(q) : Ordered(r, q[j])
      /\ \A i \in 1..Len(out) : ObsBefore(out[i], r)
      /\ \A u \in Threads : \A e \in held[u] : EntryBefore(e, u, r)
      /\ drops = 0 => \A e \in held[t] : r.call = e.call
  BY HeadIs
<1>2. /\ r.kind # "result" /\ (r.kind = "opened" => held[t] = {}) /\ held' = held
      /\ out' = IF r.shown THEN Append(out, o) ELSE out
  BY DEF FeedDirect, Joins
<1>3. t \in Threads /\ r.call \in Nat /\ r.kind \in {"entry", "opened"}
  BY <1>1, <1>2 DEF Records
<1>4. /\ o \in Obs /\ o.call = r.call /\ o.tid = t /\ o.part = r.kind
      /\ o.outcome = "none" /\ o.how = "direct"
  BY <1>3 DEF Observation, Obs, Results
<1>5. Flow(q, held, out) BY <1>1, <1>2, SkipStep
<1>6. Typed(ring, held, out) BY DEF Flow
<1> HIDE DEF r, q, t, o
<1>7. Known(calls, active, o.call, o.tid, o.part) /\ calls[o.call].tid = t
  BY <1>1, <1>2, <1>4 DEF Sound, Known, t
<1>8. \A j \in 1..Len(q) : ObsBefore(o, q[j])
  BY <1>1, <1>2, <1>4 DEF ObsBefore, Ordered, t
<1>9. ASSUME NEW u \in Threads, NEW e \in held[u]
      PROVE  ObsApart(o, e) /\ (drops = 0 /\ o.tid = u => ObsFirst(o, e))
  <2>1. EntrySound(calls, active, u, e) BY DEF Flow, HeldI
  <2>2. e.call \in Nat BY <1>6, FlowTypes
  <2>3. CASE u # t BY <1>4, <1>7, <2>1, <2>3 DEF ObsApart, EntrySound, Known
  <2>4. CASE u = t
    <3>1. r.kind = "entry" BY <1>2, <1>3, <2>4
    <3>2. Precedes(e.call, "entry", r.call, "entry")
      BY <1>1, <2>4, <3>1 DEF EntryBefore, t
    <3>3. e.call < r.call BY <3>2 DEF Precedes
    <3>4. drops # 0 BY <1>1, <1>3, <2>2, <2>4, <3>3
    <3> QED BY <1>3, <1>4, <2>2, <3>1, <3>3, <3>4 DEF ObsApart
  <2> QED BY <2>3, <2>4
<1>10. ASSUME NEW i \in 1..Len(out) PROVE Follows(out[i], o)
  <2>1. ObsBefore(out[i], r) /\ Known(calls, active, out[i].call, out[i].tid, out[i].part)
    BY <1>1 DEF Flow, OutI
  <2>2. out[i].call \in Nat /\ out[i].part \in {"entry", "opened"} BY <1>6, FlowTypes
  <2>3. out[i].tid = t => Precedes(out[i].call, out[i].part, r.call, r.kind)
    BY <1>2, <2>1 DEF ObsBefore, t
  <2>4. CASE out[i].tid = t
    BY <1>3, <1>4, <2>2, <2>3, <2>4 DEF Follows, Before, Precedes
  <2>5. CASE out[i].tid # t BY <1>4, <1>7, <2>1, <2>5 DEF Follows, Known
  <2> QED BY <2>4, <2>5
<1>11. Fits(o, q, held, out)
  BY <1>4, <1>7, <1>8, <1>9, <1>10 DEF Fits, OwnOutcome
<1>12. CASE ~r.shown BY <1>2, <1>5, <1>12 DEF q
<1>13. CASE r.shown
  <2>1. <<o>> \in Seq(Obs) /\ Len(<<o>>) = 1 /\ <<o>>[1] = o BY <1>4
  <2>2. \A k \in 1..Len(<<o>>) : Fits(<<o>>[k], q, held, out) BY <1>11, <2>1
  <2>3. \A k, m \in 1..Len(<<o>>) : k < m => Follows(<<o>>[k], <<o>>[m]) BY <2>1
  <2>4. Flow(q, held, out \o <<o>>) BY <1>5, <2>1, <2>2, <2>3, AddStep
  <2>5. out \o <<o>> = Append(out, o)
    BY <1>4, <1>6, AppendIsConcat DEF Typed
  <2> QED BY <1>2, <1>13, <2>4, <2>5 DEF q
<1> QED BY <1>12, <1>13

-----------------------------------------------------------------------------
(* Every step keeps the invariant.                                         *)

LEMMA InvFlows ==
  ASSUME DInv
  PROVE  Flow(ring, held, out)
<1>1. Typed(ring, held, out) BY DEF DInv, TypeOK, Typed
<1>2. /\ RingI(ring) /\ HeldI(ring, held) /\ OutI(ring, held, out)
      /\ PairI(ring, held) /\ OpenI(ring, held)
  BY DEF DInv, Pipeline, RingInv, HeldInv, OutInv, PairInv, OpenInv
<1>3. OwnI(out) /\ LostI(out) BY DEF DInv, Says, OutcomeIsOwn, LostOnlyByDrop, OwnI, LostI
<1>4. OrderI(out) BY DEF DInv, Says, ThreadOrder, OrderI, Follows
<1> QED BY <1>1, <1>2, <1>3, <1>4 DEF Flow

LEMMA DecoderKeeps ==
  ASSUME DInv, UNCHANGED <<kernelVars, drops>>, Flow(ring', held', out'),
         pc' \in {"wait", "read", "flush"}, n' \in Nat
  PROVE  DInv'
<1>1. /\ calls' = calls /\ active' = active /\ gone' = gone /\ tracked' = tracked
      /\ drops' = drops
  BY DEF kernelVars
<1>2. Typed(ring', held', out') BY DEF Flow
<1>3. TypeOK'
  <2>1. /\ calls' \in Seq(Calls) /\ active' \in [Threads -> 0..Len(calls')]
        /\ gone' \in SUBSET Threads /\ tracked' \in BOOLEAN /\ drops' \in Nat
    BY <1>1, Zenon DEF DInv, TypeOK
  <2>2. /\ ring' \in Seq(Records) /\ out' \in Seq(Obs)
        /\ held' \in [Threads -> SUBSET Entries]
        /\ \A t \in Threads : \A d, e \in held'[t] : d = e
    BY <1>2 DEF Typed
  <2> QED BY <2>1, <2>2 DEF TypeOK
<1>4. CallsInv' BY <1>1 DEF DInv, Pipeline, CallsInv
<1>5. RingInv'
  <2>1. RingI(ring') BY DEF Flow
  <2> QED BY <1>1, <2>1 DEF RingInv, RingI
<1>6. HeldInv'
  <2>1. HeldI(ring', held') BY DEF Flow
  <2> QED BY <1>1, <2>1 DEF HeldInv, HeldI
<1>7. OutInv'
  <2>1. OutI(ring', held', out') BY DEF Flow
  <2> QED BY <1>1, <2>1 DEF OutInv, OutI
<1>8. PairInv'
  <2>1. PairI(ring', held') BY DEF Flow
  <2> QED BY <1>1, <2>1 DEF PairInv, PairI
<1>9. OpenInv'
  <2>1. OpenI(ring', held') BY DEF Flow
  <2> QED BY <1>1, <2>1 DEF OpenInv, OpenI
<1>10. OutcomeIsOwn' /\ LostOnlyByDrop'
  <2>1. OwnI(out') /\ LostI(out') BY DEF Flow
  <2> QED BY <1>1, <2>1 DEF OwnI, LostI, OutcomeIsOwn, LostOnlyByDrop, OwnOutcome
<1>11. ThreadOrder'
  <2>1. OrderI(out') BY DEF Flow
  <2> QED BY <1>1, <2>1 DEF OrderI, Follows, ThreadOrder
<1> QED
  BY <1>3, <1>4, <1>5, <1>6, <1>7, <1>8, <1>9, <1>10, <1>11 DEF DInv, Pipeline, Says

LEMMA PollKeeps ==
  ASSUME DInv, Poll \/ Elapse
  PROVE  DInv'
<1>1. Flow(ring, held, out) BY InvFlows
<1>2. pc \in {"wait", "read", "flush"} /\ n \in Nat BY DEF DInv, TypeOK
<1>3. CASE Wait
  <2>1. UNCHANGED <<kernelVars, drops>> /\ pc' = "read" /\ n' = 0
        /\ Flow(ring', held', out')
    BY <1>1, <1>3 DEF Wait
  <2> QED BY <2>1, DecoderKeeps
<1>4. CASE Feed
  <2>1. /\ ring # <<>> /\ ring' = Tail(ring) /\ n' = n + 1
        /\ UNCHANGED <<kernelVars, drops, pc>>
        /\ \/ FeedResult(Head(ring)) \/ FeedEntry(Head(ring))
           \/ FeedCompanion(Head(ring)) \/ FeedDirect(Head(ring))
    BY <1>4 DEF Feed
  <2>2. Flow(Tail(ring), held', out')
    BY <1>1, <2>1, ResultFed, EntryFed, CompanionFed, DirectFed
  <2>3. Flow(ring', held', out') BY <2>1, <2>2
  <2> QED BY <1>2, <2>1, <2>3, DecoderKeeps
<1>5. CASE ReadDone
  <2>1. UNCHANGED <<kernelVars, drops>> /\ pc' = "flush" /\ n' = n
        /\ Flow(ring', held', out')
    BY <1>1, <1>5 DEF ReadDone
  <2> QED BY <1>2, <2>1, DecoderKeeps
<1>6. ASSUME NEW t \in Threads, FlushStale(t) PROVE DInv'
  <2>1. PICK e \in held[t] : out' = out \o Released(e, t, "none", "stale")
    BY <1>6 DEF FlushStale
  <2>2. /\ held' = [held EXCEPT ![t] = {}] /\ ring' = ring
        /\ UNCHANGED <<kernelVars, drops, pc, n>>
    BY <1>6 DEF FlushStale
  <2>3. "stale" \in Hows /\ "none" \in Results /\ "stale" # "lost" BY DEF Hows, Results
  <2>4. Flow(ring, [held EXCEPT ![t] = {}], out \o Released(e, t, "none", "stale"))
    BY <1>1, <2>3, ReleaseStep
  <2>5. Flow(ring', held', out') BY <2>1, <2>2, <2>4
  <2> QED BY <1>2, <2>2, <2>5, DecoderKeeps
<1>7. CASE FlushDone
  <2>1. UNCHANGED <<kernelVars, drops>> /\ pc' = "wait" /\ n' = n
        /\ Flow(ring', held', out')
    BY <1>1, <1>7 DEF FlushDone
  <2> QED BY <1>2, <2>1, DecoderKeeps
<1>8. CASE Elapse
  <2>1. /\ held' = [t \in Threads |-> {[e EXCEPT !.old = TRUE] : e \in held[t]}]
        /\ ring' = ring /\ out' = out
        /\ UNCHANGED <<kernelVars, drops, pc, n>>
    BY <1>8 DEF Elapse
  <2>2. Flow(ring, [t \in Threads |-> {[e EXCEPT !.old = TRUE] : e \in held[t]}], out)
    BY <1>1, AgeStep
  <2>3. Flow(ring', held', out') BY <2>1, <2>2
  <2> QED BY <1>2, <2>1, <2>3, DecoderKeeps
<1> QED BY <1>3, <1>4, <1>5, <1>6, <1>7, <1>8 DEF Poll

LEMMA KernelKeeps ==
  ASSUME DInv, TypeOK' /\ CallsInv' /\ \E r : KernelStep(r)
  PROVE  DInv'
<1>1. PICK r : KernelStep(r) OBVIOUS
<1>2. TypeOK /\ Pipeline /\ Says BY DEF DInv
<1>3. Pipeline' /\ Says' BY <1>1, <1>2, KernelSays
<1> QED BY <1>3 DEF DInv

LEMMA DecoderInit == Init => DInv
<1> SUFFICES ASSUME Init PROVE DInv OBVIOUS
<1>1. /\ calls = <<>> /\ active = [t \in Threads |-> 0] /\ gone = {} /\ tracked
      /\ ring = <<>> /\ drops = 0 /\ held = [t \in Threads |-> {}]
      /\ out = <<>> /\ pc = "wait" /\ n = 0 /\ tracked \in BOOLEAN
  BY DEF Init
<1>2. Len(calls) = 0 /\ Len(ring) = 0 /\ Len(out) = 0 BY <1>1
<1>3. TypeOK
  <2>1. /\ calls \in Seq(Calls) /\ ring \in Seq(Records) /\ out \in Seq(Obs)
    BY <1>1
  <2>2. held \in [Threads -> SUBSET Entries] /\ active \in [Threads -> 0..Len(calls)]
    BY <1>1, <1>2
  <2> QED BY <1>1, <2>1, <2>2 DEF TypeOK
<1>4. Pipeline
  BY <1>1, <1>2
  DEF Pipeline, CallsInv, RingInv, RingI, HeldInv, HeldI, OutInv, OutI,
      PairInv, PairI, OpenInv, OpenI
<1>5. Says BY <1>2 DEF Says, OutcomeIsOwn, LostOnlyByDrop, ThreadOrder
<1> QED BY <1>3, <1>4, <1>5 DEF DInv

LEMMA DecoderStep == DInv /\ [Next]_vars => DInv'
<1> SUFFICES ASSUME DInv, [Next]_vars PROVE DInv' OBVIOUS
<1>1. TypeOK /\ CallsInv BY DEF DInv, Pipeline
<1>2. CASE Poll \/ Elapse BY <1>2, PollKeeps
<1>3. ASSUME NEW t \in Threads, NEW hook \in BOOLEAN, NEW shown \in Decodes,
             Enter(t, hook, shown)
      PROVE  DInv'
  BY <1>1, <1>3, EnterSteps, KernelKeeps
<1>4. ASSUME NEW t \in Threads, NEW shown \in Decodes, FileOpened(t, shown)
      PROVE  DInv'
  BY <1>1, <1>4, OpenedSteps, KernelKeeps
<1>5. ASSUME NEW t \in Threads, NEW ret \in Returns, Return(t, ret) PROVE DInv'
  BY <1>1, <1>5, ReturnSteps, KernelKeeps
<1>6. ASSUME NEW t \in Threads, ExecAsLeader(t) PROVE DInv'
  BY <1>1, <1>6, ExecSteps, KernelKeeps
<1>7. CASE LeaderExits BY <1>1, <1>7, LeaderExitSteps, KernelKeeps
<1>8. CASE UNCHANGED vars
  <2>1. UNCHANGED <<kernelVars, drops>> /\ ring' = ring /\ held' = held /\ out' = out
        /\ pc' = pc /\ n' = n
    BY <1>8 DEF vars
  <2>2. pc \in {"wait", "read", "flush"} /\ n \in Nat BY <1>1 DEF TypeOK
  <2>3. Flow(ring', held', out') BY <2>1, InvFlows
  <2> QED BY <2>1, <2>2, <2>3, DecoderKeeps
<1> QED BY <1>2, <1>3, <1>4, <1>5, <1>6, <1>7, <1>8 DEF Next

LEMMA DecoderAlways == Spec => []DInv
BY DecoderInit, DecoderStep, PTL DEF Spec

(* The types, with at most one entry held for a thread: Decoder::pending   *)
(* is a map, and an entry replaced in it has been released.                *)
THEOREM DecoderTypes == Spec => []TypeOK
<1>1. DInv => TypeOK BY DEF DInv
<1> QED BY <1>1, DecoderAlways, PTL

(* As long as the ring dropped nothing, an outcome Decoder::feed attaches  *)
(* to an observation is the one its own call returned: through execs that  *)
(* change the thread's id, exits of the leader and re-adoption.            *)
THEOREM OutcomesAreOwn == Spec => []OutcomeIsOwn
<1>1. DInv => OutcomeIsOwn BY DEF DInv, Says
<1> QED BY <1>1, DecoderAlways, PTL

(* Decoder::feed gives an entry up for a later one of its thread only      *)
(* after the ring really dropped something.                                *)
THEOREM LossesAreDrops == Spec => []LostOnlyByDrop
<1>1. DInv => LostOnlyByDrop BY DEF DInv, Says
<1> QED BY <1>1, DecoderAlways, PTL

(* Nothing is handed on twice, drops or not; without drops the             *)
(* observations of a thread come in the order of its calls, however        *)
(* results, expiries and polls interleave.                                 *)
THEOREM ThreadsInOrder == Spec => []ThreadOrder
<1>1. DInv => ThreadOrder BY DEF DInv, Says
<1> QED BY <1>1, DecoderAlways, PTL
=============================================================================
