--------------------------- MODULE ProxyStatsProofs ---------------------------
(***************************************************************************)
(* Theorems of ProxyStats, for any signals, increments, capacities and     *)
(* bounds: its types (no rate is negative, no ring or channel exceeds its  *)
(* capacity), that a torn sample heals by the next one, and that neither   *)
(* reader of the samples ever falls back.                                  *)
(***************************************************************************)
EXTENDS ProxyStats, SequenceTheorems, TLAPS

(***************************************************************************)
(* The strengthening.                                                      *)
(***************************************************************************)

(* The counters of a signal are in the sample being captured. *)
Loaded(s) ==
    \/ sampler = "finish"
    \/ \E i \in 1 .. at - 1 : SignalOrder[i] = s
    \/ sampler = "failed" /\ SignalOrder[at] = s

(* A failure is only counted for a record that was forwarded. *)
CountersOrdered == \A s \in Signals : failed[s] <= forwarded[s]

(* A snapshot never holds more than the counters do now. *)
Past(x) == \A s \in Signals : x.forwarded[s] <= forwarded[s] /\ x.failed[s] <= failed[s]

(* What the sample has loaded is at least what an earlier one counted. *)
Follows(x) ==
    \A s \in Signals : Loaded(s) =>
        x.forwarded[s] <= snap.forwarded[s] /\ x.failed[s] <= snap.forwarded[s]

Capturing == {"forwarded", "failed", "finish"}

WindowPast == \A i \in DOMAIN window : Past(window[i])
WindowFollowed == sampler \in Capturing => \A i \in DOMAIN window : Follows(window[i])

StatsInv ==
    /\ TypeOK /\ CountersOrdered
    /\ sampler = "finish" => at = Len(SignalOrder) + 1
    /\ Past(snap)
    /\ WindowPast /\ WindowFollowed /\ TearHealsByNextSample

(***************************************************************************)
(* Rings and channels.                                                     *)
(***************************************************************************)

(* TrySend and Tail keep a channel's type and capacity.                    *)
LEMMA ChannelType ==
    ASSUME NEW V, NEW ch \in Seq(V), NEW depth \in Nat, NEW v \in V, Len(ch) <= depth
    PROVE  /\ TrySend(ch, depth, v) \in Seq(V) /\ Len(TrySend(ch, depth, v)) <= depth
           /\ ch # << >> => Head(ch) \in V /\ Tail(ch) \in Seq(V) /\ Len(Tail(ch)) <= depth
BY DEF TrySend

(* Push keeps a ring's type and capacity. *)
LEMMA PushType ==
    ASSUME NEW V, NEW ring \in Seq(V), NEW capacity \in Nat \ {0}, NEW v \in V,
           Len(ring) <= capacity
    PROVE  Push(ring, capacity, v) \in Seq(V) /\ Len(Push(ring, capacity, v)) <= capacity
BY DEF Push

(* The entries of a ring after a Push: the new one, or one of before. *)
LEMMA PushEntry ==
    ASSUME NEW V, NEW ring \in Seq(V), NEW capacity \in Nat \ {0}, NEW v \in V,
           NEW i \in DOMAIN Push(ring, capacity, v)
    PROVE  \/ Push(ring, capacity, v)[i] = v
           \/ \E k \in DOMAIN ring : Push(ring, capacity, v)[i] = ring[k]
<1>1. CASE Len(ring) >= capacity
  <2>1. ring # << >> /\ Tail(ring) \in Seq(V) /\ Len(Tail(ring)) = Len(ring) - 1
    BY <1>1
  <2>2. Push(ring, capacity, v) = Append(Tail(ring), v)
    BY <1>1 DEF Push
  <2>3. CASE i = Len(ring)
    BY <2>1, <2>2, <2>3
  <2>4. CASE i # Len(ring)
    <3>1. i \in 1 .. Len(ring) - 1
      BY <2>1, <2>2, <2>4
    <3>2. Append(Tail(ring), v)[i] = ring[i + 1] /\ i + 1 \in DOMAIN ring
      BY <2>1, <3>1
    <3>. QED
      BY <2>2, <3>2
  <2>. QED
    BY <2>3, <2>4
<1>2. CASE ~(Len(ring) >= capacity)
  BY <1>2 DEF Push
<1>. QED
  BY <1>1, <1>2

(* Two neighbours of a ring after a Push: neighbours before, or the last   *)
(* entry and the new one.                                                  *)
LEMMA PushNeighbours ==
    ASSUME NEW V, NEW ring \in Seq(V), NEW capacity \in Nat \ {0}, NEW v \in V,
           Len(ring) <= capacity, NEW new, new = Push(ring, capacity, v),
           NEW i \in 1 .. Len(new) - 1
    PROVE  \/ \E k \in 1 .. Len(ring) - 1 : new[i] = ring[k] /\ new[i + 1] = ring[k + 1]
           \/ new[i] = ring[Len(ring)] /\ new[i + 1] = v
<1>1. CASE Len(ring) >= capacity
  <2>1. ring # << >> /\ Tail(ring) \in Seq(V) /\ Len(Tail(ring)) = Len(ring) - 1
    BY <1>1
  <2>2. new = Append(Tail(ring), v) /\ Len(new) = Len(ring)
    BY <1>1, <2>1 DEF Push
  <2>3. new[i] = ring[i + 1]
    BY <2>1, <2>2
  <2>4. CASE i = Len(ring) - 1
    <3>1. new[i + 1] = v
      BY <2>1, <2>2, <2>4
    <3>. QED
      BY <2>1, <2>3, <2>4, <3>1
  <2>5. CASE i # Len(ring) - 1
    <3>1. PICK n \in Nat : n = Len(ring)
      OBVIOUS
    <3>2. i \in 1 .. n - 1
      BY <2>2, <3>1
    <3>3. i + 1 \in 1 .. Len(ring) - 1
      BY <2>5, <3>1, <3>2
    <3>4. new[i + 1] = ring[(i + 1) + 1]
      BY <2>1, <2>2, <3>3
    <3>. QED
      BY <2>3, <3>3, <3>4
  <2>. QED
    BY <2>4, <2>5
<1>2. CASE ~(Len(ring) >= capacity)
  <2>1. new = Append(ring, v) /\ Len(new) = Len(ring) + 1
    BY <1>2 DEF Push
  <2>2. CASE i = Len(ring)
    BY <2>1, <2>2
  <2>3. CASE i # Len(ring)
    <3>1. i \in 1 .. Len(ring) - 1 /\ new[i] = ring[i] /\ new[i + 1] = ring[i + 1]
      BY <2>1, <2>3
    <3>. QED
      BY <3>1
  <2>. QED
    BY <2>2, <2>3
<1>. QED
  BY <1>1, <1>2

(***************************************************************************)
(* The invariant.                                                          *)
(***************************************************************************)

(* Every signal that SignalOrder lists is an element of Signals. *)
LEMMA OrderTypes ==
    /\ Len(SignalOrder) \in Nat /\ DOMAIN SignalOrder = 1 .. Len(SignalOrder)
    /\ \A i \in 1 .. Len(SignalOrder) : SignalOrder[i] \in Signals
    /\ \A s \in Signals : \E i \in 1 .. Len(SignalOrder) : SignalOrder[i] = s
BY ConstantsAssumption DEF Signals

(* The invariant holds before the first tick. *)
LEMMA InitStats == Init => StatsInv
<1>. SUFFICES ASSUME Init PROVE StatsInv
  OBVIOUS
<1>. USE ConstantsAssumption DEF Init
<1>1. Zero \in Counts /\ NoSnapshot \in Snapshot
  BY DEF Zero, Counts, NoSnapshot, Snapshot
<1>2. TypeOK
  BY <1>1, OrderTypes DEF TypeOK
<1>3. CountersOrdered /\ Past(snap)
  BY DEF CountersOrdered, Past, Zero, NoSnapshot
<1>4. WindowPast /\ WindowFollowed /\ TearHealsByNextSample
  BY DEF WindowPast, WindowFollowed, TearHealsByNextSample
<1>. QED
  BY <1>2, <1>3, <1>4 DEF StatsInv

(* A writer of the counters only moves them up.                            *)
LEMMA CountersStep ==
    ASSUME StatsInv, NEW s \in Signals, NEW n \in Increments,
           RecordForwarded(s, n) \/ RecordFailed(s, n)
    PROVE  StatsInv'
<1>. USE ConstantsAssumption DEF StatsInv, samplerVars, outputs
<1>1. forwarded \in [Signals -> Nat] /\ failed \in [Signals -> Nat] /\ n \in Nat
  BY DEF TypeOK, Counts
<1>2. UNCHANGED <<sampler, at, snap, window, samples, statsCh, sinkCh, history, shown, emitted>>
  BY DEF RecordForwarded, RecordFailed
<1>3. /\ forwarded' \in [Signals -> Nat] /\ failed' \in [Signals -> Nat]
      /\ \A t \in Signals : forwarded[t] <= forwarded'[t] /\ failed[t] <= failed'[t]
      /\ \A t \in Signals : failed'[t] <= forwarded'[t]
  <2>1. CASE RecordForwarded(s, n)
    BY <1>1, <2>1 DEF RecordForwarded, CountersOrdered
  <2>2. CASE RecordFailed(s, n)
    BY <1>1, <2>2 DEF RecordFailed, CountersOrdered
  <2>. QED
    BY <2>1, <2>2
<1>4. TypeOK'
  BY <1>2, <1>3 DEF TypeOK, Counts
<1>5. ASSUME NEW x \in Snapshot, Past(x)
      PROVE  \A t \in Signals : /\ x.forwarded[t] <= forwarded'[t]
                                /\ x.failed[t] <= failed'[t]
  <2>1. x.forwarded \in [Signals -> Nat] /\ x.failed \in [Signals -> Nat]
    BY DEF Snapshot, Counts
  <2>2. ASSUME NEW t \in Signals
        PROVE  x.forwarded[t] <= forwarded'[t] /\ x.failed[t] <= failed'[t]
    <3>1. /\ x.forwarded[t] \in Nat /\ x.failed[t] \in Nat
          /\ forwarded[t] \in Nat /\ failed[t] \in Nat
          /\ forwarded'[t] \in Nat /\ failed'[t] \in Nat
      BY <1>1, <1>3, <2>1
    <3>2. x.forwarded[t] <= forwarded[t] /\ x.failed[t] <= failed[t]
      BY <1>5 DEF Past
    <3>3. forwarded[t] <= forwarded'[t] /\ failed[t] <= failed'[t]
      BY <1>3
    <3>4. \A i, j, k \in Nat : i <= j /\ j <= k => i <= k
      OBVIOUS
    <3>. QED
      BY <3>1, <3>2, <3>3, <3>4
  <2>. QED
    BY <2>2
<1>6. Past(snap)'
  BY <1>2, <1>5 DEF Past, TypeOK
<1>7. WindowPast'
  <2>1. \A i \in DOMAIN window : window[i] \in Snapshot
    BY ElementOfSeq DEF TypeOK
  <2>. QED
    BY <1>2, <1>5, <2>1 DEF Past, WindowPast
<1>8. WindowFollowed'
  BY <1>2 DEF WindowFollowed, Follows, Loaded
<1>. QED
  BY <1>2, <1>3, <1>4, <1>6, <1>7, <1>8
  DEF CountersOrdered, TearHealsByNextSample

(* A tick starts a new snapshot.                                           *)
LEMMA TickStep == ASSUME StatsInv, TickFires PROVE StatsInv'
<1>. USE ConstantsAssumption DEF StatsInv, TickFires, counters, outputs
<1>1. Zero \in Counts /\ NoSnapshot \in Snapshot
  BY DEF Zero, Counts, NoSnapshot, Snapshot
<1>2. TypeOK'
  BY <1>1, OrderTypes DEF TypeOK
<1>3. Past(snap)'
  BY DEF Past, NoSnapshot, Zero, TypeOK, Counts
<1>4. \A s \in Signals : ~Loaded(s)'
  BY DEF Loaded
<1>5. WindowFollowed'
  BY <1>4 DEF WindowFollowed, Follows
<1>. QED
  BY <1>2, <1>3, <1>5
  DEF CountersOrdered, WindowPast, Past, TearHealsByNextSample

(* The forwarded counter of the next signal is loaded: it is at least what *)
(* any earlier sample counted of that signal, as forwarded or as failed.   *)
LEMMA LoadForwardedStep == ASSUME StatsInv, LoadForwarded PROVE StatsInv'
<1>. USE ConstantsAssumption DEF StatsInv
<1>1. at \in 1 .. Len(SignalOrder) /\ SignalOrder[at] \in Signals
  BY OrderTypes DEF LoadForwarded, TypeOK
<1>2. PICK s \in Signals : s = SignalOrder[at]
  BY <1>1
<1>3. /\ UNCHANGED <<forwarded, failed, at, window, samples, statsCh, sinkCh>>
      /\ UNCHANGED <<history, shown, emitted>>
      /\ sampler = "forwarded" /\ sampler' = "failed"
      /\ snap' = [snap EXCEPT !.forwarded[s] = forwarded[s]]
  BY <1>2 DEF LoadForwarded, counters, outputs
<1>4. /\ forwarded \in [Signals -> Nat] /\ failed \in [Signals -> Nat] /\ snap \in Snapshot
      /\ snap.forwarded \in [Signals -> Nat] /\ snap.failed \in [Signals -> Nat]
  BY DEF TypeOK, Counts, Snapshot
<1>5. /\ snap' \in Snapshot /\ snap'.failed = snap.failed
      /\ \A t \in Signals : snap'.forwarded[t] = IF t = s THEN forwarded[t] ELSE snap.forwarded[t]
  BY <1>3, <1>4 DEF Snapshot, Counts
<1>6. TypeOK'
  BY <1>1, <1>3, <1>5 DEF TypeOK
<1>7. Past(snap)'
  <2>1. ASSUME NEW t \in Signals
        PROVE  snap'.forwarded[t] <= forwarded'[t] /\ snap'.failed[t] <= failed'[t]
    <3>1. snap.forwarded[t] <= forwarded[t] /\ snap.failed[t] <= failed[t]
      BY DEF Past
    <3>2. forwarded[t] \in Nat /\ failed[t] \in Nat
      BY <1>4
    <3>. QED
      BY <1>3, <1>5, <3>1, <3>2
  <2>. QED
    BY <2>1 DEF Past
<1>8. WindowFollowed'
  <2>1. ASSUME NEW i \in DOMAIN window, NEW t \in Signals, Loaded(t)'
        PROVE  /\ window[i].forwarded[t] <= snap'.forwarded[t]
               /\ window[i].failed[t] <= snap'.forwarded[t]
    <3>1. CASE t = s
      <4>1. window[i] \in Snapshot /\ Past(window[i])
        BY ElementOfSeq DEF TypeOK, WindowPast
      <4>2. window[i].forwarded[t] \in Nat /\ window[i].failed[t] \in Nat
        BY <4>1 DEF Snapshot, Counts
      <4>3. window[i].forwarded[t] <= forwarded[t] /\ window[i].failed[t] <= failed[t]
        BY <4>1 DEF Past
      <4>4. failed[t] <= forwarded[t] /\ failed[t] \in Nat /\ forwarded[t] \in Nat
        BY <1>4 DEF CountersOrdered
      <4>5. snap'.forwarded[t] = forwarded[t]
        BY <1>5, <3>1
      <4>. QED
        BY <4>2, <4>3, <4>4, <4>5
    <3>2. CASE t # s
      <4>1. Loaded(t)
        BY <1>2, <1>3, <2>1, <3>2 DEF Loaded
      <4>. QED
        BY <1>3, <1>5, <3>2, <4>1 DEF WindowFollowed, Follows, Capturing
    <3>. QED
      BY <3>1, <3>2
  <2>. QED
    BY <1>3, <2>1 DEF WindowFollowed, Follows
<1>. QED
  BY <1>3, <1>6, <1>7, <1>8
  DEF CountersOrdered, WindowPast, Past, TearHealsByNextSample

(* The failed counter of the signal is loaded, and the next signal's turn  *)
(* comes; after the last one every signal is loaded.                       *)
LEMMA LoadFailedStep == ASSUME StatsInv, LoadFailed PROVE StatsInv'
<1>. USE ConstantsAssumption DEF StatsInv
<1>1. at \in 1 .. Len(SignalOrder) /\ SignalOrder[at] \in Signals
  BY OrderTypes DEF LoadFailed, TypeOK
<1>2. PICK s \in Signals : s = SignalOrder[at]
  BY <1>1
<1>3. /\ UNCHANGED <<forwarded, failed, window, samples, statsCh, sinkCh>>
      /\ UNCHANGED <<history, shown, emitted>>
      /\ sampler = "failed" /\ at' = at + 1
      /\ sampler' = IF at = Len(SignalOrder) THEN "finish" ELSE "forwarded"
      /\ snap' = [snap EXCEPT !.failed[s] = failed[s]]
  BY <1>2 DEF LoadFailed, counters, outputs
<1>4. /\ forwarded \in [Signals -> Nat] /\ failed \in [Signals -> Nat] /\ snap \in Snapshot
      /\ snap.forwarded \in [Signals -> Nat] /\ snap.failed \in [Signals -> Nat]
  BY DEF TypeOK, Counts, Snapshot
<1>5. /\ snap' \in Snapshot /\ snap'.forwarded = snap.forwarded
      /\ \A t \in Signals : snap'.failed[t] = IF t = s THEN failed[t] ELSE snap.failed[t]
  BY <1>3, <1>4 DEF Snapshot, Counts
<1>6. TypeOK'
  <2>1. at' \in 1 .. Len(SignalOrder) + 1
    BY <1>1, <1>3, OrderTypes
  <2>2. sampler' \in {"forwarded", "failed"} => at' <= Len(SignalOrder)
    <3>1. PICK n \in Nat : n = Len(SignalOrder)
      BY OrderTypes
    <3>. QED
      BY <1>1, <1>3, <3>1
  <2>. QED
    BY <1>3, <1>5, <2>1, <2>2 DEF TypeOK
<1>7. Past(snap)'
  <2>1. ASSUME NEW t \in Signals
        PROVE  snap'.forwarded[t] <= forwarded'[t] /\ snap'.failed[t] <= failed'[t]
    <3>1. snap.forwarded[t] <= forwarded[t] /\ snap.failed[t] <= failed[t]
      BY DEF Past
    <3>2. forwarded[t] \in Nat /\ failed[t] \in Nat
      BY <1>4
    <3>. QED
      BY <1>3, <1>5, <3>1, <3>2
  <2>. QED
    BY <2>1 DEF Past
<1>8. ASSUME NEW t \in Signals, Loaded(t)' PROVE Loaded(t)
  <2>1. PICK i \in 1 .. Len(SignalOrder) : SignalOrder[i] = t /\ i <= at
    <3>1. CASE at = Len(SignalOrder)
      BY <3>1, OrderTypes
    <3>2. CASE at # Len(SignalOrder)
      BY <1>1, <1>3, <1>8, <3>2 DEF Loaded
    <3>. QED
      BY <3>1, <3>2
  <2>2. i = at \/ i \in 1 .. at - 1
    BY <1>1, <2>1
  <2>. QED
    BY <1>3, <2>1, <2>2 DEF Loaded
<1>9. WindowFollowed'
  BY <1>3, <1>5, <1>8 DEF WindowFollowed, Follows, Capturing
<1>10. sampler' = "finish" => at' = Len(SignalOrder) + 1
  BY <1>3
<1>. QED
  BY <1>3, <1>6, <1>7, <1>9, <1>10
  DEF CountersOrdered, WindowPast, Past, TearHealsByNextSample

(* The sample x taken dt after prev, as FinishSample completes it.          *)
Completed(x, prev, dt) ==
    LET timed == [x EXCEPT !.time = prev.time + dt]
    IN [timed EXCEPT !.rate = RateSince(prev, timed)]

(* Completing a sample leaves its counts alone, and a rate is never        *)
(* negative.                                                               *)
LEMMA CompletedSample ==
    ASSUME NEW x \in Snapshot, NEW prev \in Snapshot, NEW dt \in Nat,
           \A s \in Signals : prev.forwarded[s] <= x.forwarded[s],
           NEW cur, cur = Completed(x, prev, dt)
    PROVE  cur \in Snapshot /\ cur.forwarded = x.forwarded /\ cur.failed = x.failed
<1>0. PICK timed : timed = [x EXCEPT !.time = prev.time + dt]
  OBVIOUS
<1>1. /\ timed \in Snapshot /\ timed.time = prev.time + dt
      /\ timed.forwarded = x.forwarded /\ timed.failed = x.failed
  BY <1>0 DEF Snapshot
<1>2. prev.time \in Nat /\ timed.time - prev.time = dt
  BY <1>1 DEF Snapshot
<1>3. ASSUME NEW s \in Signals PROVE RateSince(prev, timed)[s] \in Nat
  <2>1. x.forwarded[s] \in Nat /\ prev.forwarded[s] \in Nat
    BY DEF Snapshot, Counts
  <2>2. RateSince(prev, timed)[s]
            = IF dt > 0 THEN (x.forwarded[s] - prev.forwarded[s]) \div dt ELSE 0
    BY <1>1, <1>2 DEF RateSince
  <2>3. \A n \in Nat : dt > 0 => n \div dt \in Nat
    OBVIOUS
  <2>4. x.forwarded[s] - prev.forwarded[s] \in Nat
    BY <2>1
  <2>. QED
    BY <2>2, <2>3, <2>4
<1>4. RateSince(prev, timed) \in Counts
  <2>1. RateSince(prev, timed)
            = [s \in Signals |-> RateSince(prev, timed)[s]]
    BY DEF RateSince
  <2>. QED
    BY <1>3, <2>1 DEF Counts
<1>5. cur = [timed EXCEPT !.rate = RateSince(prev, timed)]
  BY <1>0 DEF Completed
<1>. QED
  BY <1>1, <1>4, <1>5 DEF Snapshot

(* The finished sample joins the window behind its predecessor.            *)
LEMMA FinishStep == ASSUME StatsInv, FinishSample PROVE StatsInv'
<1>. USE ConstantsAssumption DEF StatsInv
<1>1. /\ UNCHANGED <<forwarded, failed, at, samples, statsCh, sinkCh, history, shown, emitted>>
      /\ sampler = "finish" /\ sampler' = "fanOut"
  BY DEF FinishSample, counters, outputs
<1>2. /\ snap \in Snapshot /\ window \in Seq(Snapshot) /\ Len(window) <= WindowCapacity
  BY DEF TypeOK
<1>3. CASE window = << >>
  <2>1. snap' = snap /\ window' = <<snap>> /\ Len(window') = 1
    BY <1>3 DEF FinishSample
  <2>2. window' \in Seq(Snapshot) /\ Len(window') <= WindowCapacity
    BY <1>2, <2>1
  <2>3. TypeOK'
    BY <1>1, <2>1, <2>2 DEF TypeOK
  <2>4. WindowPast' /\ Past(snap)'
    BY <1>1, <2>1 DEF WindowPast, Past
  <2>5. TearHealsByNextSample'
    BY <2>1 DEF TearHealsByNextSample
  <2>. QED
    BY <1>1, <2>3, <2>4, <2>5 DEF CountersOrdered, WindowFollowed, Capturing
<1>4. CASE window # << >>
  <2>. DEFINE last == Len(window)
              prev == window[last]
  <2>1. last \in DOMAIN window /\ prev \in Snapshot
    BY <1>2, <1>4, ElementOfSeq
  <2>2. PICK dt \in Nat :
            snap' = Completed(snap, prev, dt) /\ window' = Push(window, WindowCapacity, snap')
    BY <1>4 DEF FinishSample, Completed
  <2>3. \A i \in DOMAIN window : \A s \in Signals :
            /\ window[i].forwarded[s] <= snap.forwarded[s]
            /\ window[i].failed[s] <= snap.forwarded[s]
    BY <1>1 DEF WindowFollowed, Follows, Loaded, Capturing
  <2>4. /\ snap' \in Snapshot /\ snap'.forwarded = snap.forwarded /\ snap'.failed = snap.failed
    <3>1. PICK x \in Snapshot, p \in Snapshot : x = snap /\ p = prev
      BY <1>2, <2>1
    <3>2. \A s \in Signals : p.forwarded[s] <= x.forwarded[s]
      BY <2>1, <2>3, <3>1
    <3>3. PICK cur : cur = snap'
      OBVIOUS
    <3>4. cur = Completed(x, p, dt)
      BY <2>2, <3>1, <3>3
    <3>5. /\ cur \in Snapshot /\ cur.forwarded = x.forwarded /\ cur.failed = x.failed
      BY <3>2, <3>4, CompletedSample
    <3>. QED
      BY <3>1, <3>3, <3>5
  <2>5. PICK cur \in Snapshot : cur = snap'
    BY <2>4
  <2>6. window' = Push(window, WindowCapacity, cur)
    BY <2>2, <2>5
  <2>. HIDE DEF prev, last
  <2>7. window' \in Seq(Snapshot) /\ Len(window') <= WindowCapacity
    BY <1>2, <2>6, PushType
  <2>8. TypeOK'
    BY <1>1, <2>4, <2>7 DEF TypeOK
  <2>9. Past(snap)'
    BY <1>1, <2>4 DEF Past
  <2>10. WindowPast'
    <3>1. ASSUME NEW i \in DOMAIN window' PROVE Past(window[i])'
      <4>1. window'[i] = cur \/ \E k \in DOMAIN window : window'[i] = window[k]
        BY <1>2, <2>6, PushEntry
      <4>. QED
        BY <1>1, <2>5, <2>9, <4>1 DEF Past, WindowPast
    <3>. QED
      BY <3>1 DEF WindowPast
  <2>11. ASSUME NEW i \in 1 .. Len(window') - 1
         PROVE  \/ \E k \in 1 .. Len(window) - 1 :
                        window'[i] = window[k] /\ window'[i + 1] = window[k + 1]
                \/ window'[i] = prev /\ window'[i + 1] = cur
    <3>1. PICK ring \in Seq(Snapshot) : ring = window
      BY <1>2
    <3>2. PICK new : new = window'
      OBVIOUS
    <3>3. \/ \E k \in 1 .. Len(ring) - 1 : new[i] = ring[k] /\ new[i + 1] = ring[k + 1]
          \/ new[i] = ring[Len(ring)] /\ new[i + 1] = cur
      <4>1. new = Push(ring, WindowCapacity, cur) /\ Len(ring) <= WindowCapacity
        BY <1>2, <2>6, <3>1, <3>2
      <4>2. i \in 1 .. Len(new) - 1
        BY <3>2
      <4>. QED
        BY <4>1, <4>2, PushNeighbours
    <3>. QED
      BY <3>1, <3>2, <3>3 DEF prev, last
  <2>12. TearHealsByNextSample'
    <3>1. \A s \in Signals : prev.failed[s] <= cur.forwarded[s]
      BY <2>1, <2>3, <2>4, <2>5 DEF prev
    <3>. QED
      BY <2>11, <3>1 DEF TearHealsByNextSample
  <2>. QED
    BY <1>1, <2>8, <2>9, <2>10, <2>12 DEF CountersOrdered, WindowFollowed, Capturing
<1>. QED
  BY <1>3, <1>4

(* The sinks and their readers move snapshots and leave the window alone.  *)
LEMMA SinksStep ==
    ASSUME StatsInv, FanOut \/ SamplerExits \/ ShowStats \/ EmitStats
    PROVE  StatsInv'
<1>. USE ConstantsAssumption DEF StatsInv
<1>1. /\ UNCHANGED <<forwarded, failed, at, snap, window, samples>>
      /\ sampler' \in {"wait", "exited"} \/ sampler' = sampler
  BY DEF FanOut, SamplerExits, ShowStats, EmitStats, counters, samplerVars
<1>2. TypeOK'
  <2>1. CASE FanOut
    BY <2>1, ChannelType DEF TypeOK, FanOut, counters, outputs
  <2>2. CASE SamplerExits
    BY <2>2 DEF TypeOK, SamplerExits, counters, outputs
  <2>3. CASE ShowStats
    <3>1. PICK next \in Snapshot :
            /\ next = Head(statsCh) /\ shown' = next
            /\ history' = [s \in Signals |-> Push(history[s], HistoryCapacity, next.rate[s])]
      BY <2>3, ChannelType DEF ShowStats, TypeOK
    <3>2. ASSUME NEW s \in Signals
          PROVE  /\ Push(history[s], HistoryCapacity, next.rate[s]) \in Seq(Nat)
                 /\ Len(Push(history[s], HistoryCapacity, next.rate[s])) <= HistoryCapacity
      <4>1. next.rate[s] \in Nat
        BY DEF Snapshot, Counts
      <4>. QED
        BY <4>1, PushType DEF TypeOK
    <3>3. /\ history' \in [Signals -> Seq(Nat)]
          /\ \A s \in Signals : Len(history'[s]) <= HistoryCapacity
      BY <3>1, <3>2
    <3>4. statsCh' \in Seq(Snapshot) /\ Len(statsCh') <= StatsDepth
      BY <2>3, ChannelType DEF ShowStats, TypeOK
    <3>. QED
      BY <2>3, <3>1, <3>3, <3>4 DEF TypeOK, ShowStats, counters, samplerVars
  <2>4. CASE EmitStats
    <3>1. emitted' \in Snapshot /\ sinkCh' \in Seq(Snapshot) /\ Len(sinkCh') <= SinkDepth
      BY <2>4, ChannelType DEF EmitStats, TypeOK
    <3>. QED
      BY <2>4, <3>1 DEF TypeOK, EmitStats, counters, samplerVars
  <2>. QED
    BY <2>1, <2>2, <2>3, <2>4
<1>3. WindowFollowed'
  BY <1>1 DEF WindowFollowed, Follows, Loaded, Capturing
<1>. QED
  BY <1>1, <1>2, <1>3
  DEF CountersOrdered, WindowPast, Past, TearHealsByNextSample

(* No step breaks the invariant.                                           *)
LEMMA NextStats == StatsInv /\ [Next]_vars => StatsInv'
<1>. SUFFICES ASSUME StatsInv, [Next]_vars PROVE StatsInv'
  OBVIOUS
<1>1. CASE UNCHANGED vars
  BY <1>1 DEF StatsInv, TypeOK, CountersOrdered, WindowPast, WindowFollowed, Past, Follows, Loaded,
     TearHealsByNextSample, vars, counters, samplerVars, outputs
<1>2. CASE Next
  BY <1>2, CountersStep, TickStep, LoadForwardedStep, LoadFailedStep, FinishStep, SinksStep
  DEF Next, Sampler
<1>. QED
  BY <1>1, <1>2

(* Rings and channels stay within their capacities and no rate is ever     *)
(* negative, however receivers and workers move the counters between the   *)
(* loads of a sample.                                                      *)
THEOREM StatsTypeCorrect == Spec => []TypeOK
<1>. QED
  BY InitStats, NextStats, PTL DEF Spec, StatsInv

(* A sample torn between its two loads of a signal heals by the next one.  *)
THEOREM TearHeals == Spec => []TearHealsByNextSample
<1>. QED
  BY InitStats, NextStats, PTL DEF Spec, StatsInv

(***************************************************************************)
(* The readers.  What a reader has, and what waits for it, was complete    *)
(* before the sample now being captured began.                             *)
(***************************************************************************)

(* The failed counter of a signal is in the sample being captured. *)
LoadedFailed(s) ==
    sampler = "finish" \/ \E i \in 1 .. at - 1 : SignalOrder[i] = s

Trails(x) ==
    \A s \in Signals :
        /\ Loaded(s) => /\ x.forwarded[s] <= snap.forwarded[s]
                        /\ x.failed[s] <= snap.forwarded[s]
        /\ LoadedFailed(s) => x.failed[s] <= snap.failed[s]

Behind(x) ==
    /\ Past(x)
    /\ sampler \in Capturing => Trails(x)
    /\ sampler = "fanOut" => Precedes(x, snap)

(* A reader's snapshot and those in its channel, in the order of capture.  *)
Successive(x, ch) ==
    /\ \A i \in DOMAIN ch : Precedes(x, ch[i])
    /\ \A i, j \in DOMAIN ch : i < j => Precedes(ch[i], ch[j])

ReaderInv(x, ch) ==
    /\ Behind(x) /\ \A i \in DOMAIN ch : Behind(ch[i])
    /\ Successive(x, ch)

ReadersInv == ReaderInv(shown, statsCh) /\ ReaderInv(emitted, sinkCh)

(* The counters move up: what lay behind them still does.                  *)
LEMMA BehindCounters ==
    ASSUME StatsInv, NEW s \in Signals, NEW n \in Increments,
           RecordForwarded(s, n) \/ RecordFailed(s, n), NEW x \in Snapshot, Behind(x)
    PROVE  Behind(x)'
<1>. USE ConstantsAssumption
<1>1. /\ forwarded \in [Signals -> Nat] /\ failed \in [Signals -> Nat] /\ n \in Nat
      /\ x.forwarded \in [Signals -> Nat] /\ x.failed \in [Signals -> Nat]
  BY DEF StatsInv, TypeOK, Snapshot, Counts
<1>2. UNCHANGED <<sampler, at, snap>>
  BY DEF RecordForwarded, RecordFailed, samplerVars
<1>3. Past(x)'
  <2>1. ASSUME NEW t \in Signals
        PROVE  x.forwarded[t] <= forwarded'[t] /\ x.failed[t] <= failed'[t]
    <3>1. /\ x.forwarded[t] \in Nat /\ x.failed[t] \in Nat
          /\ forwarded[t] \in Nat /\ failed[t] \in Nat
          /\ x.forwarded[t] <= forwarded[t] /\ x.failed[t] <= failed[t]
      BY <1>1 DEF Behind, Past
    <3>2. /\ forwarded'[t] = forwarded[t] \/ forwarded'[t] = forwarded[t] + n
          /\ failed'[t] = failed[t] \/ failed'[t] = failed[t] + n
      <4>1. CASE RecordForwarded(s, n)
        BY <1>1, <4>1 DEF RecordForwarded
      <4>2. CASE RecordFailed(s, n)
        BY <1>1, <4>2 DEF RecordFailed
      <4>. QED
        BY <4>1, <4>2
    <3>3. \A i, j \in Nat : i <= j => i <= j + n
      BY <1>1
    <3>. QED
      BY <3>1, <3>2, <3>3
  <2>. QED
    BY <2>1 DEF Past
<1>. QED
  BY <1>2, <1>3 DEF Behind, Trails, Loaded, LoadedFailed, Precedes

(* The sampler loads counters that have passed what lay behind.            *)
LEMMA BehindSampler ==
    ASSUME StatsInv, TickFires \/ LoadForwarded \/ LoadFailed \/ FinishSample \/ SamplerExits,
           NEW x \in Snapshot, Behind(x)
    PROVE  Behind(x)'
<1>. USE ConstantsAssumption
<1>1. /\ forwarded \in [Signals -> Nat] /\ failed \in [Signals -> Nat] /\ snap \in Snapshot
      /\ x.forwarded \in [Signals -> Nat] /\ x.failed \in [Signals -> Nat]
      /\ snap.forwarded \in [Signals -> Nat] /\ snap.failed \in [Signals -> Nat]
  BY DEF StatsInv, TypeOK, Snapshot, Counts
<1>2. Past(x)'
  BY DEF TickFires, LoadForwarded, LoadFailed, FinishSample, SamplerExits, counters,
         Behind, Past
<1>3. CASE TickFires
  <2>1. sampler' = "forwarded" /\ \A s \in Signals : ~Loaded(s)' /\ ~LoadedFailed(s)'
    BY <1>3 DEF TickFires, Loaded, LoadedFailed
  <2>. QED
    BY <1>2, <2>1 DEF Behind, Trails
<1>4. CASE LoadForwarded
  <2>1. /\ sampler = "forwarded" /\ sampler' = "failed" /\ at' = at
        /\ snap' = [snap EXCEPT !.forwarded[SignalOrder[at]] = forwarded[SignalOrder[at]]]
    BY <1>4 DEF LoadForwarded
  <2>2. Trails(x)
    BY <2>1 DEF Behind, Capturing
  <2>3. ASSUME NEW t \in Signals
        PROVE  /\ snap'.failed[t] = snap.failed[t]
               /\ snap'.forwarded[t] = IF t = SignalOrder[at] THEN forwarded[t]
                                                            ELSE snap.forwarded[t]
    BY <1>1, <2>1 DEF Snapshot, Counts
  <2>4. ASSUME NEW t \in Signals, Loaded(t)'
        PROVE  x.forwarded[t] <= snap'.forwarded[t] /\ x.failed[t] <= snap'.forwarded[t]
    <3>1. CASE t = SignalOrder[at]
      <4>1. /\ x.forwarded[t] \in Nat /\ x.failed[t] \in Nat
            /\ forwarded[t] \in Nat /\ failed[t] \in Nat
            /\ x.forwarded[t] <= forwarded[t] /\ x.failed[t] <= failed[t]
            /\ failed[t] <= forwarded[t]
        BY <1>1 DEF Behind, Past, StatsInv, CountersOrdered
      <4>. QED
        BY <2>3, <3>1, <4>1
    <3>2. CASE t # SignalOrder[at]
      <4>1. Loaded(t)
        BY <2>1, <2>4, <3>2 DEF Loaded
      <4>. QED
        BY <2>2, <2>3, <3>2, <4>1 DEF Trails
    <3>. QED
      BY <3>1, <3>2
  <2>5. ASSUME NEW t \in Signals, LoadedFailed(t)' PROVE x.failed[t] <= snap'.failed[t]
    <3>1. LoadedFailed(t)
      BY <2>1, <2>5 DEF LoadedFailed
    <3>. QED
      BY <2>2, <2>3, <3>1 DEF Trails
  <2>. QED
    BY <1>2, <2>1, <2>4, <2>5 DEF Behind, Trails
<1>5. CASE LoadFailed
  <2>0. PICK n \in Nat : n = Len(SignalOrder)
    BY OrderTypes
  <2>1. /\ sampler = "failed" /\ at' = at + 1 /\ at \in 1 .. n
        /\ sampler' = IF at = n THEN "finish" ELSE "forwarded"
        /\ snap' = [snap EXCEPT !.failed[SignalOrder[at]] = failed[SignalOrder[at]]]
    BY <1>5, <2>0 DEF LoadFailed, StatsInv, TypeOK
  <2>2. Trails(x)
    BY <2>1 DEF Behind, Capturing
  <2>3. ASSUME NEW t \in Signals
        PROVE  /\ snap'.forwarded[t] = snap.forwarded[t]
               /\ snap'.failed[t] = IF t = SignalOrder[at] THEN failed[t] ELSE snap.failed[t]
    BY <1>1, <2>1 DEF Snapshot, Counts
  <2>4. ASSUME NEW t \in Signals, Loaded(t)' \/ LoadedFailed(t)'
        PROVE  t = SignalOrder[at] \/ \E i \in 1 .. at - 1 : SignalOrder[i] = t
    <3>1. PICK i \in 1 .. n : SignalOrder[i] = t /\ i <= at
      <4>1. CASE at = n
        BY <2>0, <4>1, OrderTypes
      <4>2. CASE at # n
        BY <2>1, <2>4, <4>2 DEF Loaded, LoadedFailed
      <4>. QED
        BY <4>1, <4>2
    <3>2. i = at \/ i \in 1 .. at - 1
      BY <2>1, <3>1
    <3>. QED
      BY <3>1, <3>2
  <2>5. ASSUME NEW t \in Signals, Loaded(t)'
        PROVE  x.forwarded[t] <= snap'.forwarded[t] /\ x.failed[t] <= snap'.forwarded[t]
    <3>1. Loaded(t)
      BY <2>1, <2>4, <2>5 DEF Loaded
    <3>. QED
      BY <2>2, <2>3, <3>1 DEF Trails
  <2>6. ASSUME NEW t \in Signals, LoadedFailed(t)' PROVE x.failed[t] <= snap'.failed[t]
    <3>1. CASE t = SignalOrder[at]
      BY <2>3, <3>1 DEF Behind, Past
    <3>2. CASE t # SignalOrder[at]
      <4>1. LoadedFailed(t)
        BY <2>4, <2>6, <3>2 DEF LoadedFailed
      <4>. QED
        BY <2>2, <2>3, <3>2, <4>1 DEF Trails
    <3>. QED
      BY <3>1, <3>2
  <2>7. Trails(x)'
    BY <2>5, <2>6 DEF Trails
  <2>. QED
    BY <1>2, <2>1, <2>7 DEF Behind
<1>6. CASE FinishSample
  <2>1. sampler = "finish" /\ sampler' = "fanOut"
    BY <1>6 DEF FinishSample
  <2>2. snap'.forwarded = snap.forwarded /\ snap'.failed = snap.failed
    <3>1. CASE window = << >>
      BY <1>6, <3>1 DEF FinishSample
    <3>2. CASE window # << >>
      <4>1. PICK time, rate : snap' = [[snap EXCEPT !.time = time] EXCEPT !.rate = rate]
        BY <1>6, <3>2 DEF FinishSample
      <4>. QED
        BY <1>1, <4>1 DEF Snapshot
    <3>. QED
      BY <3>1, <3>2
  <2>3. Trails(x) /\ \A s \in Signals : Loaded(s) /\ LoadedFailed(s)
    BY <2>1 DEF Behind, Capturing, Loaded, LoadedFailed
  <2>4. Precedes(x, snap)'
    BY <2>2, <2>3 DEF Precedes, Trails
  <2>. QED
    BY <1>2, <2>1, <2>4 DEF Behind, Capturing
<1>7. CASE SamplerExits
  BY <1>2, <1>7 DEF SamplerExits, Behind, Capturing
<1>. QED
  BY <1>3, <1>4, <1>5, <1>6, <1>7

(* A channel takes the sample when it has room.                            *)
LEMMA FanOutReader ==
    ASSUME StatsInv, FanOut, NEW x \in Snapshot, NEW ch \in Seq(Snapshot),
           NEW depth \in Nat, ReaderInv(x, ch), NEW new, new = TrySend(ch, depth, snap)
    PROVE  ReaderInv(x, new)'
<1>1. /\ UNCHANGED <<forwarded, failed, snap>> /\ snap \in Snapshot
      /\ sampler = "fanOut" /\ sampler' = "wait"
  BY DEF FanOut, counters, StatsInv, TypeOK
<1>2. \A y : Behind(y) => Behind(y)' /\ Precedes(y, snap)
  BY <1>1 DEF Behind, Past, Capturing
<1>3. Behind(snap)'
  BY <1>1 DEF StatsInv, Behind, Past, Capturing
<1>4. \A y, z : Precedes(y, z)' <=> Precedes(y, z)
  BY DEF Precedes
<1>5. CASE new = ch
  BY <1>2, <1>4, <1>5 DEF ReaderInv, Successive
<1>6. CASE new # ch
  <2>1. new = Append(ch, snap)
    BY <1>6 DEF TrySend
  <2>2. PICK n \in Nat, v \in Snapshot : n = Len(ch) /\ v = snap
    BY <1>1
  <2>3. /\ DOMAIN new = 1 .. n + 1 /\ DOMAIN ch = 1 .. n
        /\ new[n + 1] = v /\ \A i \in 1 .. n : new[i] = ch[i]
    BY <2>1, <2>2
  <2>4. \A i \in 1 .. n + 1 : i = n + 1 \/ i \in 1 .. n
    OBVIOUS
  <2>5. \A i, j \in 1 .. n + 1 : i < j => i \in 1 .. n
    OBVIOUS
  <2>6. Behind(x)' /\ \A i \in DOMAIN new : Behind(new[i])'
    BY <1>2, <1>3, <1>1, <2>2, <2>3, <2>4 DEF ReaderInv
  <2>7. \A i \in DOMAIN new : Precedes(x, new[i])
    BY <1>2, <2>2, <2>3, <2>4 DEF ReaderInv, Successive
  <2>8. \A i, j \in DOMAIN new : i < j => Precedes(new[i], new[j])
    <3>1. ASSUME NEW i \in 1 .. n + 1, NEW j \in 1 .. n + 1, i < j
          PROVE  Precedes(new[i], new[j])
      <4>1. i \in 1 .. n /\ new[i] = ch[i]
        BY <2>3, <2>5, <3>1
      <4>2. CASE j = n + 1
        BY <1>2, <2>2, <2>3, <4>1, <4>2 DEF ReaderInv
      <4>3. CASE j \in 1 .. n
        BY <2>3, <3>1, <4>1, <4>3 DEF ReaderInv, Successive
      <4>. QED
        BY <2>4, <4>2, <4>3
    <3>. QED
      BY <2>3, <3>1
  <2>. QED
    BY <1>4, <2>6, <2>7, <2>8 DEF ReaderInv, Successive
<1>. QED
  BY <1>5, <1>6

(* A reader takes the next sample: it comes after what the reader had, and *)
(* before all that still waits.                                            *)
LEMMA ReadNext ==
    ASSUME NEW x, NEW ch \in Seq(Snapshot), ReaderInv(x, ch), ch # << >>
    PROVE  Precedes(x, Head(ch)) /\ ReaderInv(Head(ch), Tail(ch))
<1>1. PICK n \in Nat : n + 1 = Len(ch)
  <2>1. Len(ch) \in Nat /\ Len(ch) # 0
    OBVIOUS
  <2>2. Len(ch) - 1 \in Nat /\ (Len(ch) - 1) + 1 = Len(ch)
    BY <2>1
  <2>. QED
    BY <2>2
<1>2. /\ DOMAIN ch = 1 .. n + 1 /\ Head(ch) = ch[1]
      /\ DOMAIN Tail(ch) = 1 .. n /\ \A i \in 1 .. n : Tail(ch)[i] = ch[i + 1]
  BY <1>1
<1>3. 1 \in 1 .. n + 1 /\ \A i \in 1 .. n : i + 1 \in 1 .. n + 1 /\ 1 < i + 1
  OBVIOUS
<1>4. \A i, j \in 1 .. n : i < j => i + 1 < j + 1
  OBVIOUS
<1>. QED
  BY <1>2, <1>3, <1>4 DEF ReaderInv, Successive

(* Every step keeps both readers behind the sampler.                       *)
LEMMA NextReaders == StatsInv /\ ReadersInv /\ [Next]_vars => ReadersInv'
<1>. SUFFICES ASSUME StatsInv, ReadersInv, [Next]_vars PROVE ReadersInv'
  OBVIOUS
<1>. USE ConstantsAssumption
<1>1. /\ shown \in Snapshot /\ emitted \in Snapshot
      /\ statsCh \in Seq(Snapshot) /\ sinkCh \in Seq(Snapshot)
      /\ \A i \in DOMAIN statsCh : statsCh[i] \in Snapshot
      /\ \A i \in DOMAIN sinkCh : sinkCh[i] \in Snapshot
  BY ElementOfSeq DEF StatsInv, TypeOK
<1>2. ASSUME UNCHANGED <<statsCh, sinkCh, shown, emitted>>,
             \A x \in Snapshot : Behind(x) => Behind(x)'
      PROVE  ReadersInv'
  BY <1>1, <1>2 DEF ReadersInv, ReaderInv, Successive, Precedes
<1>3. ASSUME NEW s \in Signals, NEW n \in Increments, RecordForwarded(s, n) \/ RecordFailed(s, n)
      PROVE  ReadersInv'
  <2>1. UNCHANGED <<statsCh, sinkCh, shown, emitted>>
    BY <1>3 DEF RecordForwarded, RecordFailed, outputs
  <2>. QED
    BY <1>2, <1>3, <2>1, BehindCounters
<1>4. CASE TickFires \/ LoadForwarded \/ LoadFailed \/ FinishSample \/ SamplerExits
  <2>1. UNCHANGED <<statsCh, sinkCh, shown, emitted>>
    BY <1>4 DEF TickFires, LoadForwarded, LoadFailed, FinishSample, SamplerExits, outputs
  <2>. QED
    BY <1>2, <1>4, <2>1, BehindSampler
<1>5. CASE FanOut
  <2>1. /\ statsCh' = TrySend(statsCh, StatsDepth, snap)
        /\ sinkCh' = TrySend(sinkCh, SinkDepth, snap)
        /\ shown' = shown /\ emitted' = emitted
    BY <1>5 DEF FanOut, outputs
  <2>2. PICK x, y, new, sunk :
            /\ x \in Snapshot /\ x = shown /\ y \in Snapshot /\ y = emitted
            /\ new = statsCh' /\ sunk = sinkCh'
    BY <1>1
  <2>3. PICK ch \in Seq(Snapshot), sink \in Seq(Snapshot) : ch = statsCh /\ sink = sinkCh
    BY <1>1
  <2>4. ReaderInv(x, new)' /\ ReaderInv(y, sunk)'
    BY <1>5, <2>1, <2>2, <2>3, FanOutReader DEF ReadersInv
  <2>. QED
    BY <2>1, <2>2, <2>4 DEF ReadersInv
<1>6. ASSUME UNCHANGED <<counters, samplerVars>>, NEW x, NEW ch
      PROVE  ReaderInv(x, ch) => ReaderInv(x, ch)'
  BY <1>6 DEF ReaderInv, Behind, Past, Trails, Loaded, LoadedFailed, Successive, Precedes,
              counters, samplerVars
<1>7. CASE ShowStats
  <2>1. /\ statsCh # << >> /\ shown' = Head(statsCh) /\ statsCh' = Tail(statsCh)
        /\ UNCHANGED <<sinkCh, emitted>> /\ UNCHANGED <<counters, samplerVars>>
    BY <1>7 DEF ShowStats
  <2>2. ReaderInv(Head(statsCh), Tail(statsCh)) /\ ReaderInv(emitted, sinkCh)
    BY <1>1, <2>1, ReadNext DEF ReadersInv
  <2>3. PICK x, ch, y, sink : /\ x = shown' /\ ch = statsCh' /\ y = emitted' /\ sink = sinkCh'
    OBVIOUS
  <2>4. ReaderInv(x, ch)' /\ ReaderInv(y, sink)'
    BY <1>6, <2>1, <2>2, <2>3
  <2>. QED
    BY <2>3, <2>4 DEF ReadersInv
<1>8. CASE EmitStats
  <2>1. /\ sinkCh # << >> /\ emitted' = Head(sinkCh) /\ sinkCh' = Tail(sinkCh)
        /\ UNCHANGED <<statsCh, shown>> /\ UNCHANGED <<counters, samplerVars>>
    BY <1>8 DEF EmitStats
  <2>2. ReaderInv(Head(sinkCh), Tail(sinkCh)) /\ ReaderInv(shown, statsCh)
    BY <1>1, <2>1, ReadNext DEF ReadersInv
  <2>3. PICK x, ch, y, sink : /\ x = shown' /\ ch = statsCh' /\ y = emitted' /\ sink = sinkCh'
    OBVIOUS
  <2>4. ReaderInv(x, ch)' /\ ReaderInv(y, sink)'
    BY <1>6, <2>1, <2>2, <2>3
  <2>. QED
    BY <2>3, <2>4 DEF ReadersInv
<1>9. CASE UNCHANGED vars
  <2>1. \A x \in Snapshot : Behind(x) => Behind(x)'
    BY <1>9 DEF vars, counters, samplerVars, Behind, Past, Trails, Loaded, LoadedFailed, Precedes
  <2>. QED
    BY <1>2, <1>9, <2>1 DEF vars, outputs
<1>. QED
  BY <1>3, <1>4, <1>5, <1>7, <1>8, <1>9 DEF Next, Sampler

(* Nothing was shown or sent at the start. *)
LEMMA InitReaders == Init => ReadersInv
<1>. SUFFICES ASSUME Init PROVE ReadersInv
  OBVIOUS
<1>1. Behind(NoSnapshot)
  BY DEF Init, Behind, Past, Capturing, NoSnapshot, Zero
<1>. QED
  BY <1>1 DEF Init, ReadersInv, ReaderInv, Successive

(* Whichever samples its channel missed, a reader only ever replaces what  *)
(* it shows by a sample that was begun after that was complete: totals     *)
(* never fall back, and failures shown early are made up for by the next.  *)
THEOREM ReadersAdvance == Spec => ReadersNeverFallBack
<1>1. StatsInv /\ ReadersInv /\ [Next]_vars =>
          [/\ shown' # shown => Precedes(shown, shown')
           /\ emitted' # emitted => Precedes(emitted, emitted')]_vars
  <2>. SUFFICES ASSUME StatsInv, ReadersInv, Next
                PROVE  /\ shown' # shown => Precedes(shown, shown')
                       /\ emitted' # emitted => Precedes(emitted, emitted')
    OBVIOUS
  <2>1. statsCh \in Seq(Snapshot) /\ sinkCh \in Seq(Snapshot)
    BY DEF StatsInv, TypeOK
  <2>2. CASE ShowStats
    BY <2>1, <2>2, ReadNext DEF ShowStats, ReadersInv
  <2>3. CASE EmitStats
    BY <2>1, <2>3, ReadNext DEF EmitStats, ReadersInv
  <2>4. CASE ~ShowStats /\ ~EmitStats
    BY <2>4 DEF Next, RecordForwarded, RecordFailed, Sampler, TickFires, LoadForwarded,
                LoadFailed, FinishSample, FanOut, SamplerExits, outputs
  <2>. QED
    BY <2>2, <2>3, <2>4
<1>. QED
  BY <1>1, InitStats, NextStats, InitReaders, NextReaders, PTL DEF Spec, ReadersNeverFallBack
=============================================================================
