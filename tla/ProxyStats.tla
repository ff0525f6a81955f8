----------------------------- MODULE ProxyStats -----------------------------
(***************************************************************************)
(* The statistics of `dash0 otlp proxy` (internal/otlp/proxy_stats.go):    *)
(* lock-free counters written by receivers and workers, a sampler that     *)
(* reads them one by one on every tick into a rolling window, and two      *)
(* bounded channels that carry each sample to the stderr writer (stats     *)
(* block and sparkline) and to the agent-mode event stream.  The counters  *)
(* move between any two loads of a sample.                                 *)
(***************************************************************************)
EXTENDS Integers, Sequences

CONSTANTS
    SignalOrder,      \* the signals, in the order snapshot() loads them
    Increments,       \* the record counts of one batch
    Lags,             \* how much later than the last sample a sample may be
    WindowCapacity,   \* RateSampler.capacity
    HistoryCapacity,  \* sparklineHistoryCapacity
    StatsDepth,       \* stderrChannelDepth
    SinkDepth,        \* capacity of statsSink's channel
    MaxRecords,       \* bound: records forwarded per signal
    MaxSamples        \* bound: samples taken

Signals == {SignalOrder[i] : i \in DOMAIN SignalOrder}
Counts == [Signals -> Nat]
Zero == [s \in Signals |-> 0]

ASSUME ConstantsAssumption ==
    /\ SignalOrder \in Seq(Signals) /\ SignalOrder # << >>
    /\ Increments \subseteq Nat \ {0}
    /\ Lags \subseteq Nat
    /\ WindowCapacity \in Nat \ {0} /\ HistoryCapacity \in Nat \ {0}
    /\ StatsDepth \in Nat /\ SinkDepth \in Nat
    /\ MaxRecords \in Nat /\ MaxSamples \in Nat

VARIABLES
    forwarded, failed,   \* Stats: the counters
    sampler,             \* "wait", "forwarded", "failed", "finish", "fanOut", "exited"
    at,                  \* the index of the signal whose counter is loaded next
    snap,                \* the Snapshot being captured
    window,              \* RateSampler.window
    statsCh, sinkCh,     \* the channels to the stderr writer and to statsSink
    history,             \* the stderr writer's rates per signal
    shown,               \* the stderr writer's lastSnapshot
    emitted,             \* the snapshot of the last stats event
    samples              \* samples taken so far

counters == <<forwarded, failed>>
samplerVars == <<sampler, at, snap, window, samples>>
outputs == <<history, shown, emitted>>
vars == <<counters, samplerVars, statsCh, sinkCh, outputs>>

NoSnapshot == [forwarded |-> Zero, failed |-> Zero, time |-> 0, rate |-> Zero]

\* Mutant: the send does not give up on a full buffer.
TrySendUnbounded(ch, depth, v) == Append(ch, v)

TrySend(ch, depth, v) == IF Len(ch) < depth THEN Append(ch, v) ELSE ch

(* A ring of the given capacity: the oldest entry makes room. *)
Push(ring, capacity, v) ==
    Append(IF Len(ring) >= capacity THEN Tail(ring) ELSE ring, v)

(***************************************************************************)
(* The writers of the counters.  Only records counted as forwarded fail:   *)
(* SuccessRateExact of ProxyForward.                                       *)
(***************************************************************************)
RecordForwarded(s, n) ==
    /\ forwarded[s] + n <= MaxRecords
    /\ forwarded' = [forwarded EXCEPT ![s] = @ + n]
    /\ UNCHANGED <<failed, samplerVars, statsCh, sinkCh, outputs>>

\* Mutant: a failure may be counted before its batch is.
RecordFailedEarly(s, n) ==
    /\ failed[s] + n <= MaxRecords
    /\ failed' = [failed EXCEPT ![s] = @ + n]
    /\ UNCHANGED <<forwarded, samplerVars, statsCh, sinkCh, outputs>>

\* Mutant: a failure moves its records from one counter to the other.
RecordFailedMoves(s, n) ==
    /\ n <= forwarded[s]
    /\ forwarded' = [forwarded EXCEPT ![s] = @ - n]
    /\ failed' = [failed EXCEPT ![s] = @ + n]
    /\ UNCHANGED <<samplerVars, statsCh, sinkCh, outputs>>

RecordFailed(s, n) ==
    /\ failed[s] + n <= forwarded[s]
    /\ failed' = [failed EXCEPT ![s] = @ + n]
    /\ UNCHANGED <<forwarded, samplerVars, statsCh, sinkCh, outputs>>

(***************************************************************************)
(* RateSampler.Run and Sample.                                             *)
(***************************************************************************)
TickFires ==
    /\ sampler = "wait"
    /\ samples < MaxSamples
    /\ samples' = samples + 1
    /\ sampler' = "forwarded"
    /\ at' = 1
    /\ snap' = NoSnapshot
    /\ UNCHANGED <<counters, window, statsCh, sinkCh, outputs>>

LoadForwarded ==
    /\ sampler = "forwarded"
    /\ LET s == SignalOrder[at] IN snap' = [snap EXCEPT !.forwarded[s] = forwarded[s]]
    /\ sampler' = "failed"
    /\ UNCHANGED <<counters, at, window, samples, statsCh, sinkCh, outputs>>

LoadFailed ==
    /\ sampler = "failed"
    /\ LET s == SignalOrder[at] IN snap' = [snap EXCEPT !.failed[s] = failed[s]]
    /\ at' = at + 1
    /\ sampler' = IF at = Len(SignalOrder) THEN "finish" ELSE "forwarded"
    /\ UNCHANGED <<counters, window, samples, statsCh, sinkCh, outputs>>

(* The rate against the previous sample; 0 without one, and 0 when no time *)
(* has passed: what was counted between coinciding samples is in no rate.  *)
(* The division of floats is cut to whole records per unit of time.        *)
RateSince(prev, cur) ==
    LET dt == cur.time - prev.time IN
    [s \in Signals |->
        IF dt > 0 THEN (cur.forwarded[s] - prev.forwarded[s]) \div dt ELSE 0]

(* The clock is monotonic; a late tick makes for a longer lag. *)
FinishSample ==
    /\ sampler = "finish"
    /\ IF window = << >>
       THEN /\ snap' = snap
            /\ window' = <<snap>>
       ELSE \E dt \in Lags :
              LET prev == window[Len(window)]
                  timed == [snap EXCEPT !.time = prev.time + dt]
                  cur == [timed EXCEPT !.rate = RateSince(prev, timed)]
              IN /\ snap' = cur
                 /\ window' = Push(window, WindowCapacity, cur)
    /\ sampler' = "fanOut"
    /\ UNCHANGED <<counters, at, samples, statsCh, sinkCh, outputs>>

(* Each sink gets the sample unless it is full. *)
FanOut ==
    /\ sampler = "fanOut"
    /\ statsCh' = TrySend(statsCh, StatsDepth, snap)
    /\ sinkCh' = TrySend(sinkCh, SinkDepth, snap)
    /\ sampler' = "wait"
    /\ UNCHANGED <<counters, at, snap, window, samples, outputs>>

(* The context is done. *)
SamplerExits ==
    /\ sampler = "wait"
    /\ sampler' = "exited"
    /\ UNCHANGED <<counters, at, snap, window, samples, statsCh, sinkCh, outputs>>

(***************************************************************************)
(* The readers: StderrWriter.Run's stats case and statsSink's goroutine.   *)
(***************************************************************************)
ShowStats ==
    /\ statsCh # << >>
    /\ LET next == Head(statsCh) IN
       /\ shown' = next
       /\ history' = [s \in Signals |-> Push(history[s], HistoryCapacity, next.rate[s])]
    /\ statsCh' = Tail(statsCh)
    /\ UNCHANGED <<counters, samplerVars, sinkCh, emitted>>

EmitStats ==
    /\ sinkCh # << >>
    /\ emitted' = Head(sinkCh)
    /\ sinkCh' = Tail(sinkCh)
    /\ UNCHANGED <<counters, samplerVars, statsCh, history, shown>>

Sampler == TickFires \/ LoadForwarded \/ LoadFailed \/ FinishSample \/ FanOut \/ SamplerExits

Init ==
    /\ forwarded = Zero /\ failed = Zero
    /\ sampler = "wait" /\ at = 1 /\ snap = NoSnapshot
    /\ window = << >> /\ statsCh = << >> /\ sinkCh = << >>
    /\ history = [s \in Signals |-> << >>]
    /\ shown = NoSnapshot /\ emitted = NoSnapshot
    /\ samples = 0

Next ==
    \/ \E s \in Signals, n \in Increments : RecordForwarded(s, n) \/ RecordFailed(s, n)
    \/ Sampler \/ ShowStats \/ EmitStats

Spec == Init /\ [][Next]_vars

(***************************************************************************)
(* Properties.                                                             *)
(***************************************************************************)
Snapshot == [forwarded : Counts, failed : Counts, time : Nat, rate : Counts]

(* Types, and no ring or channel exceeds its capacity; a rate is never     *)
(* negative (proxy_stats.go:117-167, proxy_stderr_writer.go:191-199).      *)
TypeOK ==
    /\ forwarded \in Counts /\ failed \in Counts
    /\ sampler \in {"wait", "forwarded", "failed", "finish", "fanOut", "exited"}
    /\ at \in 1 .. Len(SignalOrder) + 1
    /\ sampler \in {"forwarded", "failed"} => at <= Len(SignalOrder)
    /\ snap \in Snapshot
    /\ window \in Seq(Snapshot) /\ Len(window) <= WindowCapacity
    /\ statsCh \in Seq(Snapshot) /\ Len(statsCh) <= StatsDepth
    /\ sinkCh \in Seq(Snapshot) /\ Len(sinkCh) <= SinkDepth
    /\ history \in [Signals -> Seq(Nat)]
    /\ \A s \in Signals : Len(history[s]) <= HistoryCapacity
    /\ shown \in Snapshot /\ emitted \in Snapshot
    /\ samples \in 0 .. MaxSamples

(* Counters only grow, and only what was forwarded fails: a snapshot x and *)
(* one whose loads began after x was complete.                             *)
Precedes(x, y) ==
    \A s \in Signals :
        /\ x.forwarded[s] <= y.forwarded[s]
        /\ x.failed[s] <= y.failed[s] /\ x.failed[s] <= y.forwarded[s]

(* Each sink misses samples of its own (proxy_stats.go:196-202).  Yet what *)
(* either reader has, the stats block on stderr and the stats events, it   *)
(* only replaces by a later sample: no total falls back, and failures that *)
(* a torn sample showed ahead of their records are made up for by the next *)
(* one shown (proxy_stats.go:103-112).                                     *)
ReadersNeverFallBack ==
    [][/\ shown' # shown => Precedes(shown, shown')
       /\ emitted' # emitted => Precedes(emitted, emitted')]_vars

(* A snapshot's two loads may tear: failures of records it has not counted *)
(* as forwarded.  The tear never outlives the sample: the next one counts  *)
(* at least the records that had failed (proxy_stats.go:103-112).          *)
TearHealsByNextSample ==
    \A i \in 1 .. Len(window) - 1 : \A s \in Signals :
        window[i].failed[s] <= window[i + 1].forwarded[s]
=============================================================================
