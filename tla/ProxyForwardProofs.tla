------------------------- MODULE ProxyForwardProofs -------------------------
(***************************************************************************)
(* Theorems of ProxyForward, for any signals, batches, buffer depths and   *)
(* bounds: its types, the order in which a signal's batches are attempted, *)
(* that no batch is taken twice, that it implements OrderedRelay, how far  *)
(* apart warnings are, in which order a batch is announced and reported,   *)
(* and that forwarded minus failed covers what was delivered.              *)
(***************************************************************************)
EXTENDS ProxyForward, SumsAndLoops, SequenceTheorems, TLAPS

(* A send that gives up on a full buffer keeps the channel's type and      *)
(* bound.                                                                  *)
LEMMA TrySendType ==
    ASSUME NEW V, NEW ch \in Seq(V), NEW depth \in Nat, NEW v \in V, Len(ch) <= depth
    PROVE  TrySend(ch, depth, v) \in Seq(V) /\ Len(TrySend(ch, depth, v)) <= depth
BY DEF TrySend

(* An Emit keeps the event channel's type, whatever the mode. *)
LEMMA EmitType ==
    ASSUME NEW e \in Event, Emit(e), events \in Seq(Event), Len(events) <= EventDepth,
           EventDepth \in Nat
    PROVE  events' \in Seq(Event) /\ Len(events') <= EventDepth
BY TrySendType DEF Emit

(* The initial state keeps every variable in its type. *)
LEMMA InitType == Init => TypeOK
<1>. SUFFICES ASSUME Init PROVE TypeOK
  OBVIOUS
<1>. USE ConstantsAssumption DEF Init
<1>1. CallsOK /\ StatsOK
  BY DEF CallsOK, StatsOK
<1>2. QueuesOK
  BY DEF QueuesOK
<1>3. WorkersOK
  BY DEF WorkersOK, WorkerStates, Holding
<1>4. StdoutOK /\ HistoriesOK
  BY DEF StdoutOK, HistoriesOK, Event
<1>5. AuthOK
  BY DEF AuthOK, Never
<1>6. FlagsOK
  BY DEF FlagsOK
<1>. QED
  BY <1>1, <1>2, <1>3, <1>4, <1>5, <1>6 DEF TypeOK

(* A worker that finishes a batch holds none, and its history stays typed. *)
LEMMA FinishType ==
    ASSUME NEW s \in Signals, NEW w \in WorkerStates \ Holding, WorkersOK, HistoriesOK,
           Finish(s), worker' = [worker EXCEPT ![s] = w],
           status' \in [Signals -> Statuses \union {NoAPIError}]
    PROVE  WorkersOK' /\ done' \in [Signals -> Seq(Batches)]
<1>1. inflight' \in [Signals -> Seq(Batches)] /\ worker' \in [Signals -> WorkerStates]
  BY DEF Finish, WorkersOK
<1>2. ASSUME NEW t \in Signals
      PROVE  Len(inflight'[t]) = IF worker'[t] \in Holding THEN 1 ELSE 0
  <2>1. CASE t = s
    BY <2>1 DEF Finish, WorkersOK
  <2>2. CASE t # s
    BY <2>2 DEF Finish, WorkersOK
  <2>. QED
    BY <2>1, <2>2
<1>3. done[s] \o inflight[s] \in Seq(Batches)
  BY DEF HistoriesOK, WorkersOK
<1>4. done' \in [Signals -> Seq(Batches)]
  BY <1>3 DEF Finish, HistoriesOK
<1>. QED
  BY <1>1, <1>2, <1>4 DEF WorkersOK

(* No step takes a variable out of its type. *)
LEMMA NextType == TypeOK /\ [Next]_vars => TypeOK'
<1>. SUFFICES ASSUME TypeOK, [Next]_vars PROVE TypeOK'
  OBVIOUS
<1>. USE ConstantsAssumption DEF TypeOK
<1>1. ASSUME NEW b \in Batches, Export(b) PROVE TypeOK'
  <2>1. QueuesOK' /\ WorkersOK' /\ StatsOK' /\ StdoutOK' /\ AuthOK' /\ FlagsOK' /\ HistoriesOK'
    BY <1>1 DEF Export, QueuesOK, WorkersOK, StatsOK, StdoutOK, AuthOK, FlagsOK, HistoriesOK,
       hotVars, workerVars, statsVars, stdoutVars, authVars, ctxVars
  <2>2. CallsOK'
    BY <1>1 DEF Export, CallsOK, ConsumeEntry, Stages, Answers
  <2>. QED
    BY <2>1, <2>2
<1>2. ASSUME NEW b \in Batches, RecordForwarded(b) PROVE TypeOK'
  <2>1. QueuesOK' /\ WorkersOK' /\ StdoutOK' /\ AuthOK' /\ FlagsOK' /\ HistoriesOK'
    BY <1>2 DEF RecordForwarded, QueuesOK, WorkersOK, StdoutOK, AuthOK, FlagsOK, HistoriesOK, Advance,
       hotVars, workerVars, statsVars, stdoutVars, authVars, ctxVars
  <2>2. CallsOK'
    BY <1>2 DEF RecordForwarded, CallsOK, Advance, AfterStage, Stages, Answers
  <2>3. StatsOK'
    BY <1>2 DEF RecordForwarded, StatsOK
  <2>. QED
    BY <2>1, <2>2, <2>3
<1>3. ASSUME NEW b \in Batches, EmitForwarded(b) PROVE TypeOK'
  <2>1. QueuesOK' /\ WorkersOK' /\ StatsOK' /\ AuthOK' /\ FlagsOK' /\ HistoriesOK'
    BY <1>3 DEF EmitForwarded, QueuesOK, WorkersOK, StatsOK, AuthOK, FlagsOK, HistoriesOK, Advance,
       hotVars, workerVars, statsVars, stdoutVars, authVars, ctxVars
  <2>2. CallsOK'
    BY <1>3 DEF EmitForwarded, CallsOK, Advance, AfterStage, Stages, Answers
  <2>3. StdoutOK'
    BY <1>3, EmitType DEF EmitForwarded, StdoutOK, Event
  <2>. QED
    BY <2>1, <2>2, <2>3
<1>4. ASSUME NEW b \in Batches, RenderTail(b) PROVE TypeOK'
  <2>1. QueuesOK' /\ WorkersOK' /\ StatsOK' /\ AuthOK' /\ FlagsOK' /\ HistoriesOK'
    BY <1>4 DEF RenderTail, QueuesOK, WorkersOK, StatsOK, AuthOK, FlagsOK, HistoriesOK, Advance,
       hotVars, workerVars, statsVars, stdoutVars, authVars, ctxVars
  <2>2. CallsOK'
    BY <1>4 DEF RenderTail, CallsOK, Advance, AfterStage, Stages, Answers
  <2>3. StdoutOK'
    BY <1>4, TrySendType DEF RenderTail, StdoutOK
  <2>. QED
    BY <2>1, <2>2, <2>3
<1>5. ASSUME NEW b \in Batches, Enqueue(b) PROVE TypeOK'
  <2>1. WorkersOK' /\ StatsOK' /\ StdoutOK' /\ AuthOK' /\ FlagsOK'
    BY <1>5 DEF Enqueue, WorkersOK, StatsOK, StdoutOK, AuthOK, FlagsOK, Accept, Reject,
       hotVars, workerVars, statsVars, stdoutVars, authVars, ctxVars
  <2>2. CallsOK'
    BY <1>5 DEF Enqueue, CallsOK, Accept, Reject, Stages, Answers
  <2>3. QueuesOK'
    <3>1. CASE QueueFull(b)
      BY <1>5, <3>1 DEF Enqueue, QueuesOK, Reject
    <3>2. CASE ~QueueFull(b)
      <4>1. /\ Append(queue[SignalOf[b]], b) \in Seq(Batches)
            /\ Len(Append(queue[SignalOf[b]], b)) <= QueueDepth
        BY <3>2 DEF QueuesOK, QueueFull
      <4>2. queue' = [queue EXCEPT ![SignalOf[b]] = Append(queue[SignalOf[b]], b)]
        BY <1>5, <3>2 DEF Enqueue, Accept
      <4>. QED
        BY <4>1, <4>2 DEF QueuesOK
    <3>. QED
      BY <3>1, <3>2
  <2>4. HistoriesOK'
    <3>1. CASE QueueFull(b)
      BY <1>5, <3>1 DEF Enqueue, HistoriesOK, Reject, workerVars
    <3>2. CASE ~QueueFull(b)
      <4>1. Append(accepted[SignalOf[b]], b) \in Seq(Batches)
        BY DEF HistoriesOK
      <4>. QED
        BY <1>5, <3>2, <4>1 DEF Enqueue, HistoriesOK, Accept, workerVars
    <3>. QED
      BY <3>1, <3>2
  <2>. QED
    BY <2>1, <2>2, <2>3, <2>4
<1>6. ASSUME NEW s \in Signals, Take(s) PROVE TypeOK'
  <2>1. CallsOK' /\ StatsOK' /\ StdoutOK' /\ AuthOK' /\ FlagsOK' /\ HistoriesOK'
    BY <1>6 DEF Take, CallsOK, StatsOK, StdoutOK, AuthOK, FlagsOK, HistoriesOK,
       hotVars, workerVars, statsVars, stdoutVars, authVars, ctxVars
  <2>2. QueuesOK'
    BY <1>6 DEF Take, QueuesOK
  <2>3. WorkersOK'
    <3>1. <<Head(queue[s])>> \in Seq(Batches) /\ Len(<<Head(queue[s])>>) = 1
      BY <1>6 DEF Take, QueuesOK
    <3>. QED
      BY <1>6, <3>1 DEF Take, WorkersOK, WorkerStates, Holding
  <2>. QED
    BY <2>1, <2>2, <2>3
<1>7. ASSUME NEW s \in Signals, SendOk(s) PROVE TypeOK'
  <2>1. CallsOK' /\ QueuesOK' /\ StatsOK' /\ StdoutOK' /\ AuthOK' /\ FlagsOK'
    BY <1>7 DEF SendOk, CallsOK, QueuesOK, StatsOK, StdoutOK, AuthOK, FlagsOK, Finish,
       hotVars, workerVars, statsVars, stdoutVars, authVars, ctxVars
  <2>2. WorkersOK'
    BY <1>7, FinishType DEF SendOk, WorkersOK, WorkerStates, Holding
  <2>3. HistoriesOK'
    <3>1. done[s] \o inflight[s] \in Seq(Batches)
      BY DEF HistoriesOK, WorkersOK
    <3>. QED
      BY <1>7, <3>1 DEF SendOk, HistoriesOK, Finish, WorkersOK, Holding, hotVars
  <2>. QED
    BY <2>1, <2>2, <2>3
<1>8. ASSUME NEW s \in Signals, SendFails(s) PROVE TypeOK'
  <2>1. CallsOK' /\ QueuesOK' /\ StatsOK' /\ StdoutOK' /\ AuthOK' /\ FlagsOK'
    BY <1>8 DEF SendFails, CallsOK, QueuesOK, StatsOK, StdoutOK, AuthOK, FlagsOK,
       hotVars, workerVars, statsVars, stdoutVars, authVars, ctxVars
  <2>2. WorkersOK'
    BY <1>8 DEF SendFails, WorkersOK, WorkerStates, Holding
  <2>3. HistoriesOK'
    <3>1. inflight[s] \in Seq(Batches) /\ Len(inflight[s]) = 1
      BY <1>8 DEF SendFails, WorkersOK, Holding
    <3>2. inflight[s][1] \in Batches
      BY <3>1
    <3>. QED
      BY <1>8, <3>2 DEF SendFails, HistoriesOK, hotVars
  <2>. QED
    BY <2>1, <2>2, <2>3
<1>9. ASSUME NEW s \in Signals, Panic(s) PROVE TypeOK'
  <2>1. CallsOK' /\ QueuesOK' /\ StatsOK' /\ AuthOK' /\ FlagsOK'
    BY <1>9 DEF Panic, CallsOK, QueuesOK, StatsOK, AuthOK, FlagsOK, Finish,
       hotVars, workerVars, statsVars, stdoutVars, authVars, ctxVars
  <2>2. WorkersOK'
    BY <1>9, FinishType DEF Panic, WorkersOK, WorkerStates, Holding
  <2>3. StdoutOK'
    BY <1>9, EmitType DEF Panic, StdoutOK, Event, WorkersOK, Holding
  <2>4. HistoriesOK'
    <3>1. done[s] \o inflight[s] \in Seq(Batches)
      BY DEF HistoriesOK, WorkersOK
    <3>. QED
      BY <1>9, <3>1 DEF Panic, HistoriesOK, Finish, WorkersOK, Holding, hotVars
  <2>. QED
    BY <2>1, <2>2, <2>3, <2>4
<1>10. ASSUME NEW s \in Signals, RecordFailed(s) PROVE TypeOK'
  <2>1. CallsOK' /\ QueuesOK' /\ StdoutOK' /\ AuthOK' /\ FlagsOK' /\ HistoriesOK'
    BY <1>10 DEF RecordFailed, CallsOK, QueuesOK, StdoutOK, AuthOK, FlagsOK, HistoriesOK,
       hotVars, workerVars, statsVars, stdoutVars, authVars, ctxVars
  <2>2. WorkersOK'
    BY <1>10 DEF RecordFailed, WorkersOK, WorkerStates, Holding
  <2>3. StatsOK'
    BY <1>10 DEF RecordFailed, StatsOK, WorkersOK, Holding
  <2>. QED
    BY <2>1, <2>2, <2>3
<1>11. ASSUME NEW s \in Signals, EmitError(s) PROVE TypeOK'
  <2>1. CallsOK' /\ QueuesOK' /\ StatsOK' /\ AuthOK' /\ FlagsOK'
    BY <1>11 DEF EmitError, CallsOK, QueuesOK, StatsOK, AuthOK, FlagsOK, Finish,
       hotVars, workerVars, statsVars, stdoutVars, authVars, ctxVars
  <2>2. WorkersOK'
    <3>1. PICK w \in {"warn", "idle"} : worker' = [worker EXCEPT ![s] = w]
      BY <1>11 DEF EmitError
    <3>. QED
      BY <1>11, <3>1, FinishType DEF EmitError, WorkersOK, WorkerStates, Holding
  <2>3. StdoutOK'
    BY <1>11, EmitType DEF EmitError, StdoutOK, Event, WorkersOK, Holding
  <2>4. HistoriesOK'
    <3>1. done[s] \o inflight[s] \in Seq(Batches)
      BY DEF HistoriesOK, WorkersOK
    <3>. QED
      BY <1>11, <3>1 DEF EmitError, HistoriesOK, Finish, WorkersOK, Holding, hotVars
  <2>. QED
    BY <2>1, <2>2, <2>3, <2>4
<1>12. ASSUME NEW s \in Signals, SurfaceAuthError(s) PROVE TypeOK'
  <2>1. CallsOK' /\ QueuesOK' /\ StatsOK' /\ StdoutOK' /\ FlagsOK' /\ HistoriesOK'
    BY <1>12 DEF SurfaceAuthError, CallsOK, QueuesOK, StatsOK, StdoutOK, FlagsOK, HistoriesOK,
       hotVars, workerVars, statsVars, stdoutVars, authVars, ctxVars
  <2>2. WorkersOK'
    BY <1>12 DEF SurfaceAuthError, WorkersOK, WorkerStates, Holding
  <2>3. AuthOK'
    <3>1. CASE WithinThrottle \/ LifecycleFull
      BY <1>12, <3>1 DEF SurfaceAuthError, AuthOK, authVars, ctxVars
    <3>2. CASE ~WithinThrottle /\ ~LifecycleFull
      <4>1. /\ Append(lifecycle, "authFailed") \in Seq({"authFailed", "banner", "shuttingDown"})
            /\ Len(Append(lifecycle, "authFailed")) <= LifecycleDepth
            /\ Append(authWarnings, now) \in Seq(0 .. MaxTime)
        BY <3>2 DEF AuthOK, LifecycleFull
      <4>. QED
        BY <1>12, <3>2, <4>1 DEF SurfaceAuthError, AuthOK, ctxVars
    <3>. QED
      BY <3>1, <3>2
  <2>. QED
    BY <2>1, <2>2, <2>3
<1>13. ASSUME NEW s \in Signals, WorkerExits(s) PROVE TypeOK'
  <2>1. CallsOK' /\ QueuesOK' /\ StatsOK' /\ StdoutOK' /\ AuthOK' /\ FlagsOK' /\ HistoriesOK'
    BY <1>13 DEF WorkerExits, CallsOK, QueuesOK, StatsOK, StdoutOK, AuthOK, FlagsOK, HistoriesOK,
       hotVars, workerVars, statsVars, stdoutVars, authVars, ctxVars
  <2>2. WorkersOK'
    BY <1>13 DEF WorkerExits, WorkersOK, WorkerStates, Holding
  <2>. QED
    BY <2>1, <2>2
<1>14. CASE WriteEvent
  <2>1. CallsOK' /\ QueuesOK' /\ WorkersOK' /\ StatsOK' /\ AuthOK' /\ HistoriesOK'
    BY <1>14 DEF WriteEvent, CallsOK, QueuesOK, WorkersOK, StatsOK, AuthOK, HistoriesOK,
       hotVars, workerVars, statsVars, stdoutVars, authVars, ctxVars
  <2>2. StdoutOK'
    <3>1. Head(events) \in Event /\ Tail(events) \in Seq(Event) /\ Len(Tail(events)) <= EventDepth
      BY <1>14 DEF WriteEvent, StdoutOK
    <3>2. Append(stdout, Head(events)) \in Seq(Event)
      BY <3>1 DEF StdoutOK
    <3>. QED
      BY <1>14, <3>1, <3>2 DEF WriteEvent, StdoutOK
  <2>3. FlagsOK'
    BY <1>14 DEF WriteEvent, FlagsOK, ctxVars, stdoutVars
  <2>. QED
    BY <2>1, <2>2, <2>3
<1>15. CASE PrintTail
  <2>1. CallsOK' /\ QueuesOK' /\ WorkersOK' /\ StatsOK' /\ AuthOK' /\ FlagsOK' /\ HistoriesOK'
    BY <1>15 DEF PrintTail, CallsOK, QueuesOK, WorkersOK, StatsOK, AuthOK, FlagsOK, HistoriesOK,
       hotVars, workerVars, statsVars, stdoutVars, authVars, ctxVars
  <2>2. StdoutOK'
    BY <1>15 DEF PrintTail, StdoutOK
  <2>. QED
    BY <2>1, <2>2
<1>16. CASE StdoutExits
  <2>1. CallsOK' /\ QueuesOK' /\ WorkersOK' /\ StatsOK' /\ StdoutOK' /\ AuthOK' /\ HistoriesOK'
    BY <1>16 DEF StdoutExits, CallsOK, QueuesOK, WorkersOK, StatsOK, StdoutOK, AuthOK, HistoriesOK,
       hotVars, workerVars, statsVars, stdoutVars, authVars, ctxVars
  <2>2. FlagsOK'
    BY <1>16 DEF StdoutExits, FlagsOK, ctxVars, stdoutVars
  <2>. QED
    BY <2>1, <2>2
<1>17. CASE ShowLifecycle
  <2>1. CallsOK' /\ QueuesOK' /\ WorkersOK' /\ StatsOK' /\ StdoutOK' /\ FlagsOK' /\ HistoriesOK'
    BY <1>17 DEF ShowLifecycle, CallsOK, QueuesOK, WorkersOK, StatsOK, StdoutOK, FlagsOK, HistoriesOK,
       hotVars, workerVars, statsVars, stdoutVars, authVars, ctxVars
  <2>2. AuthOK'
    BY <1>17 DEF ShowLifecycle, AuthOK, ctxVars
  <2>. QED
    BY <2>1, <2>2
<1>18. CASE StderrExits
  <2>1. CallsOK' /\ QueuesOK' /\ WorkersOK' /\ StatsOK' /\ StdoutOK' /\ AuthOK' /\ HistoriesOK'
    BY <1>18 DEF StderrExits, CallsOK, QueuesOK, WorkersOK, StatsOK, StdoutOK, AuthOK, HistoriesOK,
       hotVars, workerVars, statsVars, stdoutVars, authVars, ctxVars
  <2>2. FlagsOK'
    BY <1>18 DEF StderrExits, FlagsOK, ctxVars, stdoutVars
  <2>. QED
    BY <2>1, <2>2
<1>19. CASE Tick
  <2>1. CallsOK' /\ QueuesOK' /\ WorkersOK' /\ StatsOK' /\ StdoutOK' /\ FlagsOK' /\ HistoriesOK'
    BY <1>19 DEF Tick, CallsOK, QueuesOK, WorkersOK, StatsOK, StdoutOK, FlagsOK, HistoriesOK,
       hotVars, workerVars, statsVars, stdoutVars, authVars, ctxVars
  <2>2. AuthOK'
    BY <1>19 DEF Tick, AuthOK, authVars
  <2>. QED
    BY <2>1, <2>2
<1>20. CASE Cancel
  <2>1. CallsOK' /\ QueuesOK' /\ WorkersOK' /\ StatsOK' /\ StdoutOK' /\ AuthOK' /\ HistoriesOK'
    BY <1>20 DEF Cancel, CallsOK, QueuesOK, WorkersOK, StatsOK, StdoutOK, AuthOK, HistoriesOK,
       hotVars, workerVars, statsVars, stdoutVars, authVars, ctxVars
  <2>2. FlagsOK'
    BY <1>20 DEF Cancel, FlagsOK, ctxVars, stdoutVars
  <2>. QED
    BY <2>1, <2>2
<1>21. CASE UNCHANGED vars
  BY <1>21 DEF vars, CallsOK, QueuesOK, WorkersOK, StatsOK, StdoutOK, AuthOK, FlagsOK, HistoriesOK,
     hotVars, workerVars, statsVars, stdoutVars, authVars, ctxVars
<1>. QED
  BY <1>1, <1>2, <1>3, <1>4, <1>5, <1>6, <1>7, <1>8, <1>9, <1>10,
     <1>11, <1>12, <1>13, <1>14, <1>15, <1>16, <1>17, <1>18, <1>19, <1>20, <1>21 DEF Next, Handler, Worker, Writers

(* Every reachable state is typed, no channel overflows, and a worker holds *)
(* a batch exactly while it sends it or reports its failure.               *)
THEOREM TypeCorrect == Spec => []TypeOK
<1>. QED
  BY InitType, NextType, PTL DEF Spec

(***************************************************************************)
(* Order.  InOrder is inductive once the types are known: a batch joins    *)
(* accepted and queue together, moves from the head of the queue to its    *)
(* worker, and from there to done.                                         *)
(***************************************************************************)

(* Appending to the right part of a concatenation appends to the whole.    *)
LEMMA AppendRight ==
    ASSUME NEW d \in Seq(Batches), NEW q \in Seq(Batches), NEW b \in Batches
    PROVE  Append(d \o q, b) = d \o Append(q, b)
OBVIOUS

(* The head of the right part may move to the end of the left one.         *)
LEMMA SplitHead ==
    ASSUME NEW d \in Seq(Batches), NEW q \in Seq(Batches), q # << >>
    PROVE  d \o q = (d \o <<Head(q)>>) \o Tail(q)
<1>. DEFINE r == (d \o <<Head(q)>>) \o Tail(q)
<1>1. /\ Head(q) \in Batches /\ Tail(q) \in Seq(Batches)
      /\ Len(Tail(q)) = Len(q) - 1 /\ Len(q) \in Nat \ {0}
  OBVIOUS
<1>2. d \o q \in Seq(Batches) /\ r \in Seq(Batches) /\ Len(r) = Len(d \o q)
  BY <1>1
<1>3. ASSUME NEW i \in 1 .. Len(r) PROVE r[i] = (d \o q)[i]
  BY <1>1, <1>2
<1>. QED
  BY <1>2, <1>3, SeqEqual

(* Every step keeps a channel's batches in the order it accepted them.     *)
LEMMA NextInOrder == TypeOK /\ InOrder /\ [Next]_vars => InOrder'
<1>. SUFFICES ASSUME TypeOK, InOrder, [Next]_vars, NEW t \in Signals
              PROVE  accepted'[t] = done'[t] \o inflight'[t] \o queue'[t]
  BY DEF InOrder
<1>. USE ConstantsAssumption DEF TypeOK
<1>1. /\ accepted[t] \in Seq(Batches) /\ done[t] \in Seq(Batches)
      /\ inflight[t] \in Seq(Batches) /\ queue[t] \in Seq(Batches)
      /\ accepted[t] = done[t] \o inflight[t] \o queue[t]
  BY DEF HistoriesOK, WorkersOK, QueuesOK, InOrder
<1>2. ASSUME UNCHANGED <<accepted, done, inflight, queue>>
      PROVE  accepted'[t] = done'[t] \o inflight'[t] \o queue'[t]
  BY <1>1, <1>2
<1>3. ASSUME NEW b \in Batches, Enqueue(b)
      PROVE  accepted'[t] = done'[t] \o inflight'[t] \o queue'[t]
  <2>1. CASE QueueFull(b)
    BY <1>2, <1>3, <2>1 DEF Enqueue, Reject, workerVars
  <2>2. CASE ~QueueFull(b) /\ t # SignalOf[b]
    BY <1>1, <1>3, <2>2 DEF Enqueue, Accept, workerVars, HistoriesOK, QueuesOK
  <2>3. CASE ~QueueFull(b) /\ t = SignalOf[b]
    <3>1. accepted'[t] = Append(accepted[t], b) /\ queue'[t] = Append(queue[t], b)
      BY <1>3, <2>3 DEF Enqueue, Accept, HistoriesOK, QueuesOK
    <3>2. done' = done /\ inflight' = inflight
      BY <1>3 DEF Enqueue, workerVars
    <3>3. done[t] \o inflight[t] \in Seq(Batches)
      BY <1>1, ConcatProperties
    <3>4. Append((done[t] \o inflight[t]) \o queue[t], b)
            = (done[t] \o inflight[t]) \o Append(queue[t], b)
      BY <1>1, <3>3, AppendRight
    <3>. QED
      BY <1>1, <3>1, <3>2, <3>4
  <2>. QED
    BY <2>1, <2>2, <2>3
<1>4. ASSUME NEW s \in Signals, Take(s)
      PROVE  accepted'[t] = done'[t] \o inflight'[t] \o queue'[t]
  <2>1. accepted' = accepted /\ done' = done
    BY <1>4 DEF Take, hotVars
  <2>2. CASE t # s
    BY <1>1, <1>4, <2>1, <2>2 DEF Take, WorkersOK, QueuesOK
  <2>3. CASE t = s
    <3>1. inflight'[t] = <<Head(queue[t])>> /\ queue'[t] = Tail(queue[t])
      BY <1>4, <2>3 DEF Take, WorkersOK, QueuesOK
    <3>2. queue[t] # << >> /\ inflight[t] = << >>
      BY <1>1, <1>4, <2>3, EmptySeq DEF Take, WorkersOK, Holding
    <3>3. accepted[t] = done[t] \o queue[t]
      BY <1>1, <3>2, ConcatEmptySeq
    <3>. QED
      BY <1>1, <2>1, <3>1, <3>2, <3>3, SplitHead
  <2>. QED
    BY <2>2, <2>3
<1>5. ASSUME NEW s \in Signals, Finish(s), UNCHANGED <<accepted, queue>>
      PROVE  accepted'[t] = done'[t] \o inflight'[t] \o queue'[t]
  <2>1. CASE t # s
    BY <1>1, <1>5, <2>1 DEF Finish, HistoriesOK, WorkersOK
  <2>2. CASE t = s
    <3>1. done'[t] = done[t] \o inflight[t] /\ inflight'[t] = << >>
      BY <1>5, <2>2 DEF Finish, HistoriesOK, WorkersOK
    <3>2. accepted'[t] = accepted[t] /\ queue'[t] = queue[t]
      BY <1>5
    <3>3. done[t] \o inflight[t] \in Seq(Batches)
      BY <1>1, ConcatProperties
    <3>. QED
      BY <1>1, <3>1, <3>2, <3>3, ConcatEmptySeq
  <2>. QED
    BY <2>1, <2>2
<1>6. ASSUME NEW b \in Batches,
             Export(b) \/ RecordForwarded(b) \/ EmitForwarded(b) \/ RenderTail(b)
      PROVE  UNCHANGED <<accepted, done, inflight, queue>>
  BY <1>6 DEF Export, RecordForwarded, EmitForwarded, RenderTail, Advance, workerVars
<1>7. ASSUME NEW s \in Signals, SendOk(s) \/ Panic(s) \/ EmitError(s)
      PROVE  Finish(s) /\ UNCHANGED <<accepted, queue>>
  BY <1>7 DEF SendOk, Panic, EmitError, hotVars
<1>8. ASSUME NEW s \in Signals,
             SendFails(s) \/ RecordFailed(s) \/ SurfaceAuthError(s) \/ WorkerExits(s)
      PROVE  UNCHANGED <<accepted, done, inflight, queue>>
  BY <1>8 DEF SendFails, RecordFailed, SurfaceAuthError, WorkerExits, hotVars
<1>9. ASSUME Writers \/ Tick \/ Cancel \/ UNCHANGED vars
      PROVE  UNCHANGED <<accepted, done, inflight, queue>>
  BY <1>9 DEF Writers, WriteEvent, PrintTail, StdoutExits, ShowLifecycle, StderrExits,
              Tick, Cancel, vars, hotVars, workerVars
<1>. QED
  BY <1>2, <1>3, <1>4, <1>5, <1>6, <1>7, <1>8, <1>9 DEF Next, Handler, Worker

(* What a signal accepted is what its worker is through with, what it      *)
(* holds and what is queued, in that order, for any number of batches.     *)
THEOREM OrderKept == Spec => []InOrder
<1>1. Init => InOrder
  BY DEF Init, InOrder
<1>. QED
  BY <1>1, InitType, NextType, NextInOrder, PTL DEF Spec

(***************************************************************************)
(* At most once.  A handler that has yet to answer, an SDK that may export *)
(* again and a queue that already took the batch exclude one another.      *)
(***************************************************************************)

(* A batch that is not accepted may be anywhere else. *)
LEMMA CallMoves ==
    ASSUME TypeOK, TakenAtMostOnce, accepted' = accepted, NEW b \in Batches,
           call[b] # "accepted", NEW v, call' = [call EXCEPT ![b] = v]
    PROVE  TakenAtMostOnce'
<1>1. ASSUME NEW s \in Signals, NEW i \in DOMAIN accepted[s]
      PROVE  call'[accepted[s][i]] = "accepted"
  <2>1. accepted[s][i] \in Batches /\ accepted[s][i] # b
    BY <1>1 DEF TypeOK, HistoriesOK, TakenAtMostOnce
  <2>. QED
    BY <1>1, <2>1 DEF TypeOK, CallsOK, TakenAtMostOnce
<1>. QED
  BY <1>1 DEF TakenAtMostOnce

(* Every step keeps the batches of a channel distinct and answered.        *)
LEMMA NextTakenAtMostOnce == TypeOK /\ TakenAtMostOnce /\ [Next]_vars => TakenAtMostOnce'
<1>. SUFFICES ASSUME TypeOK, TakenAtMostOnce, [Next]_vars PROVE TakenAtMostOnce'
  OBVIOUS
<1>1. ASSUME NEW b \in Batches, Export(b) PROVE TakenAtMostOnce'
  <2>1. call[b] # "accepted" /\ call' = [call EXCEPT ![b] = ConsumeEntry(b)]
        /\ accepted' = accepted
    BY <1>1 DEF Export
  <2>. QED
    BY <2>1, CallMoves
<1>2. ASSUME NEW b \in Batches, NEW stage \in {"count", "announce", "render"}, Advance(b, stage)
      PROVE  TakenAtMostOnce'
  <2>1. call[b] # "accepted" /\ call' = [call EXCEPT ![b] = AfterStage(stage)]
        /\ accepted' = accepted
    BY <1>2 DEF Advance
  <2>. QED
    BY <2>1, CallMoves
<1>3. ASSUME NEW b \in Batches, Enqueue(b) PROVE TakenAtMostOnce'
  <2>1. call[b] # "accepted"
    BY <1>3 DEF Enqueue
  <2>2. CASE QueueFull(b)
    BY <1>3, <2>1, <2>2, CallMoves DEF Enqueue, Reject
  <2>3. CASE ~QueueFull(b)
    <3>. DEFINE z == SignalOf[b]
    <3>1. /\ accepted' = [accepted EXCEPT ![z] = Append(accepted[z], b)]
          /\ call' = [call EXCEPT ![b] = "accepted"]
      BY <1>3, <2>3 DEF Enqueue, Accept
    <3>2. ASSUME NEW s \in Signals, NEW i \in DOMAIN accepted[s]
          PROVE  accepted[s][i] \in Batches /\ accepted[s][i] # b
                 /\ call'[accepted[s][i]] = "accepted"
      BY <2>1, <3>1, <3>2 DEF TypeOK, CallsOK, HistoriesOK, TakenAtMostOnce
    <3>3. ASSUME NEW s \in Signals, s # z, NEW i \in DOMAIN accepted'[s], NEW j \in DOMAIN accepted'[s]
          PROVE  /\ accepted'[s][i] = accepted'[s][j] => i = j
                 /\ call'[accepted'[s][i]] = "accepted"
      BY <3>1, <3>2, <3>3 DEF TypeOK, HistoriesOK, TakenAtMostOnce
    <3>4. ASSUME NEW i \in DOMAIN accepted'[z], NEW j \in DOMAIN accepted'[z]
          PROVE  /\ accepted'[z][i] = accepted'[z][j] => i = j
                 /\ call'[accepted'[z][i]] = "accepted"
      <4>1. z \in Signals /\ accepted[z] \in Seq(Batches) /\ accepted'[z] = Append(accepted[z], b)
        BY <3>1, ConstantsAssumption DEF TypeOK, HistoriesOK
      <4>2. /\ DOMAIN accepted'[z] = 1 .. Len(accepted[z]) + 1
            /\ accepted'[z][Len(accepted[z]) + 1] = b
            /\ \A k \in 1 .. Len(accepted[z]) : accepted'[z][k] = accepted[z][k]
        BY <4>1
      <4>3. call'[b] = "accepted"
        BY <3>1 DEF TypeOK, CallsOK
      <4>4. \A k, m \in 1 .. Len(accepted[z]) : accepted[z][k] = accepted[z][m] => k = m
        BY <4>1 DEF TakenAtMostOnce
      <4>5. \A k \in 1 .. Len(accepted[z]) : accepted[z][k] # b /\ call'[accepted[z][k]] = "accepted"
        BY <3>2, <4>1
      <4>. QED
        BY <3>4, <4>1, <4>2, <4>3, <4>4, <4>5
    <3>. QED
      BY <3>3, <3>4 DEF TakenAtMostOnce
  <2>. QED
    BY <2>2, <2>3
<1>4. ASSUME UNCHANGED hotVars PROVE TakenAtMostOnce'
  BY <1>4 DEF hotVars, TakenAtMostOnce
<1>5. ASSUME NEW b \in Batches, RecordForwarded(b) \/ EmitForwarded(b) \/ RenderTail(b)
      PROVE  TakenAtMostOnce'
  BY <1>2, <1>5 DEF RecordForwarded, EmitForwarded, RenderTail
<1>6. ASSUME NEW s \in Signals, Worker(s) PROVE UNCHANGED hotVars
  BY <1>6 DEF Worker, Take, SendOk, SendFails, Panic, RecordFailed, EmitError,
              SurfaceAuthError, WorkerExits
<1>7. ASSUME Writers \/ Tick \/ Cancel \/ UNCHANGED vars PROVE UNCHANGED hotVars
  BY <1>7 DEF Writers, WriteEvent, PrintTail, StdoutExits, ShowLifecycle, StderrExits,
              Tick, Cancel, vars
<1>. QED
  BY <1>1, <1>3, <1>4, <1>5, <1>6, <1>7 DEF Next, Handler

(* However often an SDK exports a batch again, no channel takes it twice,  *)
(* and a batch answered with an error was not taken.                       *)
THEOREM AtMostOnce == Spec => []TakenAtMostOnce
<1>1. Init => TakenAtMostOnce
  BY DEF Init, TakenAtMostOnce
<1>. QED
  BY <1>1, InitType, NextType, NextTakenAtMostOnce, PTL DEF Spec

(***************************************************************************)
(* Refinement.  A successful enqueue is a Take of the relay, the end of a  *)
(* batch an Attempt; every other step leaves the relay alone.              *)
(***************************************************************************)
LEMMA LenOfThree ==
    ASSUME NEW d \in Seq(Batches), NEW h \in Seq(Batches), NEW q \in Seq(Batches)
    PROVE  /\ Len(d \o h \o q) = Len(d) + Len(h) + Len(q)
           /\ Len(h) = 1 => (d \o h \o q)[Len(d) + 1] = h[1]
OBVIOUS

(* A signal with room in its channel owes at most QueueDepth batches.      *)
LEMMA RoomLeft ==
    ASSUME NEW d \in Seq(Batches), NEW h \in Seq(Batches), NEW q \in Seq(Batches),
           NEW a, a = d \o h \o q, Len(h) <= 1, NEW n \in Nat, Len(q) < n
    PROVE  Len(a) - Len(d) < n + 1
<1>1. Len(a) = Len(d) + Len(h) + Len(q)
  BY LenOfThree
<1>2. Len(d) \in Nat /\ Len(h) \in Nat /\ Len(q) \in Nat
  BY LenProperties
<1>3. ASSUME NEW x \in Nat, NEW y \in Nat, NEW z \in Nat, NEW w,
             w = x + y + z, y <= 1, z < n
      PROVE  w - x < n + 1
  BY <1>3
<1>. QED
  BY ONLY <1>1, <1>2, <1>3, Len(h) <= 1, Len(q) < n, n \in Nat

(* The batch a worker holds is the first it has not attempted.             *)
LEMMA NextInLine ==
    ASSUME NEW d \in Seq(Batches), NEW h \in Seq(Batches), NEW q \in Seq(Batches),
           Len(h) = 1
    PROVE  Len(d) < Len(d \o h \o q) /\ (d \o h \o q)[Len(d) + 1] = h[1]
<1>1. Len(d \o h \o q) = Len(d) + Len(h) + Len(q)
  BY LenOfThree
<1>2. (d \o h \o q)[Len(d) + 1] = h[1]
  BY LenOfThree
<1>3. Len(d) \in Nat /\ Len(q) \in Nat
  BY LenProperties
<1>. QED
  BY <1>1, <1>2, <1>3

(* Appending the one element of a sequence is concatenating the sequence.  *)
LEMMA AppendOne ==
    ASSUME NEW d \in Seq(Batches), NEW h \in Seq(Batches), Len(h) = 1
    PROVE  d \o h = Append(d, h[1])
<1>1. h[1] \in Batches
  BY ElementOfSeq
<1>2. <<h[1]>> \in Seq(Batches)
  BY <1>1
<1>3. h = <<h[1]>>
  BY <1>1, <1>2, SeqEqual
<1>. QED
  BY <1>1, <1>3, AppendIsConcat

(* A worker holds one batch or none.                                       *)
LEMMA HoldsAtMostOne ==
    ASSUME WorkersOK, NEW s \in Signals
    PROVE  Len(inflight[s]) <= 1 /\ (worker[s] \in Holding => Len(inflight[s]) = 1)
<1>1. CASE worker[s] \in Holding
  <2>1. Len(inflight[s]) = 1
    BY <1>1 DEF WorkersOK
  <2>. QED
    BY <2>1
<1>2. CASE worker[s] \notin Holding
  <2>1. Len(inflight[s]) = 0
    BY <1>2 DEF WorkersOK
  <2>. QED
    BY <1>2, <2>1
<1>. QED
  BY <1>1, <1>2

(* An accepted batch is taken by the relay; a rejected one leaves it       *)
(* alone.                                                                  *)
LEMMA EnqueueTakes ==
    ASSUME TypeOK, InOrder, TakenAtMostOnce, NEW b \in Batches, Enqueue(b)
    PROVE  [Relay!Next]_<<accepted, done>>
<1>1. SignalOf[b] \in Signals
  BY ConstantsAssumption
<1>2. CASE QueueFull(b)
  BY <1>2 DEF Enqueue, Reject, workerVars
<1>3. ASSUME ~QueueFull(b), NEW z \in Signals, z = SignalOf[b] PROVE Relay!Take(z, b)
  <2>1. accepted' = [accepted EXCEPT ![z] = Append(accepted[z], b)] /\ done' = done
    BY <1>3 DEF Enqueue, Accept, workerVars
  <2>2. Len(accepted[z]) - Len(done[z]) < QueueDepth + 1
    <3>1. accepted[z] = done[z] \o inflight[z] \o queue[z]
      BY DEF InOrder
    <3>2. /\ done[z] \in Seq(Batches) /\ inflight[z] \in Seq(Batches) /\ queue[z] \in Seq(Batches)
          /\ Len(queue[z]) \in Nat
      BY DEF TypeOK, HistoriesOK, WorkersOK, QueuesOK
    <3>3. Len(inflight[z]) <= 1
      BY HoldsAtMostOne DEF TypeOK
    <3>4. QueueDepth \in Nat
      BY ConstantsAssumption
    <3>5. Len(queue[z]) < QueueDepth
      BY <1>3, <3>2, <3>4 DEF QueueFull
    <3>. QED
      BY <3>1, <3>2, <3>3, <3>4, <3>5, RoomLeft
  <2>3. \A i \in DOMAIN accepted[z] : accepted[z][i] # b
    BY DEF TakenAtMostOnce, Enqueue
  <2>. QED
    BY <2>1, <2>2, <2>3 DEF Relay!Take
<1>. QED
  BY <1>1, <1>2, <1>3 DEF Relay!Next

(* A worker that finishes a batch attempts the relay's next one.           *)
LEMMA FinishAttempts ==
    ASSUME TypeOK, InOrder, NEW s \in Signals, worker[s] \in Holding, Finish(s),
           accepted' = accepted
    PROVE  Relay!Next
<1>1. accepted[s] = done[s] \o inflight[s] \o queue[s]
  BY DEF InOrder
<1>2. done[s] \in Seq(Batches) /\ inflight[s] \in Seq(Batches) /\ queue[s] \in Seq(Batches)
  BY DEF TypeOK, HistoriesOK, WorkersOK, QueuesOK
<1>3. Len(inflight[s]) = 1
  BY HoldsAtMostOne DEF TypeOK
<1>4. Len(done[s]) < Len(accepted[s]) /\ accepted[s][Len(done[s]) + 1] = inflight[s][1]
  <2>1. /\ Len(done[s]) < Len(done[s] \o inflight[s] \o queue[s])
        /\ (done[s] \o inflight[s] \o queue[s])[Len(done[s]) + 1] = inflight[s][1]
    BY <1>2, <1>3, NextInLine, Zenon
  <2>. QED
    BY <1>1, <2>1, Zenon
<1>5. done[s] \o inflight[s] = Append(done[s], inflight[s][1])
  BY <1>2, <1>3, AppendOne, Zenon
<1>6. done' = [done EXCEPT ![s] = Append(done[s], accepted[s][Len(done[s]) + 1])]
  BY <1>4, <1>5 DEF Finish
<1>7. Relay!Attempt(s)
  BY <1>4, <1>6 DEF Relay!Attempt
<1>. QED
  BY <1>7 DEF Relay!Next

(* Every step of the data plane is a step of the relay, or leaves it       *)
(* alone.                                                                  *)
LEMMA NextRefines ==
    TypeOK /\ InOrder /\ TakenAtMostOnce /\ [Next]_vars => [Relay!Next]_<<accepted, done>>
<1>. SUFFICES ASSUME TypeOK, InOrder, TakenAtMostOnce, [Next]_vars
              PROVE  [Relay!Next]_<<accepted, done>>
  OBVIOUS
<1>1. ASSUME NEW b \in Batches, Enqueue(b) PROVE [Relay!Next]_<<accepted, done>>
  BY <1>1, EnqueueTakes
<1>2. ASSUME NEW s \in Signals, SendOk(s) \/ Panic(s) \/ EmitError(s) PROVE Relay!Next
  BY <1>2, FinishAttempts DEF SendOk, Panic, EmitError, Holding, hotVars
<1>3. ASSUME NEW b \in Batches,
             Export(b) \/ RecordForwarded(b) \/ EmitForwarded(b) \/ RenderTail(b)
      PROVE  UNCHANGED <<accepted, done>>
  BY <1>3 DEF Export, RecordForwarded, EmitForwarded, RenderTail, Advance, workerVars
<1>4. ASSUME NEW s \in Signals,
             Take(s) \/ SendFails(s) \/ RecordFailed(s) \/ SurfaceAuthError(s) \/ WorkerExits(s)
      PROVE  UNCHANGED <<accepted, done>>
  BY <1>4 DEF Take, SendFails, RecordFailed, SurfaceAuthError, WorkerExits, hotVars
<1>5. ASSUME Writers \/ Tick \/ Cancel \/ UNCHANGED vars
      PROVE  UNCHANGED <<accepted, done>>
  BY <1>5 DEF Writers, WriteEvent, PrintTail, StdoutExits, ShowLifecycle, StderrExits,
              Tick, Cancel, vars, hotVars, workerVars
<1>. QED
  BY <1>1, <1>2, <1>3, <1>4, <1>5 DEF Next, Handler, Worker

(* The proxy's data plane implements the bounded ordered relay.            *)
THEOREM ImplementsRelay == Spec => RelaySpec
<1>1. Init => Relay!Init
  BY DEF Init, Relay!Init
<1>. QED
  BY <1>1, NextRefines, TypeCorrect, OrderKept, AtMostOnce, PTL
     DEF Spec, RelaySpec, Relay!Spec

(***************************************************************************)
(* Authentication warnings.  lastAuthWarn is the time of the last line     *)
(* that was queued, so the throttle measures the distance to it.           *)
(***************************************************************************)
LastWarning ==
    /\ lastAuthWarn = IF authWarnings = << >> THEN Never ELSE authWarnings[Len(authWarnings)]
    /\ lastAuthWarn <= now

WarningsInv == LastWarning /\ AuthWarningsThrottled

(* Which variables of the warnings a step other than a warning moves. *)
LEMMA OnlyWarningsWarn ==
    ASSUME [Next]_vars
    PROVE  \/ \E s \in Signals : SurfaceAuthError(s)
           \/ ShowLifecycle
           \/ Tick /\ UNCHANGED authVars
           \/ UNCHANGED <<authVars, now>>
<1>1. ASSUME NEW b \in Batches, Export(b) \/ Handler(b) PROVE UNCHANGED <<authVars, now>>
  BY <1>1 DEF Export, Handler, RecordForwarded, EmitForwarded, RenderTail, Enqueue, ctxVars
<1>2. ASSUME NEW s \in Signals, Worker(s), ~SurfaceAuthError(s)
      PROVE  UNCHANGED <<authVars, now>>
  BY <1>2 DEF Worker, Take, SendOk, SendFails, Panic, RecordFailed, EmitError, WorkerExits, ctxVars
<1>3. ASSUME WriteEvent \/ PrintTail \/ StdoutExits \/ StderrExits \/ Cancel \/ UNCHANGED vars
      PROVE  UNCHANGED <<authVars, now>>
  BY <1>3 DEF WriteEvent, PrintTail, StdoutExits, StderrExits, Cancel, vars, ctxVars
<1>4. ASSUME Tick PROVE UNCHANGED authVars
  BY <1>4 DEF Tick
<1>. QED
  BY <1>1, <1>2, <1>3, <1>4 DEF Next, Writers

(* Every step keeps the warnings apart.                                    *)
LEMMA NextWarnings == TypeOK /\ WarningsInv /\ [Next]_vars => WarningsInv'
<1>. SUFFICES ASSUME TypeOK, WarningsInv, [Next]_vars PROVE WarningsInv'
  OBVIOUS
<1>. USE ConstantsAssumption DEF TypeOK, WarningsInv
<1>1. /\ authWarnings \in Seq(0 .. MaxTime) /\ now \in 0 .. MaxTime
      /\ lastAuthWarn \in {Never} \union 0 .. MaxTime
  BY DEF AuthOK
<1>2. ASSUME NEW s \in Signals, SurfaceAuthError(s) PROVE WarningsInv'
  <2>1. CASE UNCHANGED authVars
    BY <1>2, <2>1 DEF SurfaceAuthError, authVars, ctxVars, LastWarning, AuthWarningsThrottled
  <2>2. CASE ~WithinThrottle /\ ~LifecycleFull
    <3>1. /\ authWarnings' = Append(authWarnings, now) /\ lastAuthWarn' = now /\ now' = now
      BY <1>2, <2>2 DEF SurfaceAuthError, ctxVars
    <3>2. LastWarning'
      BY <1>1, <3>1 DEF LastWarning
    <3>3. ASSUME NEW i \in 1 .. Len(authWarnings') - 1
          PROVE  authWarnings'[i + 1] - authWarnings'[i] >= Throttle
      <4>1. CASE i = Len(authWarnings)
        <5>1. authWarnings'[i + 1] = now /\ authWarnings'[i] = lastAuthWarn
          BY <1>1, <3>1, <4>1 DEF LastWarning
        <5>2. lastAuthWarn # Never /\ lastAuthWarn \in 0 .. MaxTime
          BY <1>1, <3>1, <4>1, <5>1 DEF Never
        <5>. QED
          BY <1>1, <2>2, <5>1, <5>2 DEF WithinThrottle
      <4>2. CASE i # Len(authWarnings)
        <5>1. i \in 1 .. Len(authWarnings) - 1
          BY <1>1, <3>1, <4>2
        <5>2. authWarnings'[i + 1] = authWarnings[i + 1] /\ authWarnings'[i] = authWarnings[i]
          BY <1>1, <3>1, <5>1
        <5>. QED
          BY <5>1, <5>2 DEF AuthWarningsThrottled
      <4>. QED
        BY <4>1, <4>2
    <3>. QED
      BY <3>2, <3>3 DEF AuthWarningsThrottled
  <2>. QED
    BY <1>2, <2>1, <2>2 DEF SurfaceAuthError
<1>3. CASE ShowLifecycle
  BY <1>3 DEF ShowLifecycle, ctxVars, LastWarning, AuthWarningsThrottled
<1>4. CASE Tick /\ UNCHANGED authVars
  BY <1>1, <1>4 DEF Tick, authVars, LastWarning, AuthWarningsThrottled, Never
<1>5. CASE UNCHANGED <<authVars, now>>
  BY <1>5 DEF authVars, LastWarning, AuthWarningsThrottled
<1>. QED
  BY <1>2, <1>3, <1>4, <1>5, OnlyWarningsWarn

(* Whichever workers fail, two authentication warnings are at least the    *)
(* throttle window apart.                                                  *)
THEOREM WarningsThrottled == Spec => []AuthWarningsThrottled
<1>1. Init => WarningsInv
  BY ConstantsAssumption DEF Init, WarningsInv, LastWarning, AuthWarningsThrottled, Never
<1>. QED
  BY <1>1, InitType, NextType, NextWarnings, PTL DEF Spec, WarningsInv

(* The throttle's timestamp moves only together with a queued warning: one *)
(* that found the channel full does not use up its window.                 *)
THEOREM WindowKept == Spec => WindowOnlyUsedByWarning
<1>1. TypeOK /\ [Next]_vars
        => [lastAuthWarn' # lastAuthWarn => Len(lifecycle') = Len(lifecycle) + 1]_vars
  <2>. SUFFICES ASSUME TypeOK, [Next]_vars, lastAuthWarn' # lastAuthWarn
                PROVE  Len(lifecycle') = Len(lifecycle) + 1
    OBVIOUS
  <2>1. PICK s \in Signals : SurfaceAuthError(s)
    BY OnlyWarningsWarn DEF ShowLifecycle, authVars
  <2>2. lifecycle' = Append(lifecycle, "authFailed")
    BY <2>1 DEF SurfaceAuthError, authVars
  <2>. QED
    BY <2>2 DEF TypeOK, AuthOK
<1>. QED
  BY <1>1, TypeCorrect, PTL DEF Spec, WindowOnlyUsedByWarning

(***************************************************************************)
(* Announcements.  An error event is about a batch its channel accepted,   *)
(* and such a batch is never announced again.                              *)
(***************************************************************************)
ErrorsAccepted(s) ==
    \A i \in DOMAIN s : s[i].name = "error" => call[s[i].batch] = "accepted"

(* The two events, in this order, do not belong to the same batch as an    *)
(* error and its announcement.                                             *)
Apart(e, f) == e.name = "error" /\ f.name = "forwarded" => e.batch # f.batch

AnnouncedFirst(s) == \A i, j \in DOMAIN s : i < j => Apart(s[i], s[j])

EventsInv ==
    /\ ErrorsAccepted(stdout) /\ ErrorsAccepted(events)
    /\ AnnouncedFirst(stdout) /\ AnnouncedFirst(events)
    /\ \A i \in DOMAIN stdout, j \in DOMAIN events : Apart(stdout[i], events[j])

(* A batch keeps its answer "accepted". *)
LEMMA AcceptedStays ==
    ASSUME TypeOK, [Next]_vars, NEW b \in Batches, call[b] = "accepted"
    PROVE  call'[b] = "accepted"
<1>. USE ConstantsAssumption DEF TypeOK, CallsOK
<1>1. ASSUME NEW c \in Batches, Export(c) \/ Handler(c) PROVE call'[b] = "accepted"
  <2>1. PICK v : call[c] # "accepted" /\ call' = [call EXCEPT ![c] = v]
    BY <1>1 DEF Export, Handler, RecordForwarded, EmitForwarded, RenderTail, Enqueue, Advance,
                Accept, Reject
  <2>. QED
    BY <2>1
<1>2. ASSUME NEW s \in Signals, Worker(s) PROVE call' = call
  BY <1>2 DEF Worker, Take, SendOk, SendFails, Panic, RecordFailed, EmitError,
              SurfaceAuthError, WorkerExits, hotVars
<1>3. ASSUME Writers \/ Tick \/ Cancel \/ UNCHANGED vars PROVE call' = call
  BY <1>3 DEF Writers, WriteEvent, PrintTail, StdoutExits, ShowLifecycle, StderrExits,
              Tick, Cancel, vars, hotVars
<1>. QED
  BY <1>1, <1>2, <1>3 DEF Next

(* The batch a worker holds was accepted.                                  *)
LEMMA HeldAccepted ==
    ASSUME TypeOK, InOrder, TakenAtMostOnce, NEW s \in Signals, worker[s] \in Holding
    PROVE  /\ inflight[s][1] \in Batches /\ call[inflight[s][1]] = "accepted"
           /\ Len(done[s]) + 1 \in DOMAIN accepted[s]
           /\ accepted[s][Len(done[s]) + 1] = inflight[s][1]
<1>1. /\ done[s] \in Seq(Batches) /\ inflight[s] \in Seq(Batches) /\ queue[s] \in Seq(Batches)
      /\ accepted[s] \in Seq(Batches)
  BY DEF TypeOK, HistoriesOK, WorkersOK, QueuesOK
<1>2. Len(inflight[s]) = 1
  BY HoldsAtMostOne DEF TypeOK
<1>3. /\ Len(done[s]) < Len(done[s] \o inflight[s] \o queue[s])
      /\ (done[s] \o inflight[s] \o queue[s])[Len(done[s]) + 1] = inflight[s][1]
  BY <1>1, <1>2, NextInLine, Zenon
<1>4. Len(done[s]) < Len(accepted[s]) /\ accepted[s][Len(done[s]) + 1] = inflight[s][1]
  BY <1>3, Zenon DEF InOrder
<1>5. Len(done[s]) + 1 \in DOMAIN accepted[s]
  BY <1>1, <1>4
<1>. QED
  BY <1>1, <1>2, <1>4, <1>5, ElementOfSeq DEF TakenAtMostOnce

(* What may happen to the events in one step.                              *)
LEMMA EventSteps ==
    ASSUME TypeOK, InOrder, TakenAtMostOnce, [Next]_vars
    PROVE  \/ UNCHANGED <<events, stdout>>
           \/ WriteEvent
           \/ \E b \in Batches : /\ call[b] = "announce" /\ stdout' = stdout
                                 /\ events' = Append(events, [name |-> "forwarded", batch |-> b])
           \/ \E b \in Batches : /\ call[b] = "accepted" /\ stdout' = stdout
                                 /\ events' = Append(events, [name |-> "error", batch |-> b])
<1>1. ASSUME NEW b \in Batches, Export(b) \/ RecordForwarded(b) \/ RenderTail(b) \/ Enqueue(b)
      PROVE  UNCHANGED <<events, stdout>>
  BY <1>1 DEF Export, RecordForwarded, RenderTail, Enqueue, stdoutVars
<1>2. ASSUME NEW b \in Batches, EmitForwarded(b)
      PROVE  /\ call[b] = "announce" /\ stdout' = stdout
             /\ \/ events' = events
                \/ events' = Append(events, [name |-> "forwarded", batch |-> b])
  BY <1>2 DEF EmitForwarded, Emit, TrySend, Advance
<1>3. ASSUME NEW s \in Signals, Panic(s) \/ EmitError(s)
      PROVE  /\ inflight[s][1] \in Batches /\ call[inflight[s][1]] = "accepted"
             /\ stdout' = stdout
             /\ \/ events' = events
                \/ events' = Append(events, [name |-> "error", batch |-> inflight[s][1]])
  <2>1. worker[s] \in Holding
    BY <1>3 DEF Panic, EmitError, Holding
  <2>2. /\ stdout' = stdout
        /\ \/ events' = events
           \/ events' = Append(events, [name |-> "error", batch |-> inflight[s][1]])
    BY <1>3 DEF Panic, EmitError, Emit, TrySend
  <2>. QED
    BY <2>1, <2>2, HeldAccepted
<1>4. ASSUME NEW s \in Signals, Worker(s), ~Panic(s), ~EmitError(s)
      PROVE  UNCHANGED <<events, stdout>>
  BY <1>4 DEF Worker, Take, SendOk, SendFails, RecordFailed, SurfaceAuthError, WorkerExits,
              stdoutVars
<1>5. ASSUME Writers \/ Tick \/ Cancel \/ UNCHANGED vars, ~WriteEvent
      PROVE  UNCHANGED <<events, stdout>>
  BY <1>5 DEF Writers, PrintTail, StdoutExits, ShowLifecycle, StderrExits, Tick, Cancel, vars,
              stdoutVars
<1>. QED
  BY <1>1, <1>2, <1>3, <1>4, <1>5 DEF Next, Handler

(* An event that is no announcement of a batch with an error may be added. *)
LEMMA EmitKeepsEvents ==
    ASSUME stdout \in Seq(Event), events \in Seq(Event), EventsInv,
           \A b \in Batches : call[b] = "accepted" => call'[b] = "accepted",
           NEW e \in Event, stdout' = stdout, events' = Append(events, e),
           e.name = "error" => call'[e.batch] = "accepted",
           e.name = "forwarded" => call[e.batch] # "accepted"
    PROVE  EventsInv'
<1>. DEFINE n == Len(events)
<1>1. /\ n \in Nat /\ DOMAIN events = 1 .. n /\ DOMAIN events' = 1 .. n + 1
      /\ events'[n + 1] = e /\ \A i \in 1 .. n : events'[i] = events[i]
  OBVIOUS
<1>. HIDE DEF n
<1>2. ASSUME NEW f \in Event, f.name = "error"
      PROVE  f.batch \in Batches
  BY <1>2 DEF Event
<1>3. ASSUME NEW f \in Event, f.name = "error" => call[f.batch] = "accepted"
      PROVE  Apart(f, e) /\ (f.name = "error" => call'[f.batch] = "accepted")
  BY <1>2, <1>3 DEF Apart
<1>4. /\ \A i \in DOMAIN events : events[i] \in Event
      /\ \A i \in DOMAIN stdout : stdout[i] \in Event
  BY ElementOfSeq
<1>5. ErrorsAccepted(stdout)'
  BY <1>3, <1>4 DEF EventsInv, ErrorsAccepted
<1>6. ErrorsAccepted(events)'
  BY <1>1, <1>3, <1>4 DEF EventsInv, ErrorsAccepted
<1>7. AnnouncedFirst(stdout)'
  BY DEF EventsInv, AnnouncedFirst, Apart
<1>8. AnnouncedFirst(events)'
  <2>1. ASSUME NEW i \in 1 .. n + 1, NEW j \in 1 .. n + 1, i < j
        PROVE  Apart(events'[i], events'[j])
    <3>1. i \in 1 .. n
      BY <1>1, <2>1
    <3>2. CASE j = n + 1
      BY <1>1, <1>3, <1>4, <3>1, <3>2 DEF EventsInv, ErrorsAccepted
    <3>3. CASE j # n + 1
      <4>1. j \in 1 .. n
        BY <1>1, <3>3
      <4>. QED
        BY <1>1, <2>1, <3>1, <4>1 DEF EventsInv, AnnouncedFirst
    <3>. QED
      BY <3>2, <3>3
  <2>. QED
    BY <1>1, <2>1 DEF AnnouncedFirst, Apart
<1>9. \A i \in DOMAIN stdout, j \in 1 .. n + 1 : Apart(stdout[i], events'[j])
  <2>1. ASSUME NEW i \in DOMAIN stdout, NEW j \in 1 .. n + 1 PROVE Apart(stdout[i], events'[j])
    <3>1. CASE j = n + 1
      BY <1>1, <1>3, <1>4, <3>1 DEF EventsInv, ErrorsAccepted
    <3>2. CASE j # n + 1
      <4>1. j \in 1 .. n
        BY <1>1, <3>2
      <4>. QED
        BY <1>1, <4>1 DEF EventsInv
    <3>. QED
      BY <3>1, <3>2
  <2>. QED
    BY <2>1
<1>. QED
  BY <1>1, <1>5, <1>6, <1>7, <1>8, <1>9 DEF EventsInv, Apart

(* The writer moves the oldest event to stdout, or drops it.               *)
LEMMA WriteKeepsEvents ==
    ASSUME TypeOK, EventsInv, WriteEvent
    PROVE  EventsInv'
<1>1. /\ events \in Seq(Event) /\ stdout \in Seq(Event) /\ events # << >>
      /\ events' = Tail(events) /\ call' = call
      /\ stdout' = stdout \/ stdout' = Append(stdout, Head(events))
  BY DEF TypeOK, StdoutOK, WriteEvent, hotVars
<1>. DEFINE m == Len(stdout)
            n == Len(events)
<1>2. /\ n \in Nat \ {0} /\ DOMAIN events = 1 .. n /\ DOMAIN events' = 1 .. n - 1
      /\ \A i \in 1 .. n - 1 : events'[i] = events[i + 1]
      /\ Head(events) = events[1]
      /\ m \in Nat /\ DOMAIN stdout = 1 .. m
  BY <1>1
<1>3. \/ stdout' = stdout
      \/ /\ DOMAIN stdout' = 1 .. m + 1 /\ stdout'[m + 1] = events[1]
         /\ \A i \in 1 .. m : stdout'[i] = stdout[i]
  BY <1>1, <1>2
<1>. HIDE DEF m, n
<1>4. ErrorsAccepted(events)' /\ AnnouncedFirst(events)'
  <2>1. \A i \in 1 .. n - 1 : i \in 1 .. n /\ i + 1 \in 1 .. n
    BY <1>2
  <2>2. ASSUME NEW i \in 1 .. n - 1, events'[i].name = "error"
        PROVE  call'[events'[i].batch] = "accepted"
    BY <1>1, <1>2, <2>1, <2>2 DEF EventsInv, ErrorsAccepted
  <2>3. ASSUME NEW i \in 1 .. n - 1, NEW j \in 1 .. n - 1, i < j
        PROVE  Apart(events'[i], events'[j])
    <3>1. i + 1 \in 1 .. n /\ j + 1 \in 1 .. n /\ i + 1 < j + 1
      BY <1>2, <2>3
    <3>2. Apart(events[i + 1], events[j + 1])
      BY <1>2, <3>1 DEF EventsInv, AnnouncedFirst
    <3>. QED
      BY <1>2, <3>2
  <2>. QED
    BY <1>2, <2>2, <2>3 DEF ErrorsAccepted, AnnouncedFirst, Apart
<1>5. CASE stdout' = stdout
  BY <1>1, <1>2, <1>4, <1>5 DEF EventsInv, ErrorsAccepted, AnnouncedFirst, Apart
<1>6. CASE stdout' # stdout
  <2>1. /\ DOMAIN stdout' = 1 .. m + 1 /\ stdout'[m + 1] = events[1]
        /\ \A i \in 1 .. m : stdout'[i] = stdout[i]
    BY <1>3, <1>6
  <2>2. ErrorsAccepted(stdout)'
    BY <1>1, <1>2, <2>1 DEF EventsInv, ErrorsAccepted
  <2>3. AnnouncedFirst(stdout)'
    <3>1. ASSUME NEW i \in 1 .. m + 1, NEW j \in 1 .. m + 1, i < j
          PROVE  Apart(stdout'[i], stdout'[j])
      <4>1. i \in 1 .. m /\ (j = m + 1 \/ j \in 1 .. m)
        BY <1>2, <3>1
      <4>2. 1 \in 1 .. n
        BY <1>2
      <4>3. CASE j = m + 1
        <5>1. Apart(stdout[i], events[1])
          BY <1>2, <4>1, <4>2 DEF EventsInv
        <5>. QED
          BY <2>1, <4>1, <4>3, <5>1
      <4>4. CASE j \in 1 .. m
        <5>1. Apart(stdout[i], stdout[j])
          BY <1>2, <3>1, <4>1, <4>4 DEF EventsInv, AnnouncedFirst
        <5>. QED
          BY <2>1, <4>1, <4>4, <5>1
      <4>. QED
        BY <4>1, <4>3, <4>4
    <3>. QED
      BY <2>1, <3>1 DEF AnnouncedFirst, Apart
  <2>4. \A i \in 1 .. m + 1, j \in 1 .. n - 1 : Apart(stdout'[i], events'[j])
    <3>1. ASSUME NEW i \in 1 .. m + 1, NEW j \in 1 .. n - 1 PROVE Apart(stdout'[i], events'[j])
      <4>1. /\ i = m + 1 \/ i \in 1 .. m
            /\ j + 1 \in 1 .. n /\ 1 \in 1 .. n /\ 1 < j + 1
        BY <1>2
      <4>2. CASE i = m + 1
        <5>1. Apart(events[1], events[j + 1])
          BY <1>2, <4>1 DEF EventsInv, AnnouncedFirst
        <5>. QED
          BY <1>2, <2>1, <4>2, <5>1
      <4>3. CASE i \in 1 .. m
        <5>1. Apart(stdout[i], events[j + 1])
          BY <1>2, <4>1, <4>3 DEF EventsInv
        <5>. QED
          BY <1>2, <2>1, <4>3, <5>1
      <4>. QED
        BY <4>1, <4>2, <4>3
    <3>. QED
      BY <3>1
  <2>. QED
    BY <1>2, <1>4, <2>1, <2>2, <2>3, <2>4 DEF EventsInv, Apart
<1>. QED
  BY <1>5, <1>6

(* Every step keeps announcements before errors.                           *)
LEMMA NextEvents ==
    TypeOK /\ InOrder /\ TakenAtMostOnce /\ EventsInv /\ [Next]_vars => EventsInv'
<1>. SUFFICES ASSUME TypeOK, InOrder, TakenAtMostOnce, EventsInv, [Next]_vars
              PROVE  EventsInv'
  OBVIOUS
<1>1. /\ stdout \in Seq(Event) /\ events \in Seq(Event)
      /\ \A b \in Batches : call[b] = "accepted" => call'[b] = "accepted"
  BY AcceptedStays DEF TypeOK, StdoutOK
<1>2. CASE UNCHANGED <<events, stdout>>
  <2>1. \A e \in Event : e.name = "error" => e.batch \in Batches
    BY DEF Event
  <2>2. /\ \A i \in DOMAIN events : events[i] \in Event
        /\ \A i \in DOMAIN stdout : stdout[i] \in Event
    BY <1>1, ElementOfSeq
  <2>. QED
    BY <1>1, <1>2, <2>1, <2>2 DEF EventsInv, ErrorsAccepted, AnnouncedFirst, Apart
<1>3. CASE WriteEvent
  BY <1>3, WriteKeepsEvents
<1>4. ASSUME NEW b \in Batches, call[b] = "announce", stdout' = stdout,
             events' = Append(events, [name |-> "forwarded", batch |-> b])
      PROVE  EventsInv'
  <2>1. PICK e \in Event : e = [name |-> "forwarded", batch |-> b]
    BY DEF Event
  <2>. QED
    BY <1>1, <1>4, <2>1, EmitKeepsEvents
<1>5. ASSUME NEW b \in Batches, call[b] = "accepted", stdout' = stdout,
             events' = Append(events, [name |-> "error", batch |-> b])
      PROVE  EventsInv'
  <2>1. PICK e \in Event : e = [name |-> "error", batch |-> b]
    BY DEF Event
  <2>. QED
    BY <1>1, <1>5, <2>1, EmitKeepsEvents
<1>. QED
  BY <1>2, <1>3, <1>4, <1>5, EventSteps

(* On stdout no batch's error precedes its announcement, whatever the      *)
(* event channel drops and whenever the writer stops.                      *)
THEOREM AnnouncedBeforeError == Spec => []ErrorAfterAnnouncement
<1>1. Init => EventsInv
  BY DEF Init, EventsInv, ErrorsAccepted, AnnouncedFirst
<1>2. EventsInv => ErrorAfterAnnouncement
  BY DEF EventsInv, AnnouncedFirst, Apart, ErrorAfterAnnouncement
<1>. QED
  BY <1>1, <1>2, TypeCorrect, OrderKept, AtMostOnce, NextEvents, PTL DEF Spec

(***************************************************************************)
(* The success rate.  Each batch exported so far contributes its records   *)
(* as often as they are counted and not taken back; a step moves the       *)
(* contribution of one batch and the counters together, or neither.        *)
(***************************************************************************)
Reporting(s) == worker[s] \in {"recordFailed", "emitError"}

(* What a channel takes, it takes from its own signal's handlers.          *)
OwnSignal == \A s \in Signals : \A i \in DOMAIN accepted[s] : SignalOf[accepted[s][i]] = s

IsDone(b) == \E i \in DOMAIN done[SignalOf[b]] : done[SignalOf[b]][i] = b

(* A batch's Send has at most one outcome.  The worker is through with the *)
(* batch then, or still reports its failure.                               *)
OutcomesInv ==
    /\ \A b \in delivered : IsDone(b)
    /\ \A b \in refused : IsDone(b) \/ \E s \in Signals : Reporting(s) /\ inflight[s][1] = b
    /\ \A b \in delivered \union refused : call[b] = "accepted"
    /\ \A s \in Signals : Reporting(s) => inflight[s][1] \in refused
    /\ delivered \intersect refused = {}

(* An export is counted as an attempt when it begins.                      *)
Attempted == \A b \in Batches : call[b] = "idle" <=> attempts[b] = 0

Times(b) == TurnedAway(b) + IF Credited(b) THEN 1 ELSE 0

Balanced(s) ==
    /\ IsFiniteSet(Exported(s))
    /\ forwarded[s] - failed[s] = WeightSum(Credit, Exported(s))

RecordsInv ==
    /\ OwnSignal /\ OutcomesInv /\ Attempted
    /\ \A s \in Signals : Balanced(s)

(* What a worker is through with lies before what it holds.                *)
LEMMA DoneEarlier ==
    ASSUME NEW d \in Seq(Batches), NEW h \in Seq(Batches), NEW q \in Seq(Batches),
           NEW i \in DOMAIN d
    PROVE  i \in DOMAIN (d \o h \o q) /\ (d \o h \o q)[i] = d[i] /\ i # Len(d) + 1
<1>1. PICK x \in Nat, y \in Nat, z \in Nat : x = Len(d) /\ y = Len(h) /\ z = Len(q)
  BY LenProperties
<1>2. PICK dh \in Seq(Batches) : dh = d \o h /\ Len(dh) = x + y
  BY <1>1, ConcatProperties
<1>3. i \in 1 .. x
  BY <1>1
<1>4. dh[i] = d[i] /\ i \in 1 .. Len(dh)
  BY <1>1, <1>2, <1>3
<1>5. Len(dh \o q) = x + y + z /\ (dh \o q)[i] = dh[i] /\ dh \o q \in Seq(Batches)
  BY <1>1, <1>2, <1>4
<1>6. i \in 1 .. x + y + z /\ i # x + 1
  BY <1>3
<1>. QED
  BY <1>1, <1>2, <1>4, <1>5, <1>6

(* The batch a worker holds is accepted, of its signal, and not done.      *)
LEMMA HeldNotDone ==
    ASSUME TypeOK, InOrder, TakenAtMostOnce, OwnSignal, NEW s \in Signals,
           worker[s] \in Holding, NEW b, b = inflight[s][1]
    PROVE  b \in Batches /\ call[b] = "accepted" /\ SignalOf[b] = s /\ ~IsDone(b)
<1>. DEFINE p == Len(done[s]) + 1
<1>1. /\ b \in Batches /\ call[b] = "accepted"
      /\ p \in DOMAIN accepted[s] /\ accepted[s][p] = b /\ SignalOf[b] = s
  BY HeldAccepted DEF OwnSignal
<1>2. ASSUME NEW i \in DOMAIN done[s], done[s][i] = b PROVE FALSE
  <2>1. /\ done[s] \in Seq(Batches) /\ inflight[s] \in Seq(Batches)
        /\ queue[s] \in Seq(Batches) /\ accepted[s] \in Seq(Batches)
        /\ accepted[s] = done[s] \o inflight[s] \o queue[s]
    BY DEF TypeOK, HistoriesOK, WorkersOK, QueuesOK, InOrder
  <2>2. /\ i \in DOMAIN (done[s] \o inflight[s] \o queue[s])
        /\ (done[s] \o inflight[s] \o queue[s])[i] = done[s][i]
        /\ i # p
    <3>1. PICK d \in Seq(Batches), h \in Seq(Batches), q \in Seq(Batches) :
              d = done[s] /\ h = inflight[s] /\ q = queue[s]
      BY <2>1
    <3>2. i \in DOMAIN d
      BY <3>1
    <3>3. i \in DOMAIN (d \o h \o q) /\ (d \o h \o q)[i] = d[i] /\ i # Len(d) + 1
      BY <3>2, DoneEarlier
    <3>. QED
      BY <3>1, <3>3, Zenon
  <2>3. i \in DOMAIN accepted[s] /\ accepted[s][i] = b /\ i # p
    BY <1>2, <2>1, <2>2, Zenon
  <2>. HIDE DEF p
  <2>. QED
    BY <1>1, <2>3 DEF TakenAtMostOnce
<1>. QED
  BY <1>1, <1>2 DEF IsDone

(* Two workers do not hold the same batch. *)
LEMMA HeldByOne ==
    ASSUME TypeOK, InOrder, TakenAtMostOnce, OwnSignal, NEW s \in Signals, NEW t \in Signals,
           worker[s] \in Holding, worker[t] \in Holding, inflight[s][1] = inflight[t][1]
    PROVE  s = t
BY HeldNotDone

(* The batch a worker sends has no outcome yet.                            *)
LEMMA SentOnce ==
    ASSUME TypeOK, InOrder, TakenAtMostOnce, OwnSignal, OutcomesInv,
           NEW s \in Signals, worker[s] = "send"
    PROVE  inflight[s][1] \notin delivered /\ inflight[s][1] \notin refused
<1>. PICK h : h = inflight[s][1]
  OBVIOUS
<1>1. worker[s] \in Holding /\ ~IsDone(h)
  BY HeldNotDone DEF Holding
<1>2. ASSUME NEW t \in Signals, Reporting(t), inflight[t][1] = h PROVE FALSE
  <2>1. worker[t] \in Holding /\ worker[t] # "send"
    BY <1>2 DEF Reporting, Holding
  <2>. QED
    BY <1>1, <1>2, <2>1, HeldByOne
<1>. QED
  BY <1>1, <1>2 DEF OutcomesInv

(* One more element: it is the last one, and the others stay in place.     *)
LEMMA OneFurther ==
    ASSUME NEW d \in Seq(Batches), NEW g \in Seq(Batches), Len(g) = 1
    PROVE  /\ Len(d) + 1 \in DOMAIN (d \o g) /\ (d \o g)[Len(d) + 1] = g[1]
           /\ \A i \in DOMAIN d : i \in DOMAIN (d \o g) /\ (d \o g)[i] = d[i]
<1>1. PICK n \in Nat : n = Len(d)
  BY LenProperties
<1>2. /\ Len(d \o g) = n + 1 /\ d \o g \in Seq(Batches)
      /\ \A i \in 1 .. n + 1 : (d \o g)[i] = IF i <= n THEN d[i] ELSE g[i - n]
  <2>1. /\ d \o g \in Seq(Batches) /\ Len(d \o g) = Len(d) + Len(g)
        /\ \A i \in 1 .. Len(d) + Len(g) :
              (d \o g)[i] = IF i <= Len(d) THEN d[i] ELSE g[i - Len(d)]
    BY ConcatProperties
  <2>. QED
    BY <1>1, <2>1, Zenon
<1>3. DOMAIN (d \o g) = 1 .. n + 1 /\ DOMAIN d = 1 .. n
  BY <1>1, <1>2
<1>4. n + 1 \in 1 .. n + 1 /\ \A i \in 1 .. n : i \in 1 .. n + 1 /\ i <= n
  OBVIOUS
<1>5. (d \o g)[n + 1] = g[1]
  BY <1>2, <1>4
<1>. QED
  BY <1>1, <1>2, <1>3, <1>4, <1>5

(* Accepting keeps every batch with its signal.                            *)
LEMMA NextOwnSignal == TypeOK /\ OwnSignal /\ [Next]_vars => OwnSignal'
<1>. SUFFICES ASSUME TypeOK, OwnSignal, [Next]_vars PROVE OwnSignal'
  OBVIOUS
<1>. USE ConstantsAssumption
<1>1. accepted \in [Signals -> Seq(Batches)]
  BY DEF TypeOK, HistoriesOK
<1>2. ASSUME NEW b \in Batches, accepted' = [accepted EXCEPT ![SignalOf[b]] = Append(@, b)]
      PROVE  OwnSignal'
  <2>1. ASSUME NEW t \in Signals, NEW i \in DOMAIN accepted'[t]
        PROVE  SignalOf[accepted'[t][i]] = t
    <3>1. CASE t # SignalOf[b]
      BY <1>1, <1>2, <2>1, <3>1 DEF OwnSignal
    <3>2. CASE t = SignalOf[b]
      <4>1. accepted'[t] = Append(accepted[t], b) /\ accepted[t] \in Seq(Batches)
        BY <1>1, <1>2, <3>2
      <4>2. CASE i = Len(accepted[t]) + 1
        BY <3>2, <4>1, <4>2
      <4>3. CASE i # Len(accepted[t]) + 1
        <5>1. i \in DOMAIN accepted[t] /\ accepted'[t][i] = accepted[t][i]
          BY <2>1, <4>1, <4>3
        <5>. QED
          BY <5>1 DEF OwnSignal
      <4>. QED
        BY <4>2, <4>3
    <3>. QED
      BY <3>1, <3>2
  <2>. QED
    BY <2>1 DEF OwnSignal
<1>3. ASSUME accepted' = accepted PROVE OwnSignal'
  BY <1>3 DEF OwnSignal
<1>4. ASSUME NEW b \in Batches, Export(b) \/ Handler(b)
      PROVE  \/ accepted' = [accepted EXCEPT ![SignalOf[b]] = Append(@, b)]
             \/ accepted' = accepted
  BY <1>4 DEF Export, Handler, RecordForwarded, EmitForwarded, RenderTail, Enqueue, Advance,
              Accept, Reject
<1>5. ASSUME NEW s \in Signals, Worker(s) PROVE accepted' = accepted
  BY <1>5 DEF Worker, Take, SendOk, SendFails, Panic, RecordFailed, EmitError,
              SurfaceAuthError, WorkerExits, hotVars
<1>6. ASSUME Writers \/ Tick \/ Cancel \/ UNCHANGED vars PROVE accepted' = accepted
  BY <1>6 DEF Writers, WriteEvent, PrintTail, StdoutExits, ShowLifecycle, StderrExits,
              Tick, Cancel, vars, hotVars
<1>. QED
  BY <1>2, <1>3, <1>4, <1>5, <1>6 DEF Next

(* A step that moves neither outcomes nor reports keeps them.              *)
LEMMA OutcomesUnmoved ==
    ASSUME TypeOK, OutcomesInv, [Next]_vars, UNCHANGED <<done, delivered, refused>>,
           \A t \in Signals : (Reporting(t)' <=> Reporting(t)) /\
                              (Reporting(t) => inflight'[t] = inflight[t])
    PROVE  OutcomesInv'
<1>1. \A b \in delivered \union refused : call'[b] = "accepted"
  BY AcceptedStays DEF OutcomesInv, TypeOK, HistoriesOK
<1>. QED
  BY <1>1 DEF OutcomesInv, IsDone

(* A worker that is through with its batch keeps the outcomes.             *)
LEMMA OutcomesFinish ==
    ASSUME TypeOK, InOrder, TakenAtMostOnce, OwnSignal, OutcomesInv, [Next]_vars,
           NEW s \in Signals, worker[s] \in Holding, Finish(s), refused' = refused,
           \/ delivered' = delivered
           \/ delivered' = delivered \union {inflight[s][1]} /\ worker[s] = "send",
           NEW w \in {"idle", "warn"}, worker' = [worker EXCEPT ![s] = w]
    PROVE  OutcomesInv'
<1>. USE ConstantsAssumption
<1>1. /\ done \in [Signals -> Seq(Batches)] /\ inflight \in [Signals -> Seq(Batches)]
      /\ delivered \in SUBSET Batches /\ refused \in SUBSET Batches
      /\ worker \in [Signals -> WorkerStates]
  BY DEF TypeOK, HistoriesOK, WorkersOK
<1>2. PICK h : h = inflight[s][1]
  OBVIOUS
<1>3. h \in Batches /\ SignalOf[h] = s /\ call[h] = "accepted"
  BY <1>2, HeldNotDone
<1>4. /\ Len(done[s]) + 1 \in DOMAIN done'[s] /\ done'[s][Len(done[s]) + 1] = h
      /\ \A i \in DOMAIN done[s] : i \in DOMAIN done'[s] /\ done'[s][i] = done[s][i]
  <2>1. /\ done'[s] = done[s] \o inflight[s] /\ Len(inflight[s]) = 1
    BY <1>1, HoldsAtMostOne DEF TypeOK, Finish
  <2>2. PICK d \in Seq(Batches), g \in Seq(Batches) :
            d = done[s] /\ g = inflight[s] /\ Len(g) = 1 /\ done'[s] = d \o g /\ g[1] = h
    BY <1>1, <1>2, <2>1
  <2>3. /\ Len(d) + 1 \in DOMAIN (d \o g) /\ (d \o g)[Len(d) + 1] = g[1]
        /\ \A i \in DOMAIN d : i \in DOMAIN (d \o g) /\ (d \o g)[i] = d[i]
    BY <2>2, OneFurther
  <2>. QED
    BY <2>2, <2>3, Zenon
<1>5. \A t \in Signals \ {s} : /\ done'[t] = done[t] /\ inflight'[t] = inflight[t]
                               /\ Reporting(t)' <=> Reporting(t)
  BY <1>1 DEF Finish, Reporting
<1>6. ~Reporting(s)'
  BY <1>1 DEF Reporting
<1>7. IsDone(h)' /\ \A b \in Batches : IsDone(b) => IsDone(b)'
  BY <1>3, <1>4, <1>5 DEF IsDone
<1>8. \A b \in Batches : call[b] = "accepted" => call'[b] = "accepted"
  BY AcceptedStays
<1>9. \A b \in delivered' : IsDone(b)' /\ call'[b] = "accepted"
  BY <1>1, <1>2, <1>3, <1>7, <1>8 DEF OutcomesInv
<1>10. ASSUME NEW b \in refused
       PROVE  /\ call'[b] = "accepted"
              /\ IsDone(b)' \/ \E t \in Signals : Reporting(t)' /\ inflight'[t][1] = b
  <2>1. call'[b] = "accepted"
    BY <1>1, <1>8 DEF OutcomesInv
  <2>2. CASE IsDone(b)
    BY <1>1, <1>7, <2>1, <2>2
  <2>3. ASSUME NEW t \in Signals, Reporting(t), inflight[t][1] = b
        PROVE  IsDone(b)' \/ \E u \in Signals : Reporting(u)' /\ inflight'[u][1] = b
    <3>1. CASE t = s
      BY <1>2, <1>7, <2>3, <3>1
    <3>2. CASE t # s
      BY <1>5, <2>3, <3>2
    <3>. QED
      BY <3>1, <3>2
  <2>. QED
    BY <2>1, <2>2, <2>3 DEF OutcomesInv
<1>11. \A t \in Signals : Reporting(t)' => inflight'[t][1] \in refused
  BY <1>5, <1>6 DEF OutcomesInv
<1>12. delivered' \intersect refused = {}
  BY SentOnce DEF OutcomesInv
<1>. QED
  BY <1>9, <1>10, <1>11, <1>12 DEF OutcomesInv

(* A Send that fails gives its batch its only outcome.                     *)
LEMMA OutcomesFail ==
    ASSUME TypeOK, InOrder, TakenAtMostOnce, OwnSignal, OutcomesInv,
           NEW s \in Signals, SendFails(s)
    PROVE  OutcomesInv'
<1>1. /\ worker \in [Signals -> WorkerStates] /\ worker[s] \in Holding
      /\ delivered \in SUBSET Batches /\ refused \in SUBSET Batches
  BY DEF TypeOK, HistoriesOK, WorkersOK, SendFails, Holding
<1>2. /\ worker[s] = "send" /\ worker' = [worker EXCEPT ![s] = "recordFailed"]
      /\ refused' = refused \union {inflight[s][1]}
      /\ UNCHANGED <<inflight, done, delivered, call>>
  BY DEF SendFails, hotVars
<1>3. inflight[s][1] \notin delivered /\ call[inflight[s][1]] = "accepted"
  BY <1>1, <1>2, SentOnce, HeldNotDone
<1>4. /\ Reporting(s)' /\ ~Reporting(s)
      /\ \A t \in Signals \ {s} : Reporting(t)' <=> Reporting(t)
  BY <1>1, <1>2 DEF Reporting
<1>5. \A b \in Batches : IsDone(b)' <=> IsDone(b)
  BY <1>2 DEF IsDone
<1>6. \A b \in delivered' : IsDone(b)' /\ call'[b] = "accepted"
  BY <1>1, <1>2, <1>5 DEF OutcomesInv
<1>7. ASSUME NEW b \in refused'
      PROVE  /\ call'[b] = "accepted"
             /\ IsDone(b)' \/ \E t \in Signals : Reporting(t)' /\ inflight'[t][1] = b
  <2>1. CASE b = inflight[s][1]
    BY <1>2, <1>3, <1>4, <2>1
  <2>2. CASE b \in refused
    <3>1. call'[b] = "accepted"
      BY <1>2, <2>2 DEF OutcomesInv
    <3>2. CASE IsDone(b)
      BY <1>1, <1>5, <2>2, <3>1, <3>2
    <3>3. ASSUME NEW t \in Signals, Reporting(t), inflight[t][1] = b
          PROVE  Reporting(t)' /\ inflight'[t][1] = b
      BY <1>2, <1>4, <3>3
    <3>. QED
      BY <2>2, <3>1, <3>2, <3>3 DEF OutcomesInv
  <2>. QED
    BY <1>2, <1>7, <2>1, <2>2
<1>8. \A t \in Signals : Reporting(t)' => inflight'[t][1] \in refused'
  BY <1>2, <1>4 DEF OutcomesInv
<1>9. delivered' \intersect refused' = {}
  BY <1>2, <1>3 DEF OutcomesInv
<1>. QED
  BY <1>6, <1>7, <1>8, <1>9 DEF OutcomesInv

(* Every step keeps the outcomes.                                          *)
LEMMA NextOutcomes ==
    TypeOK /\ InOrder /\ TakenAtMostOnce /\ OwnSignal /\ OutcomesInv /\ [Next]_vars
        => OutcomesInv'
<1>. SUFFICES ASSUME TypeOK, InOrder, TakenAtMostOnce, OwnSignal, OutcomesInv, [Next]_vars
              PROVE  OutcomesInv'
  OBVIOUS
<1>1. worker \in [Signals -> WorkerStates] /\ inflight \in [Signals -> Seq(Batches)]
  BY DEF TypeOK, WorkersOK
<1>2. ASSUME UNCHANGED workerVars PROVE OutcomesInv'
  BY <1>2, OutcomesUnmoved DEF workerVars, Reporting
<1>3. ASSUME NEW b \in Batches, Export(b) \/ Handler(b) PROVE UNCHANGED workerVars
  BY <1>3 DEF Export, Handler, RecordForwarded, EmitForwarded, RenderTail, Enqueue
<1>4. ASSUME Writers \/ Tick \/ Cancel \/ UNCHANGED vars PROVE UNCHANGED workerVars
  BY <1>4 DEF Writers, WriteEvent, PrintTail, StdoutExits, ShowLifecycle, StderrExits,
              Tick, Cancel, vars
<1>5. ASSUME NEW s \in Signals, Take(s) \/ RecordFailed(s) \/ SurfaceAuthError(s) \/ WorkerExits(s)
      PROVE  OutcomesInv'
  <2>1. /\ UNCHANGED <<done, delivered, refused>>
        /\ \A t \in Signals \ {s} : worker'[t] = worker[t] /\ inflight'[t] = inflight[t]
        /\ \/ worker[s] = "recordFailed" /\ worker'[s] = "emitError" /\ inflight'[s] = inflight[s]
           \/ ~Reporting(s) /\ ~Reporting(s)'
    BY <1>1, <1>5 DEF Take, RecordFailed, SurfaceAuthError, WorkerExits, Reporting
  <2>. QED
    BY <2>1, OutcomesUnmoved DEF Reporting
<1>6. ASSUME NEW s \in Signals, SendOk(s) PROVE OutcomesInv'
  <2>1. /\ worker[s] \in Holding /\ Finish(s) /\ refused' = refused /\ worker[s] = "send"
        /\ delivered' = delivered \union {inflight[s][1]}
        /\ worker' = [worker EXCEPT ![s] = "idle"]
    BY <1>6 DEF SendOk, Holding
  <2>. QED
    BY <2>1, OutcomesFinish
<1>7. ASSUME NEW s \in Signals, Panic(s) PROVE OutcomesInv'
  <2>1. /\ worker[s] \in Holding /\ Finish(s) /\ refused' = refused /\ delivered' = delivered
        /\ worker' = [worker EXCEPT ![s] = "idle"]
    BY <1>7 DEF Panic, Holding
  <2>. QED
    BY <2>1, OutcomesFinish
<1>8. ASSUME NEW s \in Signals, EmitError(s) PROVE OutcomesInv'
  <2>1. PICK w \in {"idle", "warn"} : worker' = [worker EXCEPT ![s] = w]
    BY <1>8 DEF EmitError
  <2>2. worker[s] \in Holding /\ Finish(s) /\ refused' = refused /\ delivered' = delivered
    BY <1>8 DEF EmitError, Holding
  <2>. QED
    BY <2>1, <2>2, OutcomesFinish
<1>9. ASSUME NEW s \in Signals, SendFails(s) PROVE OutcomesInv'
  BY <1>9, OutcomesFail
<1>. QED
  BY <1>2, <1>3, <1>4, <1>5, <1>6, <1>7, <1>8, <1>9 DEF Next, Worker

(* An export is counted as an attempt from its first stage on.             *)
LEMMA NextAttempted == TypeOK /\ Attempted /\ [Next]_vars => Attempted'
<1>. SUFFICES ASSUME TypeOK, Attempted, [Next]_vars PROVE Attempted'
  OBVIOUS
<1>1. /\ call \in [Batches -> Stages \union Answers \union {"idle"}]
      /\ attempts \in [Batches -> Nat]
  BY ConstantsAssumption DEF TypeOK, CallsOK
<1>2. ASSUME NEW b \in Batches, Export(b) PROVE Attempted'
  <2>1. /\ call' = [call EXCEPT ![b] = ConsumeEntry(b)] /\ ConsumeEntry(b) # "idle"
        /\ attempts' = [attempts EXCEPT ![b] = @ + 1]
    BY <1>2 DEF Export, ConsumeEntry
  <2>. QED
    BY <1>1, <2>1 DEF Attempted
<1>3. ASSUME NEW b \in Batches, Handler(b) PROVE Attempted'
  <2>1. PICK v : /\ v # "idle" /\ call[b] # "idle" /\ call' = [call EXCEPT ![b] = v]
                 /\ attempts' = attempts
    BY <1>3 DEF Handler, RecordForwarded, EmitForwarded, RenderTail, Enqueue, Advance,
                AfterStage, Accept, Reject
  <2>. QED
    BY <1>1, <2>1 DEF Attempted
<1>4. ASSUME UNCHANGED hotVars PROVE Attempted'
  BY <1>4 DEF Attempted, hotVars
<1>5. ASSUME NEW s \in Signals, Worker(s) PROVE UNCHANGED hotVars
  BY <1>5 DEF Worker, Take, SendOk, SendFails, Panic, RecordFailed, EmitError,
              SurfaceAuthError, WorkerExits
<1>6. ASSUME Writers \/ Tick \/ Cancel \/ UNCHANGED vars PROVE UNCHANGED hotVars
  BY <1>6 DEF Writers, WriteEvent, PrintTail, StdoutExits, ShowLifecycle, StderrExits,
              Tick, Cancel, vars
<1>. QED
  BY <1>2, <1>3, <1>4, <1>5, <1>6 DEF Next

(***************************************************************************)
(* Who contributes how much.                                               *)
(***************************************************************************)

(* A batch contributes a number of times its records.                      *)
LEMMA CreditType ==
    ASSUME TypeOK, Attempted, NEW b \in Batches
    PROVE  /\ TurnedAway(b) \in Nat /\ Times(b) \in Nat
           /\ Credit[b] = CountOf[b] * Times(b) /\ Credit[b] \in Nat
<1>1. attempts[b] \in Nat /\ CountOf[b] \in Nat
  BY ConstantsAssumption DEF TypeOK, CallsOK
<1>2. TurnedAway(b) \in Nat
  <2>1. CASE call[b] \in Stages \union {"accepted"}
    <3>1. attempts[b] # 0
      BY <2>1 DEF Attempted, Stages
    <3>. QED
      BY <1>1, <2>1, <3>1 DEF TurnedAway
  <2>2. CASE call[b] \notin Stages \union {"accepted"}
    BY <1>1, <2>2 DEF TurnedAway
  <2>. QED
    BY <2>1, <2>2
<1>3. Times(b) \in Nat
  BY <1>2 DEF Times
<1>4. Credit[b] = CountOf[b] * Times(b)
  BY DEF Credit, Times
<1>. QED
  BY <1>1, <1>2, <1>3, <1>4

(* A batch no failure of which was counted may still have one to count.    *)
LEMMA NotCounted ==
    ASSUME OutcomesInv, NEW b \in Batches, call[b] # "accepted"
    PROVE  ~FailureCounted(b)
BY DEF OutcomesInv, FailureCounted

(* A step of another batch, or of no batch, leaves a contribution alone.   *)
LEMMA TimesUnmoved ==
    ASSUME NEW b \in Batches, UNCHANGED <<call[b], attempts[b], refused>>,
           \A s \in Signals : (worker'[s] = "recordFailed" /\ inflight'[s][1] = b)
                                 <=> (worker[s] = "recordFailed" /\ inflight[s][1] = b)
    PROVE  Times(b)' = Times(b)
<1>1. FailureCounted(b)' <=> FailureCounted(b)
  BY DEF FailureCounted
<1>2. Credited(b)' <=> Credited(b)
  BY <1>1 DEF Credited
<1>3. TurnedAway(b)' = TurnedAway(b)
  BY DEF TurnedAway
<1>. QED
  BY <1>2, <1>3 DEF Times

(* A handler's step moves its own batch's contribution at most, and only   *)
(* RecordForwarded does.                                                   *)
LEMMA HandlerMoves ==
    ASSUME TypeOK, OutcomesInv, Attempted, NEW b \in Batches, Export(b) \/ Handler(b)
    PROVE  /\ \A c \in Batches \ {b} : Times(c)' = Times(c)
           /\ RecordForwarded(b) => Times(b)' = Times(b) + 1
           /\ EmitForwarded(b) \/ RenderTail(b) \/ Enqueue(b) => Times(b)' = Times(b)
           /\ Export(b) => (Times(b)' = Times(b) /\ attempts[b] # 0)
                              \/ CountOf[b] = 0
                              \/ (Times(b)' = 0 /\ attempts[b] = 0)
<1>. USE ConstantsAssumption
<1>1. /\ call \in [Batches -> Stages \union Answers \union {"idle"}]
      /\ attempts \in [Batches -> Nat]
  BY DEF TypeOK, CallsOK
<1>2. UNCHANGED <<worker, inflight, refused>>
  BY DEF Export, Handler, RecordForwarded, EmitForwarded, RenderTail, Enqueue, workerVars
<1>3. FailureCounted(b)' <=> FailureCounted(b)
  BY <1>2 DEF FailureCounted
<1>4. call[b] # "accepted" /\ ~FailureCounted(b)
  <2>1. call[b] # "accepted"
    BY DEF Export, Handler, RecordForwarded, EmitForwarded, RenderTail, Enqueue, Advance
  <2>. QED
    BY <2>1, NotCounted
<1>5. \A c \in Batches \ {b} : call'[c] = call[c] /\ attempts'[c] = attempts[c]
  <2>1. CASE Export(b)
    BY <1>1, <2>1 DEF Export
  <2>2. CASE Handler(b)
    <3>1. /\ attempts' = attempts
          /\ \E v : call' = [call EXCEPT ![b] = v]
      BY <2>2 DEF Handler, RecordForwarded, EmitForwarded, RenderTail, Enqueue, Advance,
                  Accept, Reject
    <3>. QED
      BY <1>1, <3>1
  <2>. QED
    BY <2>1, <2>2
<1>6. \A c \in Batches \ {b} : Times(c)' = Times(c)
  BY <1>2, <1>5, TimesUnmoved
<1>7. ASSUME RecordForwarded(b) PROVE Times(b)' = Times(b) + 1
  <2>1. /\ call[b] = "count" /\ call'[b] = "announce" /\ attempts'[b] = attempts[b]
    BY <1>1, <1>7 DEF RecordForwarded, Advance, AfterStage
  <2>2. TurnedAway(b)' = TurnedAway(b) /\ TurnedAway(b) \in Nat
    BY <2>1, CreditType DEF TurnedAway, Stages
  <2>3. ~Credited(b) /\ Credited(b)'
    BY <1>3, <1>4, <2>1 DEF Credited
  <2>. QED
    BY <2>2, <2>3 DEF Times
<1>8. ASSUME EmitForwarded(b) \/ RenderTail(b) \/ Enqueue(b) PROVE Times(b)' = Times(b)
  <2>1. /\ call[b] \in {"announce", "render", "enqueue"} /\ attempts'[b] = attempts[b]
        /\ call'[b] \in {"render", "enqueue", "accepted", "rejected"}
    BY <1>1, <1>8 DEF EmitForwarded, RenderTail, Enqueue, Advance, AfterStage, Accept, Reject
  <2>2. Credited(b) /\ TurnedAway(b) = attempts[b] - 1
    BY <1>4, <2>1 DEF Credited, TurnedAway, Stages
  <2>3. CASE call'[b] = "rejected"
    <3>1. ~Credited(b)' /\ TurnedAway(b)' = attempts[b]
      BY <1>1, <2>1, <2>3 DEF Credited, TurnedAway, Stages
    <3>. QED
      BY <1>1, <2>2, <3>1 DEF Times
  <2>4. CASE call'[b] # "rejected"
    <3>1. Credited(b)' /\ TurnedAway(b)' = attempts[b] - 1
      BY <1>3, <1>4, <2>1, <2>4 DEF Credited, TurnedAway, Stages
    <3>. QED
      BY <2>2, <3>1 DEF Times
  <2>. QED
    BY <2>3, <2>4
<1>9. ASSUME Export(b), CountOf[b] # 0
      PROVE  \/ Times(b)' = Times(b) /\ attempts[b] # 0
             \/ Times(b)' = 0 /\ attempts[b] = 0
  <2>1. /\ call[b] \in {"idle", "rejected"} /\ call'[b] = "count"
        /\ attempts'[b] = attempts[b] + 1
    <3>1. CountOf[b] > 0
      BY <1>9
    <3>. QED
      BY <1>1, <1>9, <3>1 DEF Export, ConsumeEntry
  <2>2. ~Credited(b) /\ TurnedAway(b) = attempts[b]
    BY <1>1, <2>1 DEF Credited, TurnedAway, Stages
  <2>3. ~Credited(b)' /\ TurnedAway(b)' = attempts[b]
    BY <1>1, <2>1 DEF Credited, TurnedAway, Stages
  <2>. QED
    BY <1>1, <2>2, <2>3 DEF Times
<1>. QED
  BY <1>6, <1>7, <1>8, <1>9

(* A worker's step moves no contribution, unless it counts a failure: that *)
(* takes its batch's records off once.                                     *)
LEMMA WorkerMoves ==
    ASSUME TypeOK, InOrder, TakenAtMostOnce, OwnSignal, OutcomesInv, Attempted,
           NEW s \in Signals, Worker(s), NEW b \in Batches
    PROVE  IF RecordFailed(s) /\ b = inflight[s][1]
           THEN Times(b) = Times(b)' + 1 /\ Times(b)' \in Nat /\ attempts[b] # 0
           ELSE Times(b)' = Times(b)
<1>1. /\ worker \in [Signals -> WorkerStates] /\ inflight \in [Signals -> Seq(Batches)]
  BY DEF TypeOK, WorkersOK
<1>2. UNCHANGED hotVars
  BY DEF Worker, Take, SendOk, SendFails, Panic, RecordFailed, EmitError,
         SurfaceAuthError, WorkerExits
<1>3. CASE SendFails(s)
  <2>1. /\ worker[s] = "send" /\ worker' = [worker EXCEPT ![s] = "recordFailed"]
        /\ refused' = refused \union {inflight[s][1]} /\ inflight' = inflight
    BY <1>3 DEF SendFails
  <2>2. inflight[s][1] \notin refused
    BY <2>1, SentOnce
  <2>3. FailureCounted(b)' <=> FailureCounted(b)
    BY <1>1, <2>1, <2>2 DEF FailureCounted
  <2>4. Credited(b)' <=> Credited(b)
    BY <1>2, <2>3 DEF Credited, hotVars
  <2>5. TurnedAway(b)' = TurnedAway(b)
    BY <1>2 DEF TurnedAway, hotVars
  <2>6. ~RecordFailed(s)
    BY <2>1 DEF RecordFailed
  <2>. QED
    BY <2>4, <2>5, <2>6 DEF Times
<1>4. CASE RecordFailed(s)
  <2>1. /\ worker[s] = "recordFailed" /\ worker' = [worker EXCEPT ![s] = "emitError"]
        /\ refused' = refused /\ inflight' = inflight
    BY <1>4 DEF RecordFailed
  <2>2. CASE b # inflight[s][1]
    BY <1>1, <1>2, <2>1, <2>2, TimesUnmoved DEF hotVars
  <2>3. CASE b = inflight[s][1]
    <3>1. call[b] = "accepted" /\ b \in refused
      BY <2>1, <2>3, HeldNotDone DEF Holding, OutcomesInv, Reporting
    <3>2. ~FailureCounted(b)
      BY <2>1, <2>3 DEF FailureCounted
    <3>3. FailureCounted(b)'
      <4>1. ASSUME NEW t \in Signals, worker'[t] = "recordFailed" PROVE inflight'[t][1] # b
        <5>1. t # s /\ worker[t] \in Holding
          BY <1>1, <2>1, <4>1 DEF Holding
        <5>. QED
          BY <2>1, <2>3, <5>1, HeldByOne DEF Holding
      <4>. QED
        BY <2>1, <3>1, <4>1 DEF FailureCounted
    <3>4. Credited(b) /\ ~Credited(b)'
      BY <3>1, <3>2, <3>3 DEF Credited
    <3>5. /\ TurnedAway(b)' = TurnedAway(b)
      BY <1>2 DEF TurnedAway, hotVars
    <3>6. TurnedAway(b) \in Nat /\ attempts[b] # 0
      BY <3>1, CreditType DEF Attempted
    <3>. QED
      BY <1>4, <2>3, <3>4, <3>5, <3>6 DEF Times
  <2>. QED
    BY <2>2, <2>3
<1>5. CASE ~SendFails(s) /\ ~RecordFailed(s)
  <2>1. /\ refused' = refused
        /\ \A t \in Signals \ {s} : worker'[t] = worker[t] /\ inflight'[t] = inflight[t]
        /\ worker'[s] # "recordFailed" /\ worker[s] # "recordFailed"
    BY <1>1, <1>5 DEF Worker, Take, SendOk, Panic, EmitError, SurfaceAuthError, WorkerExits,
                      Finish
  <2>. QED
    BY <1>2, <1>5, <2>1, TimesUnmoved DEF hotVars
<1>. QED
  BY <1>3, <1>4, <1>5

(* The sum over a signal's batches stays when no contribution moves.       *)
LEMMA SumUnmoved ==
    ASSUME TypeOK, Attempted, NEW s \in Signals, Balanced(s),
           UNCHANGED <<Exported(s), forwarded[s], failed[s]>>,
           \A b \in Exported(s) : Credit[b]' = Credit[b]
    PROVE  Balanced(s)'
<1>1. PICK w, v, S : w = Credit /\ v = Credit' /\ S = Exported(s)
  OBVIOUS
<1>2. IsFiniteSet(S) /\ \A b \in S : w[b] \in Nat /\ v[b] = w[b]
  BY <1>1, CreditType DEF Balanced, Exported
<1>3. WeightSum(v, S) = WeightSum(w, S)
  BY <1>2, SumSame
<1>. QED
  BY <1>1, <1>2, <1>3 DEF Balanced

(* When one contribution moves, the counters must move with it.            *)
LEMMA SumMoved ==
    ASSUME TypeOK, Attempted, NEW s \in Signals, Balanced(s), UNCHANGED Exported(s),
           NEW b \in Exported(s), Credit[b]' \in Nat,
           \A c \in Exported(s) \ {b} : Credit[c]' = Credit[c],
           (forwarded[s] - failed[s])' - (forwarded[s] - failed[s]) = Credit[b]' - Credit[b],
           (forwarded[s] - failed[s])' \in Int, forwarded[s] - failed[s] \in Int
    PROVE  Balanced(s)'
<1>1. PICK w, v, S : w = Credit /\ v = Credit' /\ S = Exported(s)
  OBVIOUS
<1>2. /\ IsFiniteSet(S) /\ b \in S
      /\ \A c \in S : w[c] \in Nat
      /\ v[b] \in Nat /\ \A c \in S \ {b} : v[c] = w[c]
  BY <1>1, CreditType DEF Balanced, Exported
<1>3. \A c \in S : w[c] \in Nat /\ v[c] \in Nat
  BY <1>2
<1>4. /\ WeightSum(w, S) \in Nat /\ WeightSum(v, S) \in Nat
      /\ WeightSum(v, S) + w[b] = WeightSum(w, S) + v[b]
  BY <1>2, <1>3, SumMoves
<1>5. (forwarded[s] - failed[s])' = WeightSum(v, S)
  BY <1>1, <1>2, <1>4 DEF Balanced
<1>. QED
  BY <1>1, <1>2, <1>5 DEF Balanced

(* A contribution that did not move.                                       *)
LEMMA CreditUnmoved ==
    ASSUME NEW b \in Batches, Times(b)' = Times(b)
    PROVE  Credit[b]' = Credit[b]
BY DEF Credit, Times

(* An export brings in its batch, which contributes nothing yet.           *)
LEMMA ExportKeepsBalance ==
    ASSUME TypeOK, OutcomesInv, Attempted, NEW b \in Batches, Export(b),
           NEW s \in Signals, Balanced(s)
    PROVE  Balanced(s)'
<1>1. /\ attempts \in [Batches -> Nat] /\ CountOf \in [Batches -> Nat]
      /\ attempts' = [attempts EXCEPT ![b] = @ + 1]
      /\ UNCHANGED <<forwarded, failed>>
  <2>1. attempts \in [Batches -> Nat]
    BY ConstantsAssumption DEF TypeOK, CallsOK
  <2>. QED
    BY <2>1, ConstantsAssumption DEF Export, statsVars
<1>2. \A c \in Batches \ {b} : Credit[c]' = Credit[c]
  BY HandlerMoves, CreditUnmoved
<1>3. Times(b) \in Nat /\ Times(b)' \in Int
  BY <1>1, CreditType DEF Times, TurnedAway
<1>4. \/ Credit[b]' = Credit[b] /\ attempts[b] # 0
      \/ Credit[b]' = 0 /\ Credit[b] = 0
      \/ Credit[b]' = 0 /\ attempts[b] = 0
  <2>1. Credit[b] = CountOf[b] * Times(b) /\ Credit[b]' = CountOf[b] * Times(b)'
    BY DEF Credit, Times
  <2>2. CASE CountOf[b] = 0
    BY <1>3, <2>1, <2>2
  <2>3. CASE Times(b)' = 0 /\ attempts[b] = 0
    BY <1>1, <2>1, <2>3
  <2>4. CASE Times(b)' = Times(b) /\ attempts[b] # 0
    BY <2>4, CreditUnmoved
  <2>. QED
    BY <2>2, <2>3, <2>4, HandlerMoves
<1>5. CASE b \in Exported(s) \/ SignalOf[b] # s
  <2>1. Exported(s)' = Exported(s)
    BY <1>1, <1>5 DEF Exported
  <2>2. \A c \in Exported(s) : Credit[c]' = Credit[c]
    BY <1>1, <1>2, <1>4, <1>5 DEF Exported
  <2>. QED
    BY <1>1, <2>1, <2>2, SumUnmoved
<1>6. CASE SignalOf[b] = s /\ b \notin Exported(s)
  <2>1. PICK v, S : v = Credit' /\ S = Exported(s)
    OBVIOUS
  <2>2. attempts[b] = 0
    BY <1>1, <1>6 DEF Exported
  <2>3. Exported(s)' = S \union {b} /\ b \notin S /\ v[b] = 0
    BY <1>1, <1>4, <1>6, <2>1, <2>2 DEF Exported
  <2>4. /\ IsFiniteSet(S) /\ IsFiniteSet(S \union {b})
        /\ \A c \in S : Credit[c] \in Nat /\ v[c] = Credit[c]
    <3>1. \A c \in S : c \in Batches \ {b}
      BY <1>6, <2>1 DEF Exported
    <3>2. IsFiniteSet(S)
      BY <2>1 DEF Balanced
    <3>. QED
      BY <1>2, <2>1, <3>1, <3>2, CreditType, FS_AddElement
  <2>5. PICK w : w = Credit
    OBVIOUS
  <2>6. WeightSum(v, S) = WeightSum(w, S)
    BY <2>4, <2>5, SumSame
  <2>7. WeightSum(w, S) \in Nat
    BY <2>4, <2>5, SumFirst
  <2>8. WeightSum(v, S \union {b}) = WeightSum(v, S) + v[b]
    BY <2>3, <2>4, SumAdd
  <2>. QED
    BY <1>1, <2>1, <2>3, <2>4, <2>5, <2>6, <2>7, <2>8 DEF Balanced
<1>. QED
  BY <1>1, <1>5, <1>6 DEF Exported

(* A handler counts its batch's records and credits it in one step.        *)
LEMMA HandlerKeepsBalance ==
    ASSUME TypeOK, OutcomesInv, Attempted, NEW b \in Batches, Handler(b),
           NEW s \in Signals, Balanced(s)
    PROVE  Balanced(s)'
<1>1. /\ attempts' = attempts /\ call[b] # "idle"
      /\ \A c \in Batches \ {b} : Credit[c]' = Credit[c]
  <2>1. attempts' = attempts /\ call[b] # "idle"
    BY DEF Handler, RecordForwarded, EmitForwarded, RenderTail, Enqueue, Advance
  <2>. QED
    BY <2>1, HandlerMoves, CreditUnmoved
<1>2. Exported(s)' = Exported(s)
  BY <1>1 DEF Exported
<1>3. CASE RecordForwarded(b)
  <2>1. /\ forwarded \in [Signals -> Nat] /\ failed \in [Signals -> Nat]
        /\ CountOf[b] \in Nat /\ Times(b) \in Nat
        /\ attempts[b] \in Nat \ {0} /\ Credit[b] = CountOf[b] * Times(b)
    BY <1>1, ConstantsAssumption, CreditType DEF TypeOK, StatsOK, CallsOK, Attempted
  <2>2. /\ forwarded' = [forwarded EXCEPT ![SignalOf[b]] = @ + CountOf[b]]
        /\ failed' = failed
    BY <1>3 DEF RecordForwarded
  <2>3. CASE SignalOf[b] # s
    <3>1. \A c \in Exported(s) : Credit[c]' = Credit[c]
      BY <1>1, <2>3 DEF Exported
    <3>. QED
      BY <1>2, <2>1, <2>2, <2>3, <3>1, SumUnmoved
  <2>4. CASE SignalOf[b] = s
    <3>1. b \in Exported(s)
      BY <2>1, <2>4 DEF Exported
    <3>2. Credit[b]' = CountOf[b] * (Times(b) + 1)
      <4>1. Credit[b]' = CountOf[b] * Times(b)'
        BY DEF Credit, Times
      <4>. QED
        BY <1>3, <4>1, HandlerMoves
    <3>3. Credit[b]' = Credit[b] + CountOf[b] /\ Credit[b] \in Nat /\ Credit[b]' \in Nat
      BY <2>1, <3>2
    <3>4. \A c \in Exported(s) \ {b} : Credit[c]' = Credit[c]
      BY <1>1 DEF Exported
    <3>5. forwarded'[s] = forwarded[s] + CountOf[b] /\ failed'[s] = failed[s]
      BY <2>1, <2>2, <2>4
    <3>6. /\ (forwarded[s] - failed[s])' - (forwarded[s] - failed[s]) = Credit[b]' - Credit[b]
          /\ (forwarded[s] - failed[s])' \in Int /\ forwarded[s] - failed[s] \in Int
      BY <2>1, <3>3, <3>5
    <3>. QED
      BY <1>2, <3>1, <3>3, <3>4, <3>6, SumMoved
  <2>. QED
    BY <2>3, <2>4
<1>4. CASE EmitForwarded(b) \/ RenderTail(b) \/ Enqueue(b)
  <2>1. Credit[b]' = Credit[b] /\ UNCHANGED <<forwarded, failed>>
    BY <1>4, HandlerMoves, CreditUnmoved DEF EmitForwarded, RenderTail, Enqueue, statsVars
  <2>2. \A c \in Exported(s) : Credit[c]' = Credit[c]
    BY <1>1, <2>1 DEF Exported
  <2>. QED
    BY <1>2, <2>1, <2>2, SumUnmoved
<1>. QED
  BY <1>3, <1>4 DEF Handler

(* A worker counts a failure and takes the credit back in one step.        *)
LEMMA WorkerKeepsBalance ==
    ASSUME TypeOK, InOrder, TakenAtMostOnce, OwnSignal, OutcomesInv, Attempted,
           NEW t \in Signals, Worker(t), NEW s \in Signals, Balanced(s)
    PROVE  Balanced(s)'
<1>1. attempts' = attempts
  BY DEF Worker, Take, SendOk, SendFails, Panic, RecordFailed, EmitError,
         SurfaceAuthError, WorkerExits, hotVars
<1>2. Exported(s)' = Exported(s)
  BY <1>1 DEF Exported
<1>3. CASE RecordFailed(t)
  <2>1. worker[t] \in Holding
    BY <1>3 DEF RecordFailed, Holding
  <2>2. PICK h \in Batches : h = inflight[t][1] /\ SignalOf[h] = t
    BY <2>1, HeldNotDone
  <2>3. /\ Times(h) = Times(h)' + 1 /\ Times(h)' \in Nat /\ attempts[h] # 0
        /\ \A c \in Batches \ {h} : Times(c)' = Times(c)
    BY <1>3, <2>2, WorkerMoves
  <2>4. /\ forwarded \in [Signals -> Nat] /\ failed \in [Signals -> Nat]
        /\ CountOf[h] \in Nat /\ attempts[h] \in Nat
    BY <2>2, ConstantsAssumption DEF TypeOK, StatsOK, CallsOK
  <2>5. /\ failed' = [failed EXCEPT ![t] = @ + CountOf[h]]
        /\ forwarded' = forwarded
    BY <1>3, <2>2 DEF RecordFailed
  <2>6. \A c \in Batches \ {h} : Credit[c]' = Credit[c]
    BY <2>3, CreditUnmoved
  <2>7. CASE t # s
    <3>1. \A c \in Exported(s) : Credit[c]' = Credit[c]
      BY <2>2, <2>6, <2>7 DEF Exported
    <3>. QED
      BY <1>2, <2>4, <2>5, <2>7, <3>1, SumUnmoved
  <2>8. CASE t = s
    <3>1. h \in Exported(s)
      BY <2>2, <2>3, <2>4, <2>8 DEF Exported
    <3>2. Credit[h]' = CountOf[h] * Times(h)' /\ Credit[h] = CountOf[h] * Times(h)
      BY DEF Credit, Times
    <3>3. Credit[h] = Credit[h]' + CountOf[h] /\ Credit[h]' \in Nat
      <4>1. \A k, n \in Nat : k * (n + 1) = k * n + k /\ k * n \in Nat
        OBVIOUS
      <4>2. PICK k \in Nat, n \in Nat : k = CountOf[h] /\ n = Times(h)'
        BY <2>3, <2>4
      <4>. QED
        BY <2>3, <3>2, <4>1, <4>2
    <3>4. \A c \in Exported(s) \ {h} : Credit[c]' = Credit[c]
      BY <2>6 DEF Exported
    <3>5. failed'[s] = failed[s] + CountOf[h] /\ forwarded'[s] = forwarded[s]
      BY <2>4, <2>5, <2>8
    <3>6. /\ (forwarded[s] - failed[s])' - (forwarded[s] - failed[s]) = Credit[h]' - Credit[h]
          /\ (forwarded[s] - failed[s])' \in Int /\ forwarded[s] - failed[s] \in Int
      BY <2>4, <3>3, <3>5
    <3>. QED
      BY <1>2, <3>1, <3>3, <3>4, <3>6, SumMoved
  <2>. QED
    BY <2>7, <2>8
<1>4. CASE ~RecordFailed(t)
  <2>1. UNCHANGED <<forwarded, failed>>
    BY <1>4 DEF Worker, Take, SendOk, SendFails, Panic, EmitError, SurfaceAuthError,
                WorkerExits, statsVars
  <2>2. \A c \in Exported(s) : Credit[c]' = Credit[c]
    BY <1>4, WorkerMoves, CreditUnmoved DEF Exported
  <2>. QED
    BY <1>2, <2>1, <2>2, SumUnmoved
<1>. QED
  BY <1>3, <1>4

(* The counters and the contributions move together.                       *)
LEMMA NextRecords ==
    TypeOK /\ InOrder /\ TakenAtMostOnce /\ RecordsInv /\ [Next]_vars => RecordsInv'
<1>. SUFFICES ASSUME TypeOK, InOrder, TakenAtMostOnce, RecordsInv, [Next]_vars
              PROVE  RecordsInv'
  OBVIOUS
<1>1. OwnSignal /\ OutcomesInv /\ Attempted /\ \A s \in Signals : Balanced(s)
  BY DEF RecordsInv
<1>2. OwnSignal' /\ OutcomesInv' /\ Attempted'
  BY <1>1, NextOwnSignal, NextOutcomes, NextAttempted
<1>3. ASSUME NEW s \in Signals PROVE Balanced(s)'
  <2>1. CASE \E b \in Batches : Export(b) \/ Handler(b)
    BY <1>1, <2>1, ExportKeepsBalance, HandlerKeepsBalance
  <2>2. CASE \E t \in Signals : Worker(t)
    BY <1>1, <2>2, WorkerKeepsBalance
  <2>3. CASE Writers \/ Tick \/ Cancel \/ UNCHANGED vars
    <3>1. UNCHANGED <<hotVars, workerVars, statsVars>>
      BY <2>3 DEF Writers, WriteEvent, PrintTail, StdoutExits, ShowLifecycle, StderrExits,
                  Tick, Cancel, vars
    <3>2. UNCHANGED <<call, attempts, refused, worker, inflight, forwarded, failed>>
      BY <3>1 DEF hotVars, workerVars, statsVars
    <3>3. \A b \in Batches : Credit[b]' = Credit[b]
      BY <3>2, TimesUnmoved, CreditUnmoved
    <3>4. Exported(s)' = Exported(s)
      BY <3>2 DEF Exported
    <3>. QED
      BY <1>1, <3>2, <3>3, <3>4, SumUnmoved DEF Exported
  <2>. QED
    BY <2>1, <2>2, <2>3 DEF Next
<1>. QED
  BY <1>2, <1>3 DEF RecordsInv

(* At the start nothing is counted and nothing contributes.                *)
LEMMA InitRecords == Init => RecordsInv
<1>. SUFFICES ASSUME Init PROVE RecordsInv
  OBVIOUS
<1>1. OwnSignal /\ OutcomesInv /\ Attempted
  BY DEF Init, OwnSignal, OutcomesInv, Attempted, Reporting
<1>2. ASSUME NEW s \in Signals PROVE Balanced(s)
  <2>1. Exported(s) = {} /\ forwarded[s] - failed[s] = 0
    BY DEF Init, Exported
  <2>2. IsFiniteSet({}) /\ \A w : WeightSum(w, {}) = 0
    <3>1. \A w : \A x \in {} : w[x] \in Nat
      OBVIOUS
    <3>. QED
      BY <3>1, FS_EmptySet, SumFirst
  <2>. QED
    BY <2>1, <2>2 DEF Balanced
<1>. QED
  BY <1>1, <1>2 DEF RecordsInv

(* A batch that was delivered was taken, and no failure of it is counted.  *)
LEMMA DeliveredIsCredited == RecordsInv => SuccessRateExact
<1>. SUFFICES ASSUME RecordsInv PROVE SuccessRateExact
  OBVIOUS
<1>1. \A b \in delivered : Credited(b)
  BY DEF RecordsInv, OutcomesInv, Credited, FailureCounted
<1>2. \A s \in Signals : forwarded[s] - failed[s] = WeightSum(Credit, Exported(s))
  BY DEF RecordsInv, Balanced
<1>. QED
  BY ONLY <1>1, <1>2, Zenon DEF SuccessRateExact, WeightSum

(* Whatever is rejected, exported again, panics or fails: what "success    *)
(* rate is Forwarded - Failed" (proxy_workers.go:170-174) shows is exactly *)
(* the records on their way, delivered or lost in a panic, and again those *)
(* of every export answered "queue full".                                  *)
THEOREM RateExact == Spec => []SuccessRateExact
BY TypeCorrect, OrderKept, AtMostOnce, InitRecords, NextRecords, DeliveredIsCredited,
   PTL DEF Spec
=============================================================================
