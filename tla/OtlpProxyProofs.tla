--------------------------- MODULE OtlpProxyProofs ---------------------------
(***************************************************************************)
(* Theorems of OtlpProxy: what ProxyForward promises survives the          *)
(* supervisor around it, the totals of a clean shutdown are final, and a   *)
(* failed start leaves one goroutine behind and nothing else.              *)
(***************************************************************************)
EXTENDS OtlpProxy, ProxyForwardProofs

(***************************************************************************)
(* The supervisor and the data plane.  A step of the command is a step of  *)
(* the data plane, or one in which the supervisor sends a lifecycle line,  *)
(* the supervisor or statsSink emits an event, or the context is cancelled. *)
(***************************************************************************)
Own(name) == [name |-> name]

OwnStep ==
    /\ UNCHANGED <<hotVars, queue, workerVars, statsVars>>
    /\ UNCHANGED <<stdout, stdoutUp, tail, lastAuthWarn, authWarnings, stderrUp, now>>
    /\ \/ events' = events
       \/ Emit(Own("started"))
       \/ Emit(Own("stats"))
       \/ Emit(Own("shutdown"))
    /\ \/ lifecycle' = lifecycle
       \/ \E message \in {"banner", "shuttingDown"} :
            Len(lifecycle) < LifecycleDepth /\ lifecycle' = Append(lifecycle, message)
    /\ cancelled' \in {cancelled, TRUE}

(* Supervisor and sampler touch the data plane with such steps only.       *)
LEMMA ProxySteps == ASSUME [ProxyNext]_allVars PROVE [Next]_vars \/ OwnStep
<1>1. ASSUME DataPlane PROVE Next
  BY <1>1 DEF DataPlane, Next
<1>2. ASSUME RootCancel PROVE Next
  BY <1>2 DEF RootCancel, Next
<1>3. ASSUME Build \/ StartFirst \/ StartRest \/ Rollback \/ AwaitSignal \/ StopListening
               \/ DrainCalls \/ ReadTotals \/ Wait \/ Interrupt \/ Expire
      PROVE  UNCHANGED vars
  BY <1>3 DEF Build, StartFirst, StartRest, Rollback, AwaitSignal, StopListening, DrainCalls,
              ReadTotals, Wait, Interrupt, Expire, dataVars
<1>4. ASSUME Abort \/ SupCancel PROVE OwnStep
  BY <1>4 DEF Abort, SupCancel, OwnStep, stdoutVars, authVars
<1>5. ASSUME Banner \/ AnnounceStop PROVE OwnStep
  BY <1>5 DEF Banner, AnnounceStop, SendLifecycle, OwnStep, stdoutVars, ctxVars
<1>6. ASSUME EmitStarted \/ EmitShutdown PROVE OwnStep
  BY <1>6 DEF EmitStarted, EmitShutdown, OwnStep, Own, authVars, ctxVars
<1>7. ASSUME EmitStats PROVE OwnStep
  BY <1>7 DEF EmitStats, OwnStep, Own, authVars, ctxVars
<1>8. ASSUME SamplerStarts \/ Sample \/ SamplerExits PROVE UNCHANGED vars
  BY <1>8 DEF SamplerStarts, Sample, SamplerExits
<1>. QED
  BY <1>1, <1>2, <1>3, <1>4, <1>5, <1>6, <1>7, <1>8
     DEF ProxyNext, Supervisor, Sampler, allVars, dataVars

(* The supervisor's events and statsSink's are no batch's.                 *)
LEMMA OwnEvents ==
    ASSUME NEW name \in {"started", "stats", "shutdown"}
    PROVE  /\ Own(name) \in Event
           /\ Own(name).name # "error" /\ Own(name).name # "forwarded"
BY DEF Own, Event

(* The supervisor's own steps keep the data plane's types.                 *)
LEMMA OwnStepType == TypeOK /\ OwnStep => TypeOK'
<1>. SUFFICES ASSUME TypeOK, OwnStep PROVE TypeOK'
  OBVIOUS
<1>. USE ConstantsAssumption
<1>1. events \in Seq(Event) /\ Len(events) <= EventDepth
  BY DEF TypeOK, StdoutOK
<1>2. events' \in Seq(Event) /\ Len(events') <= EventDepth
  BY <1>1, OwnEvents, EmitType DEF OwnStep
<1>3. StdoutOK'
  BY <1>2 DEF OwnStep, TypeOK, StdoutOK
<1>4. /\ lifecycle' \in Seq({"authFailed", "banner", "shuttingDown"})
      /\ Len(lifecycle') <= LifecycleDepth
  <2>. PICK V : V = {"authFailed", "banner", "shuttingDown"}
    OBVIOUS
  <2>1. lifecycle \in Seq(V) /\ Len(lifecycle) <= LifecycleDepth
    BY DEF TypeOK, AuthOK
  <2>2. CASE lifecycle' = lifecycle
    BY <2>1, <2>2
  <2>3. ASSUME NEW message \in {"banner", "shuttingDown"},
               Len(lifecycle) < LifecycleDepth, lifecycle' = Append(lifecycle, message)
        PROVE  lifecycle' \in Seq(V) /\ Len(lifecycle') <= LifecycleDepth
    <3>1. lifecycle' = TrySend(lifecycle, LifecycleDepth, message) /\ message \in V
      BY <2>3 DEF TrySend
    <3>. QED
      BY <2>1, <3>1, TrySendType
  <2>. QED
    BY <2>2, <2>3 DEF OwnStep
<1>5. AuthOK'
  BY <1>4 DEF OwnStep, TypeOK, AuthOK
<1>6. FlagsOK'
  BY DEF OwnStep, TypeOK, FlagsOK
<1>7. CallsOK' /\ QueuesOK' /\ WorkersOK' /\ StatsOK' /\ HistoriesOK'
  BY DEF OwnStep, TypeOK, CallsOK, QueuesOK, WorkersOK, StatsOK, HistoriesOK,
         hotVars, workerVars, statsVars
<1>. QED
  BY <1>3, <1>5, <1>6, <1>7 DEF TypeOK

(* The types, and what every step of the command keeps of the data plane.  *)
DataInv ==
    /\ TypeOK /\ InOrder /\ TakenAtMostOnce
    /\ WarningsInv /\ EventsInv /\ RecordsInv

(* A step of the data plane keeps its invariant.                           *)
LEMMA NextData == DataInv /\ [Next]_vars => DataInv'
BY NextType, NextInOrder, NextTakenAtMostOnce, NextWarnings, NextEvents, NextRecords
   DEF DataInv

(* So does a step of the supervisor's or of statsSink's.                   *)
LEMMA OwnStepData == DataInv /\ OwnStep => DataInv'
<1>. SUFFICES ASSUME DataInv, OwnStep PROVE DataInv'
  OBVIOUS
<1>1. TypeOK'
  BY OwnStepType DEF DataInv
<1>2. /\ UNCHANGED <<call, attempts, accepted, queue, worker, inflight, done, delivered, refused>>
      /\ UNCHANGED <<forwarded, failed, lastAuthWarn, authWarnings, now, stdout>>
  BY DEF OwnStep, hotVars, workerVars, statsVars
<1>3. InOrder' /\ TakenAtMostOnce'
  BY <1>2 DEF DataInv, InOrder, TakenAtMostOnce
<1>4. WarningsInv'
  BY <1>2 DEF DataInv, WarningsInv, LastWarning, AuthWarningsThrottled
<1>5. RecordsInv'
  <2>1. OwnSignal' /\ OutcomesInv' /\ Attempted'
    BY <1>2 DEF DataInv, RecordsInv, OwnSignal, OutcomesInv, IsDone, Reporting, Attempted
  <2>2. ASSUME NEW s \in Signals PROVE Balanced(s)'
    <3>1. TypeOK /\ Attempted /\ Balanced(s)
      BY DEF DataInv, RecordsInv
    <3>2. \A b \in Batches : Credit[b]' = Credit[b]
      BY <1>2, TimesUnmoved, CreditUnmoved
    <3>3. Exported(s)' = Exported(s)
      BY <1>2 DEF Exported
    <3>. QED
      BY <1>2, <3>1, <3>2, <3>3, SumUnmoved DEF Exported
  <2>. QED
    BY <2>1, <2>2 DEF RecordsInv
<1>6. EventsInv'
  <2>1. CASE events' = events
    BY <1>2, <2>1 DEF DataInv, EventsInv, ErrorsAccepted, AnnouncedFirst
  <2>2. ASSUME NEW name \in {"started", "stats", "shutdown"}, Emit(Own(name)), events' # events
        PROVE  EventsInv'
    <3>1. events' = Append(events, Own(name))
      BY <2>2 DEF Emit, TrySend
    <3>2. PICK e \in Event : e = Own(name) /\ e.name # "error" /\ e.name # "forwarded"
      BY OwnEvents
    <3>3. /\ stdout \in Seq(Event) /\ events \in Seq(Event) /\ EventsInv
          /\ events' = Append(events, e)
      BY <3>1, <3>2 DEF DataInv, TypeOK, StdoutOK
    <3>. QED
      BY <1>2, <3>2, <3>3, EmitKeepsEvents
  <2>. QED
    BY <2>1, <2>2 DEF OwnStep
<1>. QED
  BY <1>1, <1>3, <1>4, <1>5, <1>6 DEF DataInv

(* Every step of the command keeps the data plane's invariant.             *)
LEMMA ProxyKeepsData == DataInv /\ [ProxyNext]_allVars => DataInv'
BY ProxySteps, NextData, OwnStepData

(* It holds at first.                                                      *)
LEMMA InitData == Init => DataInv
<1>. SUFFICES ASSUME Init PROVE DataInv
  OBVIOUS
<1>1. InOrder /\ TakenAtMostOnce
  BY DEF Init, InOrder, TakenAtMostOnce
<1>2. WarningsInv
  BY ConstantsAssumption DEF Init, WarningsInv, LastWarning, AuthWarningsThrottled, Never
<1>3. EventsInv
  BY DEF Init, EventsInv, ErrorsAccepted, AnnouncedFirst
<1>. QED
  BY <1>1, <1>2, <1>3, InitType, InitRecords DEF DataInv

(* The data plane's invariant holds throughout the command.                *)
THEOREM DataPlaneKept == ProxySpec => []DataInv
BY InitData, ProxyKeepsData, PTL DEF ProxySpec, ProxyInit

(* Under the supervisor, too, an announcement precedes its batch's error,  *)
(* whatever events the supervisor puts between them.                       *)
THEOREM ProxyAnnouncesFirst == ProxySpec => []ErrorAfterAnnouncement
<1>1. DataInv => ErrorAfterAnnouncement
  BY DEF DataInv, EventsInv, AnnouncedFirst, Apart, ErrorAfterAnnouncement
<1>. QED
  BY <1>1, DataPlaneKept, PTL

(* Under the supervisor, whose lines share the lifecycle channel with the  *)
(* warnings, the warnings are still apart.                                 *)
THEOREM ProxyWarningsThrottled == ProxySpec => []AuthWarningsThrottled
<1>1. DataInv => AuthWarningsThrottled
  BY DEF DataInv, WarningsInv
<1>. QED
  BY <1>1, DataPlaneKept, PTL

(* The counters stay exact through start, shutdown and deadline.           *)
THEOREM ProxyRateExact == ProxySpec => []SuccessRateExact
<1>1. DataInv => SuccessRateExact
  BY DeliveredIsCredited DEF DataInv
<1>. QED
  BY <1>1, DataPlaneKept, PTL

(* The command as a whole is, per signal, the bounded ordered relay.       *)
THEOREM ProxyImplementsRelay == ProxySpec => RelaySpec
<1>1. ProxyInit => Relay!Init
  BY DEF ProxyInit, Init, Relay!Init
<1>2. DataInv /\ [ProxyNext]_allVars => [Relay!Next]_<<accepted, done>>
  <2>1. ASSUME OwnStep PROVE UNCHANGED <<accepted, done>>
    BY <2>1 DEF OwnStep, hotVars, workerVars
  <2>. QED
    BY <2>1, ProxySteps, NextRefines DEF DataInv
<1>. QED
  BY <1>1, <1>2, DataPlaneKept, PTL DEF ProxySpec, RelaySpec, Relay!Spec

(***************************************************************************)
(* The supervisor.                                                         *)
(***************************************************************************)
(* The receivers accept requests only between their start and the stop.    *)
ListeningTimes ==
    listening => sup \in {"startRest", "banner", "announceStarted", "select",
                          "announceStop", "stop"}

(* Before the root context of an interrupted process ends, only the        *)
(* supervisor's own cancels end it; nothing interrupts before the launch.  *)
CancelTimes ==
    /\ cancelled => interrupted \/ sup \in {"totals", "emitShutdown", "wait", "exited"}
    /\ sup = "build" => ~interrupted

(* There is a reason only once the command is on its way out.              *)
ReasonTimes == reason # "none" => sup \in {"wait", "exited"}

(* Before the first receiver is up, and after requests were awaited within *)
(* the deadline, no handler runs.                                          *)
QuietTimes ==
    /\ sup \in {"build", "start"} => NoHandlers
    /\ sup \in {"cancel", "totals", "emitShutdown"} => NoHandlers \/ expired
    /\ sup = "abort" => NoHandlers \/ interrupted

(* What the totals are from their reading on.                              *)
TotalsInv ==
    /\ sup = "emitShutdown" => finalTotals = forwarded \/ expired
    /\ reason = "signal" => NoHandlers /\ finalTotals = forwarded

(* What a failed start has left behind while it waits, and when it is over. *)
FailedStartInv ==
    reason = "error" =>
        \/ sup = "wait" /\ cancelled /\ (NoHandlers \/ interrupted)
        \/ sup = "exited" /\ ~cancelled /\ ~interrupted
        \/ sup = "exited" /\ GoroutinesDone /\ sinkUp /\ (NoHandlers \/ interrupted)

(* The sampler's goroutine starts statsSink's before it samples.           *)
SinkTimes == sampler # "launched" => sinkUp

SupInv ==
    /\ ListeningTimes /\ CancelTimes /\ ReasonTimes /\ QuietTimes
    /\ TotalsInv /\ FailedStartInv /\ SinkTimes

(* The types of the supervisor's and the sampler's variables.              *)
SupTypes ==
    /\ sup \in SupStates
    /\ listening \in BOOLEAN /\ interrupted \in BOOLEAN
    /\ sigCh \in BOOLEAN /\ expired \in BOOLEAN
    /\ finalTotals \in [Signals -> Nat]
    /\ reason \in {"none", "signal", "deadline", "error"}
    /\ sampler \in {"launched", "runs", "exited"}
    /\ sinkUp \in BOOLEAN
    /\ pending \in 0 .. SinkDepth

(* A step of the command keeps the supervisor's types.                     *)
LEMMA NextSupTypes == TypeOK /\ SupTypes /\ [ProxyNext]_allVars => SupTypes'
<1>. SUFFICES ASSUME TypeOK, SupTypes, [ProxyNext]_allVars PROVE SupTypes'
  OBVIOUS
<1>. USE DEF SupTypes, GoTo
<1>. USE SinkAssumption DEF dataVars, samplerVars
<1>1. ASSUME Build \/ StartFirst \/ StartRest \/ Rollback \/ Abort PROVE SupTypes'
  BY <1>1 DEF Build, StartFirst, StartRest, Rollback, Abort, SupStates
<1>2. ASSUME Banner \/ EmitStarted \/ AwaitSignal \/ AnnounceStop \/ StopListening
      PROVE  SupTypes'
  BY <1>2 DEF Banner, EmitStarted, AwaitSignal, AnnounceStop, StopListening, SendLifecycle,
              SupStates
<1>3. ASSUME DrainCalls \/ SupCancel \/ EmitShutdown \/ Wait PROVE SupTypes'
  BY <1>3 DEF DrainCalls, SupCancel, EmitShutdown, Wait, SupStates
<1>4. ASSUME ReadTotals PROVE SupTypes'
  BY <1>4 DEF ReadTotals, SupStates, TypeOK, StatsOK
<1>5. ASSUME Interrupt \/ Expire PROVE SupTypes'
  BY <1>5 DEF Interrupt, Expire
<1>6. ASSUME RootCancel \/ DataPlane \/ UNCHANGED allVars PROVE SupTypes'
  BY <1>6 DEF RootCancel, DataPlane, allVars, supVars
<1>7. ASSUME Sampler PROVE SupTypes'
  <2>1. UNCHANGED supVars
    BY <1>7 DEF Sampler, SamplerStarts, Sample, SamplerExits, EmitStats
  <2>2. sampler' \in {"launched", "runs", "exited"}
    BY <1>7 DEF Sampler, SamplerStarts, Sample, SamplerExits, EmitStats
  <2>3. sinkUp' = sinkUp \/ sinkUp' = TRUE
    BY <1>7 DEF Sampler, SamplerStarts, Sample, SamplerExits, EmitStats
  <2>4. pending' \in 0 .. SinkDepth
    BY <1>7 DEF Sampler, SamplerStarts, Sample, SamplerExits, EmitStats, vars
  <2>. QED
    BY <2>1, <2>2, <2>3, <2>4 DEF supVars
<1>. QED
  BY <1>1, <1>2, <1>3, <1>4, <1>5, <1>6, <1>7 DEF ProxyNext, Supervisor

(* Every variable of the command has its type.                             *)
THEOREM ProxyTypeCorrect == ProxySpec => []ProxyTypeOK
<1>1. ProxyInit => SupTypes
  <2>. SUFFICES ASSUME ProxyInit PROVE SupTypes
    OBVIOUS
  <2>1. finalTotals \in [Signals -> Nat]
    BY DEF ProxyInit
  <2>2. pending \in 0 .. SinkDepth
    BY SinkAssumption DEF ProxyInit
  <2>. QED
    BY <2>1, <2>2 DEF ProxyInit, SupTypes, SupStates
<1>2. DataInv => TypeOK
  BY DEF DataInv
<1>3. TypeOK /\ SupTypes => ProxyTypeOK
  BY DEF SupTypes, ProxyTypeOK
<1>. QED
  BY <1>1, <1>2, <1>3, NextSupTypes, DataPlaneKept, PTL DEF ProxySpec

(* While no request comes in, a command without handlers gets none, and    *)
(* nothing is counted.                                                     *)
LEMMA StaysQuiet ==
    ASSUME TypeOK, [ProxyNext]_allVars, NoHandlers, ~listening
    PROVE  NoHandlers' /\ forwarded' = forwarded
<1>1. ASSUME OwnStep \/ UNCHANGED allVars PROVE NoHandlers' /\ forwarded' = forwarded
  BY <1>1 DEF OwnStep, hotVars, statsVars, allVars, dataVars, vars, NoHandlers
<1>2. ASSUME NEW b \in Batches, Handler(b) PROVE FALSE
  <2>1. call[b] \in Stages
    BY <1>2 DEF Handler, RecordForwarded, EmitForwarded, RenderTail, Enqueue, Advance, Stages
  <2>. QED
    BY <2>1 DEF NoHandlers
<1>3. ASSUME NEW s \in Signals, Worker(s) PROVE call' = call /\ forwarded' = forwarded
  BY <1>3 DEF Worker, Take, SendOk, SendFails, Panic, RecordFailed, EmitError,
              SurfaceAuthError, WorkerExits, hotVars, statsVars
<1>4. ASSUME Writers \/ Tick \/ Cancel PROVE call' = call /\ forwarded' = forwarded
  BY <1>4 DEF Writers, WriteEvent, PrintTail, StdoutExits, ShowLifecycle, StderrExits,
              Tick, Cancel, hotVars, statsVars
<1>5. ASSUME DataPlane \/ RootCancel PROVE call' = call /\ forwarded' = forwarded
  BY <1>2, <1>3, <1>4, <1>5 DEF DataPlane, RootCancel
<1>6. ASSUME Supervisor \/ Interrupt \/ Expire PROVE call' = call /\ forwarded' = forwarded
  BY <1>6 DEF Supervisor, Build, StartFirst, StartRest, Rollback, Abort, Banner, EmitStarted,
              AwaitSignal, AnnounceStop, StopListening, DrainCalls, SupCancel, ReadTotals,
              EmitShutdown, Wait, Interrupt, Expire, SendLifecycle, dataVars, vars, hotVars,
              statsVars
<1>7. ASSUME Sampler PROVE call' = call /\ forwarded' = forwarded
  BY <1>7 DEF Sampler, SamplerStarts, Sample, SamplerExits, EmitStats, vars, hotVars, statsVars
<1>. QED
  BY <1>1, <1>5, <1>6, <1>7 DEF ProxyNext, NoHandlers

(* Once the command has exited, no goroutine, handler or counter moves.    *)
LEMMA ExitedStays ==
    ASSUME [ProxyNext]_allVars, sup = "exited"
    PROVE  /\ UNCHANGED <<call, worker, stdoutUp, stderrUp, forwarded>>
           /\ UNCHANGED <<samplerVars, supVars>>
           /\ cancelled' = cancelled \/ interrupted
<1>1. ~Supervisor /\ ~Interrupt /\ ~Expire /\ ~DataPlane /\ ~Sampler
  BY DEF Supervisor, Build, StartFirst, StartRest, Rollback, Abort, Banner, EmitStarted,
         AwaitSignal, AnnounceStop, StopListening, DrainCalls, SupCancel, ReadTotals,
         EmitShutdown, Wait, Interrupt, Expire, DataPlane, Alive, Sampler, SamplerStarts,
         Sample, SamplerExits, EmitStats
<1>2. CASE RootCancel
  BY <1>2 DEF RootCancel, Cancel, hotVars, workerVars, stdoutVars, statsVars
<1>3. CASE UNCHANGED allVars
  BY <1>3 DEF allVars, dataVars, vars, hotVars, workerVars, stdoutVars, statsVars, ctxVars
<1>. QED
  BY <1>1, <1>2, <1>3 DEF ProxyNext

(* Neither handlers, workers nor writers cancel the context.               *)
LEMMA DataPlaneKeepsContext == DataPlane => cancelled' = cancelled
BY DEF DataPlane, Handler, Export, RecordForwarded, EmitForwarded, RenderTail, Enqueue,
       Worker, Take, SendOk, SendFails, Panic, RecordFailed, EmitError,
       SurfaceAuthError, WorkerExits, Writers, WriteEvent, PrintTail, StdoutExits,
       ShowLifecycle, StderrExits, Tick, ctxVars

(* No step but runProxy's own moves runProxy, its totals or its reason, or *)
(* takes a signal, a deadline or a cancellation back.                      *)
LEMMA SurroundingsStay ==
    ASSUME Interrupt \/ RootCancel \/ Expire \/ DataPlane \/ Sampler \/ UNCHANGED allVars,
           SinkTimes
    PROVE  /\ UNCHANGED <<sup, listening, finalTotals, reason>>
           /\ interrupted => interrupted'
           /\ expired => expired'
           /\ SinkTimes'
           /\ cancelled' = cancelled \/ interrupted
<1>. USE DEF SinkTimes, samplerVars
<1>2. CASE DataPlane
  BY <1>2, DataPlaneKeepsContext DEF DataPlane, supVars
<1>3. CASE Interrupt
  BY <1>3 DEF Interrupt, dataVars, vars, ctxVars
<1>4. CASE RootCancel
  BY <1>4 DEF RootCancel, supVars
<1>5. CASE Expire
  BY <1>5 DEF Expire, dataVars, vars, ctxVars
<1>6. CASE UNCHANGED allVars
  BY <1>6 DEF allVars, dataVars, supVars, vars, ctxVars
<1>7. CASE Sampler
  BY <1>7 DEF Sampler, SamplerStarts, Sample, SamplerExits, EmitStats, supVars, vars, ctxVars
<1>. QED
  BY <1>2, <1>3, <1>4, <1>5, <1>6, <1>7

(* What the supervisor does not move, its invariant is not disturbed in.   *)
LEMMA SurroundingsKeepSup ==
    ASSUME TypeOK, SupInv, [ProxyNext]_allVars,
           Interrupt \/ RootCancel \/ Expire \/ DataPlane \/ Sampler \/ UNCHANGED allVars
    PROVE  SupInv'
<1>. USE DEF SupInv
<1>1. /\ UNCHANGED <<sup, listening, finalTotals, reason>>
      /\ interrupted => interrupted'
      /\ expired => expired'
      /\ SinkTimes'
      /\ cancelled' = cancelled \/ interrupted
  BY SurroundingsStay
<1>2. ListeningTimes' /\ ReasonTimes'
  BY <1>1 DEF ListeningTimes, ReasonTimes
<1>3. CancelTimes'
  <2>1. cancelled' => interrupted' \/ sup' \in {"totals", "emitShutdown", "wait", "exited"}
    BY <1>1 DEF CancelTimes
  <2>2. ASSUME sup' = "build" PROVE ~interrupted'
    <3>1. sup = "build" /\ ~interrupted
      BY <1>1, <2>2 DEF CancelTimes
    <3>2. ~Interrupt /\ ~Expire /\ ~DataPlane /\ ~RootCancel /\ ~Sampler
      BY <3>1 DEF Interrupt, Expire, DataPlane, Alive, RootCancel, Sampler, SamplerStarts,
                  Sample, SamplerExits, EmitStats
    <3>. QED
      BY <3>1, <3>2 DEF allVars, supVars
  <2>. QED
    BY <2>1, <2>2 DEF CancelTimes
<1>4. NoHandlers /\ ~listening => NoHandlers' /\ forwarded' = forwarded
  BY StaysQuiet
<1>5. QuietTimes'
  BY <1>1, <1>4 DEF QuietTimes, ListeningTimes
<1>6. TotalsInv'
  <2>1. sup = "emitShutdown" => ~listening /\ (NoHandlers \/ expired)
    BY DEF QuietTimes, ListeningTimes
  <2>2. reason = "signal" => ~listening
    BY DEF ReasonTimes, ListeningTimes
  <2>. QED
    BY <1>1, <1>4, <2>1, <2>2 DEF TotalsInv
<1>7. FailedStartInv'
  <2>. SUFFICES ASSUME reason = "error"
                PROVE  \/ sup' = "wait" /\ cancelled' /\ (NoHandlers' \/ interrupted')
                       \/ sup' = "exited" /\ ~cancelled' /\ ~interrupted'
                       \/ /\ sup' = "exited" /\ GoroutinesDone' /\ sinkUp'
                          /\ NoHandlers' \/ interrupted'
    BY <1>1 DEF FailedStartInv
  <2>1. CASE sup = "wait"
    <3>1. cancelled /\ (NoHandlers \/ interrupted) /\ ~listening
      BY <2>1 DEF FailedStartInv, ListeningTimes
    <3>2. cancelled'
      <4>1. ~RootCancel
        BY <3>1 DEF RootCancel, Cancel
      <4>2. CASE DataPlane
        BY <3>1, <4>2, DataPlaneKeepsContext
      <4>3. CASE Interrupt \/ Expire \/ UNCHANGED allVars
        BY <3>1, <4>3 DEF Interrupt, Expire, allVars, dataVars, vars, ctxVars
      <4>4. CASE Sampler
        BY <3>1, <4>4 DEF Sampler, SamplerStarts, Sample, SamplerExits, EmitStats, vars, ctxVars
      <4>. QED
        BY <4>1, <4>2, <4>3, <4>4
    <3>. QED
      BY <1>1, <1>4, <2>1, <3>1, <3>2
  <2>2. CASE sup = "exited"
    <3>1. /\ UNCHANGED <<call, worker, stdoutUp, stderrUp, forwarded>>
          /\ UNCHANGED <<samplerVars, supVars>>
          /\ cancelled' = cancelled \/ interrupted
      BY <2>2, ExitedStays
    <3>. QED
      BY <2>2, <3>1 DEF FailedStartInv, GoroutinesDone, NoHandlers, samplerVars, supVars
  <2>. QED
    BY <2>1, <2>2 DEF ReasonTimes
<1>. QED
  BY <1>1, <1>2, <1>3, <1>5, <1>6, <1>7

(* What runProxy's own steps do to the handlers, the counters and the      *)
(* sampler.                                                                *)
LEMMA SupervisorTouches ==
    ASSUME Supervisor
    PROVE  /\ UNCHANGED <<call, forwarded, interrupted, expired, sampler, sinkUp>>
           /\ ~(Abort \/ SupCancel) => cancelled' = cancelled
<1>1. UNCHANGED <<call, forwarded, interrupted, expired, sampler, sinkUp>>
  BY DEF Supervisor, Build, StartFirst, StartRest, Rollback, Abort, Banner, EmitStarted,
         AwaitSignal, AnnounceStop, StopListening, DrainCalls, SupCancel, ReadTotals,
         EmitShutdown, Wait, SendLifecycle, dataVars, samplerVars, vars, hotVars, statsVars
<1>2. ~(Abort \/ SupCancel) => cancelled' = cancelled
  BY DEF Supervisor, Build, StartFirst, StartRest, Rollback, Banner, EmitStarted,
         AwaitSignal, AnnounceStop, StopListening, DrainCalls, ReadTotals,
         EmitShutdown, Wait, SendLifecycle, dataVars, samplerVars, vars, ctxVars
<1>. QED
  BY <1>1, <1>2

(* runProxy's own steps keep the supervisor's invariant.                   *)
LEMMA SupervisorKeepsSup ==
    ASSUME SupInv, Supervisor
    PROVE  SupInv'
<1>. USE DEF SupInv, ListeningTimes, CancelTimes, ReasonTimes, QuietTimes, TotalsInv,
             FailedStartInv, SinkTimes, GoTo
<1>1. /\ UNCHANGED <<call, forwarded, interrupted, expired, sampler, sinkUp>>
      /\ ~(Abort \/ SupCancel) => cancelled' = cancelled
  BY SupervisorTouches
<1>2. NoHandlers' <=> NoHandlers
  BY <1>1 DEF NoHandlers
<1>3. CASE Build
  BY <1>1, <1>2, <1>3 DEF Build, Abort, SupCancel
<1>4. CASE StartFirst \/ StartRest
  BY <1>1, <1>2, <1>4 DEF StartFirst, StartRest, Abort, SupCancel
<1>5. CASE Rollback
  BY <1>1, <1>2, <1>5 DEF Rollback, Abort, SupCancel
<1>6. CASE Abort
  BY <1>1, <1>2, <1>6 DEF Abort
<1>7. CASE Banner \/ EmitStarted \/ AwaitSignal \/ AnnounceStop
  BY <1>1, <1>2, <1>7 DEF Banner, EmitStarted, AwaitSignal, AnnounceStop, Abort, SupCancel
<1>8. CASE StopListening \/ DrainCalls
  BY <1>1, <1>2, <1>8 DEF StopListening, DrainCalls, Abort, SupCancel
<1>9. CASE SupCancel
  BY <1>1, <1>2, <1>9 DEF SupCancel
<1>10. CASE ReadTotals
  BY <1>1, <1>2, <1>10 DEF ReadTotals, Abort, SupCancel
<1>11. CASE EmitShutdown
  BY <1>1, <1>2, <1>11 DEF EmitShutdown, Abort, SupCancel
<1>12. CASE Wait
  <2>1. GoroutinesDone => GoroutinesDone'
    BY <1>1, <1>12 DEF Wait, dataVars, vars, workerVars, stdoutVars, ctxVars, GoroutinesDone
  <2>2. GoroutinesDone => sinkUp'
    BY <1>1 DEF GoroutinesDone
  <2>. QED
    BY <1>1, <1>2, <1>12, <2>1, <2>2 DEF Wait, Abort, SupCancel
<1>. QED
  BY <1>3, <1>4, <1>5, <1>6, <1>7, <1>8, <1>9, <1>10, <1>11, <1>12 DEF Supervisor

(* Every step of the command keeps the supervisor's invariant.             *)
LEMMA NextSup == TypeOK /\ SupInv /\ [ProxyNext]_allVars => SupInv'
BY SurroundingsKeepSup, SupervisorKeepsSup DEF ProxyNext

(* It holds at first.                                                      *)
LEMMA InitSup == ProxyInit => SupInv
<1>. SUFFICES ASSUME ProxyInit PROVE SupInv
  OBVIOUS
<1>1. NoHandlers /\ ~cancelled
  BY DEF ProxyInit, Init, NoHandlers, Stages
<1>. QED
  BY <1>1 DEF ProxyInit, SupInv, ListeningTimes, CancelTimes, ReasonTimes, QuietTimes,
              TotalsInv, FailedStartInv, SinkTimes

(* It holds throughout the command.                                        *)
THEOREM SupervisorKept == ProxySpec => []SupInv
<1>1. DataInv => TypeOK
  BY DEF DataInv
<1>. QED
  BY <1>1, InitSup, NextSup, DataPlaneKept, PTL DEF ProxySpec

(* Nothing is counted behind the totals of a shutdown with reason signal.  *)
THEOREM TotalsFinal == ProxySpec => []FinalTotalsAreFinal
<1>1. SupInv => FinalTotalsAreFinal
  BY DEF SupInv, TotalsInv, FinalTotalsAreFinal
<1>. QED
  BY <1>1, SupervisorKept, PTL

(* A start that fails half-way leaves no request, no listener and no       *)
(* goroutine but the one that drains statsSink's channel.                  *)
THEOREM OnlySinkLeftBehind == ProxySpec => []FailedStartLeavesOnlySink
<1>1. SupInv => FailedStartLeavesOnlySink
  BY DEF SupInv, FailedStartInv, ListeningTimes, FailedStartLeavesOnlySink
<1>. QED
  BY <1>1, SupervisorKept, PTL
=============================================================================
