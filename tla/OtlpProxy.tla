------------------------------ MODULE OtlpProxy ------------------------------
(***************************************************************************)
(* `dash0 otlp proxy` as a whole: the supervisor runProxy                  *)
(* (proxy_lifecycle.go) around the data plane of ProxyForward.  It binds   *)
(* the ports, launches the goroutines, starts the receivers, announces     *)
(* itself, waits for a signal, and shuts everything down under a deadline. *)
(*                                                                         *)
(* main() wires SIGINT and SIGTERM into the root context, from which       *)
(* runProxy's supCtx is derived, so one signal reaches runProxy twice: on  *)
(* its own sigCh and as the end of the context every worker selects on.    *)
(***************************************************************************)
EXTENDS ProxyForward

CONSTANT SinkDepth    \* capacity of statsSink's channel

ASSUME SinkAssumption == SinkDepth \in Nat

VARIABLES
    sup,              \* where runProxy is
    listening,        \* the receivers accept requests
    interrupted,      \* SIGINT or SIGTERM was delivered to the process
    sigCh,            \* the signal waits in runProxy's own channel
    expired,          \* shutdownCtx is past proxyShutdownDeadline
    finalTotals,      \* the totals of the shutdown event
    reason,           \* "none"; the shutdown event's reason, or "error"
    sampler,          \* the rate sampler's goroutine: "launched", "runs", "exited"
    sinkUp,           \* the goroutine statsSink starts runs
    pending           \* how many snapshots wait in statsSink's channel

supVars == <<sup, listening, interrupted, sigCh, expired, finalTotals, reason>>
samplerVars == <<sampler, sinkUp, pending>>
dataVars == <<vars, samplerVars>>
allVars == <<dataVars, supVars>>

SupStates == {"build", "start", "startRest", "rollback", "abort", "banner",
              "announceStarted", "select", "announceStop", "stop", "drain",
              "cancel", "totals", "emitShutdown", "wait", "exited"}

GoTo(state) == sup' = state

NoHandlers == \A b \in Batches : call[b] \notin Stages

(* What wg awaits: both writers, the workers and the rate sampler.         *)
GoroutinesDone ==
    /\ \A s \in Signals : worker[s] = "exited"
    /\ ~stdoutUp /\ ~stderrUp
    /\ sampler = "exited"

(* preBindPort binds and closes; a port in use ends the command at once. *)
Build ==
    /\ sup = "build"
    /\ \/ GoTo("start") /\ UNCHANGED reason
       \/ GoTo("exited") /\ reason' = "error"
    /\ UNCHANGED <<listening, interrupted, sigCh, expired, finalTotals, dataVars>>

(* Pipeline.Start: the receivers share one server, up with the first of    *)
(* them; another process may have taken the port since preBindPort.        *)
StartFirst ==
    /\ sup = "start"
    /\ \/ GoTo("startRest") /\ listening' = TRUE
       \/ GoTo("abort") /\ UNCHANGED listening
    /\ UNCHANGED <<interrupted, sigCh, expired, finalTotals, reason, dataVars>>

StartRest ==
    /\ sup = "startRest"
    /\ \/ GoTo("banner") /\ UNCHANGED listening
       \/ GoTo("rollback") /\ listening' = FALSE
    /\ UNCHANGED <<interrupted, sigCh, expired, finalTotals, reason, dataVars>>

(* The receivers that did start are shut down, which awaits their calls    *)
(* until supCtx is done.                                                   *)
Rollback ==
    /\ sup = "rollback"
    /\ NoHandlers \/ cancelled
    /\ GoTo("abort")
    /\ UNCHANGED <<listening, interrupted, sigCh, expired, finalTotals, reason, dataVars>>

(* Start failed: supCancel, then wg.Wait without a deadline. *)
Abort ==
    /\ sup = "abort"
    /\ cancelled' = TRUE
    /\ reason' = "error"
    /\ GoTo("wait")
    /\ UNCHANGED <<listening, interrupted, sigCh, expired, finalTotals>>
    /\ UNCHANGED <<hotVars, queue, workerVars, statsVars, stdoutVars, authVars, stderrUp, now>>
    /\ UNCHANGED samplerVars

(* A blocking send on lifecycleCh. *)
SendLifecycle(message) ==
    /\ Len(lifecycle) < LifecycleDepth
    /\ lifecycle' = Append(lifecycle, message)
    /\ UNCHANGED <<lastAuthWarn, authWarnings, hotVars, queue, workerVars, statsVars, stdoutVars, ctxVars>>
    /\ UNCHANGED samplerVars

Banner ==
    /\ sup = "banner"
    /\ SendLifecycle("banner")
    /\ GoTo("announceStarted")
    /\ UNCHANGED <<listening, interrupted, sigCh, expired, finalTotals, reason>>

EmitStarted ==
    /\ sup = "announceStarted"
    /\ Emit([name |-> "started"])
    /\ GoTo("select")
    /\ UNCHANGED <<listening, interrupted, sigCh, expired, finalTotals, reason>>
    /\ UNCHANGED <<stdout, stdoutUp, tail, hotVars, queue, workerVars, statsVars, authVars, ctxVars>>
    /\ UNCHANGED samplerVars

\* Mutant: only sigCh is awaited.
AwaitSigChOnly ==
    /\ sup = "select"
    /\ sigCh /\ GoTo("announceStop") /\ sigCh' = FALSE
    /\ UNCHANGED <<listening, interrupted, expired, finalTotals, reason, dataVars>>

(* select on supCtx.Done and sigCh: either, when both are ready. *)
AwaitSignal ==
    /\ sup = "select"
    /\ \/ cancelled /\ GoTo("stop") /\ UNCHANGED sigCh
       \/ sigCh /\ GoTo("announceStop") /\ sigCh' = FALSE
    /\ UNCHANGED <<listening, interrupted, expired, finalTotals, reason, dataVars>>

AnnounceStop ==
    /\ sup = "announceStop"
    /\ SendLifecycle("shuttingDown")
    /\ GoTo("stop")
    /\ UNCHANGED <<listening, interrupted, sigCh, expired, finalTotals, reason>>

(* Pipeline.Shutdown: no new requests, then await those in flight. *)
StopListening ==
    /\ sup = "stop"
    /\ listening' = FALSE
    /\ GoTo("drain")
    /\ UNCHANGED <<interrupted, sigCh, expired, finalTotals, reason, dataVars>>

\* Mutant: requests in flight are not awaited.
DrainCallsAtOnce ==
    /\ sup = "drain"
    /\ GoTo("cancel")
    /\ UNCHANGED <<listening, interrupted, sigCh, expired, finalTotals, reason, dataVars>>

DrainCalls ==
    /\ sup = "drain"
    /\ NoHandlers \/ expired
    /\ GoTo("cancel")
    /\ UNCHANGED <<listening, interrupted, sigCh, expired, finalTotals, reason, dataVars>>

SupCancel ==
    /\ sup = "cancel"
    /\ cancelled' = TRUE
    /\ GoTo("totals")
    /\ UNCHANGED <<listening, interrupted, sigCh, expired, finalTotals, reason>>
    /\ UNCHANGED <<hotVars, queue, workerVars, statsVars, stdoutVars, authVars, stderrUp, now>>
    /\ UNCHANGED samplerVars

ReadTotals ==
    /\ sup = "totals"
    /\ finalTotals' = forwarded
    /\ GoTo("emitShutdown")
    /\ UNCHANGED <<listening, interrupted, sigCh, expired, reason, dataVars>>

EmitShutdown ==
    /\ sup = "emitShutdown"
    /\ reason' = IF expired THEN "deadline" ELSE "signal"
    /\ Emit([name |-> "shutdown"])
    /\ GoTo("wait")
    /\ UNCHANGED <<listening, interrupted, sigCh, expired, finalTotals>>
    /\ UNCHANGED <<stdout, stdoutUp, tail, hotVars, queue, workerVars, statsVars, authVars, ctxVars>>
    /\ UNCHANGED samplerVars

\* Mutant: a failed start returns without wg.Wait.
WaitNotOnError ==
    /\ sup = "wait"
    /\ GoroutinesDone \/ reason = "error" \/ expired
    /\ GoTo("exited")
    /\ UNCHANGED <<listening, interrupted, sigCh, expired, finalTotals, reason, dataVars>>

(* waitWithDeadline; a failed start waits without one. *)
Wait ==
    /\ sup = "wait"
    /\ GoroutinesDone \/ (reason # "error" /\ expired)
    /\ GoTo("exited")
    /\ UNCHANGED <<listening, interrupted, sigCh, expired, finalTotals, reason, dataVars>>

Supervisor ==
    \/ Build \/ StartFirst \/ StartRest \/ Rollback \/ Abort
    \/ Banner \/ EmitStarted \/ AwaitSignal \/ AnnounceStop \/ StopListening
    \/ DrainCalls \/ SupCancel \/ ReadTotals \/ EmitShutdown \/ Wait

(***************************************************************************)
(* The surroundings of runProxy.                                           *)
(***************************************************************************)

(* A signal reaches sigCh once signal.Notify registered it.  Further       *)
(* signals change nothing: NotifyContext and sigCh both swallow them.      *)
Interrupt ==
    /\ ~interrupted
    /\ sup \notin {"build", "exited"}
    /\ interrupted' = TRUE
    /\ sigCh' = (sup = "select")
    /\ UNCHANGED <<sup, listening, expired, finalTotals, reason, dataVars>>

RootCancel ==
    /\ interrupted
    /\ Cancel
    /\ UNCHANGED <<supVars, samplerVars>>

(* The five seconds of shutdownCtx pass. *)
Expire ==
    /\ sup \in {"stop", "drain", "cancel", "totals", "emitShutdown", "wait"}
    /\ reason # "error"
    /\ ~expired
    /\ expired' = TRUE
    /\ UNCHANGED <<sup, listening, interrupted, sigCh, finalTotals, reason, dataVars>>

(* The goroutines run from their launch in Build to the end of the process. *)
Alive == sup \notin {"build", "exited"}

DataPlane ==
    /\ Alive
    /\ \/ \E b \in Batches : (listening /\ Export(b)) \/ Handler(b)
       \/ \E s \in Signals : Worker(s)
       \/ Writers
       \/ Tick
    /\ UNCHANGED <<supVars, samplerVars>>

(***************************************************************************)
(* The rate sampler and the goroutine behind statsSink.  ProxyStats says   *)
(* what they sample and emit; here they are two goroutines more, of which  *)
(* the second ranges over a channel nobody closes and is in no WaitGroup.  *)
(***************************************************************************)

(* The sampler's goroutine evaluates statsSink(emitter), then runs.        *)
SamplerStarts ==
    /\ Alive
    /\ sampler = "launched"
    /\ sampler' = "runs" /\ sinkUp' = TRUE
    /\ UNCHANGED <<pending, vars, supVars>>

(* The ticker fires; a full channel misses the snapshot.                   *)
Sample ==
    /\ Alive
    /\ sampler = "runs"
    /\ pending' = IF pending < SinkDepth THEN pending + 1 ELSE pending
    /\ UNCHANGED <<sampler, sinkUp, vars, supVars>>

SamplerExits ==
    /\ Alive
    /\ sampler = "runs"
    /\ cancelled
    /\ sampler' = "exited"
    /\ UNCHANGED <<sinkUp, pending, vars, supVars>>

EmitStats ==
    /\ Alive
    /\ sinkUp /\ pending > 0
    /\ pending' = pending - 1
    /\ Emit([name |-> "stats"])
    /\ UNCHANGED <<stdout, stdoutUp, tail, hotVars, queue, workerVars, statsVars, authVars, ctxVars>>
    /\ UNCHANGED <<sampler, sinkUp, supVars>>

Sampler == SamplerStarts \/ Sample \/ SamplerExits \/ EmitStats

ProxyInit ==
    /\ Init
    /\ sup = "build" /\ listening = FALSE
    /\ interrupted = FALSE /\ sigCh = FALSE /\ expired = FALSE
    /\ finalTotals = [s \in Signals |-> 0] /\ reason = "none"
    /\ sampler = "launched" /\ sinkUp = FALSE /\ pending = 0

ProxyNext == Supervisor \/ Interrupt \/ RootCancel \/ Expire \/ DataPlane \/ Sampler

ProxySpec == ProxyInit /\ [][ProxyNext]_allVars

(***************************************************************************)
(* Fairness.  Handlers, workers, the sampler and the supervisor are        *)
(* running goroutines: a step that stays possible is taken (a worker's     *)
(* Send is bounded by the API client's timeout and retry limit; the        *)
(* sampler's ticker lets the end of the context through).  The root        *)
(* context ends and the deadline passes.  The writers are not fair:        *)
(* nothing makes a terminal or a pipe read.                                *)
(***************************************************************************)
Goroutine(Step) == Alive /\ Step /\ UNCHANGED <<supVars, samplerVars>>

Fairness ==
    /\ \A b \in Batches : WF_allVars(Goroutine(Handler(b)))
    /\ \A s \in Signals : WF_allVars(Goroutine(Worker(s)))
    /\ WF_allVars(Supervisor) /\ WF_allVars(RootCancel) /\ WF_allVars(Expire)
    /\ WF_allVars(SamplerStarts \/ SamplerExits)

StuckWritersSpec == ProxySpec /\ Fairness

(***************************************************************************)
(* Properties that hold.                                                   *)
(***************************************************************************)

(* The supervisor's and the sampler's variables have their types, and no   *)
(* more snapshots wait than statsSink's channel holds; TypeOK covers the   *)
(* rest (proxy_lifecycle.go:258-269).                                      *)
ProxyTypeOK ==
    /\ TypeOK
    /\ sup \in SupStates
    /\ listening \in BOOLEAN /\ interrupted \in BOOLEAN
    /\ sigCh \in BOOLEAN /\ expired \in BOOLEAN
    /\ finalTotals \in [Signals -> Nat]
    /\ reason \in {"none", "signal", "deadline", "error"}
    /\ sampler \in {"launched", "runs", "exited"}
    /\ sinkUp \in BOOLEAN
    /\ pending \in 0 .. SinkDepth

(* "Final cumulative totals" (docs/commands.md:2066): once shutdown is     *)
(* announced with reason "signal" its totals stay the truth; nothing is    *)
(* counted behind the announcement (proxy_lifecycle.go:227-247).           *)
FinalTotalsAreFinal == reason = "signal" => finalTotals = forwarded

(* When runProxy returns after a start that failed half-way, no listener,  *)
(* no open request and none of the goroutines wg counts is left; a signal  *)
(* may cut the wait for requests (proxy_lifecycle.go:195-200,              *)
(* proxy_pipeline.go:132-146).  What is left, always, is the goroutine of  *)
(* statsSink, which nothing ends (proxy_lifecycle.go:258-269).             *)
FailedStartLeavesOnlySink ==
    sup = "exited" /\ reason = "error" /\ cancelled =>
        GoroutinesDone /\ sinkUp /\ ~listening /\ (NoHandlers \/ interrupted)

(* "The hot path must never stall" (proxy_events.go:173-184): no request   *)
(* stays unanswered while the process lives, even when the writers stand   *)
(* still.                                                                  *)
EveryExportAnswered ==
    \A b \in Batches : []<>(call[b] \notin Stages \/ sup = "exited")

(* An accepted batch (it stays accepted) is attempted upstream, unless the *)
(* context is done first (proxy_workers.go:102-144).                       *)
AcceptedIsAttempted ==
    \A b \in Batches :
        []<>(call[b] = "accepted" =>
                cancelled \/ \E i \in DOMAIN done[SignalOf[b]] : done[SignalOf[b]][i] = b)

(* A signal ends the command even when the writers stand still, but for    *)
(* two places that wait without a deadline: a send on a full lifecycle     *)
(* channel nobody reads (proxy_lifecycle.go:206,220), and wg.Wait after a  *)
(* failed start while a writer is stuck (proxy_lifecycle.go:198).          *)
Wedged ==
    \/ sup \in {"banner", "announceStop"} /\ Len(lifecycle) = LifecycleDepth
    \/ sup = "wait" /\ reason = "error" /\ (stdoutUp \/ stderrUp)
SignalEndsUnlessWedged == []<>(interrupted => sup = "exited" \/ Wedged)

(***************************************************************************)
(* What the documentation says and the code does not do.                   *)
(***************************************************************************)

(* "On signal, it ... drains in-flight RPCs and worker queues within a     *)
(* 5-second deadline" (docs/commands.md:2066): an exit that did not hit    *)
(* the deadline leaves no accepted batch behind.                           *)
DrainedAtExit ==
    sup = "exited" /\ reason = "signal" =>
        \A s \in Signals : queue[s] = << >> /\ inflight[s] = << >>
=============================================================================
