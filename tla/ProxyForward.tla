---------------------------- MODULE ProxyForward ----------------------------
(***************************************************************************)
(* The data plane of `dash0 otlp proxy` (internal/otlp): receiver threads  *)
(* deliver batches to ProxyConsumer, which counts and announces each one   *)
(* and puts it on the bounded channel of its signal; one worker per signal *)
(* takes batches off that channel and sends them upstream; a writer drains *)
(* each of the event, tail and lifecycle channels.  Every arrow between    *)
(* goroutines is a buffered Go channel, and every send on the hot path is  *)
(* `select { case ch <- v: default: }`.                                    *)
(*                                                                         *)
(* A batch is a model value; a receiver thread is identified with the      *)
(* batch it delivers, so batches are delivered concurrently.               *)
(***************************************************************************)
EXTENDS Integers, Sequences, FiniteSetsExt

CONSTANTS
    Signals,          \* the signals of the proxy: logs, spans, metrics
    Batches,          \* the batches the SDKs export
    SignalOf,         \* [Batches -> Signals]
    CountOf,          \* [Batches -> Nat]: records in the batch; empty batches exist
    Statuses,         \* what a failed Send reports: HTTP statuses, NoAPIError
    Mode,             \* "agent" (events on stdout), "tail" (--tail), or "plain"
    QueueDepth,       \* signalQueueDepth
    EventDepth,       \* stdoutEventBufferDepth
    TailDepth,        \* capacity of the tail channel
    LifecycleDepth,   \* stderrChannelDepth
    Throttle,         \* authErrorThrottle, in clock ticks
    MaxAttempts,      \* bound: how often an SDK exports the same batch
    MaxTime           \* bound: the last clock tick

NoAPIError == 0       \* the error wraps no dash0api.APIError
Never == -1           \* the zero time.Time

ASSUME ConstantsAssumption ==
    /\ SignalOf \in [Batches -> Signals]
    /\ CountOf \in [Batches -> Nat]
    /\ Statuses \subseteq Nat
    /\ Mode \in {"agent", "tail", "plain"}
    /\ QueueDepth \in Nat \ {0}
    /\ EventDepth \in Nat /\ TailDepth \in Nat /\ LifecycleDepth \in Nat
    /\ Throttle \in Nat /\ MaxAttempts \in Nat /\ MaxTime \in Nat

VARIABLES
    call,             \* where the handler delivering a batch is, or its answer
    attempts,         \* how often the batch was exported
    queue,            \* logsCh, tracesCh, metricsCh
    worker,           \* where the worker of a signal is
    inflight,         \* the batches (at most one) the worker holds
    status,           \* the status of the failure the worker is reporting
    forwarded,        \* Stats.forwarded
    failed,           \* Stats.failed
    events,           \* the event channel
    stdout,           \* the events written to stdout
    stdoutUp,         \* the goroutine draining events (or tail) still runs
    tail,             \* the tail channel
    lifecycle,        \* lifecycleCh
    stderrUp,         \* the goroutine draining lifecycleCh still runs
    lastAuthWarn,     \* WorkerPool.lastAuthWarn
    now,              \* the clock
    cancelled,        \* supCtx is done
    accepted,         \* history: the batches a signal's channel took, in order
    done,             \* history: the batches whose Send returned, in order
    delivered,        \* history: the batches Send returned nil for
    refused,          \* history: the batches Send returned an error for
    authWarnings      \* history: when an authentication warning was queued

hotVars == <<call, attempts, accepted>>
workerVars == <<worker, inflight, status, done, delivered, refused>>
statsVars == <<forwarded, failed>>
stdoutVars == <<events, stdout, stdoutUp, tail>>
authVars == <<lifecycle, lastAuthWarn, authWarnings>>
ctxVars == <<stderrUp, now, cancelled>>
vars == <<hotVars, queue, workerVars, statsVars, stdoutVars, authVars, ctxVars>>

(***************************************************************************)
(* ProxyConsumer.  ConsumeX runs these stages in this order; a batch       *)
(* without records skips observe and goes straight to the channel.         *)
(***************************************************************************)
Stages == {"count", "announce", "render", "enqueue"}
Answers == {"accepted", "rejected"}

ConsumeEntry(b) == IF CountOf[b] > 0 THEN "count" ELSE "enqueue"

AfterStage(stage) == CASE stage = "count"    -> "announce"
                       [] stage = "announce" -> "render"
                       [] stage = "render"   -> "enqueue"

\* Mutant: the send does not give up on a full buffer.
TrySendUnbounded(ch, depth, v) == Append(ch, v)

(* A channel send that gives up when the buffer is full. *)
TrySend(ch, depth, v) == IF Len(ch) < depth THEN Append(ch, v) ELSE ch

(* Emitter.send; outside agent mode the channel is nil. *)
Emit(event) ==
    events' = IF Mode = "agent" THEN TrySend(events, EventDepth, event) ELSE events

(* An SDK exports the batch, or exports it again after "queue full". *)
Export(b) ==
    /\ call[b] \in {"idle", "rejected"}
    /\ attempts[b] < MaxAttempts
    /\ attempts' = [attempts EXCEPT ![b] = @ + 1]
    /\ call' = [call EXCEPT ![b] = ConsumeEntry(b)]
    /\ UNCHANGED <<accepted, queue, workerVars, statsVars, stdoutVars, authVars, ctxVars>>

Advance(b, stage) ==
    /\ call[b] = stage
    /\ call' = [call EXCEPT ![b] = AfterStage(stage)]
    /\ UNCHANGED <<attempts, accepted>>

RecordForwarded(b) ==
    /\ Advance(b, "count")
    /\ forwarded' = [forwarded EXCEPT ![SignalOf[b]] = @ + CountOf[b]]
    /\ UNCHANGED <<failed, queue, workerVars, stdoutVars, authVars, ctxVars>>

\* Mutant: the batch is announced only after it was enqueued.
EmitForwardedLate(b) ==
    /\ \/ Advance(b, "announce") /\ UNCHANGED events
       \/ call[b] = "accepted" /\ Emit([name |-> "forwarded", batch |-> b]) /\ UNCHANGED hotVars
    /\ UNCHANGED <<stdout, stdoutUp, tail, queue, workerVars, statsVars, authVars, ctxVars>>

EmitForwarded(b) ==
    /\ Advance(b, "announce")
    /\ Emit([name |-> "forwarded", batch |-> b])
    /\ UNCHANGED <<stdout, stdoutUp, tail, queue, workerVars, statsVars, authVars, ctxVars>>

RenderTail(b) ==
    /\ Advance(b, "render")
    /\ tail' = IF Mode = "tail" THEN TrySend(tail, TailDepth, b) ELSE tail
    /\ UNCHANGED <<events, stdout, stdoutUp, queue, workerVars, statsVars, authVars, ctxVars>>

Accept(b) ==
    LET s == SignalOf[b] IN
    /\ queue' = [queue EXCEPT ![s] = Append(@, b)]
    /\ accepted' = [accepted EXCEPT ![s] = Append(@, b)]
    /\ call' = [call EXCEPT ![b] = "accepted"]

\* Mutant: the send blocks until there is room: no default branch.
RejectNever(b) == FALSE

\* Mutant: the batch is queued although it is answered with an error.
RejectQueued(b) ==
    LET s == SignalOf[b] IN
    /\ queue' = [queue EXCEPT ![s] = Append(@, b)]
    /\ accepted' = [accepted EXCEPT ![s] = Append(@, b)]
    /\ call' = [call EXCEPT ![b] = "rejected"]

Reject(b) ==
    /\ call' = [call EXCEPT ![b] = "rejected"]
    /\ UNCHANGED <<queue, accepted>>

\* Mutant: off by one.
QueueOverfull(b) == Len(queue[SignalOf[b]]) > QueueDepth

QueueFull(b) == Len(queue[SignalOf[b]]) >= QueueDepth

(* The non-blocking send on the signal's channel, and the answer. *)
Enqueue(b) ==
    /\ call[b] = "enqueue"
    /\ IF QueueFull(b) THEN Reject(b) ELSE Accept(b)
    /\ UNCHANGED <<attempts, workerVars, statsVars, stdoutVars, authVars, ctxVars>>

Handler(b) == RecordForwarded(b) \/ EmitForwarded(b) \/ RenderTail(b) \/ Enqueue(b)

(***************************************************************************)
(* WorkerPool: one goroutine per signal.  A worker that finds both its     *)
(* channel non-empty and the context done may do either, as `select` does. *)
(***************************************************************************)
WorkerStates == {"idle", "send", "recordFailed", "emitError", "warn", "exited"}

ErrorKind(code) ==
    CASE code \in {401, 403}                       -> "upstream_4xx_auth"
      [] code \in (400 .. 499) \ {401, 403}        -> "upstream_4xx_other"
      [] code \in 500 .. 599                       -> "upstream_5xx"
      [] OTHER                                     -> "upstream_unreachable"

(* The worker is through with the batch it holds. *)
Finish(s) ==
    /\ done' = [done EXCEPT ![s] = @ \o inflight[s]]
    /\ inflight' = [inflight EXCEPT ![s] = << >>]

\* Mutant: the newest batch first.
TakeNewest(s) ==
    /\ worker[s] = "idle"
    /\ queue[s] # << >>
    /\ inflight' = [inflight EXCEPT ![s] = <<queue[s][Len(queue[s])]>>]
    /\ queue' = [queue EXCEPT ![s] = SubSeq(@, 1, Len(@) - 1)]
    /\ worker' = [worker EXCEPT ![s] = "send"]
    /\ UNCHANGED <<status, done, delivered, refused, hotVars, statsVars, stdoutVars, authVars, ctxVars>>

Take(s) ==
    /\ worker[s] = "idle"
    /\ queue[s] # << >>
    /\ inflight' = [inflight EXCEPT ![s] = <<Head(queue[s])>>]
    /\ queue' = [queue EXCEPT ![s] = Tail(@)]
    /\ worker' = [worker EXCEPT ![s] = "send"]
    /\ UNCHANGED <<status, done, delivered, refused, hotVars, statsVars, stdoutVars, authVars, ctxVars>>

\* Mutant: classifyOutcome does not return early on a nil error.
SendOkUnchecked(s) ==
    /\ worker[s] = "send"
    /\ worker' = [worker EXCEPT ![s] = "recordFailed"]
    /\ delivered' = delivered \union {inflight[s][1]}
    /\ UNCHANGED <<inflight, status, done, refused, hotVars, queue, statsVars, stdoutVars, authVars, ctxVars>>

(* Send returns: nil, or an error carrying a status. *)
SendOk(s) ==
    /\ worker[s] = "send"
    /\ worker' = [worker EXCEPT ![s] = "idle"]
    /\ Finish(s)
    /\ delivered' = delivered \union {inflight[s][1]}
    /\ UNCHANGED <<status, refused, hotVars, queue, statsVars, stdoutVars, authVars, ctxVars>>

SendFails(s) ==
    /\ worker[s] = "send"
    /\ \E code \in Statuses : status' = [status EXCEPT ![s] = code]
    /\ worker' = [worker EXCEPT ![s] = "recordFailed"]
    /\ refused' = refused \union {inflight[s][1]}
    /\ UNCHANGED <<inflight, done, delivered, hotVars, queue, statsVars, stdoutVars, authVars, ctxVars>>

\* Mutant: the batch whose Send panicked is queued again.
PanicRequeues(s) ==
    /\ worker[s] = "send"
    /\ Len(queue[s]) < QueueDepth
    /\ Emit([name |-> "error", batch |-> inflight[s][1]])
    /\ worker' = [worker EXCEPT ![s] = "idle"]
    /\ Finish(s)
    /\ queue' = [queue EXCEPT ![s] = @ \o inflight[s]]
    /\ UNCHANGED <<status, delivered, refused, stdout, stdoutUp, tail, hotVars, statsVars, authVars, ctxVars>>

\* Mutant: no recoverPanic; the worker goroutine ends.
PanicKillsWorker(s) ==
    /\ worker[s] = "send"
    /\ worker' = [worker EXCEPT ![s] = "exited"]
    /\ Finish(s)
    /\ UNCHANGED <<status, delivered, refused, hotVars, queue, statsVars, stdoutVars, authVars, ctxVars>>

(* Decorating or sending the batch panics; recoverPanic reports it, uncounted. *)
Panic(s) ==
    /\ worker[s] = "send"
    /\ Emit([name |-> "error", batch |-> inflight[s][1]])
    /\ worker' = [worker EXCEPT ![s] = "idle"]
    /\ Finish(s)
    /\ UNCHANGED <<status, delivered, refused, stdout, stdoutUp, tail, hotVars, queue, statsVars, authVars, ctxVars>>

RecordFailed(s) ==
    /\ worker[s] = "recordFailed"
    /\ failed' = [failed EXCEPT ![s] = @ + CountOf[inflight[s][1]]]
    /\ worker' = [worker EXCEPT ![s] = "emitError"]
    /\ UNCHANGED <<forwarded, inflight, status, done, delivered, refused, hotVars, queue, stdoutVars, authVars, ctxVars>>

(* EmitError; after it classifyOutcome is over, unless the kind is auth. *)
EmitError(s) ==
    /\ worker[s] = "emitError"
    /\ Emit([name |-> "error", batch |-> inflight[s][1]])
    /\ worker' = [worker EXCEPT ![s] =
            IF ErrorKind(status[s]) = "upstream_4xx_auth" THEN "warn" ELSE "idle"]
    /\ Finish(s)
    /\ status' = [status EXCEPT ![s] = NoAPIError]
    /\ UNCHANGED <<delivered, refused, stdout, stdoutUp, tail, hotVars, queue, statsVars, authVars, ctxVars>>

\* Mutant: the window is a tick short.
WithinShortThrottle == lastAuthWarn # Never /\ now - lastAuthWarn < Throttle - 1

WithinThrottle == lastAuthWarn # Never /\ now - lastAuthWarn < Throttle

LifecycleFull == Len(lifecycle) >= LifecycleDepth

\* Mutant: the timestamp is set although the line was dropped.
SurfaceAuthErrorEager(s) ==
    /\ worker[s] = "warn"
    /\ worker' = [worker EXCEPT ![s] = "idle"]
    /\ IF ~WithinThrottle
       THEN /\ lifecycle' = TrySend(lifecycle, LifecycleDepth, "authFailed")
            /\ lastAuthWarn' = now
            /\ authWarnings' = Append(authWarnings, now)
       ELSE UNCHANGED authVars
    /\ UNCHANGED <<inflight, status, done, delivered, refused, hotVars, queue, statsVars, stdoutVars, ctxVars>>

(* maybeSurfaceAuthError, atomic under authMu. *)
SurfaceAuthError(s) ==
    /\ worker[s] = "warn"
    /\ worker' = [worker EXCEPT ![s] = "idle"]
    /\ IF ~WithinThrottle /\ ~LifecycleFull
       THEN /\ lifecycle' = Append(lifecycle, "authFailed")
            /\ lastAuthWarn' = now
            /\ authWarnings' = Append(authWarnings, now)
       ELSE UNCHANGED authVars
    /\ UNCHANGED <<inflight, status, done, delivered, refused, hotVars, queue, statsVars, stdoutVars, ctxVars>>

WorkerExits(s) ==
    /\ worker[s] = "idle"
    /\ cancelled
    /\ worker' = [worker EXCEPT ![s] = "exited"]
    /\ UNCHANGED <<inflight, status, done, delivered, refused, hotVars, queue, statsVars, stdoutVars, authVars, ctxVars>>

Worker(s) ==
    \/ Take(s) \/ SendOk(s) \/ SendFails(s) \/ Panic(s)
    \/ RecordFailed(s) \/ EmitError(s) \/ SurfaceAuthError(s) \/ WorkerExits(s)

(***************************************************************************)
(* The writers.                                                            *)
(***************************************************************************)

(* StdoutWriter.Run: the event is written, or dropped when marshalling it  *)
(* fails, or the write fails and Run returns.                              *)
WriteEvent ==
    /\ stdoutUp
    /\ events # << >>
    /\ events' = Tail(events)
    /\ \/ stdout' = Append(stdout, Head(events)) /\ UNCHANGED stdoutUp
       \/ UNCHANGED <<stdout, stdoutUp>>
       \/ stdoutUp' = FALSE /\ UNCHANGED stdout
    /\ UNCHANGED <<tail, hotVars, queue, workerVars, statsVars, authVars, ctxVars>>

PrintTail ==
    /\ stdoutUp
    /\ tail # << >>
    /\ tail' = Tail(tail)
    /\ UNCHANGED <<events, stdout, stdoutUp, hotVars, queue, workerVars, statsVars, authVars, ctxVars>>

StdoutExits ==
    /\ stdoutUp /\ cancelled
    /\ stdoutUp' = FALSE
    /\ UNCHANGED <<events, stdout, tail, hotVars, queue, workerVars, statsVars, authVars, ctxVars>>

(* StderrWriter.Run. *)
ShowLifecycle ==
    /\ stderrUp
    /\ lifecycle # << >>
    /\ lifecycle' = Tail(lifecycle)
    /\ UNCHANGED <<lastAuthWarn, authWarnings, hotVars, queue, workerVars, statsVars, stdoutVars, ctxVars>>

StderrExits ==
    /\ stderrUp /\ cancelled
    /\ stderrUp' = FALSE
    /\ UNCHANGED <<now, cancelled, hotVars, queue, workerVars, statsVars, stdoutVars, authVars>>

Writers == WriteEvent \/ PrintTail \/ StdoutExits \/ ShowLifecycle \/ StderrExits

Tick ==
    /\ now < MaxTime
    /\ now' = now + 1
    /\ UNCHANGED <<stderrUp, cancelled, hotVars, queue, workerVars, statsVars, stdoutVars, authVars>>

(* supCancel, or the root context on SIGINT and SIGTERM. *)
Cancel ==
    /\ ~cancelled
    /\ cancelled' = TRUE
    /\ UNCHANGED <<stderrUp, now, hotVars, queue, workerVars, statsVars, stdoutVars, authVars>>

Init ==
    /\ call = [b \in Batches |-> "idle"]
    /\ attempts = [b \in Batches |-> 0]
    /\ queue = [s \in Signals |-> << >>]
    /\ worker = [s \in Signals |-> "idle"]
    /\ inflight = [s \in Signals |-> << >>]
    /\ status = [s \in Signals |-> NoAPIError]
    /\ forwarded = [s \in Signals |-> 0]
    /\ failed = [s \in Signals |-> 0]
    /\ events = << >> /\ stdout = << >> /\ stdoutUp = (Mode # "plain")
    /\ tail = << >>
    /\ lifecycle = << >> /\ stderrUp = TRUE
    /\ lastAuthWarn = Never /\ now = 0
    /\ cancelled = FALSE
    /\ accepted = [s \in Signals |-> << >>]
    /\ done = [s \in Signals |-> << >>]
    /\ delivered = {} /\ refused = {}
    /\ authWarnings = << >>

Next ==
    \/ \E b \in Batches : Export(b) \/ Handler(b)
    \/ \E s \in Signals : Worker(s)
    \/ Writers \/ Tick \/ Cancel

Spec == Init /\ [][Next]_vars

(***************************************************************************)
(* Properties.                                                             *)
(***************************************************************************)
(* started, stats and shutdown are emitted by goroutines of OtlpProxy. *)
Event == [name : {"forwarded", "error"}, batch : Batches]
            \union [name : {"started", "stats", "shutdown"}]

Holding == {"send", "recordFailed", "emitError"}

CallsOK ==
    /\ call \in [Batches -> Stages \union Answers \union {"idle"}]
    /\ attempts \in [Batches -> 0 .. MaxAttempts]
QueuesOK ==
    /\ queue \in [Signals -> Seq(Batches)]
    /\ \A s \in Signals : Len(queue[s]) <= QueueDepth
WorkersOK ==
    /\ worker \in [Signals -> WorkerStates]
    /\ inflight \in [Signals -> Seq(Batches)]
    /\ \A s \in Signals : Len(inflight[s]) = IF worker[s] \in Holding THEN 1 ELSE 0
    /\ status \in [Signals -> Statuses \union {NoAPIError}]
StatsOK == forwarded \in [Signals -> Nat] /\ failed \in [Signals -> Nat]
StdoutOK ==
    /\ events \in Seq(Event) /\ Len(events) <= EventDepth
    /\ tail \in Seq(Batches) /\ Len(tail) <= TailDepth
    /\ stdout \in Seq(Event)
AuthOK ==
    /\ lifecycle \in Seq({"authFailed", "banner", "shuttingDown"})
    /\ Len(lifecycle) <= LifecycleDepth
    /\ now \in 0 .. MaxTime /\ lastAuthWarn \in {Never} \union 0 .. MaxTime
    /\ authWarnings \in Seq(0 .. MaxTime)
FlagsOK == stdoutUp \in BOOLEAN /\ stderrUp \in BOOLEAN /\ cancelled \in BOOLEAN
HistoriesOK ==
    /\ accepted \in [Signals -> Seq(Batches)]
    /\ done \in [Signals -> Seq(Batches)]
    /\ delivered \in SUBSET Batches /\ refused \in SUBSET Batches

(* Every variable has its type, no channel exceeds its buffer, and a       *)
(* worker holds a batch exactly while it sends it or reports its failure   *)
(* (proxy_consumer.go:44-73, proxy_workers.go:146-185).                    *)
TypeOK ==
    /\ CallsOK /\ QueuesOK /\ WorkersOK /\ StatsOK
    /\ StdoutOK /\ AuthOK /\ FlagsOK /\ HistoriesOK

(* What a channel accepted is, in the order of acceptance, what its worker *)
(* is through with, then what it holds, then what is still queued: nothing *)
(* is lost, duplicated, invented or reordered (proxy_workers.go:36-40).    *)
InOrder ==
    \A s \in Signals : accepted[s] = done[s] \o inflight[s] \o queue[s]

(* Per signal the proxy is the bounded ordered relay of OrderedRelay, which  *)
(* owes what is queued and the one batch its worker holds.                 *)
Relay == INSTANCE OrderedRelay WITH
            taken <- accepted, attempted <- done, Capacity <- QueueDepth + 1
RelaySpec == Relay!Spec

(* A batch the SDK exports again after "queue full" was not taken the      *)
(* first time: no channel ever takes the same batch twice, and a batch     *)
(* answered with an error was not taken (proxy_consumer.go:93-129).        *)
TakenAtMostOnce ==
    \A s \in Signals : \A i, j \in DOMAIN accepted[s] :
        /\ accepted[s][i] = accepted[s][j] => i = j
        /\ call[accepted[s][i]] = "accepted"

(* What the counters of a signal add up to.  An export answered "queue     *)
(* full" was counted and stays counted; the batch's last export is counted *)
(* from RecordForwarded on, until the failure of its Send is.              *)
Exported(s) == {b \in Batches : SignalOf[b] = s /\ attempts[b] > 0}

TurnedAway(b) == attempts[b] - IF call[b] \in Stages \union {"accepted"} THEN 1 ELSE 0

FailureCounted(b) ==
    b \in refused /\ \A s \in Signals : worker[s] = "recordFailed" => inflight[s][1] # b

Credited(b) ==
    call[b] \in {"announce", "render", "enqueue", "accepted"} /\ ~FailureCounted(b)

Credit == [b \in Batches |-> CountOf[b] * (TurnedAway(b) + IF Credited(b) THEN 1 ELSE 0)]

(* What "success rate is Forwarded - Failed" (proxy_workers.go:170-174)    *)
(* amounts to: exactly the records delivered, those on their way (queued   *)
(* for ever, if the worker has exited), those lost in a panic, and once    *)
(* more those of every export answered "queue full", whatever is rejected, *)
(* exported again, panics or fails meanwhile.  So it never falls below     *)
(* what was delivered; it overstates it by every batch turned away.        *)
SuccessRateExact ==
    /\ \A s \in Signals :
          forwarded[s] - failed[s] = MapThenSumSet(LAMBDA b : Credit[b], Exported(s))
    /\ \A b \in delivered : Credited(b)

(* On stdout a batch's error never precedes its announcement, though two   *)
(* goroutines emit them and either may be dropped (proxy_consumer.go:93-98,*)
(* 135-143, proxy_workers.go:175-196).                                     *)
ErrorAfterAnnouncement ==
    \A i, j \in DOMAIN stdout :
        i < j /\ stdout[i].name = "error" /\ stdout[j].name = "forwarded" =>
            stdout[i].batch # stdout[j].batch

(* At most one authentication warning per throttle window reaches the      *)
(* user, whichever workers fail and however the lines queue up             *)
(* (proxy_workers.go:25-29).                                               *)
AuthWarningsThrottled ==
    \A i \in 1 .. Len(authWarnings) - 1 : authWarnings[i + 1] - authWarnings[i] >= Throttle

(* A warning that found the lifecycle channel full does not use up its     *)
(* window: the timestamp moves only with a queued line                     *)
(* (proxy_workers.go:198-218).                                             *)
WindowOnlyUsedByWarning ==
    [][lastAuthWarn' # lastAuthWarn => Len(lifecycle') = Len(lifecycle) + 1]_vars
=============================================================================
