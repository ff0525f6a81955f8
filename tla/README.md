# A verification project for the Dash0 CLI

TLA+ modules that model the concurrent and the stateful parts of `dash0`, TLC
runs that check them on small instances, and theorems that TLAPS proves for
every value of the constants. Paths in this file are relative to the root of
the repository, line numbers refer to the commit the modules were written from.

Contents: [the system](#the-system) · [modules](#modules) ·
[runs](#runs) · [fairness](#fairness) · [what is proved](#what-is-proved) ·
[where documents and code disagree](#where-documents-and-code-disagree) ·
[abstractions](#abstractions-and-what-is-not-modelled) · [plan](#plan) ·
[running the checks](#running-the-checks)

## The system

`dash0` is a command-line client of the Dash0 API. Most of its commands check
their arguments, make a client, call the API a number of times and print; they
keep no state, but each call may fail or hang, pages may end anywhere, and a user
may interrupt. Three parts do more:

* `dash0 otlp proxy` runs until it is interrupted: receivers, workers, writers
  and a supervisor, goroutines joined by bounded channels;
* `login`, `logout` and `config profiles ...` change a profile on disk and a
  session on a server, in several steps each, and nothing keeps two of them
  apart;
* `apply` and the asset commands make many calls, any of which may fail, and
  read before they replace.

Around all of them is one process per command line, from `main` to the exit code;
two things on disk outlive it besides the profiles: the cache of client
registrations and the bundle of the agent skill.

### Inventory

| Part | State | Operations | Interaction | What is hard | What makes it correct |
|---|---|---|---|---|---|
| **Proxy: consumer** (`internal/otlp/proxy_consumer.go`) | none of its own | `ConsumeLogs`, `ConsumeTraces`, `ConsumeMetrics` | called by receiver goroutines; writes counters, event, tail and signal channels | many requests at once; every channel may be full | the request is answered at once; a rejected batch is not also queued |
| **Proxy: workers** (`proxy_workers.go`) | `lastAuthWarn` under `authMu` | `runWorker` per signal, `classifyOutcome`, `maybeSurfaceAuthError`, `recoverPanic` | take from the signal channel, call the API client, write counters, events, the lifecycle channel | failures, panics, cancellation at any point; two workers and one throttle | batches of a signal are sent in order, once; the success rate is never below what was delivered, and above it by exactly what is on its way, was lost or was turned away; one warning per window |
| **Proxy: events and writers** (`proxy_events.go`, `proxy_stdout_writer.go`, `proxy_stderr_writer.go`, `proxy_tail.go`) | channels; the stderr writer's last lines | `Emit*`, `Run` of both writers | read the channels | a terminal or pipe nobody reads; an event dropped between two others | nothing upstream waits for a writer; the order of a batch's events |
| **Proxy: pipeline and supervisor** (`proxy_pipeline.go`, `proxy_lifecycle.go`, `proxy.go`) | contexts, `WaitGroup`, started receivers | pre-bind, start, banner, signal, shutdown with a deadline | starts and stops everything else | failing half way through the start; a signal at any time; a deadline at any time | nothing that was awaited is left running; totals are final; the command ends |
| **Proxy: statistics** (`proxy_stats.go`, `proxy_sparkline.go`) | six counters, a rolling window | `RecordForwarded`, `RecordFailed`, `Sample`, two sinks | counters written by consumer and workers; samples sent to the stderr writer and the event stream | counters move between the loads of a sample; each sink drops samples of its own; two ticks at one instant | a torn sample heals; no reader is shown totals that fall back |
| **Session: login** (`internal/login/login.go`) | the profile, the issued tokens | prompt, authorize, exchange, persist, revoke the old session | profile store and OAuth client of the library; authorization server | minutes pass between read and write; every call can fail; the process can die | no session left behind without a word; never the stored session revoked |
| **Login: callback listener, client registration, deadline** (`login/callback.go`, `login.go:240-487`, `:640-688`) | the single slot, the requests being handled, the cached registration, the time left | bind, handle, wait, close; register, invalidate; exchange | the browser and anybody else on the port; authorization server | a second or forged callback, a dead listener, the deadline and an interrupt race; a registration the server forgot | the first callback with the right state decides; a stale registration is not used twice; login ends |
| **Session: logout, profiles** (`login/logout.go`, `internal/config/config_cmd.go`, `internal/oauth/revoke.go`) | the profile | logout; create, update, delete, select | as login | revoke and write are two steps; flags times states | a profile is in exactly one authentication state; what is discarded was confirmed |
| **Credentials** (`internal/client`, `config/profile_selector.go`) | the token, or its provider | choose the token and the kind of client, refuse what cannot work | library's client and token provider | flag, environment and profile disagree; a session expires between two pages | flag before environment before session, but for raw requests; OTLP never gets an access token; no request of a typed client goes out with an expired one |
| **Apply** (`internal/apply/apply.go`) | list of what was applied | read, validate all, apply one by one | asset imports | a failure half way; a rule document that is two kinds at once | nothing is called before everything is validated; the report is true |
| **Asset import, update, delete** (`internal/asset`, one package per kind of asset) | none; the server's assets | preflight GET, then POST or PUT; GET, merge, PUT; DELETE | API | two clients on one asset; a preflight that fails for the wrong reason; retry after a conflict | no duplicate, no lost update where a version is carried; delete is idempotent with `--force` |
| **Teams, members** (`internal/teams`, `internal/members`) | none | as assets; removal and invitation in a loop, look-up of e-mail addresses | API | as assets | as assets |
| **Lists, gets, queries** (the packages of the assets, `internal/logging`, `tracing`, `failedchecks`, `metrics`) | records collected and printed so far | check, page, fetch details, print or stream | API's iterator | a limit inside a group of records or at the end of a page; the fifth of ten calls fails; output already on its way | what is printed with exit code 0 is what was offered, up to the limit (in JSON: up to the end of the group it falls in) |
| **`traces get`** (`tracing/traces_get.go`) | queue of linked traces, traces seen | fetch, follow links, build a tree | API | links in cycles, more links than the cap; parents that are missing or cyclic | each trace once, each span once, parents first |
| **Sending, raw access** (`logging/send.go`, `tracing/spans_send.go`, `internal/rawapi`) | none | check, read a body, send one request | API | a request without context or timeout | ends when interrupted |
| **Skill bundle** (`internal/skill`) | files in a project | install; is it installed? | file system; `main` appends a hint to errors | an install that stops between two files or within one; topics of an older release | success means exactly this release's files |
| **main** (`cmd/dash0/main.go`) | context of the process | colour, profile, retries, run, print the error | all commands, signals | an interrupt at any moment, a second one | everything ends |
| **Decorator, attributes, severities** (`internal/otlp`) | none | change one batch | called by the worker | none | pure functions |
| **Query language, agent mode, output, help, colour, version** (`internal/query`, ...) | set once at start | parse, format | all commands | none | pure functions |
| **Packaging** (`nix`, `Formula`, `scripts`) | none | build and install | none | none | outside the program |

`PROJECT.json` lists the same parts with their files and status, and, under
`hazards`, each hard behaviour at the line where it bites with the property
that would notice it going wrong.

## Modules

| Module | Models | Uses |
|---|---|---|
| `ProxyForward` | the proxy's data plane: consumer, signal channels, workers, emitter, writers | |
| `OrderedRelay` | what the data plane promises per signal: a bounded first-in-first-out relay | |
| `OtlpProxy` | the whole proxy: the supervisor `runProxy` around the data plane, the sampler's goroutine and the one behind `statsSink` | extends `ProxyForward` |
| `ProxyStats` | counters, the sampler, the rolling window and the two sinks | |
| `OAuthSession` | one profile and its sessions under login, logout, update, create, delete and refresh | |
| `Assets` | the server's assets and the calls that read, write and remove them: the imports, `update`, `delete`, `remove` | |
| `AssetCommands` | several clients running `apply`, `update`, `delete` and `remove` commands | extends `Assets` |
| `Commands` | one process that runs a command line: the checks, clients, calls and output of every command that only reads or sends | |
| `TraceGet` | `traces get`: the walk along links between traces, the tree of spans | extends `Commands` |
| `SkillInstall` | `skill install`, and the hint `main` adds to errors | extends `Commands` |
| `LoginCallback` | the middle of `login`: listener, registration, deadline, exchange | extends `Commands` |
| `CommandLine` | one process after the other, with interrupts, over what lasts on disk | extends the three above |
| `ProxyForwardProofs` | theorems about `ProxyForward` | extends it and `SumsAndLoops` |
| `OAuthSessionProofs` | theorems about `OAuthSession` | extends it and `TLAPS` |
| `AssetProofs` | theorems about `AssetCommands` | extends it and `TLAPS` |
| `OtlpProxyProofs` | theorems about `OtlpProxy` | extends it and `ProxyForwardProofs` |
| `ProxyStatsProofs` | theorems about `ProxyStats` | extends it and `TLAPS` |
| `CommandLineProofs` | theorems about `CommandLine` and what it is made of | extends it and `TLAPS` |
| `AnswerProofs` | theorems about `CommandLine`: the answers, those of `traces get`, and the types | extends `CommandLineProofs` and `SumsAndLoops` |
| `SumsAndLoops` | lemmas: induction over a set of numbers, sums over finite sets, functions that loop | extends `TLAPS` |
| `MC*` | the instances TLC checks | extend the module they are named after |

`PROJECT.json` (`map`) names, for each definition, the lines it stands for.
Definitions preceded by a comment starting with *Mutant* are deliberate
mistakes: put in the place of the definition they are a variant of, they must
make TLC report the property they are paired with in `mutants`. No
specification uses them.

### ProxyForward

A batch stands for a receiver goroutine and the request it handles: `call[b]`
is where in `ConsumeLogs` / `ConsumeTraces` / `ConsumeMetrics` it is, then the
answer. One action is one effect another goroutine can see: counting
(`RecordForwarded`), announcing (`EmitForwarded`), the tail line (`RenderTail`),
the send on the signal's channel with the answer (`Enqueue`). A batch without
records goes straight to the channel, as in the code.

A worker is a goroutine of `WorkerPool`: `Take`; `Send` returning nil, an error
with a status, or panicking; then, for an error, the steps of
`classifyOutcome`: count, emit, and for an authentication failure the throttled
warning, which is atomic under `authMu`. Where a Go `select` finds two cases
ready, the model has both actions enabled: a worker may take a batch or exit
when the context is done.

All sends but the supervisor's are `select` with a `default`, modelled by
`TrySend`. `accepted`, `done`, `delivered`, `refused` and `authWarnings` are histories:
nothing reads them but the properties.

### OrderedRelay

The abstract specification: `taken` and `attempted` grow, `attempted` by the
next element of `taken`, and at most `Capacity` elements are owed. The data
plane implements it with `accepted`, `done` and `QueueDepth + 1` (the queue and
the batch in the worker's hands), and still does with the supervisor around it
(`ProxyImplementsRelay`).

### OtlpProxy

`sup` is the place in `runProxy`. A signal reaches it twice, as the end of the
root context (every worker and writer sees it) and on its own channel; the
model delivers them separately, in either order. `StartFirst` / `StartRest`
stand for `Pipeline.Start` with its rollback, `DrainCalls` for the receivers'
shutdown, `Wait` for `waitWithDeadline`, `Expire` for the five seconds. The
sends of the banner and of the shutdown line block, as in the code.

`SamplerStarts`, `Sample`, `SamplerExits` are the sampler's goroutine, which calls
`statsSink` when it starts and is one of those `wg` counts (`GoroutinesDone`).
`EmitStats` is the goroutine `statsSink` starts: it ranges over a channel nobody closes
and is in no `WaitGroup`, so it runs until the process ends. Here a snapshot is only a
place in that channel (`pending`) and an event; what is in it is `ProxyStats`.

### ProxyStats

The sampler's state is the place in `RateSampler.Sample`: every load of a
counter is a step, and the counters may move in between. A sample comes some lag after the
one before (`Lags`: none where two fall on one instant, two units where a tick was late);
its rate is the difference of the counters by that time, cut to whole records,
and 0 without a previous sample or without time between them, as
`proxy_stats.go:95-99` documents: records counted between two samples of one instant are in no rate.
Each sink drops a sample when it is full, whatever the other does. The failed counter is
bounded by the forwarded one: only records that were counted are ever counted as failed
(`SuccessRateExact` of `ProxyForward`).

### OAuthSession

One profile and the commands that work on it. `cmd[c]` is the memory of a
process: its place (`pc`), what it read of the profile when it started, the
flags, the token it obtained. A command reads once, at the start, and each later
step acts on `profile`, the store as it is then; steps of different commands
interleave freely, and a command may die between any two (`Crash`; `dead` marks
it for the properties). Tokens are numbered; `issuer` is the server that issued
each one and `live` the ones still accepted.

| In the module | In the code |
|---|---|
| `BeginLogin`, `AnswerLogin` | `runLogin`, `resolveLoginTarget`, `promptForDestructiveTransition` |
| `NotAuthorized`, `Exchange` | discovery, registration, browser, callback; `exchangeAndValidateTokens` |
| `LookUp`, `Persist`, `Compensate`, `RevokeOld`, `Report` | `persistProfile`, `persistAndRevokeOld` and their error paths |
| `BeginLogout` .. `Clear` | `runLogout` |
| `BeginUpdate` .. `Write` | `newUpdateProfileCmd` |
| `Create`, `Delete` | `newCreateProfileCmd`, `newDeleteProfileCmd` |
| `Revoke` | `oauth.Revoke` |
| `RefreshSession` | `authTokenOption`, which hands the session to the library's token provider; that the provider stores what it gets is the library's |
| `Issue`, `Crash` | external: the server, the operating system |

### Assets

`store` is what the server has under each key; a key is a kind of asset and an
identifier, which may be an origin, an id or an e-mail address. What a write
stores is told apart by a revision number, and the fields of a team's display by
the revision that last set them. `strays` counts the assets a write has made
under another identifier than the document's, the duplicates one does not want.

`mem[c]` is the memory of a client: its place (`pc`), the asset at hand (`key`),
what the GET said of it (`seen`), how the last call ended (`result`), the targets
of a removal that are left and the attempts at the first.

Every write is a GET and then a PUT or POST, as in `internal/asset`. `Import`
and `Update` give, per kind of asset and as that kind's function says, what
follows when the GET finds the asset, misses it, or fails (`Route`). The actions
are the calls:

| In the module | In the code |
|---|---|
| `PreflightFound`, `PreflightMissing`, `PreflightFailed` | the GET at the head of `Import*`, `doUpdate`, `runUpdate` |
| `Put`, `PutRefused`, `Post`, `WriteFailed` | the PUT or POST after it |
| `Display`, `DisplayRefused`, `Merged` | `runUpdateImperative` of `teams/update.go`, which merges flags into what it read |
| `ResolveMembers` | `members.ResolveMembers`, the lookup before a removal |
| `Remove`, `RemoveMissing`, `RemoveFailed`, `RemoveConflict`, `RemoveDone` | the `delete` commands and the loops of `teams remove-members`, `members remove`; the retry of `spamfilters delete`; `client.IsAlreadyDeleted` |

A call may fail before it arrives (`WriteFailed`, `RemoveFailed`), or arrive and
lose its answer (`Arrives`, `Remove`), which the client cannot tell apart. The API is
external: that it refuses a recording rule whose version is not the stored one
(`asset/recordingrule.go`), a PUT of a team by an id that is not there
(`asset/team.go`), and gives a spam filter it does not know another id
(`asset/spamfilter.go`) is what the comments of the imports rely on.

### AssetCommands

A client begins a command line, runs it and exits; two commands run together when
one begins before the other has exited. `run[c]` is the progress of an apply:
documents left, the part of the first one at hand (a `PrometheusRule` may hold
alerts and recording rules), the results of its parts, what has been printed.

`FirstPlace` is what `runApply` does before any call: it reads and validates all
documents. `NextDocument`, `PartAnswered`, `Report`, `ApplyDone` are its loop and
`applyDocument`; `ReportFailed` is the diff that cannot be printed. `create -f` is
an apply of one document, a `delete` a removal of one target. `Exit` forgets all.
`wrote` (what an apply has stored) and `alone` (whether another command has run at
the same time) are histories.

### Commands

A command is a *program*, a sequence of the steps its `run...` function takes, in
its order: `LogsQuery` is `skipHeader`, `columnFormat`, `format`, `columns`,
`client`, `filters`, `jsonLimit`, `precision`, `stream`, `print`. That order is what
differs between commands and decides which error wins, whether a client was made, and whether anything was
sent or printed before a command fails. `mem.todo` are the steps left; each kind of
step is one action, shared by all commands that have it:

| Steps | Action | In the code |
|---|---|---|
| arguments | `Check`, with `Accepts` for the conditions | `ValidateSkipHeader`, `ValidateColumnFormat`, `ParseFormat`, `RequireExperimental`, `resolveColorMode`, ... |
| `client`, `ingressClient`, `rawClient` | `NewClientFromContext`, `NewOtlpClientFromContext`, `NewRawHTTPConfig` | the functions of `internal/client` with these names |
| `pages`, `stream` | `IteratorYields`, `IteratorEnds` | the loops over an iterator of the library: `iterateRecords`, `iterateSpans`, `iterateIssues`, the lists |
| `details`, `names` | `DetailFound`, `DetailFails`, `DetailsDone` | `fetchFull...`, `getDisplayName` |
| `fetch`, `resolve`, `lookUp`, `invite`, `send`, `request` | `Fetch`, `ResolveMembers`, `ResolveToMemberIDs`, `InviteMember`, `Send`, `RawAnswered` | the single calls |
| `print`, `status` | `Render`, `Status` | the printers; `runAPI` |

`RequestFails` is any call that fails for good. A malformed argument is a member of
`inv.bad`: which step finds it is modelled, its text is not. A query prints CSV
while it iterates, everything else at the end, so `mem.out` may be filled when a
command fails. `mem.sent` (the credentials of each request) is a history.
`fresh` is whether the access token of the profile's session is still valid;
`Expire` ends that at any moment.

### TraceGet

`walk` is the memory of `runGet`: results, queue, seen. `BuildTree` and
`ExtractLinkedTraceIDs` are the functions of these names over sequences of spans,
each with an identifier, a parent and links; what the API answers is any of
`Answers(t)`. The closure `walk` of `buildTree` is a loop over a stack of identifiers, and
`Ordered` is what it leaves: the spans visited, then the others. `AnswersAssumption` is
what OTLP says of a trace: its spans have distinct identifiers, none of them empty.
Parents and links may be anything: absent, missing, the span or trace itself, a cycle.

### SkillInstall

`files` is the bundle, each file absent, torn, old or new. `WriteSkillMD`,
`ClearReferences`, `WriteTopic` are the steps of `writeBundle`; each may fail or be the
last thing a killed process does (`CutShort`). `WithSkillHint` and `PrintError` are
`main`'s.

### LoginCallback

`listener` is `callbackListener`, with a log of the requests in the order in which they had its
mutex; a request that claimed the slot delivers its result in a later step, as the
handler does after answering the browser. `Wait` is a `select`, so three actions:
`WaitResult`, `WaitServeErr`, `WaitDone`, each enabled when its channel is ready. `login.clock` is the
shared deadline, "short" when less than the thirty seconds of `exchangeFloor` are left.
`registry` is what the server has registered and the one record cached on disk;
`disowned` is a history.

This is the browser step that `OAuthSession` takes at once (`NotAuthorized`,
`Exchange`); what login does before and after it, to profile and sessions, is there.

### CommandLine

`NewProcess` starts the next command line of `Followers` when a process has
ended; `files` and `registry` remain, everything else is new. `Interrupt` ends the
context. `PrintError` of `main` is the one way to a failing exit code.

## Runs

| Run | Question | Bounds, and why they are enough |
|---|---|---|
| `fwd_data` | Does the channel stay a bounded first-in-first-out relay, what do the counters add up to, does an error follow its announcement? | Three concurrent batches on one signal, one of them without records, each exported twice; queue of two, event channel of one. Signals share nothing here. A full queue with a retry behind it and a full event channel both occur. |
| `fwd_warn` | Is the warning throttled, and is a dropped warning free? | Two signals, because they share the throttle; four instants and a window of two; a lifecycle channel of one, so that it fills. |
| `proxy` | Are the announced totals final, what does a failed start leave behind, is every export answered and every accepted batch attempted, does a signal end the command? | Two batches on one signal, one attempt each, queue, tail and lifecycle channel of one, a sink of one. Every state of the supervisor is crossed with a signal, the deadline and the sampler. Tail mode: in agent mode every sample is an event on `stdout`, a history without a bound. |
| `proxy_drain` | Violation, see below. | As `proxy`, in agent mode and with a lifecycle channel of two. |
| `stats` | Does a torn sample heal, does a reader ever fall back? | Two signals, so that a sample has four loads to tear between; three samples in a window of two, so that one is evicted; both sinks of one, so that each may drop a sample the other takes; lags of none, one and two. One record per signal: a tear is one record. |
| `oauth` | Which sessions and which profile can two overlapping commands and a crash leave? | Two commands at a time, two servers, three tokens: a login that replaces a session at another server, while a refresh or a second command replaces it too. Processes and servers are interchangeable, so symmetry is sound: the properties are invariants and action properties. |
| `oauth_discard`, `oauth_issuer` | Violations, see below. | One command at a time is enough for both. |
| `assets` | What do two clients write, duplicate and report? | Two clients; five keys, one for each way an asset can be written: a recording rule (version), a team by id (POST on 404), a team by origin and its display, a spam filter by id (retry, another id), a member by e-mail; any of them there at first. Eleven command lines that meet at them: documents of two parts, two documents, one that fails to parse and one that is invalid, updates, a dry run, removals with and without `--force`. Three revisions, so that a write can fall between another command's GET and PUT. Clients are interchangeable; the properties are invariants and action properties. |
| `assets_force` | Violation, see below. | Two members, two commands. |
| `cli` | What is printed, with which token, what lasts on disk, and does every command end? | See below. |
| `second_interrupt` | Violation, see below. | `api` with two interrupts. |

The instance of `cli` is a set of about a thousand command lines (`MCInvocations`): every command in
every format, queries and lists with every limit around the three records of the
stock (two in a group, one in the next, each on its own page); every command with
each of its arguments wrong in turn; all combinations of flag, environment, agent
mode and five kinds of profile for one command of each kind of client; `traces get`
over all parents that three spans can have, and over links among three traces with a cap of two;
installs over an older release, one after another, each able to stop anywhere,
with two topics of which one is old; logins one after another, with a fixed port and with two
ephemeral ones, two callbacks each and two registrations. One interrupt, since one
is all the code reacts to. Command lines that leave nothing behind are followed by
none; the next one would start as it did.

What the properties say is stated above each of them in its module.

Deadlock is not checked: the proxy stops, samples and tokens are bounded, and
each run may end where its bound is reached. `MaxAttempts`, `MaxTime`,
`MaxRecords`, `MaxSamples`, `MaxTokens`, `MaxWrites`, `Sigints`, `MaxCallbacks` and
`MaxClients` are the bounds; each is a guard of the action that would exceed it.
`Stock` bounds the records the API has, `Ephemeral` the ports of the system,
`Answers` the spans of a trace, `Followers` what a user runs next. `JsonMax` and
`MaxTraces` are limits of the code, 100 and 20 there, made small so that they are
reached.

## Fairness

Three runs assume any. `StuckWritersSpec` (`proxy`) has weak fairness of

* each request handler and each worker: running goroutines whose steps do not block (a
  `Send` is bounded by the client's timeout and retry limit);
* the supervisor;
* the start and the exit of the sampler, which sends to nobody that may make it wait;
* `RootCancel`: the Go runtime cancels the context of a delivered signal;
* `Expire`: the shutdown deadline passes.

The writers are *not* fair: they write to a terminal or a pipe that somebody
else has to read. `SignalEndsUnlessWedged` names the two places where that can
hold the command up for ever: a send on the full lifecycle channel, and the
unbounded `wg.Wait` of a failed start.

`CommandLineSpec` (`cli`, `second_interrupt`) has weak fairness of

* `OwnStep`: what a process does without anybody else, a handler of the callback
  listener included;
* `CutShortStep`: a call ends when its context does, as the HTTP client of the library
  and of Go guarantee; where a command has no context (`api`) or a timeout instead
  (`metrics instant`), the model says so;
* `TimePasses`, towards the deadline of a login.

Nothing is assumed of the API, the authorization server, the browser, the user or
whoever writes to standard input.

## What is proved

The theorems assume what their modules assume of the constants and nothing else:
`ConstantsAssumption` (of `ProxyForward`, also for `OtlpProxy`; of `ProxyStats`),
`SessionAssumption` and `ChoicesAssumption`, `AssetsAssumption`, and for `CommandLine` its
`InvocationsAssumption` and those of the modules it extends. That is: any number of
signals and batches, any depths, any number of attempts; any ring, tick and increments;
any number of commands, servers and tokens; any number of clients and assets, any
set of command lines, documents of any length; any stock of records, any topics, ports,
callbacks, interrupts, and any sequence of processes.

| Theorem | Statement |
|---|---|
| `TypeCorrect` | `ProxyForward!Spec => []TypeOK`: no channel exceeds its depth, a worker holds a batch exactly while it sends it or reports it |
| `OrderKept` | `Spec => []InOrder`: accepted = done, then in hand, then queued |
| `AtMostOnce` | `Spec => []TakenAtMostOnce`: no batch is taken twice, a rejected one not at all |
| `ImplementsRelay` | `Spec => RelaySpec`: the refinement |
| `AnnouncedBeforeError` | `[]ErrorAfterAnnouncement`: no reader of the event stream meets the error of a batch before its announcement |
| `WarningsThrottled` | `[]AuthWarningsThrottled`: two authentication warnings are a window apart, whichever workers race |
| `WindowKept` | `WindowOnlyUsedByWarning`: a warning the full channel dropped does not start the window |
| `RateExact` | `[]SuccessRateExact`: forwarded minus failed is what was delivered, is on its way or was lost in a panic, and once more every export that was turned away |
| `DataPlaneKept` | `OtlpProxy!ProxySpec => []DataInv`: all of the above invariants, under the supervisor; `ProxyImplementsRelay`, `ProxyTypeCorrect`, `ProxyAnnouncesFirst`, `ProxyWarningsThrottled`, `ProxyRateExact` restate each property for the whole proxy |
| `TotalsFinal` | `[]FinalTotalsAreFinal`: totals announced with reason "signal" are those that stay |
| `OnlySinkLeftBehind` | `[]FailedStartLeavesOnlySink`: a start that failed half way ends with nothing listening and none of the goroutines `wg` counts, but with the one behind `statsSink` |
| `StatsTypeCorrect` | `ProxyStats!Spec => []TypeOK` |
| `ReadersAdvance` | `Spec => ReadersNeverFallBack`: whichever samples each sink drops, a reader replaces what it has only by a sample that takes back nothing of it |
| `TearHeals` | `[]TearHealsByNextSample`: a sample counts at least the records that had failed in the one before |
| `SessionTypeCorrect` | `OAuthSession!Spec => []TypeOK`: in particular only issued tokens are live |
| `StoredSessionKept` | `Spec => StoredSessionLive`: a session is live when it is stored, and while it is stored only logout and `update --oauth=false` revoke it, however commands interleave and die |
| `SoloSessionsAccounted` | `Spec => SessionsAccounted`: commands that run one at a time lose track of no live session, but for the losses the user is told of or must expect |
| `SoloOneAuthState` | `[]OneAuthState`: and leave the profile in exactly one authentication state |
| `SoloLoginAsksFirst` | `Spec => LoginAsksFirst`: and login replaces what its prompt spoke of |
| `UrlOfIssuer` | `Spec => IssuerRecorded`: whatever runs at once and dies, a session is stored beside its issuer's URL, unless `update --api-url` changed that |
| `AssetTypeCorrect` | `AssetCommands!Spec => []TypeOK` |
| `DiffsAreTrue` | `Spec => DiffIsTrue`: what a PUT replaces is what its command read and printed |
| `NoSecondAsset` | `Spec => NoDuplicate`: no failure and no other client makes a second asset |
| `UndisturbedAccepted` | `Spec => []UndisturbedSucceeds`: who is not disturbed is not turned down |
| `FieldsKept` | `Spec => UnspecifiedKept`: `teams update` keeps the fields it was not given |
| `RemovalsComplete` | `Spec => []RemovalCompletes`: success means that all targets are gone |
| `ReportsComplete` | `Spec => []ApplyReports`: the output of an apply names what it stored |
| `ApplyIsComplete` | `Spec => []ApplyComplete`: an apply that comes undisturbed to its end has stored every part of every document |
| `TokensAlwaysFit` | `CommandLineSpec => []TokensFit`: a request carries the token of the flag before that of the environment before a session's, but for raw requests of a profile without a session, which may carry the configured token in spite of the flag; the ingress gets no access token, and the typed client sends none that has expired |
| `FirstCallbackAlwaysWins` | `[]FirstCallbackWins`: the first request that echoes the state decides the login |
| `RegistrationAlwaysHeals` | `[]RegistrationHeals`: a login goes on with a client registered for its own port and not disowned |
| `InstallAlwaysComplete` | `[]InstallComplete`: success leaves the whole bundle and nothing else, and nobody is told to install it again |
| `AnswersExact` | `[]AnswerExact`: with exit code 0 what was offered is printed in order, up to the limit, or in the JSON of a query of logs or spans up to the end of the group in which the limit falls, and no definition is missing; with an error nothing is, but the rows a CSV query streamed and the body of a raw request |
| `TraceAnswersExact` | `[]TraceAnswerExact`: `traces get` prints each linked trace once, each span of it once, and a span that a root leads to behind its parent, whatever parents and links there are |
| `CliTypeCorrect` | `[]CliTypeOK`: every variable keeps its type from one command to the next |

The inductive invariant of `ProxyForward` is `TypeOK /\ InOrder /\ TakenAtMostOnce`.
`TypeOK` alone is inductive; `InOrder` needs from it that a worker's hands are
empty when it takes; `TakenAtMostOnce` needs that a batch's call is still open
when it is enqueued. For the refinement, `Enqueue` of an accepted batch is the
relay's `Take` (it is new, by `TakenAtMostOnce`, and there is room, by `TypeOK`),
a step with `Finish` is its `Attempt` (by `InOrder` the batch in hand is the next
one owed), and every other step leaves both histories alone.

On top of it, three invariants that do not depend on each other:

* `WarningsInv`: `lastAuthWarn` is the time of the last line that was queued, so what
  the throttle measures is the distance between lines;
* `EventsInv`: an error event, written or still in the channel, is about a batch that was
  accepted, hence (`AcceptedStays`) one that is never announced again; and in what was
  written, in the channel, and from the one to the other, no error comes before the
  announcement of its batch;
* `RecordsInv`: each batch contributes its records to the counters as often as they are
  counted and not taken back (`Credit`), and a step moves the contribution of one batch and
  the counters together, or neither (`SumMoved`, `SumUnmoved`). That a failure is taken off
  a batch that is credited, once, needs `OutcomesInv` (a `Send` has one outcome; who reports a
  failure holds the batch), which needs `InOrder` and `TakenAtMostOnce`. Sums over a set of
  batches are in `SumsAndLoops`.

A step of the whole proxy is a step of `Next`, or one in which the supervisor or `statsSink`
sends a line or an event of its own, or the context ends (`ProxySteps`, `OwnStep`). The second kind
keeps everything above, hence `DataPlaneKept` and the five theorems that follow from it.
The supervisor's own invariant is `SupInv`: when the receivers listen
(`ListeningTimes`), what can have ended the root context (`CancelTimes`), that before the
first receiver is up and after requests were awaited no handler runs (`QuietTimes`), and
what this makes of the totals between their reading and the announcement (`TotalsInv`)
and of a start that failed between the wait and the exit (`FailedStartInv`); and that the
sampler's goroutine has started `statsSink`'s before it can have ended (`SinkTimes`).

`StatsInv` of `ProxyStats` relates three generations of numbers: the counters, the sample
being captured and the window. No snapshot exceeds the counters (`Past`); what has been
loaded of the sample at hand is at least what the window holds (`Follows`), also as failed,
because `CountersOrdered`. `ReadersInv` adds the readers: what a reader has, and what waits for
it, was complete before the sample at hand began, so that whatever that sample has loaded is no
less (`Behind`), and what waits is in the order of its capture (`Successive`).

`StoredSessionLive` speaks of steps, so the invariant of `OAuthSession` has to say
what makes each step of login safe, long before it is taken. `IInv` is `TypeOK` and

* `Targeted`: login has a server before it asks for a token, so that what it
  obtains counts as issued;
* `ReadIssued`: what is stored, or was read from the store, was issued, so that a
  token issued now is nobody's;
* `NewTokenPrivate`: a token that login obtained and has not stored is live, and is
  neither stored nor known to another command. Hence the compensating
  revocation (`login.go:456-472`, `:505-517`) cannot hit the stored session, and
  `Persist` stores a live one;
* `Superseded`: the token login is about to revoke at the end (`:528`) is not the
  stored one. It holds when login reaches that step because `Persist` has just
  stored another token (`NewTokenPrivate`), and it stays true because every
  later write keeps the stored token, drops it, or stores one that was private
  or new.

`StepKeeps` proves all of this once, for a step of one command to a new memory that
issues no token and revokes at most one; each action is then an instance of it.
The two steps that issue a token (`Exchange`, `RefreshSession`) have proofs of their
own. The last step of both theorems is temporal.

`SessionsAccounted`, `OneAuthState` and `LoginAsksFirst` hold while no two commands have
overlapped. `SoloInv` says by the place of each command what it holds (`HeldByPlace`:
a login that has a token has it from the server it will store beside it, a command that is
over holds none) and, as long as nothing overlapped, that the one that runs is `Alone`: what it
read is what is stored, and it has asked where it had to (`ReadIsStored`); the flags of
an update still fit the profile (`FlagsFit`); and before a profile is cleared its
token has been revoked, or the exception the user is told of applies (`RevokedBefore`). `UrlOfIssuer`
needs no such restriction: of `SoloInv` only `HeldByPlace`.

The properties of the asset commands speak of what is true between two calls. `IInv`
of `AssetProofs` is `TypeOK` and

* `ClientsSound`: for each client, by its place, what it may rely on. `Placed`: which
  commands get there. `Justified`: a team is put by its id only after it was
  found, and posted only after it was not; it then stays away, because nothing
  makes a team under a given id, and so the POST of `asset/team.go:72-81` is
  never a duplicate of one that came back. `Versioned`: what was read of a recording rule
  is determined by its version. `UpToDate`, `Remaining`: as long as nobody else
  runs, what was read is what is there, and what a removal has passed is gone;
* `AloneTrue`: who is alone is alone, so that the steps of the others cannot
  disturb what `UpToDate` and `Remaining` say;
* `StoreWhole`: only teams are written field by field, hence a version tells the
  whole of a recording rule;
* `AtDocument`: an apply that makes a call has a document at hand.

`StepKeeps` is the common case, a step of one client to a new memory; the lemmas
`CallKeeps`, `AnswerKeeps`, `EndedKeeps`, `ReadKeeps` narrow it down to the shapes the calls have.
On top of `IInv`, `Accounted` keeps the books of an apply, place by place: what it has
stored is what it has printed, followed by the results at hand, followed by the part
being answered. `ReportsComplete` follows at the end of the run. `Progressing` says the same of
the store while nobody else runs: each part of the command's documents either shows in the
store by a revision this apply wrote, or is still to come, in the documents that are left,
from the part at hand on (`Progress`). `ApplyIsComplete` is the end of it, where nothing is left.

The modules of the command line share the memory of the process. `Acts` says what
all their steps have in common: they move at most one step further in the program of
the command, keep the client and add no request but one with its `Credential`. One
lemma per module (`LocalActs`, `RequestActs`, `TraceActs`, `InstallActs`,
`LoginActs`) shows it, action by action, and names the places where the module acts.
On top of it:

* `TokensInv` adds `ClientFits`, what each of the three kinds of client may hold, to
  `TokensFit`; it holds when the client is made (`MakersFit`), whatever the program.
* `Course`: what a process has left to do is the end of the program of its command,
  and no program but that of `login` has a step of a login (`ProgramsLocal`). The
  number of steps left, `Left`, thus says where a process is (`LoginCourse`,
  `InstallCourse`), and the invariants that follow are stated by it.
* `LogInv` and `WonInv`: the slot is taken exactly when a genuine request is in the
  log; a handler that has claimed it serves the first of them; what lies in the
  channel for `Wait`, and what `Wait` has returned, is what that request brought.
* `RegistryInv` and `ClientInv`: what is cached is registered for the port it names
  and not disowned; so is, from the registration to the exchange, the client of the
  login for the port of its listener.
* `BundleInv`: as long as an install runs, `Left` and the number of topics written
  determine the bundle from `clear` on, whatever was there before. `HintInv`: the
  hint is given at the very end, and the bundle does not change after it.

`AnswersExact` compares what is printed with a `FlattenSeq` of all the groups the API has.
`FlattenSeq` is a recursive function, and the provers cannot instantiate an
induction theorem that takes a predicate; but `SetInduction` (`SumsAndLoops`) is about a SET
of numbers, which they can be given. From it, `FlattenSeq` over one group more is the
concatenation of that group (`Flattens` and the lemmas on it). `Well` says of each program
that it collects at one step and looks at what it has collected only behind it. With
that, `AnswerInv` is `Course` and `Answer(mem)`: at each point of the program, `Collects`
says that the rows are what was taken so far, cut to the limit, and that there is more to come
exactly before the collecting step is left; `Outputs` says what has been printed.

`CliInv`, for the types, is made of the invariants of the listener, the registry and the
bundle above (`RegInv`, `FilesInv`), the types of the memory by place (`Sorted`),
the cap of the walk along links (`WalkTypes`) and the bounds of a login (`ListenerTypes`). `Sorted` needs
the shape of the programs again: what is left to do is the end of one of them.

`TraceAnswersExact` is about two loops, one inside the other.

* `WalkInv`, about the traces: once the first is fetched, `Follows` (each trace fetched, or in the
  queue, is linked from one fetched before), `Remembers` (every link of a fetched
  trace was seen, and what was seen is fetched or in the queue) and `Once` (fetched and queued
  traces are all different). `Left`, the length of the program still to run, says which of
  the steps is next, so that it is preserved by all of them; a process that has left
  `follow` has an empty queue or as many traces as it may.
* `Leads`, about the spans of one: those visited are distinct, a root is visited or on the stack,
  the children of a visited span are visited or on the stack, and a span is visited after its
  parent unless it is a root. `BuildTree` is defined by recursion, and a recursive function is
  a `CHOOSE` that says nothing until such a function exists: `LoopExists` shows it
  from a measure that falls with each step (`VisitFalls`: the spans whose parent was not visited,
  plus the stack), `LoopUnique` and `LoopKeeps` that its value is that of a final
  state with whatever every step keeps. The same lemmas give the meaning of `Rooted`.
* Both rest on what `FlattenSeq` and `Picked` make of distinct elements
  (`FlattenElements`, `FlattenDistinct`, `FlattenBlock`, `PickedType`).

Model-checked only: the properties under fairness. Every invariant and action property of a passing
run has its theorem.

## Where documents and code disagree

Each is a run TLC must find violated.

* `proxy_drain`: `docs/commands.md` says that a signal drains the worker queues
  within the deadline. The workers stop as soon as the context is done, and the
  signal ends that context itself: an accepted batch can stay in its queue.
* `oauth_discard`: the help of `profiles update` and `docs/commands.md:290-291`
  promise a prompt before credentials are discarded and that unspecified fields
  stay. `--oauth=false` on a static profile drops its token, `--oauth` on an
  OAuth profile drops its session, both without a prompt.
* `oauth_issuer`: `login.go:494-497` says a refresh token is only ever sent to
  the server that issued it. After `profiles update --api-url` it is sent to the
  new one.
* `assets_force`: `docs/commands.md:695-696` says of `members remove --force` that a
  member who was removed concurrently does not fail the call. An e-mail address
  is looked up first, and `members/resolve.go:65` fails the whole call with "not
  found" when its member is gone, with or without `--force`.
* `second_interrupt`: `main.go:295-297` says that a second SIGINT gets the default
  behaviour, so that a wedged command is still killable. `signal.NotifyContext`
  stays in force until `main` returns and swallows every further one; `api` sends its
  request without a context and without a timeout, and reads standard input, and
  neither notices the first.

Five more are stated as they are by a property that holds:

* Comments say that the forwarded counter is what the proxy accepted, "at
  enqueue time" (`proxy_stats.go:46-49`), and that a `forwarded` event is emitted per
  batch "the consumer enqueued" (`proxy_events.go:85`). Counting and announcing precede the
  enqueue (`proxy_consumer.go:139-143`): a batch answered "queue full" is in both, and once
  more at each retry. The success rate shown is too high by exactly those (`SuccessRateExact`).
* `proxy_stats.go:82-83` calls a snapshot atomic per signal. Forwarded and failed are
  two loads (`:107-108`); a batch counted and failed in between makes more failures than
  records, until the next sample (`TearHealsByNextSample`).
* `proxy_lifecycle.go:249` speaks of waiting "for all goroutines", but the one behind
  `statsSink` is in no `WaitGroup` and nothing closes its channel: it is always left
  (`FailedStartLeavesOnlySink`).
* `--limit` is the "maximum number of log records to return"
  (`logging/query.go:164`; `docs/commands.md:1203`, for spans `:1296`), and JSON is "limited to %d
  records" (`:209`). With `-o json` groups are taken whole (`logging/query.go:398-407`,
  `tracing/spans_query.go:421-431`), so that more is printed when the limit falls inside one,
  up to the end of that group (`AnswerExact`); lists, tables and CSV keep the limit.
* `--auth-token` "overrides active profile" (`rawapi/api_cmd.go:71`,
  `metrics/instant_cmd.go:64`). `rawhttp.go:72-78` then asks the profile's provider, which knows
  nothing of the flag, and takes its answer; for a profile without a session
  the request may carry the profile's token. What that provider answers is the library's business
  (`RawTokens` allows both, and `TokensFit` no third). `request.go:152-160` relies on the flag
  when it lets an absolute URL of another host pass.

Met on the way, and left out of the runs because the text is weaker or the model
abstracts the detail. In the proxy, the session and the assets:
`proxy_events.go:137-139` says the shutdown event is emitted
before the writer's context ends, so that it lands, but by then
(`proxy_lifecycle.go:235`) the context has ended and the writer may have left;
`asset/team.go:24-25` and `docs/commands.md:735` call the apply of a team
idempotent, but a document whose id the API does not know creates another team
each time (`NoDuplicate` names this exception); an asset is reported as "created"
when it was the preflight that failed; `apply.go:223` says validation keeps an apply
from stopping half way, but a document can still fail to parse when its turn comes
(`parses`); `teams/update.go:40` says it does not create a team, but a PUT by origin
does if another client removes the team after the GET;
`revoke.go:20-23` speaks of revoking before the local state is updated, which
login does the other way round on purpose; "never silently overwrites"
(`login.go:106-109`) holds for commands one at a time (`LoginAsksFirst`) but not
if another command rewrites the profile during the browser step; and a refresh
by another process during a re-login or a logout leaves the rotated session alive
on the server.

On the command line: `docs/commands.md:55-59` and the help of `config show`
(`config_cmd.go:69-73`) put the environment before flags, while `client.go:38-44` and `:80-86` put
flags first (`TokensFit`), and so does `docs/commands.md:2746`, about the dataset;
`skill/bundle.go:152-160` takes an install
that was cut short after its first topic, or inside it, for a whole one, and the hint
then sends an agent to topics that are not there (`InstallComplete` has the other
direction, which holds); `dashboards list` prints a table with blank names and exit
code 0 when the GETs for the names fail, an interrupt included; "No dashboards found."
is printed for CSV as well; a JSON query with `--limit 0` or below is not limited; a
trace id typed in upper case is not recognised among the links, so that the trace may be fetched
twice (`SeenAtFirst`); spans of one identifier collapse into the last in tables and CSV;
`docs/commands.md:1426` shows a header for linked traces that is not printed;
`--follow-span-links 2h` takes `2h` for an argument, because the flag has a default of its
own; a negative `--max-retries` that `main` accepts is ignored later; a login without `--port` registers a
client again whenever the system assigns another port; a client the server forgot is
only dropped when an exchange is answered with `invalid_client`, which needs a
callback first; and `create`, `update` and `apply` with `-f -` swallow interrupts while
they read standard input, like `api` does.

## Abstractions, and what is not modelled

* The OTLP receivers, the API client, the profile store and the OAuth client are
  libraries outside the repository. Receivers are modelled by what `runProxy`
  and the consumer see: concurrent calls, a shutdown that awaits them until its
  context is done. One call of the profile store is one step, and so is a token
  refresh.
* A batch is a value with a record count. That the decorator may change it and
  that a batch may render to no tail line does not matter to any property.
* A rate is a whole number of records per unit of time; the code divides floats.
* Whether the revocation of a token at a server that did not issue it changes
  anything: no, it is answered with success (RFC 7009), as the fake server of the
  tests does. A failed revocation may or may not have arrived.
* Tokens do not expire by themselves; an expired session behaves like a refused
  refresh, after which the profile is unchanged.
* A call to the asset API is one step, with the client library's retries inside it.
  A command that is killed is one whose calls stop; what it leaves is what a failed
  call leaves.
* Of a document the model has whether it is valid, whether it parses, and the parts
  that are imported. The server-side fields that are stripped from a request and the
  text of diffs are left out. The confirmation of a removal has been given.
* Of a command's arguments the model has which step looks at them and whether it accepts them; of
  a record, that it is one. How a filter, a column, a timestamp, a URL or a metric's PromQL is
  written is left out, and so are columns, colours and the text of messages.
* What the API has may be less than `Stock`: `IteratorEnds` is enabled at any time. Pages
  are the library's; the model sees groups of records.
* The retries of a call are inside it, and so is the refresh of an access token
  (`Refreshed`). `Expire` cannot fall between the provider's look at a token and the
  request that carries it.
* A request that reaches the callback listener with another method or path changes nothing
  and is left out.
* `config profiles select`, `skill show`, `help`, `version` and the generator of the bundle are
  left out: one read or write, nothing that can come between.
* `profiles create` over an existing name is refused by the library or replaces
  the profile; both are modelled.

Not modelled, because nothing in it has an order or a state to get wrong: text layout
(tail lines, sparkline, tables, colours, help), the parsing of filters, columns,
timestamps, PromQL and files, the decoration of a batch, diffs and permissions of documents, detection of an
agent, port owners and terminal sizes, packaging, the mock server of the tests.

## Plan

1. **Done.** Proxy data plane, relay, supervisor, statistics; OAuth session; assets and
   the commands that write them; every command that reads or sends, the browser step of
   login, the skill bundle, and the process around them. Theorems on all of
   them: every safety property and action property of the passing runs.
2. An abstract specification of the assets: an atomic create-or-replace per key,
   implemented by commands that run alone and, for recording rules, by all.

## Running the checks

    tlc -workers 2 -config OtlpProxy.cfg MCOtlpProxy
    tlapm ProxyForwardProofs.tla

The `.cfg` of each run and its module are listed in `PROJECT.json`. The longest
runs, `oauth`, `assets`, `cli` and `proxy`, take about three minutes or less with two workers.
