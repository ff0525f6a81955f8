----------------------------- MODULE CommandLine -----------------------------
(***************************************************************************)
(* The dash0 program as its user meets it: one process after the other,    *)
(* each with a command line of its own, from its start in main to its exit *)
(* code.  The bundle of the skill and the cache of client registrations    *)
(* are on disk and outlive the process; interrupts come at any moment.     *)
(***************************************************************************)
EXTENDS TraceGet, SkillInstall, LoginCallback

CONSTANTS
    Invocations,     \* the command lines considered
    Followers(_)     \* those considered after a process with a given one

ASSUME InvocationsAssumption ==
    /\ Invocations \subseteq Invocation
    /\ \A i \in Invocations : Followers(i) \subseteq Invocations

allVars == <<inv, mem, fresh, interrupts, walk, files, listener, login, registry>>

diskVars == <<files, registry>>
loginOnly == <<listener, login, registry>>

CommandLineInit ==
    /\ inv \in Invocations
    /\ mem = Started(inv)
    /\ fresh \in IF inv.profile = "oauth" THEN BOOLEAN ELSE {TRUE}
    /\ interrupts = 0
    /\ walk = NoWalk
    /\ files \in IF inv.cmd = "skillInstall" THEN {NoBundle, OldBundle} ELSE {NoBundle}
    /\ listener = Closed /\ login = NoLogin /\ registry = NoRegistry

(* The user runs the next command. *)
NewProcess ==
    /\ mem.status \in Ended
    /\ \E next \in Followers(inv) : inv' = next /\ mem' = Started(next)
    /\ interrupts' = 0 /\ walk' = NoWalk
    /\ listener' = Closed /\ login' = NoLogin
    /\ UNCHANGED <<fresh, diskVars>>

CommandStep == (LocalStep \/ RequestStep) /\ UNCHANGED <<walk, files, loginOnly>>
TracesGetStep == TraceStep /\ UNCHANGED <<files, loginOnly>>
SkillInstallStep == (InstallStep \/ PrintError) /\ UNCHANGED <<walk, loginOnly>>
LoginCommandStep ==
    (LoginStep \/ LoginRequest \/ LoginEnvironment) /\ UNCHANGED <<walk, files>>
Disturbance == (Interrupt \/ Expire) /\ UNCHANGED <<walk, files, loginOnly>>

CommandLineNext ==
    \/ CommandStep \/ TracesGetStep \/ SkillInstallStep \/ LoginCommandStep
    \/ Disturbance \/ NewProcess

(* The program takes its own steps, time passes, and a call ends with its  *)
(* context.  Nothing is assumed of the API, the browser, the user.        *)
OwnStep ==
    \/ LocalStep /\ UNCHANGED <<walk, files, loginOnly>>
    \/ TraceLocal /\ UNCHANGED <<files, loginOnly>>
    \/ SkillInstallStep
    \/ LoginStep /\ UNCHANGED <<walk, files>>
CutShortStep ==
    \/ CallCutShort /\ UNCHANGED <<walk, files, loginOnly>>
    \/ Cancelled /\ FetchFails /\ UNCHANGED <<files, loginOnly>>
    \/ LoginCutShort /\ UNCHANGED <<walk, files>>
TimePasses == Tick /\ UNCHANGED <<walk, files>>

CommandLineFairness ==
    /\ WF_allVars(OwnStep) /\ WF_allVars(CutShortStep) /\ WF_allVars(TimePasses)
CommandLineSpec ==
    CommandLineInit /\ [][CommandLineNext]_allVars /\ CommandLineFairness

(***************************************************************************)
(* Properties.                                                             *)
(***************************************************************************)
Memory ==
    /\ mem.todo \in Seq(Steps)
    /\ mem.status \in Ended \union {"running", "failing"}
    /\ mem.client \in [via : Vias, token : Tokens]
    /\ mem.named \in Seq(BOOLEAN)
    /\ mem.got \in Nat /\ mem.whole \in BOOLEAN
    /\ mem.sent \subseteq [via : Vias, token : Tokens, fresh : BOOLEAN]
    /\ mem.hint \in {"none", "own", "install", "consult"}

Listening ==
    /\ listener.up \in BOOLEAN /\ listener.done \in BOOLEAN /\ listener.dead \in BOOLEAN
    /\ listener.port \in Nat
    /\ listener.result \in {<< >>} \union {<<k>> : k \in Genuine}
    /\ listener.log \in Seq([kind : Kinds, reply : Replies])
    /\ login \in [client : 0..MaxClients, clock : {"ample", "short", "over"},
                  floor : {"none", "running", "over"}, won : {"none"} \union Genuine]

(* The variables have their types. *)
CliTypeOK ==
    /\ inv \in Invocation
    /\ Memory /\ Listening
    /\ fresh \in BOOLEAN /\ interrupts \in 0..Sigints
    /\ Len(walk.results) <= MaxTraces
    /\ files \in Bundles
    /\ registry.known \in Seq(Nat)
    /\ registry.disowned \subseteq DOMAIN registry.known

(* An interrupt ends every command, wherever it has got to, but `api` when *)
(* it reads standard input or its request has gone out: neither has a      *)
(* context or a timeout (main.go:287-299, rawapi/api_cmd.go:93,128).       *)
Unstoppable == inv.cmd = "api" /\ AtSome({"body", "request"})
InterruptEnds == interrupts > 0 ~> mem.status \in Ended \/ Unstoppable

(* "The second SIGINT (or one after `stop()`) gets the default behavior so *)
(* a wedged command is still killable" (main.go:295-297).                  *)
SecondInterruptEnds == interrupts > 1 ~> mem.status \in Ended
=============================================================================
