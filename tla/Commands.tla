------------------------------ MODULE Commands ------------------------------
(***************************************************************************)
(* One dash0 process that runs one command line: `list`, `get`, `query`,   *)
(* `send`, `api`, `config show`.  A command is a program, a sequence of    *)
(* steps.  It checks its arguments in the order of the code, builds a      *)
(* client, calls the API and prints.  Each call may fail, or never be      *)
(* answered; the pages of a list come one by one; an interrupt ends the    *)
(* context of a command at any moment.                                     *)
(*                                                                         *)
(* `traces get`, `skill install` and `login` have steps of their own, in   *)
(* the modules that extend this one.                                       *)
(***************************************************************************)
EXTENDS Naturals, FiniteSets, SequencesExt

CONSTANTS
    Stock,       \* the groups of records that the API has to offer
    JsonMax,     \* jsonMaxLimit
    Sigints      \* bound: interrupts of one process

ASSUME CommandsAssumption ==
    /\ Stock \in Seq(Seq(Nat))
    /\ JsonMax \in Nat /\ Sigints \in Nat

VARIABLES
    inv,         \* the command line and the environment of the process
    mem,         \* the memory of the process
    fresh,       \* whether the access token of the stored session is valid
    interrupts   \* the number of SIGINTs delivered to the process

commandVars == <<inv, mem, fresh, interrupts>>

(***************************************************************************)
(* Programs.                                                               *)
(***************************************************************************)

(* What main does before the command: colour mode, profile, --max-retries. *)
MainSteps == <<"color", "profile", "retries">>

(* The arguments every query checks first. *)
QuerySteps == <<"skipHeader", "columnFormat", "format", "columns">>

LogsQuery ==
    QuerySteps \o <<"client", "filters", "jsonLimit", "precision", "stream", "print">>
SpansQuery ==
    QuerySteps \o <<"client", "filters", "jsonLimit", "precision", "stream", "print">>
FailedChecksQuery ==
    QuerySteps \o <<"filters", "client", "jsonLimit", "stream", "print">>

(* The lists of assets look at the output format after the pages. *)
AssetList == <<"skipHeader", "client", "pages", "lateFormat">>
DashboardsList == AssetList \o <<"details", "names", "print">>
ViewsList == AssetList \o <<"details", "print">>
SyntheticChecksList == AssetList \o <<"details", "print">>
CheckRulesList == AssetList \o <<"details", "print">>
RecordingRulesList == AssetList \o <<"print">>
SpamFiltersList ==
    <<"experimental", "skipHeader", "client", "fetch", "lateFormat", "print">>

MembersList == <<"experimental">> \o QuerySteps \o <<"client", "pages", "print">>
TeamsList == <<"experimental">> \o QuerySteps \o <<"client", "pages", "print">>
ChannelsList == <<"experimental">> \o QuerySteps \o <<"client", "pages", "print">>
TeamMembersList == <<"experimental">> \o QuerySteps \o <<"client", "fetch", "print">>

MembersInvite == <<"experimental", "args", "client", "invite", "print">>
TeamsAddMembers == <<"experimental", "client", "lookUp", "send", "print">>
TeamsCreate == <<"experimental", "args", "client", "send", "print">>

AssetGet == <<"client", "fetch", "lateFormat", "print">>
DashboardsGet == AssetGet
ViewsGet == AssetGet
SyntheticChecksGet == AssetGet
CheckRulesGet == AssetGet
RecordingRulesGet == AssetGet
SpamFiltersGet == <<"experimental">> \o AssetGet
ChannelsGet == <<"experimental">> \o AssetGet
TeamsGet == <<"experimental", "client", "format", "fetch", "resolve", "print">>

MetricsInstant ==
    <<"args", "format", "columnFormat", "columns", "rawClient", "filters", "request", "print">>
Api == <<"experimental", "rawClient", "args", "body", "headers", "url", "request", "status">>
LogsSend == <<"attributes", "times", "ids", "ingressClient", "send", "print">>
SpansSend ==
    <<"args", "attributes", "times", "ids", "links", "ingressClient", "send", "print">>

ConfigShow == <<"read", "print">>
ProfilesList == <<"format", "skipHeader", "read", "print">>

(* traces get, login and skill install: see TraceGet, LoginCallback and    *)
(* SkillInstall.                                                           *)
TraceGetSteps == QuerySteps \o <<"traceId", "client", "root", "follow", "show">>
LoginSteps == <<"terminal", "discover", "bind", "register", "authorize", "wait", "exchange">>
InstallSteps == <<"host", "skillMd", "clear", "topics", "report">>

Programs ==
    [logsQuery |-> LogsQuery, spansQuery |-> SpansQuery,
     failedChecksQuery |-> FailedChecksQuery,
     dashboardsList |-> DashboardsList, viewsList |-> ViewsList,
     syntheticChecksList |-> SyntheticChecksList, checkRulesList |-> CheckRulesList,
     recordingRulesList |-> RecordingRulesList, spamFiltersList |-> SpamFiltersList,
     membersList |-> MembersList, teamsList |-> TeamsList, channelsList |-> ChannelsList,
     teamMembersList |-> TeamMembersList, membersInvite |-> MembersInvite,
     teamsAddMembers |-> TeamsAddMembers, teamsCreate |-> TeamsCreate,
     dashboardsGet |-> DashboardsGet, viewsGet |-> ViewsGet,
     syntheticChecksGet |-> SyntheticChecksGet, checkRulesGet |-> CheckRulesGet,
     recordingRulesGet |-> RecordingRulesGet, spamFiltersGet |-> SpamFiltersGet,
     channelsGet |-> ChannelsGet, teamsGet |-> TeamsGet,
     metricsInstant |-> MetricsInstant, api |-> Api,
     logsSend |-> LogsSend, spansSend |-> SpansSend,
     configShow |-> ConfigShow, profilesList |-> ProfilesList,
     tracesGet |-> TraceGetSteps, login |-> LoginSteps, skillInstall |-> InstallSteps]

Commands == DOMAIN Programs
Queries == {"logsQuery", "spansQuery", "failedChecksQuery"}
AssetLists ==
    {"dashboardsList", "viewsList", "syntheticChecksList", "checkRulesList",
     "recordingRulesList", "spamFiltersList"}

(* Output formats a command accepts. *)
ListFormats == {"table", "wide", "json", "yaml", "csv"}
RecordFormats == {"table", "json", "csv"}
ChannelListFormats == RecordFormats \union {"yaml"}
DetailFormats == {"table", "json", "yaml"}
ProfileFormats == {"table", "json"}

FormatsOf(cmd) ==
    IF cmd \in {"channelsGet", "teamsGet"} THEN DetailFormats
    ELSE IF cmd = "channelsList" THEN ChannelListFormats
    ELSE IF cmd = "profilesList" THEN ProfileFormats
    ELSE IF "lateFormat" \in ToSet(Programs[cmd]) THEN ListFormats
    ELSE RecordFormats

Steps == ToSet(MainSteps) \union UNION {ToSet(Programs[c]) : c \in Commands}

(***************************************************************************)
(* The command line.  "none" stands for an option that was not given.      *)
(***************************************************************************)
Profiles == {"none", "static", "oauth", "emptyOauth", "missing"}
Invocation ==
    [cmd : Commands, format : ListFormats \union {"none", "odd"}, limit : Nat, all : BOOLEAN,
     skip : BOOLEAN, column : BOOLEAN, bad : Steps \union {"none"}, flag : BOOLEAN,
     env : BOOLEAN, profile : Profiles, agent : BOOLEAN, experimental : BOOLEAN,
     follow : BOOLEAN, upper : BOOLEAN, explicit : BOOLEAN, port : Nat]

(* Without -o an agent gets JSON and everybody else a table. *)
Format ==
    IF inv.format # "none" THEN inv.format ELSE IF inv.agent THEN "json" ELSE "table"

(* The formats that show whole definitions. *)
Definitions == Format \in {"json", "yaml"}

(* --limit where the command has one and neither 0 nor --all lifts it. *)
Limited == inv.limit > 0 /\ ~inv.all /\ inv.cmd \in Queries \union AssetLists

(* The iterator of a query yields groups of records, that of a list one    *)
(* item at a time, and invitations go out one by one; a `get` asks for one. *)
Items == FlattenSeq(Stock)
Groups ==
    IF inv.cmd \in {"logsQuery", "spansQuery"} THEN Stock
    ELSE IF inv.cmd \in AssetLists \union Queries
                        \union {"membersList", "teamsList", "channelsList",
                                "teamMembersList", "membersInvite"}
         THEN [i \in DOMAIN Items |-> <<Items[i]>>]
         ELSE << <<1>> >>

(***************************************************************************)
(* The process.                                                            *)
(***************************************************************************)
NoClient == [via |-> "none", token |-> "none"]
Vias == {"none", "typed", "ingress", "raw"}
Tokens == {"none", "flag", "env", "static", "access", "provider"}
Ended == {"ok", "failed", "killed"}

(* todo: the steps left; client: how it authenticates; rows: what it has   *)
(* collected; named: for each row in turn whether its details were found;  *)
(* out: what it has printed; got: how many groups the iterator has given;  *)
(* whole: the API has said that there are no more; sent: the credentials   *)
(* of its requests, a history.                                             *)
Started(i) ==
    [todo |-> MainSteps \o Programs[i.cmd], status |-> "running", client |-> NoClient,
     rows |-> << >>, named |-> << >>, out |-> << >>, got |-> 0, whole |-> FALSE,
     sent |-> {}, hint |-> "none"]

At(step) == mem.status = "running" /\ mem.todo # << >> /\ Head(mem.todo) = step
AtSome(steps) == \E s \in steps : At(s)

Done(m) == [m EXCEPT !.todo = Tail(@)]
(* A command that returns an error; main then prints it. *)
Failing(m) == [m EXCEPT !.status = "failing"]
Proceed == mem' = Done(mem)
Refuse == mem' = Failing(mem)

(***************************************************************************)
(* Checks: a step that only looks at the command line.                     *)
(***************************************************************************)
ValidateSkipHeader ==
    inv.skip => inv.format \in {"none", "table", "wide", "csv"}

(* `config profiles list` looks at the format that results. *)
ProfilesSkipHeader == inv.skip => Format = "table"

ValidateColumnFormat ==
    inv.column => (IF inv.cmd = "metricsInstant" THEN Format ELSE inv.format) # "json"

ParseFormat == Format \in FormatsOf(inv.cmd)

(* A limit of zero, no limit, passes. *)
JsonLimit == Format = "json" => inv.limit <= JsonMax

(* --profile and DASH0_PROFILE must name a profile; login may create it. *)
ResolveConfigurationForProfile == inv.profile = "missing" => inv.cmd = "login"

RequireExperimental == inv.experimental

(* A malformed argument, header, body, filter, column, link or URL. *)
WellFormed(step) == inv.bad # step

(* A login needs somebody at a terminal. *)
Interactive == ~inv.agent

Accepts(step) ==
    /\ WellFormed(step)
    /\ step = "skipHeader" =>
          IF inv.cmd = "profilesList" THEN ProfilesSkipHeader ELSE ValidateSkipHeader
    /\ step = "columnFormat" => ValidateColumnFormat
    /\ step \in {"format", "lateFormat"} => ParseFormat
    /\ step = "jsonLimit" => JsonLimit
    /\ step = "profile" => ResolveConfigurationForProfile
    /\ step = "experimental" => RequireExperimental
    /\ step = "terminal" => Interactive

Checks ==
    {"color", "profile", "retries", "experimental", "skipHeader", "columnFormat", "format",
     "columns", "filters", "jsonLimit", "precision", "lateFormat", "args", "headers",
     "url", "attributes", "times", "ids", "links", "traceId", "host", "terminal"}

Check ==
    /\ AtSome(Checks)
    /\ IF Accepts(Head(mem.todo)) THEN Proceed ELSE Refuse
    /\ UNCHANGED <<inv, fresh, interrupts>>

(***************************************************************************)
(* Clients.                                                                *)
(***************************************************************************)
OAuthProfile == inv.profile \in {"oauth", "emptyOauth"}

(* A static token supersedes the session of the profile. *)
OAuthShadowed == OAuthProfile /\ (inv.env \/ inv.flag)

CheckOAuthEmpty == inv.profile = "emptyOauth" => OAuthShadowed

(* The OTLP ingress does not accept the access token of a session. *)
CheckOAuthOnOtlp == OAuthProfile => OAuthShadowed

(* The token of the environment overrides that of the profile. *)
ConfiguredToken ==
    IF inv.env THEN "env"
    ELSE IF inv.profile \in {"none", "missing"} THEN "none"
    ELSE IF OAuthProfile THEN "access" ELSE "static"

ResolvedToken == IF inv.flag THEN "flag" ELSE ConfiguredToken

\* Mutant: the access token is fixed when the client is made.
AuthTokenFrozen == ResolvedToken

(* A session that is not shadowed authenticates through its provider, which *)
(* sees to a valid access token at each request.                            *)
AuthTokenOption ==
    IF OAuthProfile /\ ~OAuthShadowed THEN "provider" ELSE ResolvedToken

MakeClient(via, token) == mem' = Done([mem EXCEPT !.client = [via |-> via, token |-> token]])

NewClientFromContext ==
    /\ At("client")
    /\ IF WellFormed("client") /\ ResolvedToken # "none" /\ CheckOAuthEmpty
       THEN MakeClient("typed", AuthTokenOption)
       ELSE Refuse
    /\ UNCHANGED <<inv, fresh, interrupts>>

NewOtlpClientFromContext ==
    /\ At("ingressClient")
    /\ IF /\ WellFormed("ingressClient") /\ ResolvedToken # "none"
          /\ CheckOAuthEmpty /\ CheckOAuthOnOtlp
       THEN MakeClient("ingress", AuthTokenOption)
       ELSE Refuse
    /\ UNCHANGED <<inv, fresh, interrupts>>

(* Raw requests ask the provider of the profile once, unless a session is  *)
(* shadowed.  Nobody tells that provider of --auth-token; what it answers  *)
(* for a profile without a session is the library's business.              *)
RawTokens ==
    IF inv.flag /\ ~OAuthProfile THEN {"flag", ConfiguredToken} \ {"none"} ELSE {ResolvedToken}

NewRawHTTPConfig ==
    /\ At("rawClient")
    /\ \/ /\ WellFormed("rawClient") /\ ResolvedToken # "none" /\ CheckOAuthEmpty
          /\ \E token \in RawTokens :
                /\ MakeClient("raw", token)
                /\ fresh' = (fresh \/ token = "access")
       \/ /\ ~WellFormed("rawClient") \/ ResolvedToken \in {"none", "access"}
          /\ Refuse /\ UNCHANGED fresh
    /\ UNCHANGED <<inv, interrupts>>

(* The body of an `api` request: a file, or standard input to its end. *)
ReadBody ==
    /\ At("body")
    /\ IF WellFormed("body") THEN Proceed ELSE Refuse
    /\ UNCHANGED <<inv, fresh, interrupts>>

(***************************************************************************)
(* Requests.                                                               *)
(***************************************************************************)

(* What a request carries. *)
Credential ==
    LET session == mem.client.token \in {"access", "provider"} IN
    [via |-> mem.client.via,
     token |-> IF session THEN "access" ELSE mem.client.token,
     fresh |-> session => fresh \/ mem.client.token = "provider"]

Sent(m) == [m EXCEPT !.sent = @ \union {Credential}]
Refreshed == fresh' = (fresh \/ mem.client.token = "provider")

\* Mutant: `logs query` is given a context of its own.
ObservesOtherContext == inv.cmd \notin {"api", "metricsInstant", "logsQuery"}

(* `api` and `metrics instant` do not pass the context to their request. *)
ObservesContext == inv.cmd \notin {"api", "metricsInstant"}
Cancelled == interrupts > 0 /\ ObservesContext

Requests ==
    {"pages", "stream", "fetch", "resolve", "lookUp", "invite", "request", "send"}
Requesting ==
    /\ AtSome(Requests)
    /\ At("resolve") => Definitions
    /\ At("invite") => mem.got < Len(Items)

Answered(m) ==
    /\ ~Cancelled
    /\ mem' = Sent(m)
    /\ Refreshed
    /\ UNCHANGED <<inv, interrupts>>

(* A call that fails for good: refused, not found, no connection, retries  *)
(* exhausted, the context cancelled, a session that cannot be refreshed.   *)
RequestFails ==
    /\ Requesting
    /\ Refuse
    /\ UNCHANGED <<inv, fresh, interrupts>>

(***************************************************************************)
(* Pages and records.                                                      *)
(***************************************************************************)
Reached(n) == Limited /\ n >= inv.limit

Prefix(s, n) == SubSeq(s, 1, IF n < Len(s) THEN n ELSE Len(s))

(* Tables and CSV stop inside a group, the JSON of a query takes it whole. *)
CutsGroups == inv.cmd \in Queries => Format # "json"

Emitted(group) ==
    IF Limited /\ CutsGroups THEN Prefix(group, inv.limit - Len(mem.rows)) ELSE group

(* A CSV query prints each record as it comes. *)
StreamCSV == At("stream") /\ Format = "csv"

(* The iterator has another group, on this page or the next. *)
IteratorYields ==
    /\ AtSome({"pages", "stream"})
    /\ mem.got < Len(Groups)
    /\ LET rows == mem.rows \o Emitted(Groups[mem.got + 1])
           m == [mem EXCEPT !.got = @ + 1, !.rows = rows, !.out = IF StreamCSV THEN rows ELSE @]
       IN Answered(IF Reached(Len(rows)) THEN Done(m) ELSE m)

(* The last page was the last: the API may have less than Stock. *)
IteratorEnds ==
    /\ AtSome({"pages", "stream"})
    /\ Answered(Done([mem EXCEPT !.whole = TRUE]))

(* One call that returns all there is, cut to the limit afterwards. *)
Fetch ==
    /\ At("fetch")
    /\ LET all == FlattenSeq(Groups) IN
       Answered(Done([mem EXCEPT !.rows = IF Limited THEN Prefix(all, inv.limit) ELSE all,
                                 !.got = Len(Groups), !.whole = TRUE]))

(* Where members of a team are to be shown by e-mail. *)
ResolveMembers == At("resolve") /\ Definitions /\ Answered(Done(mem))

(* All members are listed, once, whether named by e-mail or identifier. *)
ResolveToMemberIDs == At("lookUp") /\ Answered(Done(mem))

(* One invitation after the other; the first that fails ends the command. *)
InviteMember ==
    /\ At("invite") /\ mem.got < Len(Items)
    /\ Answered([mem EXCEPT !.got = @ + 1, !.rows = Append(@, Items[mem.got + 1])])

Invited ==
    /\ At("invite") /\ mem.got = Len(Items)
    /\ mem' = Done([mem EXCEPT !.whole = TRUE])
    /\ UNCHANGED <<inv, fresh, interrupts>>

(* Definitions are fetched one by one, and so are the names in a table of  *)
(* dashboards: one without a name is one whose GET failed.                 *)
Detailing ==
    /\ \/ At("details") /\ Definitions
       \/ At("names") /\ ~Definitions
    /\ Len(mem.named) < Len(mem.rows)

Named(found) == [mem EXCEPT !.named = Append(@, found)]

DetailFound == Detailing /\ Answered(Named(TRUE))

\* Mutant: a definition that cannot be fetched is passed over.
DetailFailsQuietly ==
    /\ Detailing
    /\ mem' = Named(FALSE)
    /\ UNCHANGED <<inv, fresh, interrupts>>

DetailFails ==
    /\ Detailing
    /\ IF At("details") THEN Refuse ELSE mem' = Named(FALSE)
    /\ UNCHANGED <<inv, fresh, interrupts>>

DetailsDone ==
    /\ AtSome({"details", "names", "resolve"}) /\ ~Detailing /\ ~Requesting
    /\ Proceed
    /\ UNCHANGED <<inv, fresh, interrupts>>

(* runInstantQuery and runAPI.  The body of an API response is printed     *)
(* before its status is looked at.                                         *)
RawAnswered ==
    /\ At("request")
    /\ Answered(Done([mem EXCEPT !.rows = <<1>>, !.got = 1, !.whole = TRUE,
                                 !.out = IF inv.cmd = "api" THEN <<1>> ELSE @]))

Status ==
    /\ At("status")
    /\ Refuse \/ mem' = [Done(mem) EXCEPT !.status = "ok"]
    /\ UNCHANGED <<inv, fresh, interrupts>>

Send == At("send") /\ Answered(Done([mem EXCEPT !.rows = <<1>>, !.got = 1, !.whole = TRUE]))

(* The profiles on disk. *)
Read ==
    /\ At("read")
    /\ Refuse \/ mem' = Done([mem EXCEPT !.rows = <<1>>, !.got = 1, !.whole = TRUE])
    /\ UNCHANGED <<inv, fresh, interrupts>>

Render ==
    /\ At("print")
    /\ mem' = [Done(mem) EXCEPT !.out = mem.rows, !.status = "ok"]
    /\ UNCHANGED <<inv, fresh, interrupts>>

(***************************************************************************)
(* The environment, and what a process does without it.                    *)
(***************************************************************************)

(* SIGINT or SIGTERM: the context ends; a second one has no further effect *)
(* while signal.NotifyContext is in force, and it is until main returns.   *)
Interrupt ==
    /\ mem.status = "running" /\ interrupts < Sigints
    /\ interrupts' = interrupts + 1
    /\ UNCHANGED <<inv, mem, fresh>>

(* The access token of the session expires, while somebody may use it. *)
Expire ==
    /\ mem.status = "running" /\ inv.profile = "oauth" /\ fresh
    /\ fresh' = FALSE
    /\ UNCHANGED <<inv, mem, interrupts>>

LocalStep ==
    Check \/ NewClientFromContext \/ NewOtlpClientFromContext \/ NewRawHTTPConfig
    \/ DetailsDone \/ Invited \/ Status \/ Read \/ Render

RequestStep ==
    ReadBody \/ RequestFails \/ IteratorYields \/ IteratorEnds \/ Fetch \/ ResolveMembers
    \/ ResolveToMemberIDs \/ InviteMember \/ DetailFound \/ DetailFails \/ RawAnswered \/ Send

(* A call that the context, or the client's timeout, brings to an end. *)
CallCutShort ==
    /\ Cancelled \/ inv.cmd = "metricsInstant"
    /\ RequestFails \/ DetailFails

(***************************************************************************)
(* Properties.                                                             *)
(***************************************************************************)

(* What the API has offered to the iterator, and the part of it that the   *)
(* command prints: what the limit leaves, but whole groups where it does   *)
(* not cut them.                                                           *)
Offered == FlattenSeq(SubSeq(Groups, 1, mem.got))
Wanted == IF Limited /\ CutsGroups THEN Prefix(Offered, inv.limit) ELSE Offered

PagedCommands == {c \in Commands : {"pages", "stream"} \intersect ToSet(Programs[c]) # {}}
DetailCommands == {c \in Commands : "details" \in ToSet(Programs[c])}
PrintCommands == {c \in Commands : "print" \in ToSet(Programs[c])}

(* However the API pages, answers late or fails: a command that exits with *)
(* 0 has printed, in order, what was offered up to its limit, or with JSON *)
(* what was offered up to the end of the group in which the limit falls,   *)
(* and only stops short of the end at the limit; a definition that was not *)
(* fetched is not left out of a list; no group is asked for beyond the     *)
(* limit; and a command that fails has printed nothing, but for the        *)
(* records a CSV query had already passed on and the body that `api` got   *)
(* (logging/query.go:303-422, dashboards/list.go:71-137, rawapi/api_cmd.go:*)
(* 140-156).                                                               *)
AnswerExact ==
    /\ mem.status = "ok" /\ inv.cmd \in PrintCommands =>
          /\ mem.out = Wanted
          /\ mem.whole \/ Reached(Len(Offered))
          /\ inv.cmd \in DetailCommands /\ Definitions =>
                mem.named = [i \in DOMAIN mem.out |-> TRUE]
    /\ mem.got > 0 /\ inv.cmd \in PagedCommands =>
          ~Reached(Len(FlattenSeq(SubSeq(Groups, 1, mem.got - 1))))
    /\ mem.status \in {"failing", "failed"} /\ mem.out # << >> =>
          \/ inv.cmd = "api"
          \/ inv.cmd \in Queries /\ Format = "csv" /\ mem.out = Wanted

(* Which token a request carries: the one of --auth-token before that of   *)
(* DASH0_AUTH_TOKEN, and either before a session.  A raw request under a   *)
(* profile without a session may carry the configured token in spite of    *)
(* the flag: the profile's provider has the last word.  The OTLP ingress   *)
(* never sees the access token of a session, and no page of a long listing *)
(* goes out with one that has expired (client.go:26-125, 214-243, 316-345, *)
(* rawhttp.go:41-78).  The requests of a login, made without a client,     *)
(* carry no token.                                                         *)
TokensFit ==
    \A r \in mem.sent :
        /\ r.via # "none" /\ inv.flag =>
              \/ r.token = "flag"
              \/ r.via = "raw" /\ ~OAuthProfile /\ r.token = ConfiguredToken
        /\ r.via # "none" /\ inv.env /\ ~inv.flag => r.token = "env"
        /\ r.token = "access" => ~inv.flag /\ ~inv.env /\ r.via # "ingress"
        /\ r.via # "raw" => r.fresh
=============================================================================
