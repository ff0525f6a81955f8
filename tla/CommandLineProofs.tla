-------------------------- MODULE CommandLineProofs --------------------------
(***************************************************************************)
(* Theorems of CommandLine, for any command lines, any stock of records,   *)
(* any topics, ports and callbacks: which token a request carries, what an *)
(* install leaves, who decides a login and with which client.              *)
(***************************************************************************)
EXTENDS CommandLine, SequenceTheorems, TLAPS

(***************************************************************************)
(* The memory of a process is a record with these fields, so that a step   *)
(* that changes one of them leaves the others alone.                       *)
(***************************************************************************)
Fields ==
    {"todo", "status", "client", "rows", "named", "out", "got", "whole", "sent", "hint"}
Whole(m) == DOMAIN m = Fields /\ m = [f \in Fields |-> m[f]]

(* A step that is done leaves the others.                                  *)
LEMMA WholeDone == ASSUME NEW m, Whole(m) PROVE
    /\ Whole(Done(m)) /\ Done(m).todo = Tail(m.todo) /\ Done(m).status = m.status
    /\ Done(m).client = m.client /\ Done(m).sent = m.sent /\ Done(m).hint = m.hint
    /\ Done(m).got = m.got
BY DEF Whole, Fields, Done

(* A failure changes the status only.                                      *)
LEMMA WholeFailing == ASSUME NEW m, Whole(m) PROVE
    /\ Whole(Failing(m)) /\ Failing(m).todo = m.todo /\ Failing(m).status = "failing"
    /\ Failing(m).client = m.client /\ Failing(m).sent = m.sent /\ Failing(m).hint = m.hint
    /\ Failing(m).got = m.got
BY DEF Whole, Fields, Failing

(* A request adds its credential to those sent.                            *)
LEMMA WholeSent == ASSUME NEW m, Whole(m) PROVE
    /\ Whole(Sent(m)) /\ Sent(m).todo = m.todo /\ Sent(m).status = m.status
    /\ Sent(m).client = m.client /\ Sent(m).sent = m.sent \union {Credential}
    /\ Sent(m).hint = m.hint
BY DEF Whole, Fields, Sent

(* A process starts with nothing done.                                     *)
LEMMA WholeStarted == ASSUME NEW i PROVE
    /\ Whole(Started(i)) /\ Started(i).todo = MainSteps \o Programs[i.cmd]
    /\ Started(i).status = "running" /\ Started(i).client = NoClient
    /\ Started(i).sent = {} /\ Started(i).hint = "none" /\ Started(i).got = 0
BY DEF Whole, Fields, Started

(***************************************************************************)
(* What the steps of a command have in common.                             *)
(***************************************************************************)
CommandPlaces ==
    Checks \union
    {"client", "ingressClient", "rawClient", "details", "names", "resolve", "invite",
     "status", "read", "print", "body", "pages", "stream", "fetch", "lookUp", "request",
     "send"}
TracePlaces == {"root", "follow", "show"}
InstallPlaces == {"skillMd", "clear", "topics", "report"}
LoginPlaces == {"discover", "bind", "register", "authorize", "wait", "exchange"}
LastPlaces == {"status", "print", "show", "report", "exchange"}

(* m is mem but for what it has collected.                                 *)
Keeps(m) ==
    /\ Whole(m)
    /\ m.todo = mem.todo /\ m.status = mem.status /\ m.client = mem.client
    /\ m.sent = mem.sent /\ m.hint = mem.hint

(* From mem to m one step of the program is taken, or none.                *)
Moves(m) == Whole(m) /\ m.todo \in {mem.todo, Tail(mem.todo)} /\ m.hint = mem.hint

(* The client stays, and no request goes out with another credential.      *)
Carries(m) == m.client = mem.client /\ m.sent \subseteq mem.sent \union {Credential}

Goes(m) == Moves(m) /\ Carries(m) /\ m.status # "ok"

Acts(places) ==
    /\ mem.status = "running" /\ mem.todo # << >> /\ Head(mem.todo) \in places
    /\ inv' = inv /\ Moves(mem')
    /\ mem'.status = "ok" => Head(mem.todo) \in LastPlaces
    /\ Head(mem.todo) \in Checks => mem' \in {Done(mem), Failing(mem)}

Makers == NewClientFromContext \/ NewOtlpClientFromContext \/ NewRawHTTPConfig

(* Every way in which a step of a command leaves the memory.               *)
LEMMA KeepsGoes == ASSUME NEW m, Keeps(m), mem.status = "running" PROVE
    /\ Goes(m) /\ Goes(Done(m)) /\ Goes(Failing(m)) /\ Goes(Sent(m)) /\ Goes(Sent(Done(m)))
<1>1. Goes(m)
  BY DEF Keeps, Goes, Moves, Carries
<1>2. Goes(Done(m))
  BY WholeDone DEF Keeps, Goes, Moves, Carries
<1>3. Goes(Failing(m))
  BY WholeFailing DEF Keeps, Goes, Moves, Carries
<1>4. ASSUME NEW n, Whole(n), Goes(n), n.sent = mem.sent PROVE Goes(Sent(n))
  BY <1>4, WholeSent DEF Goes, Moves, Carries
<1>5. /\ Whole(m) /\ m.sent = mem.sent
      /\ Whole(Done(m)) /\ Done(m).sent = mem.sent
  BY WholeDone DEF Keeps
<1>. QED
  BY <1>1, <1>2, <1>3, <1>4, <1>5

(* The memory itself is such an m.                                          *)
LEMMA MemKeeps == Whole(mem) => Keeps(mem)
  BY DEF Keeps

(* What a command does by itself, but for making a client.                  *)
LEMMA LocalActs ==
  ASSUME Whole(mem), LocalStep, ~Makers PROVE Acts(CommandPlaces) /\ Carries(mem')
<1>. USE DEF CommandPlaces, Checks, LastPlaces, Goes, At, Acts
<1>0. mem.status = "running" => Goes(Done(mem)) /\ Goes(Failing(mem))
  BY KeepsGoes, MemKeeps
<1>1. CASE Check
  BY <1>0, <1>1 DEF Check, AtSome, Proceed, Refuse
<1>2. CASE DetailsDone
  BY <1>0, <1>2 DEF DetailsDone, AtSome, Proceed
<1>3. CASE Invited
  <2>. DEFINE m == [mem EXCEPT !.whole = TRUE]
  <2>1. Keeps(m)
    BY DEF Keeps, Whole, Fields
  <2>. QED
    BY <1>3, <2>1, KeepsGoes DEF Invited
<1>4. CASE Status
  <2>. DEFINE m == [Done(mem) EXCEPT !.status = "ok"]
  <2>1. Moves(m) /\ Carries(m)
    BY WholeDone DEF Moves, Carries, Whole, Fields
  <2>. QED
    BY <1>0, <1>4, <2>1 DEF Status, Refuse
<1>5. CASE Read
  <2>. DEFINE m == [mem EXCEPT !.rows = <<1>>, !.got = 1, !.whole = TRUE]
  <2>1. Keeps(m)
    BY DEF Keeps, Whole, Fields
  <2>. QED
    BY <1>0, <1>5, <2>1, KeepsGoes DEF Read, Refuse
<1>6. CASE Render
  <2>. DEFINE m == [Done(mem) EXCEPT !.out = mem.rows, !.status = "ok"]
  <2>1. Moves(m) /\ Carries(m)
    BY WholeDone DEF Moves, Carries, Whole, Fields
  <2>. QED
    BY <1>6, <2>1 DEF Render
<1>. QED
  BY <1>1, <1>2, <1>3, <1>4, <1>5, <1>6 DEF LocalStep, Makers

(* What it does with the API.                                               *)
LEMMA RequestActs ==
  ASSUME Whole(mem), RequestStep PROVE Acts(CommandPlaces) /\ Carries(mem')
<1>. USE KeepsGoes DEF CommandPlaces, Checks, Goes, At, Acts
<1>0. Keeps(mem)
  BY MemKeeps
<1>1. CASE ReadBody
  BY <1>0, <1>1 DEF ReadBody, Proceed, Refuse
<1>2. CASE RequestFails
  BY <1>0, <1>2 DEF RequestFails, Requesting, Requests, AtSome, Refuse
<1>3. CASE IteratorYields
  <2>. DEFINE rows == mem.rows \o Emitted(Groups[mem.got + 1])
              m == [mem EXCEPT !.got = @ + 1, !.rows = rows, !.out = IF StreamCSV THEN rows ELSE @]
  <2>1. Keeps(m)
    BY DEF Keeps, Whole, Fields
  <2>. HIDE DEF m
  <2>2. mem' \in {Sent(m), Sent(Done(m))} /\ inv' = inv
    BY <1>3 DEF IteratorYields, Answered, m
  <2>. QED
    BY <1>3, <2>1, <2>2 DEF IteratorYields, AtSome
<1>4. CASE IteratorEnds
  <2>. DEFINE m == [mem EXCEPT !.whole = TRUE]
  <2>1. Keeps(m)
    BY DEF Keeps, Whole, Fields
  <2>. QED
    BY <1>4, <2>1 DEF IteratorEnds, Answered, AtSome
<1>5. CASE Fetch
  <2>1. PICK rows : LET m == [mem EXCEPT !.rows = rows, !.got = Len(Groups), !.whole = TRUE]
                    IN mem' = Sent(Done(m)) /\ inv' = inv
    BY <1>5 DEF Fetch, Answered
  <2>. DEFINE m == [mem EXCEPT !.rows = rows, !.got = Len(Groups), !.whole = TRUE]
  <2>2. Keeps(m)
    BY DEF Keeps, Whole, Fields
  <2>. QED
    BY <1>5, <2>1, <2>2 DEF Fetch
<1>6. CASE ResolveMembers \/ ResolveToMemberIDs
  BY <1>0, <1>6 DEF ResolveMembers, ResolveToMemberIDs, Answered
<1>7. CASE InviteMember
  <2>. DEFINE m == [mem EXCEPT !.got = @ + 1, !.rows = Append(@, Items[mem.got + 1])]
  <2>1. Keeps(m)
    BY DEF Keeps, Whole, Fields
  <2>. QED
    BY <1>7, <2>1 DEF InviteMember, Answered
<1>8. \A found : Keeps(Named(found))
  BY DEF Named, Keeps, Whole, Fields
<1>9. CASE DetailFound
  BY <1>8, <1>9 DEF DetailFound, Detailing, Answered
<1>10. CASE DetailFails
  BY <1>0, <1>8, <1>10 DEF DetailFails, Detailing, Refuse
<1>11. CASE RawAnswered
  <2>1. PICK out : LET m == [mem EXCEPT !.rows = <<1>>, !.got = 1, !.whole = TRUE, !.out = out]
                   IN mem' = Sent(Done(m)) /\ inv' = inv
    BY <1>11 DEF RawAnswered, Answered
  <2>. DEFINE m == [mem EXCEPT !.rows = <<1>>, !.got = 1, !.whole = TRUE, !.out = out]
  <2>2. Keeps(m)
    BY DEF Keeps, Whole, Fields
  <2>. QED
    BY <1>11, <2>1, <2>2 DEF RawAnswered
<1>12. CASE Send
  <2>. DEFINE m == [mem EXCEPT !.rows = <<1>>, !.got = 1, !.whole = TRUE]
  <2>1. Keeps(m)
    BY DEF Keeps, Whole, Fields
  <2>. QED
    BY <1>12, <2>1 DEF Send, Answered
<1>. QED
  BY <1>1, <1>2, <1>3, <1>4, <1>5, <1>6, <1>7, <1>9, <1>10, <1>11, <1>12 DEF RequestStep

(* The steps of `traces get`.                                               *)
LEMMA TraceActs ==
  ASSUME Whole(mem), TraceStep PROVE Acts(TracePlaces) /\ Carries(mem')
<1>. USE KeepsGoes DEF TracePlaces, LastPlaces, Checks, Goes, At, Acts
<1>0. Keeps(mem)
  BY MemKeeps
<1>1. CASE FetchRoot
  BY <1>0, <1>1 DEF FetchRoot, Answered
<1>2. CASE FetchLinked
  BY <1>0, <1>2 DEF FetchLinked, Answered
<1>3. CASE FetchFails
  BY <1>0, <1>3 DEF FetchFails, Refuse
<1>4. CASE FollowDone
  BY <1>0, <1>4 DEF FollowDone, Proceed
<1>5. CASE RenderTrace
  <2>. DEFINE out == FlattenSeq([i \in DOMAIN walk.results |-> Rows(walk.results[i])])
              m == [Done(mem) EXCEPT !.out = out, !.status = "ok"]
  <2>1. Moves(m) /\ Carries(m)
    <3>. HIDE DEF out
    <3>. QED BY WholeDone DEF Moves, Carries, Whole, Fields
  <2>. QED
    BY <1>5, <2>1 DEF RenderTrace
<1>. QED
  BY <1>1, <1>2, <1>3, <1>4, <1>5 DEF TraceStep, TraceLocal, TraceRequest

(* The steps of `skill install`.                                            *)
LEMMA InstallActs ==
  ASSUME Whole(mem), InstallStep PROVE Acts(InstallPlaces) /\ Carries(mem')
<1>. USE KeepsGoes DEF InstallPlaces, LastPlaces, Checks, Goes, At, Acts
<1>0. /\ Keeps(mem) /\ Keeps([mem EXCEPT !.got = @ + 1])
      /\ Goes([mem EXCEPT !.status = "killed"])
  BY DEF Keeps, Moves, Carries, Whole, Fields
<1>1. CASE WriteSkillMD
  BY <1>0, <1>1 DEF WriteSkillMD, CutShort, Proceed
<1>2. CASE ClearReferences
  BY <1>0, <1>2 DEF ClearReferences, CutShort, Proceed
<1>3. CASE WriteTopic
  BY <1>0, <1>3 DEF WriteTopic, CutShort
<1>4. CASE TopicsWritten
  BY <1>0, <1>4 DEF TopicsWritten, Proceed
<1>5. CASE ReportInstall
  <2>. DEFINE m == [Done(mem) EXCEPT !.status = "ok"]
  <2>1. Moves(m) /\ Carries(m)
    BY WholeDone DEF Moves, Carries, Whole, Fields
  <2>. QED
    BY <1>5, <2>1 DEF ReportInstall
<1>. QED
  BY <1>1, <1>2, <1>3, <1>4, <1>5 DEF InstallStep

(* The steps of `login`; some are not the process's own.                    *)
LEMMA LoginActs ==
  ASSUME Whole(mem), LoginStep \/ LoginRequest \/ LoginEnvironment
  PROVE  (Acts(LoginPlaces) /\ Carries(mem')) \/ UNCHANGED <<inv, mem>>
<1>. USE KeepsGoes DEF LoginPlaces, LastPlaces, Checks, Goes, At, Acts
<1>0. Keeps(mem)
  BY MemKeeps
<1>1. CASE StartCallbackListener \/ UseCachedClient \/ Authorize
  BY <1>0, <1>1 DEF StartCallbackListener, UseCachedClient, Authorize, Aborted, Proceed, Refuse
<1>2. CASE WaitResult \/ WaitServeErr \/ WaitDone
  BY <1>0, <1>2 DEF WaitResult, WaitServeErr, WaitDone, Aborted, Proceed, Refuse
<1>3. CASE Discover \/ RegisterClient
  BY <1>0, <1>3 DEF Discover, RegisterClient, Answered
<1>4. CASE Exchanged
  <2>. DEFINE m == [Done(mem) EXCEPT !.status = "ok"]
  <2>1. Whole(m) /\ Moves(Sent(m)) /\ Carries(Sent(m))
    <3>1. /\ Whole(m) /\ m.todo = Tail(mem.todo) /\ m.client = mem.client
          /\ m.hint = mem.hint /\ m.sent = mem.sent
      BY WholeDone DEF Whole, Fields
    <3>. QED
      BY <3>1, WholeSent DEF Moves, Carries
  <2>. QED
    BY <1>4, <2>1 DEF Exchanged, Answered
<1>5. CASE InvalidClient \/ LoginRequestFails
  BY <1>0, <1>5 DEF InvalidClient, LoginRequestFails, Aborted, AtSome, Refuse
<1>6. CASE Deliver \/ LoginEnvironment
  BY <1>6 DEF Deliver, LoginEnvironment, HandleCallback, ListenerDies, Tick, commandVars
<1>. QED
  BY <1>1, <1>2, <1>3, <1>4, <1>5, <1>6 DEF LoginStep, LoginRequest

(* Making a client is a step of the program, too.                           *)
LEMMA MakersActs ==
  ASSUME Whole(mem), Makers PROVE Acts(CommandPlaces)
<1>. USE DEF CommandPlaces, Checks, Goes, At, Acts
<1>1. Refuse /\ mem.status = "running" => Moves(mem') /\ mem'.status # "ok"
  BY KeepsGoes, MemKeeps DEF Refuse
<1>2. ASSUME NEW via, NEW token, MakeClient(via, token)
      PROVE  Moves(mem') /\ mem'.status = mem.status
  BY <1>2 DEF MakeClient, Done, Moves, Whole, Fields
<1>. QED
  BY <1>1, <1>2 DEF Makers, NewClientFromContext, NewOtlpClientFromContext, NewRawHTTPConfig

(***************************************************************************)
(* Tokens.                                                                 *)
(***************************************************************************)

(* What the client of a process is allowed to authenticate with.           *)
ClientFits(c) ==
    /\ c.via # "raw" => c.token # "access"
    /\ c.via # "none" /\ inv.flag =>
          \/ c.token = "flag"
          \/ c.via = "raw" /\ ~OAuthProfile /\ c.token = ConfiguredToken
    /\ c.via # "none" /\ inv.env /\ ~inv.flag => c.token = "env"
    /\ c.token \in {"access", "provider"} => ~inv.flag /\ ~inv.env /\ c.via # "ingress"

TokensInv == Whole(mem) /\ inv \in Invocations /\ ClientFits(mem.client) /\ TokensFit

(* The next step within a process, that of a client aside.                 *)
LEMMA StepCarries ==
  ASSUME Whole(mem), CommandLineNext, ~NewProcess, ~Makers
  PROVE  inv' = inv /\ Whole(mem') /\ Carries(mem')
<1>. USE DEF Acts, Moves
<1>1. CASE CommandStep
  BY <1>1, LocalActs, RequestActs DEF CommandStep
<1>2. CASE TracesGetStep
  BY <1>2, TraceActs DEF TracesGetStep
<1>3. CASE SkillInstallStep
  <2>1. ASSUME PrintError PROVE inv' = inv /\ Whole(mem') /\ Carries(mem')
    BY <2>1 DEF PrintError, Carries, Whole, Fields
  <2>. QED
    BY <1>3, <2>1, InstallActs DEF SkillInstallStep
<1>4. CASE LoginCommandStep
  BY <1>4, LoginActs DEF LoginCommandStep, Carries
<1>5. CASE Disturbance
  BY <1>5 DEF Disturbance, Interrupt, Expire, Carries
<1>. QED
  BY <1>1, <1>2, <1>3, <1>4, <1>5 DEF CommandLineNext

(* A client is made with the token that has precedence.                    *)
LEMMA MakersFit ==
  ASSUME Whole(mem), inv \in Invocation, Makers
  PROVE  /\ inv' = inv /\ Whole(mem') /\ mem'.sent = mem.sent
         /\ mem'.client = mem.client \/ ClientFits(mem'.client)
<1>. USE DEF OAuthProfile, OAuthShadowed, ConfiguredToken, ResolvedToken
<1>0. inv.flag \in BOOLEAN /\ inv.env \in BOOLEAN
  BY DEF Invocation
<1>1. ASSUME NEW via, NEW token, MakeClient(via, token)
      PROVE  Whole(mem') /\ mem'.sent = mem.sent /\ mem'.client = [via |-> via, token |-> token]
  BY <1>1 DEF MakeClient, Done, Whole, Fields
<1>2. ASSUME Refuse
      PROVE  Whole(mem') /\ mem'.sent = mem.sent /\ mem'.client = mem.client
  BY <1>2, WholeFailing DEF Refuse
<1>3. CASE NewClientFromContext
  <2>1. ClientFits([via |-> "typed", token |-> AuthTokenOption])
    BY <1>0 DEF ClientFits, AuthTokenOption
  <2>. QED
    BY <1>1, <1>2, <1>3, <2>1 DEF NewClientFromContext
<1>4. CASE NewOtlpClientFromContext
  <2>1. CheckOAuthOnOtlp => ClientFits([via |-> "ingress", token |-> AuthTokenOption])
    BY <1>0 DEF ClientFits, AuthTokenOption, CheckOAuthOnOtlp
  <2>. QED
    BY <1>1, <1>2, <1>4, <2>1 DEF NewOtlpClientFromContext
<1>5. CASE NewRawHTTPConfig
  <2>1. \A token \in RawTokens : ClientFits([via |-> "raw", token |-> token])
    BY <1>0 DEF ClientFits, RawTokens
  <2>. QED
    BY <1>1, <1>2, <1>5, <2>1 DEF NewRawHTTPConfig
<1>. QED
  BY <1>3, <1>4, <1>5 DEF Makers

(* A process starts without a client.                                       *)
LEMMA TokensInit == CommandLineInit => TokensInv
  BY WholeStarted DEF CommandLineInit, TokensInv, ClientFits, NoClient, TokensFit

(* What is sent is what the client of the process may send.                 *)
LEMMA TokensNext == TokensInv /\ [CommandLineNext]_allVars => TokensInv'
<1>. SUFFICES ASSUME TokensInv, [CommandLineNext]_allVars PROVE TokensInv'
  OBVIOUS
<1>. USE DEF TokensInv, OAuthProfile, ConfiguredToken
<1>1. inv \in Invocation
  BY InvocationsAssumption
<1>2. CASE UNCHANGED allVars
  BY <1>2 DEF allVars, ClientFits, TokensFit, Whole
<1>3. CASE NewProcess
  BY <1>3, WholeStarted, InvocationsAssumption DEF NewProcess, ClientFits, NoClient, TokensFit
<1>4. CASE CommandLineNext /\ Makers
  BY <1>1, <1>4, MakersFit DEF ClientFits, TokensFit
<1>5. CASE CommandLineNext /\ ~Makers /\ ~NewProcess
  <2>1. inv' = inv /\ Whole(mem') /\ Carries(mem')
    BY <1>5, StepCarries
  <2>2. LET r == Credential IN
          /\ r.via # "none" /\ inv.flag =>
                \/ r.token = "flag"
                \/ r.via = "raw" /\ ~OAuthProfile /\ r.token = ConfiguredToken
          /\ r.via # "none" /\ inv.env /\ ~inv.flag => r.token = "env"
          /\ r.token = "access" => ~inv.flag /\ ~inv.env /\ r.via # "ingress"
          /\ r.via # "raw" => r.fresh
    BY DEF Credential, ClientFits
  <2>. QED
    BY <2>1, <2>2 DEF Carries, ClientFits, TokensFit
<1>. QED
  BY <1>2, <1>3, <1>4, <1>5

(* For any command line and any stored session, however often its token    *)
(* expires: a request carries the token of the flag before that of the     *)
(* environment, and either before a session, but for raw requests, which   *)
(* may carry the configured token of a profile without a session in spite  *)
(* of the flag; the access token never goes to the OTLP ingress, and what  *)
(* the typed client sends is valid when it is sent (client.go:26-125,      *)
(* 214-243, 316-345, rawhttp.go:41-78).                                    *)
THEOREM TokensAlwaysFit == CommandLineSpec => []TokensFit
<1>1. TokensInv => TokensFit
  BY DEF TokensInv
<1>. QED
  BY TokensInit, TokensNext, <1>1, PTL DEF CommandLineSpec

(***************************************************************************)
(* Where a process is in its program: what it has left to do is the end of *)
(* the program of its command, and only `login` has the steps of a login.  *)
(***************************************************************************)
LocalPlaces == CommandPlaces \union TracePlaces \union InstallPlaces
Places == LocalPlaces \union LoginPlaces

Rest(p, t) ==
    /\ p \in Seq(Places) /\ t \in Seq(Places) /\ Len(t) <= Len(p)
    /\ \A i \in 1..Len(t) : t[i] = p[Len(p) - Len(t) + i]

Program == MainSteps \o Programs[inv.cmd]
Course == Whole(mem) /\ inv \in Invocations /\ Rest(Program, mem.todo)

(* One step further in a program.                                           *)
LEMMA RestTail == ASSUME NEW p, NEW t, Rest(p, t), t # << >> PROVE
    /\ Rest(p, Tail(t)) /\ Len(Tail(t)) = Len(t) - 1
    /\ Len(t) \in 1..Len(p) /\ Head(t) = p[Len(p) - Len(t) + 1]
BY DEF Rest

(* The start of a program.                                                  *)
LEMMA RestAll == ASSUME NEW p \in Seq(Places) PROVE Rest(p, p)
BY DEF Rest

(* No step of s is one of a login. *)
Local(s) == s \in Seq(LocalPlaces)

(* Programs are put together from parts.                                    *)
LEMMA LocalConcat == ASSUME NEW s, NEW t, Local(s), Local(t) PROVE Local(s \o t)
BY DEF Local

(* None of the programs of the other commands has a step of a login.        *)
LEMMA LocalMain == Local(MainSteps)
  BY DEF Local, LocalPlaces, CommandPlaces, Checks, TracePlaces, InstallPlaces, MainSteps

(* The queries.                                                             *)
LEMMA LocalQueries == Local(LogsQuery) /\ Local(SpansQuery) /\ Local(FailedChecksQuery)
<1>1. Local(QuerySteps)
  BY DEF Local, LocalPlaces, CommandPlaces, Checks, TracePlaces, InstallPlaces, QuerySteps
<1>2. Local(<<"client", "filters", "jsonLimit", "precision", "stream", "print">>)
  BY DEF Local, LocalPlaces, CommandPlaces, Checks, TracePlaces, InstallPlaces
<1>3. Local(<<"filters", "client", "jsonLimit", "stream", "print">>)
  BY DEF Local, LocalPlaces, CommandPlaces, Checks, TracePlaces, InstallPlaces
<1>. QED
  BY <1>1, <1>2, <1>3, LocalConcat DEF LogsQuery, SpansQuery, FailedChecksQuery

(* The lists.                                                               *)
LEMMA LocalLists ==
    /\ Local(DashboardsList) /\ Local(ViewsList) /\ Local(SyntheticChecksList)
    /\ Local(CheckRulesList) /\ Local(RecordingRulesList) /\ Local(SpamFiltersList)
    /\ Local(MembersList) /\ Local(TeamsList) /\ Local(ChannelsList) /\ Local(TeamMembersList)
<1>1. Local(QuerySteps) /\ Local(AssetList) /\ Local(<<"experimental">>)
  BY DEF Local, LocalPlaces, CommandPlaces, Checks, TracePlaces, InstallPlaces, QuerySteps, AssetList
<1>2. /\ Local(<<"details", "names", "print">>) /\ Local(<<"details", "print">>)
      /\ Local(<<"print">>)
  BY DEF Local, LocalPlaces, CommandPlaces, Checks, TracePlaces, InstallPlaces
<1>3. Local(<<"client", "pages", "print">>) /\ Local(<<"client", "fetch", "print">>)
  BY DEF Local, LocalPlaces, CommandPlaces, Checks, TracePlaces, InstallPlaces
<1>4. Local(SpamFiltersList)
  BY DEF Local, LocalPlaces, CommandPlaces, Checks, TracePlaces, InstallPlaces, SpamFiltersList
<1>5. /\ Local(DashboardsList) /\ Local(ViewsList) /\ Local(SyntheticChecksList)
      /\ Local(CheckRulesList) /\ Local(RecordingRulesList)
  BY <1>1, <1>2, LocalConcat
     DEF DashboardsList, ViewsList, SyntheticChecksList, CheckRulesList, RecordingRulesList
<1>6. /\ Local(<<"experimental">> \o QuerySteps \o <<"client", "pages", "print">>)
      /\ Local(<<"experimental">> \o QuerySteps \o <<"client", "fetch", "print">>)
  BY <1>1, <1>3, LocalConcat
<1>. QED
  BY <1>4, <1>5, <1>6 DEF MembersList, TeamsList, ChannelsList, TeamMembersList

(* The gets.                                                                *)
LEMMA LocalGets ==
    /\ Local(DashboardsGet) /\ Local(ViewsGet) /\ Local(SyntheticChecksGet)
    /\ Local(CheckRulesGet) /\ Local(RecordingRulesGet) /\ Local(SpamFiltersGet)
    /\ Local(ChannelsGet) /\ Local(TeamsGet)
<1>1. Local(AssetGet) /\ Local(<<"experimental">>) /\ Local(TeamsGet)
  BY DEF Local, LocalPlaces, CommandPlaces, Checks, TracePlaces, InstallPlaces, AssetGet, TeamsGet
<1>. QED
  BY <1>1, LocalConcat
     DEF DashboardsGet, ViewsGet, SyntheticChecksGet, CheckRulesGet, RecordingRulesGet,
         SpamFiltersGet, ChannelsGet

(* The rest.                                                                *)
LEMMA LocalOthers ==
    /\ Local(MembersInvite) /\ Local(TeamsAddMembers) /\ Local(TeamsCreate)
    /\ Local(MetricsInstant) /\ Local(Api) /\ Local(LogsSend) /\ Local(SpansSend)
    /\ Local(ConfigShow) /\ Local(ProfilesList) /\ Local(TraceGetSteps) /\ Local(InstallSteps)
<1>. USE DEF Local, LocalPlaces, CommandPlaces, Checks, TracePlaces, InstallPlaces
<1>1. Local(MembersInvite) /\ Local(TeamsAddMembers) /\ Local(TeamsCreate)
  BY DEF MembersInvite, TeamsAddMembers, TeamsCreate
<1>2. Local(MetricsInstant)
  BY DEF MetricsInstant
<1>3. Local(Api)
  BY DEF Api
<1>4. Local(LogsSend)
  BY DEF LogsSend
<1>5. Local(SpansSend)
  BY DEF SpansSend
<1>6. Local(ConfigShow) /\ Local(ProfilesList)
  BY DEF ConfigShow, ProfilesList
<1>7. Local(InstallSteps)
  BY DEF InstallSteps
<1>8. Local(TraceGetSteps)
  <2>1. Local(QuerySteps)
    BY DEF QuerySteps
  <2>2. Local(<<"traceId", "client", "root", "follow", "show">>)
    OBVIOUS
  <2>. HIDE DEF Local
  <2>. QED
    BY <2>1, <2>2, LocalConcat DEF TraceGetSteps
<1>. HIDE DEF Local
<1>. QED
  BY <1>1, <1>2, <1>3, <1>4, <1>5, <1>6, <1>7, <1>8

(* All of them.                                                             *)
LEMMA ProgramsLocal == \A c \in Commands : c # "login" => Local(Programs[c])
  BY LocalQueries, LocalLists, LocalGets, LocalOthers DEF Commands, Programs

(* The program of a login, step by step.                                    *)
LEMMA LoginProgram ==
    LET p == MainSteps \o LoginSteps IN
      /\ p \in Seq(Places) /\ Len(p) = 10
      /\ p[1] = "color" /\ p[2] = "profile" /\ p[3] = "retries" /\ p[4] = "terminal"
      /\ p[5] = "discover" /\ p[6] = "bind" /\ p[7] = "register" /\ p[8] = "authorize"
      /\ p[9] = "wait" /\ p[10] = "exchange"
<1>1. MainSteps \in Seq(Places) /\ LoginSteps \in Seq(Places)
  BY DEF MainSteps, LoginSteps, Places, LocalPlaces, CommandPlaces, Checks, LoginPlaces
<1>. QED
  BY <1>1 DEF MainSteps, LoginSteps

(* The program of an install, step by step.                                 *)
LEMMA InstallProgram ==
    LET p == MainSteps \o InstallSteps IN
      /\ Len(p) = 8
      /\ p[1] = "color" /\ p[2] = "profile" /\ p[3] = "retries" /\ p[4] = "host"
      /\ p[5] = "skillMd" /\ p[6] = "clear" /\ p[7] = "topics" /\ p[8] = "report"
<1>1. MainSteps \in Seq(Places) /\ InstallSteps \in Seq(Places)
  BY DEF MainSteps, InstallSteps, Places, LocalPlaces, CommandPlaces, Checks, InstallPlaces
<1>. QED
  BY <1>1 DEF MainSteps, InstallSteps

(* The entries of the two in Programs.                                      *)
LEMMA ProgramsAre == Programs["login"] = LoginSteps /\ Programs["skillInstall"] = InstallSteps
  BY DEF Programs

(* The number of steps that are left.                                      *)
Left == Len(mem.todo)

(* A step that stays where it is has as many steps left.                    *)
LEMMA LeftKept == mem'.todo = mem.todo => Left' = Left
  BY DEF Left

(* What a process that logs in has left to do.                             *)
LEMMA LoginCourse ==
  ASSUME Course, inv.cmd = "login", mem.todo # << >>
  PROVE  LET n == Left s == Head(mem.todo) IN
           /\ n \in 1..10 /\ (mem'.todo = Tail(mem.todo) => Left' = n - 1)
           /\ n > 6 => s \in Checks
           /\ n = 6 <=> s = "discover"
           /\ n = 5 <=> s = "bind"
           /\ n = 4 <=> s = "register"
           /\ n = 3 <=> s = "authorize"
           /\ n = 2 <=> s = "wait"
           /\ n = 1 <=> s = "exchange"
<1>. DEFINE p == MainSteps \o LoginSteps
            n == Left
<1>1. Program = p
  BY ProgramsAre DEF Program
<1>2. Rest(p, mem.todo) /\ Len(p) = 10
  BY <1>1, LoginProgram DEF Course
<1>3. /\ p[1] = "color" /\ p[2] = "profile" /\ p[3] = "retries" /\ p[4] = "terminal"
      /\ p[5] = "discover" /\ p[6] = "bind" /\ p[7] = "register" /\ p[8] = "authorize"
      /\ p[9] = "wait" /\ p[10] = "exchange"
  BY LoginProgram
<1>. HIDE DEF p
<1>4. /\ n \in 1..10 /\ (mem'.todo = Tail(mem.todo) => Left' = n - 1)
      /\ Head(mem.todo) = p[10 - n + 1]
  BY <1>2, RestTail DEF Left
<1>5. PICK i \in 1..10 : n = 11 - i /\ Head(mem.todo) = p[i]
  <2>1. 11 - n \in 1..10 /\ n = 11 - (11 - n) /\ 10 - n + 1 = 11 - n
    BY <1>4
  <2>. QED BY <1>4, <2>1
<1>6. n > 6 => Head(mem.todo) \in Checks
  BY <1>3, <1>5 DEF Checks
<1>7. n = 6 <=> Head(mem.todo) = "discover"
  BY <1>3, <1>5
<1>8. n = 5 <=> Head(mem.todo) = "bind"
  BY <1>3, <1>5
<1>9. n = 4 <=> Head(mem.todo) = "register"
  BY <1>3, <1>5
<1>10. n = 3 <=> Head(mem.todo) = "authorize"
  BY <1>3, <1>5
<1>11. n = 2 <=> Head(mem.todo) = "wait"
  BY <1>3, <1>5
<1>12. n = 1 <=> Head(mem.todo) = "exchange"
  BY <1>3, <1>5
<1>. QED
  BY <1>4, <1>6, <1>7, <1>8, <1>9, <1>10, <1>11, <1>12

(* What a process that installs the skill has left to do.                  *)
LEMMA InstallCourse ==
  ASSUME Course, inv.cmd = "skillInstall", mem.todo # << >>
  PROVE  LET n == Left s == Head(mem.todo) IN
           /\ n \in 1..8 /\ (mem'.todo = Tail(mem.todo) => Left' = n - 1)
           /\ n > 4 => s \in Checks
           /\ n = 4 <=> s = "skillMd"
           /\ n = 3 <=> s = "clear"
           /\ n = 2 <=> s = "topics"
           /\ n = 1 <=> s = "report"
<1>. DEFINE p == MainSteps \o InstallSteps
            n == Left
<1>1. Program = p
  BY ProgramsAre DEF Program
<1>2. Rest(p, mem.todo) /\ Len(p) = 8
  BY <1>1, InstallProgram DEF Course
<1>3. /\ p[1] = "color" /\ p[2] = "profile" /\ p[3] = "retries" /\ p[4] = "host"
      /\ p[5] = "skillMd" /\ p[6] = "clear" /\ p[7] = "topics" /\ p[8] = "report"
  BY InstallProgram
<1>. HIDE DEF p
<1>4. /\ n \in 1..8 /\ (mem'.todo = Tail(mem.todo) => Left' = n - 1)
      /\ Head(mem.todo) = p[8 - n + 1]
  BY <1>2, RestTail DEF Left
<1>5. PICK i \in 1..8 : n = 9 - i /\ Head(mem.todo) = p[i]
  <2>1. 9 - n \in 1..8 /\ n = 9 - (9 - n) /\ 8 - n + 1 = 9 - n
    BY <1>4
  <2>. QED BY <1>4, <2>1
<1>6. n > 4 => Head(mem.todo) \in Checks
  BY <1>3, <1>5 DEF Checks
<1>7. n = 4 <=> Head(mem.todo) = "skillMd"
  BY <1>3, <1>5
<1>8. n = 3 <=> Head(mem.todo) = "clear"
  BY <1>3, <1>5
<1>9. n = 2 <=> Head(mem.todo) = "topics"
  BY <1>3, <1>5
<1>10. n = 1 <=> Head(mem.todo) = "report"
  BY <1>3, <1>5
<1>. QED
  BY <1>4, <1>6, <1>7, <1>8, <1>9, <1>10

(* Only a login has steps of a login left.                                 *)
LEMMA LoginOnly ==
  ASSUME Course, mem.todo # << >>, Head(mem.todo) \in LoginPlaces PROVE inv.cmd = "login"
<1>1. inv.cmd \in Commands
  BY InvocationsAssumption DEF Course, Invocation
<1>2. SUFFICES ASSUME inv.cmd # "login" PROVE FALSE
  OBVIOUS
<1>3. Program \in Seq(LocalPlaces)
  BY <1>1, <1>2, ProgramsLocal, LocalMain, LocalConcat DEF Program, Local
<1>4. Head(mem.todo) \in LocalPlaces
  BY <1>3, RestTail DEF Course
<1>. QED
  BY <1>4 DEF LocalPlaces, CommandPlaces, Checks, TracePlaces, InstallPlaces, LoginPlaces

(* The next step within a process: one of the program is taken, or none.   *)
LEMMA StepMoves ==
  ASSUME Whole(mem), CommandLineNext, ~NewProcess
  PROVE  inv' = inv /\ Whole(mem') /\ mem'.todo \in {mem.todo, Tail(mem.todo)}
         /\ (mem'.todo # mem.todo => mem.todo # << >>)
<1>. USE DEF Acts, Moves
<1>1. CASE CommandStep
  BY <1>1, LocalActs, MakersActs, RequestActs DEF CommandStep
<1>2. CASE TracesGetStep
  BY <1>2, TraceActs DEF TracesGetStep
<1>3. CASE SkillInstallStep
  <2>1. ASSUME PrintError PROVE inv' = inv /\ Whole(mem') /\ mem'.todo = mem.todo
    BY <2>1 DEF PrintError, Whole, Fields
  <2>. QED
    BY <1>3, <2>1, InstallActs DEF SkillInstallStep
<1>4. CASE LoginCommandStep
  BY <1>4, LoginActs DEF LoginCommandStep
<1>5. CASE Disturbance
  BY <1>5 DEF Disturbance, Interrupt, Expire
<1>. QED
  BY <1>1, <1>2, <1>3, <1>4, <1>5 DEF CommandLineNext

(* Where a process starts, all of its program is left.                      *)
LEMMA CourseStarts ==
  ASSUME NEW i \in Invocations PROVE Rest(MainSteps \o Programs[i.cmd], Started(i).todo)
<1>1. i.cmd \in Commands
  BY InvocationsAssumption DEF Invocation
<1>2. CASE i.cmd = "login"
  BY <1>2, ProgramsAre, LoginProgram, RestAll, WholeStarted
<1>3. CASE i.cmd # "login"
  <2>1. MainSteps \o Programs[i.cmd] \in Seq(LocalPlaces)
    BY <1>1, <1>3, ProgramsLocal, LocalMain, LocalConcat DEF Local
  <2>2. MainSteps \o Programs[i.cmd] \in Seq(Places)
    BY <2>1 DEF Places
  <2>. QED
    BY <2>2, RestAll, WholeStarted
<1>. QED
  BY <1>2, <1>3

(* The first process is at the start of its program.                        *)
LEMMA CourseInit == CommandLineInit => Course
  BY CourseStarts, WholeStarted DEF CommandLineInit, Course, Program

(* Every process stays on the course of its program.                        *)
LEMMA CourseNext == Course /\ [CommandLineNext]_allVars => Course'
<1>. SUFFICES ASSUME Course, [CommandLineNext]_allVars PROVE Course'
  OBVIOUS
<1>1. CASE UNCHANGED allVars
  BY <1>1 DEF allVars, Course, Program, Whole
<1>2. CASE NewProcess
  BY <1>2, CourseStarts, WholeStarted, InvocationsAssumption DEF NewProcess, Course, Program
<1>3. CASE CommandLineNext /\ ~NewProcess
  BY <1>3, StepMoves, RestTail DEF Course, Program
<1>. QED
  BY <1>1, <1>2, <1>3

(***************************************************************************)
(* The callback of a login.                                                *)
(***************************************************************************)

(* The log is consistent: a handler that claims the slot serves the first  *)
(* request that echoes the state, the slot is taken once there is one, and *)
(* what waits for Wait is what that request brought.                       *)
IsGenuine(i) == listener.log[i].kind \in Genuine

LogInv ==
    /\ DOMAIN listener = {"up", "port", "done", "dead", "result", "log"}
    /\ listener.log \in Seq([kind : Kinds, reply : Replies])
    /\ listener.done \in BOOLEAN
    /\ listener.done <=> \E i \in 1..Len(listener.log) : IsGenuine(i)
    /\ \A i \in 1..Len(listener.log) :
         /\ listener.log[i].reply = "gone" => \E j \in 1..(i - 1) : IsGenuine(j)
         /\ listener.log[i].reply = "claimed" => Decisive(i)
    /\ listener.result # << >> =>
         \E i \in 1..Len(listener.log) :
            Decisive(i) /\ listener.result = <<listener.log[i].kind>>

(* Wait has returned what the deciding request brought; not before the     *)
(* process has come to it; and it went on only with a code.                *)
WonInv ==
    /\ DOMAIN login = {"client", "clock", "floor", "won"}
    /\ login.won # "none" =>
         \E i \in 1..Len(listener.log) : Decisive(i) /\ login.won = listener.log[i].kind
    /\ inv.cmd = "login" =>
         /\ Left > 2 => login.won = "none"
         /\ Left < 2 => login.won = "code"
         /\ mem.status = "ok" => login.won = "code"

CallbackInv == Course /\ LogInv /\ WonInv

(* The requests a log has keep their kinds when it grows or is updated.    *)
LEMMA DecisiveKept ==
  ASSUME /\ listener.log \in Seq([kind : Kinds, reply : Replies])
         /\ listener'.log \in Seq([kind : Kinds, reply : Replies])
         /\ Len(listener.log) <= Len(listener'.log)
         /\ \A i \in 1..Len(listener.log) : listener'.log[i].kind = listener.log[i].kind
  PROVE  \A i \in 1..Len(listener.log) : Decisive(i) => Decisive(i)'
<1>. SUFFICES ASSUME NEW i \in 1..Len(listener.log), Decisive(i) PROVE Decisive(i)'
  OBVIOUS
<1>1. Len(listener.log) \in Nat /\ Len(listener'.log) \in Nat
  OBVIOUS
<1>2. i \in 1..Len(listener'.log) /\ 1..(i - 1) \subseteq 1..Len(listener.log)
  BY <1>1
<1>3. DOMAIN listener'.log = 1..Len(listener'.log)
  OBVIOUS
<1>4. listener'.log[i].kind \in Genuine
  BY DEF Decisive
<1>5. \A j \in 1..(i - 1) : listener'.log[j].kind \notin Genuine
  BY <1>2 DEF Decisive
<1>. QED
  BY <1>2, <1>3, <1>4, <1>5 DEF Decisive

(* The fields of a login that has not begun.                                *)
LEMMA NoLoginIs == /\ DOMAIN NoLogin = {"client", "clock", "floor", "won"}
                   /\ NoLogin.won = "none" /\ NoLogin.client = 0
  BY DEF NoLogin

(* A listener that is not up yet has an empty log.                          *)
LEMMA LogClosed == listener = Closed => LogInv
  BY DEF Closed, LogInv, Kinds, Replies

(* An update of the listener that leaves its log alone.                    *)
LEMMA LogKept ==
  ASSUME LogInv, DOMAIN listener' = DOMAIN listener, listener'.log = listener.log,
         listener'.done = listener.done, listener'.result \in {listener.result, << >>}
  PROVE  LogInv'
BY DEF LogInv, Decisive, IsGenuine

(* A request to the listener keeps its log consistent.                      *)
LEMMA HandleCallbackLog ==
  ASSUME LogInv, NEW kind \in Kinds, HandleCallback(kind) PROVE LogInv'
<1>. DEFINE reply ==
          IF kind = "forged" THEN "mismatch"
          ELSE IF listener.done THEN "gone" ELSE "claimed"
            r == [kind |-> kind, reply |-> reply]
<1>1. /\ listener'.log = Append(listener.log, r)
      /\ listener'.done = (listener.done \/ kind \in Genuine)
      /\ listener'.result = listener.result /\ DOMAIN listener' = DOMAIN listener
  BY DEF HandleCallback, Logged, LogInv
<1>2. r \in [kind : Kinds, reply : Replies]
  BY DEF Replies
<1>3. PICK n \in Nat : n = Len(listener.log)
  BY DEF LogInv
<1>4. /\ listener'.log \in Seq([kind : Kinds, reply : Replies])
      /\ Len(listener'.log) = n + 1
      /\ \A i \in 1..n : listener'.log[i] = listener.log[i]
      /\ listener'.log[n + 1].kind = kind /\ listener'.log[n + 1].reply = reply
  <2>. HIDE DEF reply
  <2>. QED BY <1>1, <1>2, <1>3 DEF LogInv
<1>5. \A i \in 1..n : /\ Decisive(i) => Decisive(i)'
                      /\ IsGenuine(i)' <=> IsGenuine(i)
  BY <1>3, <1>4, DecisiveKept DEF LogInv, IsGenuine
<1>6. kind \in Genuine <=> IsGenuine(n + 1)'
  BY <1>4 DEF IsGenuine
<1>7. kind # "forged" <=> kind \in Genuine
  BY DEF Kinds, Genuine
<1>. HIDE DEF r
<1>8. listener'.done <=> \E i \in 1..(n + 1) : IsGenuine(i)'
  <2>1. listener.done <=> \E i \in 1..n : IsGenuine(i)
    BY <1>3 DEF LogInv
  <2>2. (\E i \in 1..(n + 1) : IsGenuine(i)') <=> (\E i \in 1..n : IsGenuine(i)) \/ IsGenuine(n + 1)'
    BY <1>5
  <2>. QED
    BY <1>1, <1>6, <2>1, <2>2
<1>9. \A i \in 1..(n + 1) :
        listener'.log[i].reply = "gone" => \E j \in 1..(i - 1) : IsGenuine(j)'
  BY <1>3, <1>4, <1>5 DEF LogInv
<1>10. ASSUME reply = "claimed" PROVE Decisive(n + 1)'
  <2>1. \A i \in 1..n : listener'.log[i].kind \notin Genuine
    BY <1>3, <1>4, <1>10 DEF LogInv, IsGenuine
  <2>2. listener'.log[n + 1].kind \in Genuine
    BY <1>4, <1>7, <1>10
  <2>. QED
    BY <1>4, <2>1, <2>2 DEF Decisive
<1>11. \A i \in 1..(n + 1) : listener'.log[i].reply = "claimed" => Decisive(i)'
  <2>. HIDE DEF reply
  <2>1. \A i \in 1..n : listener'.log[i].reply = "claimed" => Decisive(i)'
    BY <1>3, <1>4, <1>5 DEF LogInv
  <2>2. \A i \in 1..(n + 1) : i \in 1..n \/ i = n + 1
    OBVIOUS
  <2>. QED
    BY <1>4, <1>10, <2>1, <2>2
<1>12. listener'.result # << >> =>
         \E i \in 1..(n + 1) : Decisive(i)' /\ listener'.result = <<listener'.log[i].kind>>
  BY <1>1, <1>3, <1>4, <1>5 DEF LogInv
<1>13. listener'.done \in BOOLEAN
  BY <1>1 DEF LogInv
<1>. QED
  BY <1>1, <1>4, <1>8, <1>9, <1>11, <1>12, <1>13 DEF LogInv

(* So does the end of its handler.                                          *)
LEMMA DeliverLog == ASSUME LogInv, Deliver PROVE LogInv'
<1>1. PICK i \in DOMAIN listener.log :
        /\ listener.log[i].reply = "claimed"
        /\ listener' = [listener EXCEPT
             !.log[i].reply = "redirected",
             !.result = IF @ = << >> THEN <<listener.log[i].kind>> ELSE @]
  BY DEF Deliver
<1>2. PICK n \in Nat : n = Len(listener.log) /\ DOMAIN listener.log = 1..n
  BY DEF LogInv
<1>. DEFINE r == [listener.log[i] EXCEPT !.reply = "redirected"]
            log == [listener.log EXCEPT ![i] = r]
<1>3. /\ listener'.log = log /\ listener'.done = listener.done
      /\ listener'.result =
           IF listener.result = << >> THEN <<listener.log[i].kind>> ELSE listener.result
      /\ DOMAIN listener' = DOMAIN listener
  BY <1>1 DEF LogInv
<1>4. /\ r \in [kind : Kinds, reply : Replies]
      /\ r.kind = listener.log[i].kind /\ r.reply = "redirected"
  <2>1. i \in 1..Len(listener.log)
    BY <1>1, <1>2
  <2>2. listener.log[i] \in [kind : Kinds, reply : Replies]
    BY <2>1, ElementOfSeq DEF LogInv
  <2>. QED
    BY <2>2 DEF Replies
<1>5. /\ listener'.log \in Seq([kind : Kinds, reply : Replies])
      /\ Len(listener'.log) = n
      /\ \A j \in 1..n : /\ listener'.log[j].kind = listener.log[j].kind
                         /\ listener'.log[j].reply \in {listener.log[j].reply, "redirected"}
  <2>. HIDE DEF r
  <2>. QED BY <1>2, <1>3, <1>4 DEF LogInv
<1>. HIDE DEF log
<1>6. \A j \in 1..n : /\ Decisive(j) => Decisive(j)'
                      /\ IsGenuine(j)' <=> IsGenuine(j)
  BY <1>2, <1>5, DecisiveKept DEF LogInv, IsGenuine
<1>7. listener'.result # << >> =>
        \E j \in 1..n : Decisive(j)' /\ listener'.result = <<listener'.log[j].kind>>
  BY <1>1, <1>2, <1>3, <1>5, <1>6 DEF LogInv
<1>8. listener'.done \in BOOLEAN /\ (listener'.done <=> \E j \in 1..n : IsGenuine(j)')
  BY <1>2, <1>3, <1>6 DEF LogInv
<1>9. ASSUME NEW j \in 1..n PROVE
        /\ listener'.log[j].reply = "gone" => \E k \in 1..(j - 1) : IsGenuine(k)'
        /\ listener'.log[j].reply = "claimed" => Decisive(j)'
  <2>1. /\ listener.log[j].reply = "gone" => \E k \in 1..(j - 1) : IsGenuine(k)
        /\ listener.log[j].reply = "claimed" => Decisive(j)
    BY <1>2 DEF LogInv
  <2>2. \A k \in 1..(j - 1) : k \in 1..n
    OBVIOUS
  <2>. QED
    BY <1>5, <1>6, <2>1, <2>2
<1>. QED
  BY <1>3, <1>5, <1>7, <1>8, <1>9 DEF LogInv

(* A step that neither touches the log nor comes out of Wait.              *)
LEMMA WonKept ==
  ASSUME Course, WonInv, inv' = inv,
         listener'.log = listener.log, login'.won = login.won, DOMAIN login' = DOMAIN login,
         inv.cmd = "login" =>
           \/ mem'.todo = mem.todo /\ (mem'.status = "ok" => mem.status = "ok")
           \/ /\ mem.todo # << >> /\ mem'.todo = Tail(mem.todo) /\ Left # 2
              /\ mem'.status = "ok" => Left = 1
  PROVE  WonInv'
<1>1. login'.won # "none" =>
        \E i \in 1..Len(listener'.log) : Decisive(i)' /\ login'.won = listener'.log[i].kind
  BY DEF WonInv, Decisive
<1>2. ASSUME inv.cmd = "login", mem.todo # << >>, mem'.todo = Tail(mem.todo)
      PROVE  Left \in 1..10 /\ Left' = Left - 1
  BY <1>2, LoginCourse
<1>3. DOMAIN login' = {"client", "clock", "floor", "won"}
  BY DEF WonInv
<1>4. SUFFICES ASSUME inv.cmd = "login" PROVE
         /\ Left' > 2 => login'.won = "none"
         /\ Left' < 2 => login'.won = "code"
         /\ mem'.status = "ok" => login'.won = "code"
  BY <1>1, <1>3 DEF WonInv
<1>5. CASE mem'.todo = mem.todo /\ (mem'.status = "ok" => mem.status = "ok")
  BY <1>4, <1>5, LeftKept DEF WonInv
<1>6. CASE /\ mem.todo # << >> /\ mem'.todo = Tail(mem.todo) /\ Left # 2
           /\ mem'.status = "ok" => Left = 1
  BY <1>2, <1>4, <1>6 DEF WonInv
<1>. QED
  BY <1>4, <1>5, <1>6

(* The other steps of a process that logs in come before it opens a port.  *)
LEMMA LoginElsewhere ==
  ASSUME Course, inv.cmd = "login", Acts(LocalPlaces)
  PROVE  /\ mem.todo # << >> /\ Left > 6 /\ Left # 2
         /\ mem'.todo \in {mem.todo, Tail(mem.todo)} /\ mem'.status # "ok"
<1>1. Left > 6
  <2>1. Head(mem.todo) \notin LoginPlaces
    BY DEF Acts, LocalPlaces, CommandPlaces, Checks, TracePlaces, InstallPlaces, LoginPlaces
  <2>2. Left \in 1..10 /\ Left \notin {1, 2, 3, 4, 5, 6}
    BY <2>1, LoginCourse DEF Acts, LoginPlaces
  <2>. QED
    BY <2>2
<1>2. Head(mem.todo) \in Checks
  BY <1>1, LoginCourse DEF Acts
<1>3. Left # 2
  BY <1>2, LoginCourse DEF Acts, Checks
<1>. QED
  BY <1>1, <1>2, <1>3 DEF Acts, Moves, Checks, LastPlaces

(* Steps at some places are steps at more.                                  *)
LEMMA ActsWiden == ASSUME NEW p, NEW q, p \subseteq q, Acts(p) PROVE Acts(q)
BY DEF Acts

(* No callback has been seen at the start.                                  *)
LEMMA CallbackInit == CommandLineInit => CallbackInv
<1>. SUFFICES ASSUME CommandLineInit PROVE CallbackInv
  OBVIOUS
<1>1. Course
  BY CourseInit
<1>2. LogInv
  BY LogClosed DEF CommandLineInit
<1>3. inv.cmd = "login" => Left = 10 /\ mem.status = "running"
  BY WholeStarted, LoginProgram, ProgramsAre DEF CommandLineInit, Left
<1>4. WonInv
  BY <1>3, NoLoginIs DEF CommandLineInit, WonInv
<1>. QED
  BY <1>1, <1>2, <1>4 DEF CallbackInv

(* The other commands do not touch the listener.                            *)
LEMMA CallbackElsewhere ==
  ASSUME CallbackInv, CommandStep \/ TracesGetStep \/ SkillInstallStep \/ Disturbance
  PROVE  LogInv' /\ WonInv'
<1>. USE DEF CallbackInv
<1>1. UNCHANGED <<listener, login>>
  BY DEF CommandStep, TracesGetStep, SkillInstallStep, Disturbance, loginOnly
<1>2. LogInv'
  BY <1>1 DEF LogInv, Decisive, IsGenuine
<1>3. CASE CommandStep \/ TracesGetStep \/ (SkillInstallStep /\ InstallStep)
  <2>1. Acts(LocalPlaces)
    BY <1>3, LocalActs, MakersActs, RequestActs, TraceActs, InstallActs, ActsWiden
       DEF CommandStep, TracesGetStep, Course, LocalPlaces
  <2>2. inv.cmd = "login" =>
          \/ mem'.todo = mem.todo /\ mem'.status # "ok"
          \/ /\ mem.todo # << >> /\ mem'.todo = Tail(mem.todo) /\ Left # 2
             /\ mem'.status # "ok"
    BY <2>1, LoginElsewhere
  <2>. QED
    BY <1>1, <1>2, <2>1, <2>2, WonKept DEF Acts
<1>4. CASE PrintError \/ Disturbance
  <2>1. /\ inv' = inv /\ mem'.todo = mem.todo
        /\ mem'.status = "ok" => mem.status = "ok"
    BY <1>4 DEF PrintError, Disturbance, Interrupt, Expire, Course, Whole, Fields
  <2>. QED
    BY <1>1, <1>2, <2>1, WonKept
<1>. QED
  BY <1>3, <1>4 DEF SkillInstallStep

(* The steps of a login, one by one.                                        *)
LEMMA CallbackLogin == ASSUME CallbackInv, LoginCommandStep PROVE LogInv' /\ WonInv'
<1>. USE DEF CallbackInv
<1>. DEFINE n == Left
<1>0. /\ Whole(mem)
      /\ mem.todo # << >> /\ Head(mem.todo) \in LoginPlaces => inv.cmd = "login"
      /\ DOMAIN listener = {"up", "port", "done", "dead", "result", "log"}
      /\ DOMAIN login = {"client", "clock", "floor", "won"}
  BY LoginOnly DEF Course, LogInv, WonInv
<1>1. ASSUME Refuse PROVE mem'.todo = mem.todo /\ mem'.status = "failing"
  BY <1>0, <1>1, WholeFailing DEF Refuse
<1>2. ASSUME Proceed PROVE mem'.todo = Tail(mem.todo) /\ mem'.status = mem.status
  BY <1>0, <1>2, WholeDone DEF Proceed
<1>3. ASSUME Answered(Done(mem)) PROVE mem'.todo = Tail(mem.todo) /\ mem'.status = mem.status
  BY <1>0, <1>3, WholeDone, WholeSent DEF Answered
<1>4. ASSUME Refuse, listener'.log = listener.log, login' = login, inv' = inv PROVE WonInv'
  BY <1>1, <1>4, WonKept
<1>5. ASSUME Aborted, login' = login, inv' = inv PROVE LogInv' /\ WonInv'
  <2>1. LogInv'
    BY <1>0, <1>5, LogKept DEF Aborted
  <2>. QED
    BY <1>0, <1>4, <1>5, <2>1 DEF Aborted
<1>6. ASSUME NEW s \in LoginPlaces \ {"wait"}, At(s), inv' = inv, listener'.log = listener.log,
             login'.won = login.won, DOMAIN login' = DOMAIN login,
             mem'.todo = Tail(mem.todo), mem'.status = mem.status
      PROVE  WonInv'
  BY <1>0, <1>6, LoginCourse, WonKept DEF At
<1>7. CASE StartCallbackListener
  <2>0. inv.cmd = "login" /\ mem.todo # << >> /\ mem.status = "running" /\ n = 5
    BY <1>0, <1>7, LoginCourse DEF StartCallbackListener, At, LoginPlaces
  <2>1. login.won = "none"
    BY <2>0 DEF WonInv
  <2>2. CASE Refuse /\ UNCHANGED listener
    <3>1. LogInv'
      BY <2>2, LogKept
    <3>. QED BY <1>4, <1>7, <2>2, <3>1 DEF StartCallbackListener
  <2>3. CASE Proceed /\ ~(Refuse /\ UNCHANGED listener)
    <3>1. PICK p : listener' = [Closed EXCEPT !.up = TRUE, !.port = p]
      BY <1>7, <2>3 DEF StartCallbackListener
    <3>2. LogInv'
      BY <3>1 DEF Closed, LogInv, Kinds, Replies
    <3>3. Left' = 4 /\ mem'.status = "running" /\ login' = login
      <4>1. mem'.todo = Tail(mem.todo) /\ mem'.status = mem.status /\ login' = login
        BY <1>2, <1>7, <2>3 DEF StartCallbackListener
      <4>2. Left' = n - 1
        BY <2>0, <4>1, LoginCourse
      <4>. QED BY <2>0, <4>1, <4>2
    <3>. QED
      BY <1>0, <2>1, <3>2, <3>3 DEF WonInv
  <2>. QED
    BY <1>7, <2>2, <2>3 DEF StartCallbackListener
<1>8. CASE UseCachedClient
  BY <1>0, <1>2, <1>6, <1>8, LogKept DEF UseCachedClient, LoginPlaces
<1>9. CASE RegisterClient
  BY <1>0, <1>3, <1>6, <1>9, LogKept DEF RegisterClient, Answered, LoginPlaces
<1>10. CASE Authorize
  BY <1>0, <1>2, <1>5, <1>6, <1>10, LogKept DEF Authorize, LoginPlaces
<1>11. CASE Discover
  BY <1>0, <1>3, <1>6, <1>11, LogKept DEF Discover, Answered, LoginPlaces
<1>12. CASE WaitServeErr \/ WaitDone \/ InvalidClient \/ LoginRequestFails
  BY <1>5, <1>12 DEF WaitServeErr, WaitDone, InvalidClient, LoginRequestFails
<1>13. CASE Exchanged
  <2>1. listener'.log = listener.log /\ LogInv'
    BY <1>0, <1>13, LogKept DEF Exchanged
  <2>2. inv.cmd = "login" /\ n = 1 /\ mem.todo # << >>
    BY <1>0, <1>13, LoginCourse DEF Exchanged, At, LoginPlaces
  <2>3. mem'.todo = Tail(mem.todo)
    <3>1. Whole([Done(mem) EXCEPT !.status = "ok"])
          /\ [Done(mem) EXCEPT !.status = "ok"].todo = Tail(mem.todo)
      BY <1>0, WholeDone DEF Whole, Fields
    <3>. QED
      BY <1>13, <3>1, WholeSent DEF Exchanged, Answered
  <2>. QED
    BY <1>13, <2>1, <2>2, <2>3, WonKept DEF Exchanged, Answered
<1>14. CASE WaitResult
  <2>1. inv.cmd = "login" /\ n = 2 /\ mem.todo # << >> /\ (mem'.todo = Tail(mem.todo) => Left' = 1)
    BY <1>0, <1>14, LoginCourse DEF WaitResult, At, LoginPlaces
  <2>2. PICK i \in 1..Len(listener.log) :
          Decisive(i) /\ listener.result = <<listener.log[i].kind>>
    BY <1>14 DEF WaitResult, LogInv
  <2>3. PICK k : k = listener.log[i].kind
    OBVIOUS
  <2>4. /\ login'.won = k /\ DOMAIN login' = DOMAIN login /\ inv' = inv
        /\ listener'.log = listener.log /\ listener'.done = listener.done
        /\ listener'.result = << >> /\ DOMAIN listener' = DOMAIN listener
    <3>1. Head(listener.result) = k
      BY <2>2, <2>3
    <3>2. listener' = IF ValidateCallbackResult(k) THEN [listener EXCEPT !.result = << >>]
                      ELSE [listener EXCEPT !.result = << >>, !.up = FALSE]
      BY <1>14, <3>1 DEF WaitResult
    <3>3. login' = [login EXCEPT !.won = k, !.floor = ExchangeFloor]
      BY <1>14, <3>1 DEF WaitResult
    <3>. QED
      BY <1>0, <1>14, <3>2, <3>3 DEF WaitResult
  <2>5. IF k = "code" THEN Proceed ELSE Refuse
    BY <1>14, <2>2, <2>3 DEF WaitResult, ValidateCallbackResult
  <2>6. LogInv'
    BY <2>4, LogKept
  <2>7. /\ k = "code" => Left' = 1
        /\ k # "code" => Left' = 2 /\ mem'.status # "ok"
    BY <1>1, <1>2, <2>1, <2>5, LeftKept
  <2>8. Decisive(i)' /\ i \in 1..Len(listener'.log) /\ login'.won = listener'.log[i].kind
    BY <2>2, <2>3, <2>4 DEF Decisive
  <2>. QED
    BY <1>0, <2>4, <2>6, <2>7, <2>8 DEF WonInv
<1>15. ASSUME UNCHANGED <<inv, mem, login>>, LogInv',
              \A i \in 1..Len(listener.log) :
                /\ i \in 1..Len(listener'.log)
                /\ Decisive(i) => Decisive(i)' /\ listener'.log[i].kind = listener.log[i].kind
       PROVE  WonInv'
  BY <1>15 DEF WonInv, Left
<1>16. CASE LoginEnvironment
  <2>1. ASSUME NEW kind \in Kinds, HandleCallback(kind) PROVE LogInv' /\ WonInv'
    <3>1. LogInv'
      BY <2>1, HandleCallbackLog
    <3>2. PICK r : listener'.log = Append(listener.log, r)
      BY <1>0, <2>1 DEF HandleCallback, Logged
    <3>3. \A i \in 1..Len(listener.log) :
            i \in 1..Len(listener'.log) /\ listener'.log[i] = listener.log[i]
      BY <3>1, <3>2 DEF LogInv
    <3>4. \A i \in 1..Len(listener.log) : Decisive(i) => Decisive(i)'
      BY <3>1, <3>2, <3>3, DecisiveKept DEF LogInv
    <3>. QED
      BY <1>15, <2>1, <3>1, <3>3, <3>4 DEF HandleCallback, commandVars
  <2>2. ASSUME ListenerDies PROVE LogInv' /\ WonInv'
    BY <1>0, <2>2, LogKept, WonKept DEF ListenerDies, commandVars
  <2>3. ASSUME Tick PROVE LogInv' /\ WonInv'
    BY <1>0, <2>3, LogKept, WonKept DEF Tick, commandVars
  <2>. QED
    BY <1>16, <2>1, <2>2, <2>3 DEF LoginEnvironment
<1>17. CASE Deliver
  <2>1. LogInv'
    BY <1>17, DeliverLog
  <2>2. \A i \in 1..Len(listener.log) :
          i \in 1..Len(listener'.log) /\ listener'.log[i].kind = listener.log[i].kind
    BY <1>0, <1>17 DEF Deliver, LogInv
  <2>3. \A i \in 1..Len(listener.log) : Decisive(i) => Decisive(i)'
    BY <1>17, <2>1, <2>2, DecisiveKept DEF LogInv
  <2>. QED
    BY <1>15, <1>17, <2>1, <2>2, <2>3 DEF Deliver, commandVars
<1>. QED
  BY <1>7, <1>8, <1>9, <1>10, <1>11, <1>12, <1>13, <1>14, <1>16, <1>17
     DEF LoginCommandStep, LoginStep, LoginRequest

(* The log decides, whatever happens.                                       *)
LEMMA CallbackNext == CallbackInv /\ [CommandLineNext]_allVars => CallbackInv'
<1>. SUFFICES ASSUME CallbackInv, [CommandLineNext]_allVars PROVE CallbackInv'
  OBVIOUS
<1>1. Course'
  BY CourseNext DEF CallbackInv
<1>2. CASE UNCHANGED allVars
  <2>. QED
    BY <1>1, <1>2 DEF allVars, CallbackInv, LogInv, WonInv, Decisive, IsGenuine, Left
<1>3. CASE NewProcess
  <2>1. LogInv'
    BY <1>3, LogClosed DEF NewProcess, Closed, LogInv, Kinds, Replies
  <2>2. inv'.cmd = "login" => Left' = 10 /\ mem'.status = "running"
    BY <1>3, WholeStarted, LoginProgram, ProgramsAre DEF NewProcess, Left
  <2>3. WonInv'
    BY <1>3, <2>2, NoLoginIs DEF NewProcess, WonInv
  <2>. QED
    BY <1>1, <2>1, <2>3 DEF CallbackInv
<1>. QED
  BY <1>1, <1>2, <1>3, CallbackElsewhere, CallbackLogin DEF CommandLineNext, CallbackInv

(* For any number of requests to the listener and any order of their       *)
(* handlers, of Wait, of the deadline and of an interrupt: the first that  *)
(* echoes the state decides the login (login/callback.go:132-190).         *)
THEOREM FirstCallbackAlwaysWins == CommandLineSpec => []FirstCallbackWins
<1>1. CallbackInv => FirstCallbackWins
  <2>. SUFFICES ASSUME CallbackInv PROVE FirstCallbackWins
    OBVIOUS
  <2>. USE DEF CallbackInv
  <2>1. ASSUME NEW i \in DOMAIN listener.log, listener.log[i].reply = "gone"
        PROVE  \E j \in 1..(i - 1) : listener.log[j].kind \in Genuine
    BY <2>1 DEF LogInv, IsGenuine
  <2>2. login.won # "none" =>
          \E i \in DOMAIN listener.log : Decisive(i) /\ login.won = listener.log[i].kind
    BY DEF WonInv, LogInv
  <2>. QED
    BY <2>1, <2>2 DEF FirstCallbackWins, WonInv
<1>. QED
  BY CallbackInit, CallbackNext, <1>1, PTL DEF CommandLineSpec

(***************************************************************************)
(* The client of a login.                                                  *)
(***************************************************************************)
Registered(client, port) ==
    /\ client \in 1..Len(registry.known) /\ client \notin registry.disowned
    /\ registry.known[client] = port

RegistryInv ==
    /\ DOMAIN registry = {"cached", "known", "disowned"}
    /\ registry.known \in Seq(Nat)
    /\ registry.disowned \subseteq 1..Len(registry.known)
    /\ registry.cached # NoRecord => Registered(registry.cached.client, registry.cached.port)
    /\ listener.port \in Nat

(* From the registration on, the login has a client for its own port.      *)
ClientInv ==
    inv.cmd = "login" /\ mem.status = "running" /\ Left \in {1, 2, 3} =>
      Registered(login.client, listener.port)

RegInv == CallbackInv /\ RegistryInv /\ ClientInv

(* A step that leaves the registry alone, and the client and the port, or  *)
(* a process that has no client yet or needs none any more.                *)
LEMMA ClientKept ==
  ASSUME RegistryInv, ClientInv, inv' = inv, registry' = registry,
         listener'.port \in Nat,
         inv.cmd = "login" /\ mem'.status = "running" /\ Left' \in {1, 2, 3} =>
           /\ mem.status = "running" /\ Left \in {1, 2, 3}
           /\ login'.client = login.client /\ listener'.port = listener.port
  PROVE  RegistryInv' /\ ClientInv'
BY DEF RegistryInv, ClientInv, Registered

(* No client is known at the start.                                         *)
LEMMA RegInit == CommandLineInit => RegInv
<1>. SUFFICES ASSUME CommandLineInit PROVE RegInv
  OBVIOUS
<1>1. CallbackInv
  BY CallbackInit
<1>2. RegistryInv
  BY DEF CommandLineInit, RegistryInv, NoRegistry, NoRecord, Closed
<1>3. inv.cmd = "login" => Left = 10
  BY WholeStarted, LoginProgram, ProgramsAre DEF CommandLineInit, Left
<1>4. ClientInv
  BY <1>3 DEF ClientInv
<1>. QED
  BY <1>1, <1>2, <1>4 DEF RegInv

(* The other commands do not touch the registry.                            *)
LEMMA RegElsewhere ==
  ASSUME RegInv, CommandStep \/ TracesGetStep \/ SkillInstallStep \/ Disturbance
  PROVE  RegistryInv' /\ ClientInv'
<1>. USE DEF RegInv, CallbackInv
<1>1. UNCHANGED <<listener, login, registry>> /\ listener.port \in Nat
  BY DEF CommandStep, TracesGetStep, SkillInstallStep, Disturbance, loginOnly, RegistryInv
<1>2. CASE CommandStep \/ TracesGetStep \/ (SkillInstallStep /\ InstallStep)
  <2>1. Acts(LocalPlaces)
    BY <1>2, LocalActs, MakersActs, RequestActs, TraceActs, InstallActs, ActsWiden
       DEF CommandStep, TracesGetStep, Course, LocalPlaces
  <2>2. ASSUME inv.cmd = "login" PROVE Left' \notin {1, 2, 3}
    <3>1. /\ Left \in 1..10 /\ Left > 6
          /\ mem'.todo \in {mem.todo, Tail(mem.todo)}
          /\ mem'.todo = Tail(mem.todo) => Left' = Left - 1
      BY <2>1, <2>2, LoginElsewhere, LoginCourse
    <3>2. Left' = Left \/ Left' = Left - 1
      BY <3>1, LeftKept
    <3>. QED
      BY <3>1, <3>2
  <2>. QED
    BY <1>1, <2>1, <2>2, ClientKept DEF Acts
<1>3. CASE PrintError
  <2>1. mem'.status = "failed" /\ inv' = inv
    BY <1>3 DEF PrintError, Course, Whole, Fields
  <2>. QED
    BY <1>1, <2>1, ClientKept
<1>4. CASE Disturbance
  BY <1>1, <1>4, ClientKept DEF Disturbance, Interrupt, Expire, Left
<1>. QED
  BY <1>2, <1>3, <1>4 DEF SkillInstallStep

(* The steps of a login, one by one.                                        *)
LEMMA RegLogin == ASSUME RegInv, LoginCommandStep PROVE RegistryInv' /\ ClientInv'
<1>. USE DEF RegInv, CallbackInv
<1>0. /\ Whole(mem) /\ listener.port \in Nat
      /\ mem.todo # << >> /\ Head(mem.todo) \in LoginPlaces => inv.cmd = "login"
      /\ DOMAIN listener = {"up", "port", "done", "dead", "result", "log"}
      /\ DOMAIN login = {"client", "clock", "floor", "won"}
  BY LoginOnly DEF Course, LogInv, WonInv, RegistryInv
<1>1. ASSUME Refuse PROVE mem'.status = "failing"
  BY <1>0, <1>1, WholeFailing DEF Refuse
<1>2. ASSUME Proceed PROVE mem'.todo = Tail(mem.todo)
  BY <1>0, <1>2, WholeDone DEF Proceed
<1>3. ASSUME Answered(Done(mem)) PROVE mem'.todo = Tail(mem.todo)
  BY <1>0, <1>3, WholeDone, WholeSent DEF Answered
<1>4. ASSUME NEW s \in LoginPlaces, At(s)
      PROVE  /\ inv.cmd = "login" /\ mem.status = "running" /\ Left \in 1..10
             /\ mem'.todo = Tail(mem.todo) => Left' = Left - 1
             /\ s = "discover" => Left = 6
             /\ s = "bind" => Left = 5
             /\ s = "register" => Left = 4
             /\ s = "authorize" => Left = 3
             /\ s = "wait" => Left = 2
             /\ s = "exchange" => Left = 1
  BY <1>0, <1>4, LoginCourse DEF At
<1>5. ASSUME Refuse, inv' = inv, registry' = registry, listener'.port \in Nat
      PROVE  RegistryInv' /\ ClientInv'
  BY <1>1, <1>5, ClientKept
<1>6. CASE StartCallbackListener
  <2>1. Left = 5 /\ inv' = inv /\ registry' = registry
    BY <1>4, <1>6 DEF StartCallbackListener, LoginPlaces
  <2>2. ASSUME Proceed, NEW p \in IF inv.port = 0 THEN Ephemeral ELSE {inv.port},
               listener' = [Closed EXCEPT !.up = TRUE, !.port = p]
        PROVE  RegistryInv' /\ ClientInv'
    <3>1. inv \in Invocation
      BY InvocationsAssumption DEF Course
    <3>2. p \in Nat
      BY <2>2, <3>1, LoginAssumption DEF Invocation
    <3>3. listener'.port = p
      BY <2>2 DEF Closed
    <3>4. Left' = 4
      <4>1. At("bind") /\ mem'.todo = Tail(mem.todo)
        BY <1>2, <1>6, <2>2 DEF StartCallbackListener
      <4>. QED
        BY <1>4, <2>1, <4>1 DEF LoginPlaces
    <3>. QED
      BY <2>1, <3>2, <3>3, <3>4, ClientKept
  <2>. QED
    BY <1>0, <1>5, <1>6, <2>1, <2>2 DEF StartCallbackListener
<1>7. CASE UseCachedClient
  <2>1. /\ registry' = registry /\ listener' = listener /\ inv' = inv
        /\ login'.client = registry.cached.client
    BY <1>0, <1>7 DEF UseCachedClient
  <2>2. Registered(registry.cached.client, listener.port)
    BY <1>7 DEF UseCachedClient, CacheHit, RegistryInv
  <2>. QED
    BY <2>1, <2>2 DEF RegistryInv, ClientInv, Registered
<1>8. CASE RegisterClient
  <2>1. PICK n \in Nat : n = Len(registry.known)
    BY DEF RegistryInv
  <2>. DEFINE record == [client |-> n + 1, port |-> listener.port]
  <2>2. /\ registry'.known = Append(registry.known, listener.port)
        /\ registry'.disowned = registry.disowned
        /\ registry'.cached \in {registry.cached, record}
        /\ DOMAIN registry' = DOMAIN registry
        /\ login'.client = n + 1 /\ listener' = listener
    BY <1>0, <1>8, <2>1 DEF RegisterClient, RegistryInv
  <2>3. /\ registry'.known \in Seq(Nat) /\ Len(registry'.known) = n + 1
        /\ \A c \in 1..n : registry'.known[c] = registry.known[c]
        /\ registry'.known[n + 1] = listener.port
    BY <1>0, <2>1, <2>2 DEF RegistryInv
  <2>4. /\ registry.disowned \subseteq 1..n
        /\ registry.cached # NoRecord =>
             /\ registry.cached.client \in 1..n
             /\ registry.cached.client \notin registry.disowned
             /\ registry.known[registry.cached.client] = registry.cached.port
    BY <2>1 DEF RegistryInv, Registered
  <2>5. n + 1 \notin registry.disowned /\ n + 1 \in 1..(n + 1) /\ 1..n \subseteq 1..(n + 1)
    BY <2>4
  <2>6. registry'.cached # NoRecord =>
          Registered(registry.cached.client, registry.cached.port)'
    <3>1. CASE registry'.cached = registry.cached
      BY <2>2, <2>3, <2>4, <2>5, <3>1 DEF Registered
    <3>2. CASE registry'.cached = record
      BY <2>2, <2>3, <2>5, <3>2 DEF Registered
    <3>. QED
      BY <2>2, <3>1, <3>2
  <2>7. Registered(login.client, listener.port)'
    BY <2>2, <2>3, <2>5 DEF Registered
  <2>. QED
    BY <1>0, <2>2, <2>3, <2>4, <2>5, <2>6, <2>7 DEF RegistryInv, ClientInv
<1>9. CASE Authorize
  <2>1. inv' = inv /\ registry' = registry /\ login' = login
    BY <1>9 DEF Authorize
  <2>2. CASE Aborted
    BY <1>0, <1>5, <2>1, <2>2 DEF Aborted
  <2>3. CASE Proceed /\ UNCHANGED listener
    BY <1>0, <1>4, <1>9, <2>1, <2>3, ClientKept DEF Authorize, LoginPlaces
  <2>. QED
    BY <1>9, <2>2, <2>3 DEF Authorize
<1>10. CASE Discover
  <2>1. Left = 6 /\ Left' = 5
    BY <1>3, <1>4, <1>10 DEF Discover, LoginPlaces
  <2>. QED
    BY <1>0, <1>10, <2>1, ClientKept DEF Discover, Answered
<1>11. CASE WaitServeErr \/ WaitDone \/ LoginRequestFails
  BY <1>0, <1>5, <1>11 DEF WaitServeErr, WaitDone, LoginRequestFails, Aborted
<1>12. CASE WaitResult
  <2>1. /\ inv' = inv /\ registry' = registry /\ listener'.port = listener.port
        /\ login'.client = login.client
    BY <1>0, <1>12 DEF WaitResult
  <2>2. Left = 2 /\ mem.status = "running"
    BY <1>4, <1>12 DEF WaitResult, LoginPlaces
  <2>. QED
    BY <1>0, <2>1, <2>2, ClientKept
<1>13. CASE Exchanged
  <2>1. mem'.status = "ok"
    <3>1. Whole([Done(mem) EXCEPT !.status = "ok"])
          /\ [Done(mem) EXCEPT !.status = "ok"].status = "ok"
      BY <1>0, WholeDone DEF Whole, Fields
    <3>. QED
      BY <1>13, <3>1, WholeSent DEF Exchanged, Answered
  <2>. QED
    BY <1>0, <1>13, <2>1, ClientKept DEF Exchanged, Answered
<1>14. CASE InvalidClient
  <2>1. Aborted /\ inv' = inv
    BY <1>14 DEF InvalidClient
  <2>2. CASE UNCHANGED registry
    BY <1>0, <1>5, <2>1, <2>2 DEF Aborted
  <2>3. CASE registry' = [registry EXCEPT !.cached = NoRecord,
                                          !.disowned = @ \union {login.client}]
    <3>1. login.client \in 1..Len(registry.known)
      BY <1>4, <1>14 DEF InvalidClient, LoginPlaces, ClientInv, Registered
    <3>2. /\ registry'.known = registry.known /\ registry'.cached = NoRecord
          /\ registry'.disowned = registry.disowned \union {login.client}
          /\ DOMAIN registry' = DOMAIN registry
      BY <2>3 DEF RegistryInv
    <3>3. mem'.status = "failing" /\ listener'.port = listener.port
      BY <1>0, <1>1, <2>1 DEF Aborted
    <3>. QED
      BY <3>1, <3>2, <3>3 DEF RegistryInv, ClientInv
  <2>. QED
    BY <1>14, <2>2, <2>3 DEF InvalidClient, InvalidateOAuthClient
<1>15. CASE Deliver \/ LoginEnvironment
  <2>1. /\ UNCHANGED <<inv, mem, registry>> /\ listener'.port = listener.port
        /\ login'.client = login.client
    BY <1>0, <1>15 DEF Deliver, LoginEnvironment, HandleCallback, ListenerDies, Tick, commandVars
  <2>. QED
    BY <1>0, <2>1, ClientKept DEF Left
<1>. QED
  BY <1>6, <1>7, <1>8, <1>9, <1>10, <1>11, <1>12, <1>13, <1>14, <1>15
     DEF LoginCommandStep, LoginStep, LoginRequest

(* What is cached is registered, and so is the client in use.               *)
LEMMA RegNext == RegInv /\ [CommandLineNext]_allVars => RegInv'
<1>. SUFFICES ASSUME RegInv, [CommandLineNext]_allVars PROVE RegInv'
  OBVIOUS
<1>1. CallbackInv'
  BY CallbackNext DEF RegInv
<1>2. CASE UNCHANGED allVars
  BY <1>1, <1>2 DEF allVars, RegInv, RegistryInv, ClientInv, Registered, Left
<1>3. CASE NewProcess
  <2>1. inv'.cmd = "login" => Left' = 10
    BY <1>3, WholeStarted, LoginProgram, ProgramsAre DEF NewProcess, Left
  <2>2. RegistryInv'
    BY <1>3 DEF NewProcess, diskVars, RegInv, RegistryInv, Registered, Closed
  <2>. QED
    BY <1>1, <2>1, <2>2 DEF RegInv, ClientInv
<1>. QED
  BY <1>1, <1>2, <1>3, RegElsewhere, RegLogin DEF CommandLineNext, RegInv

(* Over any number of logins, whatever cannot be read or stored and        *)
(* whatever the server forgets: a login goes on with a client that is      *)
(* registered for its own redirect URI (login/login.go:439-457, 642-686).  *)
THEOREM RegistrationAlwaysHeals == CommandLineSpec => []RegistrationHeals
<1>1. RegInv => RegistrationHeals
  <2>. SUFFICES ASSUME RegInv, AtSome({"authorize", "wait", "exchange"}), inv.cmd = "login"
                PROVE  /\ login.client \notin registry.disowned
                       /\ registry.known[login.client] = listener.port
    BY DEF RegistrationHeals
  <2>1. Left \in {1, 2, 3} /\ mem.status = "running"
    BY LoginCourse DEF RegInv, CallbackInv, AtSome, At
  <2>. QED
    BY <2>1 DEF RegInv, ClientInv, Registered
<1>. QED
  BY RegInit, RegNext, <1>1, PTL DEF CommandLineSpec

(***************************************************************************)
(* The bundle of the skill.                                                *)
(***************************************************************************)

(* The references directory after n topics have been written.              *)
Written(n) ==
    [t \in Topics |-> IF t \in {Manifest[i] : i \in 1..n} THEN "new" ELSE "absent"]

(* How far an install has got, by what it has left to do.                  *)
BundleInv ==
    inv.cmd = "skillInstall" =>
      /\ mem.status = "running" =>
           /\ Left \in {3, 4, 5, 6, 7, 8} => mem.got = 0
           /\ Left \in {2, 3} => files.skillMd = "new"
           /\ Left = 2 => mem.got \in 0..Len(Manifest) /\ files.topics = Written(mem.got)
           /\ Left = 1 => files = WholeBundle
      /\ mem.status = "ok" => files = WholeBundle

HintInv ==
    /\ mem.hint = "install" => files # WholeBundle
    /\ mem.hint # "none" => mem.status = "failed"

FilesInv == Course /\ files \in Bundles /\ BundleInv /\ HintInv

(* The manifest names at least one topic.                                   *)
LEMMA ManifestTopics ==
    /\ Len(Manifest) \in Nat \ {0} /\ DOMAIN Manifest = 1..Len(Manifest)
    /\ \A i \in 1..Len(Manifest) : Manifest[i] \in Topics
    /\ Head(Manifest) = Manifest[1]
    /\ ToSet(Manifest) = {Manifest[i] : i \in 1..Len(Manifest)}
BY ManifestAssumption DEF ToSet, Topics

(* The whole bundle has a file for each topic, and counts as installed.     *)
LEMMA WholeBundleIs ==
    /\ WholeBundle = [skillMd |-> "new", topics |-> Written(Len(Manifest))]
    /\ IsInstalled \/ files # WholeBundle
<1>1. WholeBundle = [skillMd |-> "new", topics |-> Written(Len(Manifest))]
  BY ManifestTopics DEF WholeBundle, Bundle, Written
<1>2. Written(Len(Manifest))[Head(Manifest)] = "new"
  BY ManifestTopics DEF Written
<1>. QED
  BY <1>1, <1>2 DEF IsInstalled

(* Whatever is there at the start is a bundle.                              *)
LEMMA FilesInit == CommandLineInit => FilesInv
<1>. SUFFICES ASSUME CommandLineInit PROVE FilesInv
  OBVIOUS
<1>1. files \in Bundles
  BY DEF CommandLineInit, NoBundle, OldBundle, Bundle, Bundles, Contents
<1>2. inv.cmd = "skillInstall" => Left = 8
  BY WholeStarted, InstallProgram, ProgramsAre DEF CommandLineInit, Left
<1>3. mem.status = "running" /\ mem.got = 0 /\ mem.hint = "none"
  BY WholeStarted DEF CommandLineInit
<1>. QED
  BY <1>1, <1>2, <1>3, CourseInit DEF FilesInv, BundleInv, HintInv

(* The other steps of a process that installs come before it writes.       *)
LEMMA InstallElsewhere ==
  ASSUME FilesInv, inv.cmd = "skillInstall",
         Acts(CommandPlaces \union TracePlaces \union LoginPlaces)
  PROVE  /\ Left \in {5, 6, 7, 8} /\ mem'.got = mem.got /\ mem'.status # "ok"
         /\ Left' \in {Left, Left - 1}
<1>. USE DEF FilesInv
<1>1. Head(mem.todo) \notin InstallPlaces
  BY DEF Acts, CommandPlaces, Checks, TracePlaces, LoginPlaces, InstallPlaces
<1>2. Left \in 1..8 /\ Left \notin {1, 2, 3, 4} /\ Left > 4
  <2>1. Left \in 1..8 /\ Left \notin {1, 2, 3, 4}
    BY <1>1, InstallCourse DEF Acts, InstallPlaces
  <2>. QED
    BY <2>1
<1>3. Head(mem.todo) \in Checks /\ mem'.todo \in {mem.todo, Tail(mem.todo)}
  BY <1>2, InstallCourse DEF Acts, Moves
<1>4. mem' \in {Done(mem), Failing(mem)} /\ mem.status = "running"
  BY <1>3 DEF Acts
<1>5. mem'.got = mem.got /\ mem'.status # "ok"
  BY <1>4, WholeDone, WholeFailing DEF Course
<1>6. Left' = Left \/ Left' = Left - 1
  BY <1>3, InstallCourse, LeftKept DEF Acts
<1>. QED
  BY <1>2, <1>5, <1>6

(* The other commands do not touch the bundle.                              *)
LEMMA FilesElsewhere ==
  ASSUME FilesInv,
         CommandStep \/ TracesGetStep \/ LoginCommandStep \/ Disturbance
  PROVE  files' \in Bundles /\ BundleInv' /\ HintInv'
<1>. USE DEF FilesInv
<1>1. files' = files
  BY DEF CommandStep, TracesGetStep, LoginCommandStep, Disturbance
<1>2. CASE UNCHANGED <<inv, mem>>
  BY <1>1, <1>2 DEF BundleInv, HintInv, Left
<1>3. CASE Acts(CommandPlaces \union TracePlaces \union LoginPlaces)
  <2>1. mem'.hint = mem.hint /\ mem.hint = "none" /\ inv' = inv
    BY <1>3 DEF Acts, Moves, HintInv
  <2>2. HintInv'
    BY <2>1 DEF HintInv
  <2>3. ASSUME inv.cmd = "skillInstall" PROVE BundleInv'
    <3>1. Left \in {5, 6, 7, 8} /\ mem'.got = mem.got /\ mem'.status # "ok" /\ mem.got = 0
      BY <1>3, <2>3, InstallElsewhere DEF BundleInv, Acts
    <3>2. Left' \in {4, 5, 6, 7, 8}
      BY <1>3, <2>3, <3>1, InstallElsewhere
    <3>. QED
      BY <3>1, <3>2 DEF BundleInv
  <2>. QED
    BY <1>1, <2>1, <2>2, <2>3 DEF BundleInv
<1>4. CASE CommandStep \/ TracesGetStep
  <2>1. Acts(CommandPlaces) \/ Acts(TracePlaces)
    BY <1>4, LocalActs, MakersActs, RequestActs, TraceActs DEF CommandStep, TracesGetStep, Course
  <2>. QED
    BY <1>3, <2>1, ActsWiden
<1>5. CASE LoginCommandStep
  <2>1. Acts(LoginPlaces) \/ UNCHANGED <<inv, mem>>
    BY <1>5, LoginActs DEF LoginCommandStep, Course
  <2>. QED
    BY <1>2, <1>3, <2>1, ActsWiden
<1>6. CASE Disturbance
  BY <1>2, <1>6 DEF Disturbance, Interrupt, Expire
<1>. QED
  BY <1>4, <1>5, <1>6

(* The steps of an install, one by one.                                     *)
LEMMA FilesInstall == ASSUME FilesInv, SkillInstallStep PROVE
    files' \in Bundles /\ BundleInv' /\ HintInv'
<1>. USE DEF FilesInv
<1>0. Whole(mem) /\ DOMAIN files = {"skillMd", "topics"} /\ DOMAIN files.topics = Topics
  BY DEF Course, Bundles
<1>1. ASSUME CutShort
      PROVE  mem'.status \in {"failing", "killed"} /\ mem'.todo = mem.todo /\ mem'.hint = mem.hint
  BY <1>0, <1>1, WholeFailing DEF CutShort, Whole, Fields
<1>2. ASSUME Proceed
      PROVE  /\ mem'.todo = Tail(mem.todo) /\ mem'.status = mem.status
             /\ mem'.hint = mem.hint /\ mem'.got = mem.got
  BY <1>0, <1>2, WholeDone DEF Proceed
<1>3. ASSUME NEW s \in InstallPlaces, At(s), inv.cmd = "skillInstall"
      PROVE  /\ mem.status = "running" /\ Left \in 1..8
             /\ mem'.todo = Tail(mem.todo) => Left' = Left - 1
             /\ s = "skillMd" => Left = 4
             /\ s = "clear" => Left = 3
             /\ s = "topics" => Left = 2
             /\ s = "report" => Left = 1
  BY <1>3, InstallCourse DEF At
<1>4. ASSUME InstallStep PROVE HintInv'
  <2>1. mem.hint = "none" /\ mem'.hint = mem.hint
    BY <1>0, <1>4, InstallActs DEF Acts, Moves, HintInv
  <2>. QED
    BY <2>1 DEF HintInv
<1>5. ASSUME CutShort, inv' = inv PROVE BundleInv'
  BY <1>1, <1>5 DEF BundleInv
<1>6. CASE PrintError
  <2>1. PICK hint \in WithSkillHint : mem' = [mem EXCEPT !.status = "failed", !.hint = hint]
    BY <1>6 DEF PrintError
  <2>2. mem'.status = "failed" /\ mem'.hint = hint /\ inv' = inv /\ files' = files
    BY <1>0, <1>6, <2>1 DEF PrintError, Whole, Fields
  <2>3. hint = "install" => ~IsInstalled
    BY DEF WithSkillHint
  <2>. QED
    BY <2>2, <2>3, WholeBundleIs DEF BundleInv, HintInv
<1>7. CASE WriteSkillMD
  <2>1. At("skillMd") /\ inv' = inv
    BY <1>7 DEF WriteSkillMD
  <2>2. CASE CutShort /\ files' \in {files, [files EXCEPT !.skillMd = "torn"]}
    BY <1>4, <1>5, <1>7, <2>1, <2>2 DEF InstallStep, Bundles, Contents
  <2>3. CASE Proceed /\ files' = [files EXCEPT !.skillMd = "new"]
    <3>1. files' \in Bundles /\ files'.skillMd = "new"
      BY <1>0, <2>3 DEF Bundles, Contents
    <3>2. inv.cmd = "skillInstall" => Left = 4 /\ Left' = 3 /\ mem'.status = "running"
      BY <1>2, <1>3, <2>1, <2>3 DEF InstallPlaces
    <3>3. BundleInv'
      BY <1>2, <2>1, <2>3, <3>1, <3>2 DEF BundleInv
    <3>. QED
      BY <1>4, <1>7, <3>1, <3>3 DEF InstallStep
  <2>. QED
    BY <1>7, <2>2, <2>3 DEF WriteSkillMD
<1>8. CASE ClearReferences
  <2>1. At("clear") /\ inv' = inv
    BY <1>8 DEF ClearReferences
  <2>2. \A gone \in SUBSET Topics : WithoutTopics(gone) \in Bundles
    BY DEF WithoutTopics, Bundles, Contents
  <2>3. CASE CutShort /\ \E gone \in SUBSET Topics : files' = WithoutTopics(gone)
    BY <1>4, <1>5, <1>8, <2>1, <2>2, <2>3 DEF InstallStep
  <2>4. CASE Proceed /\ files' = WithoutTopics(Topics)
    <3>1. files'.skillMd = files.skillMd /\ files'.topics = Written(0)
      BY <1>0, <2>4 DEF WithoutTopics, Written
    <3>2. inv.cmd = "skillInstall" => Left = 3 /\ Left' = 2 /\ mem.status = "running"
      BY <1>2, <1>3, <2>1, <2>4 DEF InstallPlaces
    <3>3. BundleInv'
      BY <1>2, <2>1, <2>4, <3>1, <3>2, ManifestTopics DEF BundleInv
    <3>. QED
      BY <1>4, <1>8, <2>2, <2>4, <3>3 DEF InstallStep
  <2>. QED
    BY <1>8, <2>3, <2>4 DEF ClearReferences
<1>9. CASE WriteTopic
  <2>. DEFINE topic == Manifest[mem.got + 1]
  <2>1. At("topics") /\ inv' = inv /\ mem.got < Len(Manifest)
    BY <1>9 DEF WriteTopic
  <2>2. \A c \in Contents : [files EXCEPT !.topics[topic] = c] \in Bundles
    BY <1>0 DEF Bundles
  <2>3. CASE CutShort /\ files' \in {files, [files EXCEPT !.topics[topic] = "torn"]}
    BY <1>4, <1>5, <1>9, <2>1, <2>2, <2>3 DEF InstallStep, Contents
  <2>4. CASE /\ mem' = [mem EXCEPT !.got = @ + 1]
             /\ files' = [files EXCEPT !.topics[topic] = "new"]
    <3>1. /\ mem'.got = mem.got + 1 /\ mem'.todo = mem.todo /\ mem'.status = mem.status
          /\ files'.skillMd = files.skillMd
          /\ files'.topics = [files.topics EXCEPT ![topic] = "new"]
      BY <1>0, <2>4 DEF Whole, Fields
    <3>2. ASSUME inv.cmd = "skillInstall" PROVE BundleInv'
      <4>1. /\ Left = 2 /\ Left' = 2 /\ mem.status = "running"
            /\ mem.got \in 0..Len(Manifest) /\ files.topics = Written(mem.got)
            /\ files.skillMd = "new"
        BY <1>3, <2>1, <3>1, <3>2, LeftKept DEF InstallPlaces, BundleInv
      <4>2. mem.got + 1 \in 0..Len(Manifest)
        BY <2>1, <4>1, ManifestTopics
      <4>3. PICK n \in Nat : n = mem.got
        BY <4>1
      <4>4. [Written(n) EXCEPT ![Manifest[n + 1]] = "new"] = Written(n + 1)
        <5>1. \A i \in 1..(n + 1) : i \in 1..n \/ i = n + 1
          OBVIOUS
        <5>2. {Manifest[i] : i \in 1..(n + 1)} =
                {Manifest[i] : i \in 1..n} \union {Manifest[n + 1]}
          BY <5>1
        <5>. QED
          BY <5>2 DEF Written
      <4>. QED
        BY <2>1, <3>1, <4>1, <4>2, <4>3, <4>4 DEF BundleInv
    <3>3. BundleInv'
      BY <2>1, <3>2 DEF BundleInv
    <3>. QED
      BY <1>4, <1>9, <2>2, <2>4, <3>3 DEF InstallStep, Contents
  <2>. QED
    BY <1>9, <2>3, <2>4 DEF WriteTopic
<1>10. CASE TopicsWritten
  <2>1. At("topics") /\ inv' = inv /\ mem.got = Len(Manifest) /\ Proceed /\ files' = files
    BY <1>10 DEF TopicsWritten
  <2>2. ASSUME inv.cmd = "skillInstall" PROVE BundleInv'
    <3>1. /\ Left = 2 /\ Left' = 1 /\ mem.status = "running"
          /\ files.topics = Written(Len(Manifest)) /\ files.skillMd = "new"
      BY <1>2, <1>3, <2>1, <2>2 DEF InstallPlaces, BundleInv
    <3>2. files = WholeBundle
      BY <1>0, <3>1, WholeBundleIs DEF Bundles
    <3>. QED
      BY <1>2, <2>1, <3>1, <3>2 DEF BundleInv
  <2>3. BundleInv'
    BY <2>1, <2>2 DEF BundleInv
  <2>. QED
    BY <1>4, <1>10, <2>1, <2>3 DEF InstallStep
<1>11. CASE ReportInstall
  <2>1. At("report") /\ inv' = inv /\ files' = files
        /\ mem' = [Done(mem) EXCEPT !.status = "ok"]
    BY <1>11 DEF ReportInstall
  <2>2. mem'.status = "ok"
    BY <1>0, <2>1, WholeDone DEF Whole, Fields
  <2>3. inv.cmd = "skillInstall" => files = WholeBundle
    BY <1>3, <2>1 DEF InstallPlaces, BundleInv
  <2>4. BundleInv'
    BY <2>1, <2>2, <2>3 DEF BundleInv
  <2>. QED
    BY <1>4, <1>11, <2>1, <2>4 DEF InstallStep
<1>. QED
  BY <1>6, <1>7, <1>8, <1>9, <1>10, <1>11 DEF SkillInstallStep, InstallStep

(* How much is written follows from what is left to do.                     *)
LEMMA FilesNext == FilesInv /\ [CommandLineNext]_allVars => FilesInv'
<1>. SUFFICES ASSUME FilesInv, [CommandLineNext]_allVars PROVE FilesInv'
  OBVIOUS
<1>1. Course'
  BY CourseNext DEF FilesInv
<1>2. CASE UNCHANGED allVars
  BY <1>1, <1>2 DEF allVars, FilesInv, BundleInv, HintInv, Left
<1>3. CASE NewProcess
  <2>1. /\ mem'.status = "running" /\ mem'.got = 0 /\ mem'.hint = "none"
        /\ inv'.cmd = "skillInstall" => Left' = 8
    BY <1>3, WholeStarted, InstallProgram, ProgramsAre DEF NewProcess, Left
  <2>. QED
    BY <1>1, <1>3, <2>1 DEF NewProcess, diskVars, FilesInv, BundleInv, HintInv
<1>. QED
  BY <1>1, <1>2, <1>3, FilesElsewhere, FilesInstall DEF CommandLineNext, FilesInv

(* For any topics, of this release and of earlier ones, and any number of  *)
(* installs cut short wherever: one that reports success leaves the whole  *)
(* bundle of this release and nothing else, and no error tells to install  *)
(* what is whole (skill/install.go:87-130, main.go:150-205).               *)
THEOREM InstallAlwaysComplete == CommandLineSpec => []InstallComplete
<1>1. FilesInv => InstallComplete
  BY DEF FilesInv, BundleInv, HintInv, InstallComplete
<1>. QED
  BY FilesInit, FilesNext, <1>1, PTL DEF CommandLineSpec
=============================================================================
