----------------------------- MODULE OAuthSession -----------------------------
(***************************************************************************)
(* The OAuth session of one profile, and the commands that open, replace   *)
(* and end it: `dash0 login` (internal/login/login.go), `dash0 logout`     *)
(* (logout.go) and `dash0 config profiles create | update | delete`        *)
(* (internal/config/config_cmd.go).                                        *)
(*                                                                         *)
(* Each command is a process of its own.  It reads the profile once, at    *)
(* the start, may then wait minutes for a prompt or a browser, and writes  *)
(* the profile from what it read.  Nothing keeps other commands away       *)
(* meanwhile, and any of them can be killed between two steps.             *)
(*                                                                         *)
(* The profile store and the OAuth client are a library outside the        *)
(* repository: one call of the store is one step, and a call that fails    *)
(* leaves the profile as it was.  Access tokens are told apart from static *)
(* ones, but not from each other.                                          *)
(***************************************************************************)
EXTENDS Naturals, FiniteSets

CONSTANTS
    Commands,    \* processes, each free to run one command after another
    MaxRunning,  \* how many commands may run at the same time
    Servers,     \* API URLs: each is the URL of an authorization server
    NoServer,
    MaxTokens,   \* bound on the refresh tokens ever issued
    NoToken,
    Choices      \* the combinations of flags `profiles update` is called with

ASSUME SessionAssumption ==
    /\ MaxRunning \in Nat \ {0}
    /\ NoServer \notin Servers
    /\ MaxTokens \in Nat
    /\ NoToken \notin 1..MaxTokens

Tokens == 1..MaxTokens
Api == Servers \union {NoServer}
Refresh == Tokens \union {NoToken}

(* Flags of `profiles update`: "keep" is a flag that was not given. *)
UpdateFlags == [api : Api \union {"keep"}, auth : {"keep", "none", "static"},
                oauth : {"keep", "on", "off"}]
NoFlags == [api |-> "keep", auth |-> "keep", oauth |-> "keep"]

ASSUME ChoicesAssumption == Choices \subseteq UpdateFlags \ {NoFlags}

VARIABLES
    profile,     \* the profile in the store
    cmd,         \* what each process has in memory
    issuer,      \* the server that issued each refresh token
    live,        \* the refresh tokens their servers still accept
    overlapped   \* two commands have run at the same time (history)

vars == <<profile, cmd, issuer, live, overlapped>>

Profiles == [exists : BOOLEAN, api : Api, oauth : BOOLEAN, refresh : Refresh,
             auth : {"none", "static", "access"}]

Missing == [exists |-> FALSE, api |-> NoServer, oauth |-> FALSE,
            refresh |-> NoToken, auth |-> "none"]

States == {"missing", "noAuth", "static", "oauthEmpty", "oauthActive"}

ProfileState(p) ==
    CASE ~p.exists                               -> "missing"
      [] p.exists /\ ~p.oauth /\ p.auth = "none" -> "noAuth"
      [] p.exists /\ ~p.oauth /\ p.auth # "none" -> "static"
      [] p.oauth /\ p.refresh = NoToken          -> "oauthEmpty"
      [] p.oauth /\ p.refresh # NoToken          -> "oauthActive"

(* What a command remembers of the profile it read: its state and, with a  *)
(* session, the session's token and the URL recorded with it.              *)
Seen == [state : States, api : Api, refresh : Refresh]
Read == [state |-> ProfileState(profile), refresh |-> profile.refresh,
         api |-> IF profile.refresh = NoToken THEN NoServer ELSE profile.api]

Steps == {"idle", "dead", "loginPrompt", "exchange", "lookup", "persist",
          "compensate", "revokeOld", "report", "clearStale", "logoutPrompt",
          "logoutRevoke", "clear", "updatePrompt", "updateRevoke", "write"}

(* read: the profile when the command started.  api: where login goes.     *)
(* token: the refresh token login obtained.  asked: the user confirmed.    *)
(* revoked: no revocation failed, so there is nothing to note at the end.  *)
Memory == [pc : Steps, read : Seen, api : Api, token : Refresh,
           flags : UpdateFlags, asked : BOOLEAN, found : BOOLEAN,
           revoked : BOOLEAN]

Idle == [pc |-> "idle", api |-> NoServer, token |-> NoToken,
         read |-> [state |-> "missing", api |-> NoServer, refresh |-> NoToken],
         flags |-> NoFlags, asked |-> FALSE, found |-> FALSE,
         revoked |-> TRUE]

Dead == [Idle EXCEPT !.pc = "dead"]
Running == {c \in Commands : cmd[c].pc \notin {"idle", "dead"}}
Held(c) == {cmd[c].token, cmd[c].read.refresh} \ {NoToken}

(* A command starts, and ends; `At` is its program counter. *)
MayBegin == Cardinality(Running) < MaxRunning /\ overlapped' = (overlapped \/ Running # {})
Begin(c, memory) == c \notin Running /\ MayBegin /\ cmd' = [cmd EXCEPT ![c] = memory]
At(c, step) == cmd[c].pc = step
Goto(c, step) == cmd' = [cmd EXCEPT ![c].pc = step]
End(c) == cmd' = [cmd EXCEPT ![c] = Idle]

serverVars == <<issuer, live>>
LeaveWorld == UNCHANGED <<profile, serverVars>>

(* The server at URL `api` issues the next refresh token. *)
Issue(t, api) ==
    /\ t \in Tokens
    /\ \A u \in Tokens : (issuer[u] = NoServer) <=> u >= t
    /\ issuer' = [issuer EXCEPT ![t] = api]

(* oauth.Revoke, ending well or not: no request without a server or a      *)
(* token, and then success; a server answers the revocation of a token it  *)
(* did not issue with success; a failed request may have got through.      *)
Revoke(api, t, ok) ==
    \E arrived \in BOOLEAN :
        /\ api = NoServer \/ t = NoToken => ok
        /\ ok => arrived
        /\ live' = IF arrived /\ t # NoToken /\ api = issuer[t] THEN live \ {t} ELSE live

(* A failed revocation is noted, and printed at the end of the command. *)
GotoNoting(c, step, ok) == cmd' = [cmd EXCEPT ![c].pc = step, ![c].revoked = ok]
EndNoting(c, ok) ==
    cmd' = [cmd EXCEPT ![c] = IF ok THEN Idle ELSE [Idle EXCEPT !.pc = "report", !.revoked = FALSE]]

------------------------------------------------------------------------------
(* dash0 login *)

\* Mutant: a static token is replaced without asking.
NeedsPromptUnlessStatic(state) == state \in {"missing", "noAuth"}

(* promptForDestructiveTransition *)
NeedsPrompt(state) == state \in {"missing", "noAuth", "static"}

(* The target server: the flag or environment first, then the profile's. *)
BeginLogin(c) ==
    /\ \E given \in Api :
         LET api == IF given # NoServer THEN given ELSE profile.api IN
         /\ api # NoServer
         /\ Begin(c, [Idle EXCEPT !.read = Read, !.api = api,
                          !.pc = IF NeedsPrompt(Read.state) THEN "loginPrompt" ELSE "exchange"])
    /\ LeaveWorld

(* ConfirmDestructiveOperation: "y" (or --force, where the command has it) *)
(* goes on; another answer or an interrupt ends the command.               *)
Confirm(c, from, to) ==
    /\ At(c, from)
    /\ \/ cmd' = [cmd EXCEPT ![c].pc = to, ![c].asked = TRUE]
       \/ End(c)
    /\ LeaveWorld /\ UNCHANGED overlapped

AnswerLogin(c) == Confirm(c, "loginPrompt", "exchange")

(* Discovery, registration, the browser, the callback or the exchange      *)
(* fails: nothing has changed yet.                                         *)
NotAuthorized(c) == At(c, "exchange") /\ End(c) /\ LeaveWorld /\ UNCHANGED overlapped

(* Login gives the session it obtained up: there is only its token left.   *)
Abandon(c, t) ==
    cmd' = [cmd EXCEPT ![c] = [Idle EXCEPT !.pc = "compensate", !.api = cmd[c].api, !.token = t]]

(* A token may be issued in a reply that never arrives, or in one that     *)
(* login rejects (no access token, or an expires_in that is not positive). *)
Exchange(c) ==
    /\ At(c, "exchange")
    /\ \E t \in Tokens :
         /\ Issue(t, cmd[c].api)
         /\ live' = live \union {t}
         /\ \/ cmd' = [cmd EXCEPT ![c].pc = "lookup", ![c].token = t]
            \/ Abandon(c, t)
            \/ End(c)
    /\ UNCHANGED <<profile, overlapped>>

\* Mutant: the old session is revoked before the new one is stored.
LookUpAfterRevoke(c) ==
    /\ At(c, "lookup")
    /\ \E ok \in BOOLEAN :
         Revoke(cmd[c].read.api, cmd[c].read.refresh, ok) /\ GotoNoting(c, "persist", ok)
    /\ UNCHANGED <<profile, issuer, overlapped>>

(* persistProfile reads the store, then updates or adds the profile. *)
LookUp(c) ==
    /\ At(c, "lookup")
    /\ \/ cmd' = [cmd EXCEPT ![c].pc = "persist", ![c].found = profile.exists]
       \/ Abandon(c, cmd[c].token)
    /\ LeaveWorld /\ UNCHANGED overlapped

(* Only a session that was replaced leaves login something to do. *)
Stored(c) ==
    IF cmd[c].read.refresh = NoToken THEN End(c)
    ELSE cmd' = [cmd EXCEPT ![c] = [Idle EXCEPT !.pc = "revokeOld", !.read = cmd[c].read]]

\* Mutant: an existing profile keeps its API URL.
PersistKeepsUrl(c) ==
    /\ At(c, "persist")
    /\ \/ /\ cmd[c].found => profile.exists
          /\ profile' = [exists |-> TRUE, oauth |-> TRUE, auth |-> "access",
                         refresh |-> cmd[c].token,
                         api |-> IF cmd[c].found THEN profile.api ELSE cmd[c].api]
          /\ Stored(c)
       \/ Abandon(c, cmd[c].token) /\ UNCHANGED profile
    /\ UNCHANGED <<serverVars, overlapped>>

(* A profile added under a name that came into use meanwhile is refused or *)
(* replaces the other one; updating one that is gone fails.                *)
Persist(c) ==
    /\ At(c, "persist")
    /\ \/ /\ cmd[c].found => profile.exists
          /\ profile' = [exists |-> TRUE, oauth |-> TRUE, auth |-> "access",
                         refresh |-> cmd[c].token, api |-> cmd[c].api]
          /\ Stored(c)
       \/ Abandon(c, cmd[c].token) /\ UNCHANGED profile
    /\ UNCHANGED <<serverVars, overlapped>>

\* Mutant: the new session is not revoked when it could not be stored.
CompensateNot(c) ==
    /\ At(c, "compensate")
    /\ End(c)
    /\ LeaveWorld /\ UNCHANGED overlapped

(* The session that could not be used or stored is revoked. *)
Compensate(c) ==
    /\ At(c, "compensate")
    /\ \E ok \in BOOLEAN : Revoke(cmd[c].api, cmd[c].token, ok) /\ EndNoting(c, ok)
    /\ UNCHANGED <<profile, issuer, overlapped>>

(* The superseded session is revoked at the server recorded with it; with  *)
(* no server recorded there is only a note.                                *)
RevokeOld(c) ==
    /\ At(c, "revokeOld")
    /\ \E ok \in BOOLEAN :
         /\ EndNoting(c, ok)
         /\ IF cmd[c].read.api = NoServer THEN ~ok /\ UNCHANGED live
            ELSE Revoke(cmd[c].read.api, cmd[c].read.refresh, ok)
    /\ UNCHANGED <<profile, issuer, overlapped>>

(* The error or the note of a failed revocation, and the end. *)
Report(c) == At(c, "report") /\ End(c) /\ LeaveWorld /\ UNCHANGED overlapped

------------------------------------------------------------------------------
(* dash0 logout *)

(* Refused for a profile that is missing or not OAuth; a profile already   *)
(* logged out has at most a stale access token to clear.                   *)
BeginLogout(c) ==
    /\ profile.exists /\ profile.oauth
    /\ \/ profile.refresh # NoToken
          /\ Begin(c, [Idle EXCEPT !.pc = "logoutPrompt", !.read = Read])
       \/ profile.refresh = NoToken /\ profile.auth # "none"
          /\ Begin(c, [Idle EXCEPT !.pc = "clearStale"])
    /\ LeaveWorld

ClearStale(c) ==
    /\ At(c, "clearStale")
    /\ \/ profile.exists /\ profile' = [profile EXCEPT !.auth = "none"]
       \/ UNCHANGED profile
    /\ End(c)
    /\ UNCHANGED <<serverVars, overlapped>>

AnswerLogout(c) == Confirm(c, "logoutPrompt", "logoutRevoke")

LogoutRevoke(c) ==
    /\ At(c, "logoutRevoke")
    /\ \E ok \in BOOLEAN :
         Revoke(cmd[c].read.api, cmd[c].read.refresh, ok) /\ GotoNoting(c, "clear", ok)
    /\ UNCHANGED <<profile, issuer, overlapped>>

Clear(c) ==
    /\ At(c, "clear")
    /\ \/ /\ profile.exists
          /\ profile' = [profile EXCEPT !.auth = "none", !.oauth = TRUE, !.refresh = NoToken]
       \/ UNCHANGED profile
    /\ End(c)
    /\ UNCHANGED <<serverVars, overlapped>>

------------------------------------------------------------------------------
(* dash0 config profiles update *)

TargetOAuth(p, flags) == IF flags.oauth = "keep" THEN p.oauth ELSE flags.oauth = "on"

(* The transitions that ask first. *)
Destructive(p, flags) ==
    \/ flags.oauth = "on" /\ ~p.oauth /\ p.auth # "none"
    \/ flags.oauth = "off" /\ p.oauth /\ (p.auth # "none" \/ p.refresh # NoToken)

\* Mutant: --auth-token is accepted on an OAuth profile.
ValidFlagsUnchecked(p, flags) ==
    /\ ~(flags.oauth = "on" /\ flags.auth = "static")

ValidFlags(p, flags) ==
    /\ ~(flags.oauth = "on" /\ flags.auth = "static")
    /\ ~(flags.auth # "keep" /\ p.oauth /\ TargetOAuth(p, flags))

(* What was read is used again only for the revocation. *)
BeginUpdate(c) ==
    /\ profile.exists
    /\ \E flags \in Choices :
         /\ ValidFlags(profile, flags)
         /\ Begin(c, [Idle EXCEPT !.flags = flags,
                !.read = IF flags.oauth = "off" THEN Read ELSE @,
                !.pc = IF Destructive(profile, flags) THEN "updatePrompt"
                       ELSE IF flags.oauth = "off" /\ profile.oauth THEN "updateRevoke"
                       ELSE "write"])
    /\ LeaveWorld

AnswerUpdate(c) ==
    Confirm(c, "updatePrompt", IF cmd[c].flags.oauth = "off" THEN "updateRevoke" ELSE "write")

UpdateRevoke(c) ==
    /\ At(c, "updateRevoke")
    /\ \E ok \in BOOLEAN :
         Revoke(cmd[c].read.api, cmd[c].read.refresh, ok) /\ GotoNoting(c, "write", ok)
    /\ UNCHANGED <<profile, issuer, overlapped>>

\* Mutant: the URL is assigned whether or not the flag was given.
UpdatedUrlAlways(p, flags) ==
    [p EXCEPT !.api = flags.api, !.oauth = TargetOAuth(p, flags),
              !.refresh = IF flags.oauth # "keep" THEN NoToken ELSE @,
              !.auth = IF flags.auth # "keep" THEN flags.auth
                       ELSE IF flags.oauth # "keep" THEN "none" ELSE @]

(* The closure given to UpdateProfile. *)
Updated(p, flags) ==
    LET dropAuth == flags.oauth # "keep"
    IN [exists |-> TRUE,
        api     |-> IF flags.api = "keep" THEN p.api ELSE flags.api,
        oauth   |-> TargetOAuth(p, flags),
        refresh |-> IF dropAuth THEN NoToken ELSE p.refresh,
        auth    |-> IF flags.auth # "keep" THEN flags.auth
                    ELSE IF dropAuth THEN "none" ELSE p.auth]

Write(c) ==
    /\ At(c, "write")
    /\ \/ profile.exists /\ profile' = Updated(profile, cmd[c].flags)
       \/ UNCHANGED profile
    /\ End(c)
    /\ UNCHANGED <<serverVars, overlapped>>

------------------------------------------------------------------------------
(* The commands of one step, and the world around them *)

(* profiles create: one AddProfile; it is refused, or replaces a profile   *)
(* of that name.                                                           *)
Create ==
    /\ MayBegin
    /\ \E api \in Api, kind \in {"none", "static", "oauth"} :
         /\ kind = "oauth" => api # NoServer
         /\ profile' = [exists |-> TRUE, api |-> api, oauth |-> kind = "oauth",
                        refresh |-> NoToken, auth |-> IF kind = "static" THEN "static" ELSE "none"]
    /\ UNCHANGED <<cmd, serverVars>>

(* profiles delete: one RemoveProfile, and no revocation. *)
Delete ==
    /\ MayBegin
    /\ profile.exists
    /\ profile' = Missing
    /\ UNCHANGED <<cmd, serverVars>>

(* Any other command, on an OAuth profile: the library trades the refresh  *)
(* token for a new pair and stores it, in one step here.                   *)
RefreshSession ==
    /\ MayBegin
    /\ profile.refresh \in live
    /\ issuer[profile.refresh] = profile.api
    /\ \E t \in Tokens :
         /\ Issue(t, profile.api)
         /\ live' = (live \ {profile.refresh}) \union {t}
         /\ profile' = [profile EXCEPT !.refresh = t, !.auth = "access"]
    /\ UNCHANGED cmd

(* SIGKILL, a panic or a power failure between two steps. *)
Crash(c) ==
    /\ c \in Running
    /\ cmd' = [cmd EXCEPT ![c] = Dead]
    /\ LeaveWorld /\ UNCHANGED overlapped

Init ==
    /\ profile = Missing
    /\ cmd = [c \in Commands |-> Idle]
    /\ issuer = [t \in Tokens |-> NoServer]
    /\ live = {}
    /\ overlapped = FALSE

Login(c) == \/ BeginLogin(c) \/ AnswerLogin(c) \/ NotAuthorized(c) \/ Exchange(c)
            \/ LookUp(c) \/ Persist(c) \/ Compensate(c) \/ RevokeOld(c) \/ Report(c)
Logout(c) == BeginLogout(c) \/ ClearStale(c) \/ AnswerLogout(c) \/ LogoutRevoke(c) \/ Clear(c)
Update(c) == BeginUpdate(c) \/ AnswerUpdate(c) \/ UpdateRevoke(c) \/ Write(c)

Next ==
    \/ \E c \in Commands : Login(c) \/ Logout(c) \/ Update(c) \/ Crash(c)
    \/ Create \/ Delete \/ RefreshSession

Spec == Init /\ [][Next]_vars

------------------------------------------------------------------------------
(* Properties *)

(* Every variable keeps its type. *)
TypeOK ==
    /\ profile \in Profiles
    /\ cmd \in [Commands -> Memory]
    /\ issuer \in [Tokens -> Api]
    /\ live \subseteq {t \in Tokens : issuer[t] # NoServer}
    /\ overlapped \in BOOLEAN

(* The tokens someone can still use or revoke. *)
Known == (UNION {Held(c) : c \in Commands}) \union {profile.refresh}

(* The losses a user must reckon with: the process died, the reply with    *)
(* the token never came, a failed revocation was reported, the profile was *)
(* pointed at another server, update --oauth marked it as OAuth anew.      *)
Excused(c, t) ==
    \/ cmd'[c].pc = "dead"
    \/ At(c, "exchange") /\ t \notin live
    \/ ~cmd[c].revoked \/ ~cmd'[c].revoked
    \/ t = cmd[c].read.refresh /\ cmd[c].read.api # issuer[t]
    \/ At(c, "write") /\ cmd[c].flags.oauth = "on"

(* As long as commands run one at a time, no step of login, logout or      *)
(* update loses track of a session its server still accepts, but for the   *)
(* excused losses: it stays in the profile, or with a running command that *)
(* will store or revoke it.  This is what the compensating revocations of  *)
(* login.go:456-472 and :505-517, the one of :528 and those of logout and  *)
(* update add up to.                                                       *)
SessionsAccounted ==
    [][\A c \in Commands : cmd'[c] # cmd[c] /\ ~overlapped' =>
         \A t \in live' : (t \in Known \/ t \notin live) => t \in Known' \/ Excused(c, t)]_vars

(* Whatever runs at the same time and wherever a command dies: a session   *)
(* is live when it is stored, and while it is stored only the revocations  *)
(* of logout and update --oauth=false end it, just before they clear it.   *)
(* So login (login.go:505-531) revokes the old session only once the new   *)
(* one is stored, and never the one that is.                               *)
StoredStep ==
    profile'.refresh \notin live' \union {NoToken} =>
        /\ profile'.refresh = profile.refresh
        /\ \/ profile.refresh \notin live
           \/ \E c \in Commands : /\ At(c, "logoutRevoke") \/ At(c, "updateRevoke")
                                  /\ cmd'[c] # cmd[c]
StoredSessionLive == [][StoredStep]_vars

(* The URL of a profile is that of the server that issued its session,     *)
(* unless `profiles update --api-url` changed it under the session: tokens *)
(* and URL are stored together (login.go:700-712), also by a login against *)
(* another server, and a refresh keeps to that server.                     *)
IssuerRecorded ==
    [][profile'.refresh # NoToken =>
         \/ issuer'[profile'.refresh] = profile'.api
         \/ /\ profile'.refresh = profile.refresh
            /\ \/ issuer[profile.refresh] # profile.api
               \/ \E c \in Commands : At(c, "write") /\ cmd[c].flags.api # "keep"]_vars

(* As long as commands run one at a time, a profile is in exactly one of   *)
(* the states of docs/commands.md:121-127: never a static token beside an  *)
(* OAuth block, which "the library cannot interpret" (:298), an access     *)
(* token exactly with a refresh token, and a refresh token only under      *)
(* OAuth.                                                                  *)
OneAuthState ==
    ~overlapped =>
        /\ profile.oauth => profile.auth # "static"
        /\ profile.auth = "access" <=> profile.refresh # NoToken
        /\ profile.refresh # NoToken => profile.oauth

(* As long as commands run one at a time, login replaces a profile that is *)
(* missing, without a token or static only after the user agreed to that   *)
(* (login.go:106-109): no other command came between what the prompt said  *)
(* and what the write replaces.                                            *)
LoginAsksFirst ==
    [][\A c \in Commands :
         (At(c, "persist") /\ profile' # profile /\ ~overlapped
            /\ Read.state \in {"missing", "noAuth", "static"})
            => cmd[c].asked /\ cmd[c].read.state = Read.state]_vars

(* A transition of `profiles update` discards credentials only after the   *)
(* user confirmed it (docs/commands.md:290-291 and the command's help,     *)
(* config_cmd.go:419-423).                                                 *)
DiscardsConfirmed ==
    [][\A c \in Commands :
         (/\ At(c, "write") /\ cmd[c].flags.oauth # "keep"
          /\ profile.auth # "none" /\ profile' # profile
          /\ profile'.auth # profile.auth) => cmd[c].asked]_vars

(* A session is only revoked at the server that issued it                  *)
(* (login.go:494-497: it "MUST be sent to the AS that issued it").         *)
RevokedAtIssuer ==
    \A c \in Commands :
        /\ At(c, "revokeOld") \/ At(c, "logoutRevoke") \/ At(c, "updateRevoke")
        /\ cmd[c].read.refresh # NoToken
        /\ cmd[c].read.api # NoServer
        => issuer[cmd[c].read.refresh] = cmd[c].read.api
=============================================================================
