---------------------------- MODULE LoginCallback ----------------------------
(***************************************************************************)
(* The part of `dash0 login` between the profile and the tokens: the local *)
(* listener for the browser's callback, the registration of the client     *)
(* with the authorization server and its cache on disk, the deadline, and  *)
(* the exchange of the code.  What login does with profiles and tokens is  *)
(* in OAuthSession.                                                        *)
(*                                                                         *)
(* Requests reach the listener at any time while it is up, the browser's   *)
(* or somebody else's; each has a goroutine of its own.  The deadline, an  *)
(* interrupt, the death of the listener and a callback race for Wait.      *)
(***************************************************************************)
EXTENDS Commands

CONSTANTS
    MaxCallbacks,    \* bound: requests to one listener
    MaxClients,      \* bound: clients the authorization server registers
    Ephemeral        \* the ports the system may assign

ASSUME LoginAssumption ==
    /\ MaxCallbacks \in Nat /\ MaxClients \in Nat \ {0}
    /\ Ephemeral \in SUBSET (Nat \ {0}) /\ Ephemeral # {}

VARIABLES
    listener,    \* the callback listener of the process
    login,       \* what runLogin holds
    registry     \* the clients the server knows, and the cache on disk

loginVars == <<commandVars, listener, login, registry>>

(* A request: a GET with another state, or one with the state that was     *)
(* armed, with a code, or with an error or nothing in its place.  Requests *)
(* with another method or path are turned away before anything is read or  *)
(* written, and change nothing.                                            *)
Genuine == {"code", "denied"}
Kinds == {"forged"} \union Genuine
Replies == {"mismatch", "gone", "claimed", "redirected"}

NoRecord == [client |-> 0, port |-> 0]

(* log: the requests in the order in which they had the mutex, each with   *)
(* what became of it; result and dead: the channels result and serveErr.   *)
Closed == [up |-> FALSE, port |-> 0, done |-> FALSE, dead |-> FALSE,
           result |-> << >>, log |-> << >>]

(* clock, floor: the deadline of the login and that of a late exchange;    *)
(* won: the kind of the request that Wait returned.                        *)
NoLogin == [client |-> 0, clock |-> "ample", floor |-> "none", won |-> "none"]

(* known: for each client the redirect URI it is registered for;           *)
(* disowned: the clients the server reported unknown while the deletion of *)
(* their record succeeded, a history.                                      *)
NoRegistry == [cached |-> NoRecord, known |-> << >>, disowned |-> {}]

(* The listener is closed whenever the command ends. *)
Aborted == Refuse /\ listener' = [listener EXCEPT !.up = FALSE]

(***************************************************************************)
(* The listener.                                                           *)
(***************************************************************************)

(* --port 0 takes whatever port the system assigns. *)
StartCallbackListener ==
    /\ At("bind")
    /\ \/ Refuse /\ UNCHANGED listener
       \/ /\ Proceed
          /\ \E p \in IF inv.port = 0 THEN Ephemeral ELSE {inv.port} :
                listener' = [Closed EXCEPT !.up = TRUE, !.port = p]
    /\ UNCHANGED <<inv, fresh, interrupts, login, registry>>

Serving == listener.up /\ ~listener.dead

Logged(kind, reply) == Append(listener.log, [kind |-> kind, reply |-> reply])

\* Mutant: the slot is claimed before the state is looked at.
HandleCallbackClaims(kind) ==
    LET reply ==
          IF kind = "forged" THEN "mismatch"
          ELSE IF listener.done THEN "gone" ELSE "claimed"
    IN /\ Serving /\ Len(listener.log) < MaxCallbacks
       /\ listener' = [listener EXCEPT !.log = Logged(kind, reply),
                                       !.done = TRUE]
       /\ UNCHANGED <<commandVars, login, registry>>

(* The state comes first; the slot is claimed under the mutex. *)
HandleCallback(kind) ==
    LET reply ==
          IF kind = "forged" THEN "mismatch"
          ELSE IF listener.done THEN "gone" ELSE "claimed"
    IN /\ Serving /\ Len(listener.log) < MaxCallbacks
       /\ listener' = [listener EXCEPT !.log = Logged(kind, reply),
                                       !.done = @ \/ kind \in Genuine]
       /\ UNCHANGED <<commandVars, login, registry>>

(* The redirect of the browser, and the send that never blocks. *)
Deliver ==
    /\ listener.up
    /\ \E i \in DOMAIN listener.log :
         /\ listener.log[i].reply = "claimed"
         /\ listener' = [listener EXCEPT
              !.log[i].reply = "redirected",
              !.result = IF @ = << >> THEN <<listener.log[i].kind>> ELSE @]
    /\ UNCHANGED <<commandVars, login, registry>>

(* Serve returns an error; it never does for a listener that was closed. *)
ListenerDies ==
    /\ Serving
    /\ listener' = [listener EXCEPT !.dead = TRUE]
    /\ UNCHANGED <<commandVars, login, registry>>

(***************************************************************************)
(* The client.  Clients are numbered as the server registers them.         *)
(***************************************************************************)
Discover ==
    /\ At("discover")
    /\ Answered(Done(mem))
    /\ UNCHANGED <<listener, login, registry>>

\* Mutant: a record is used whatever its redirect URI.
CacheHitAnyPort == registry.cached # NoRecord

CacheHit == registry.cached # NoRecord /\ registry.cached.port = listener.port

UseCachedClient ==
    /\ At("register") /\ CacheHit
    /\ Proceed
    /\ login' = [login EXCEPT !.client = registry.cached.client]
    /\ UNCHANGED <<inv, fresh, interrupts, listener, registry>>

(* No record that fits, or a store that cannot be read.  The new record    *)
(* may fail to be stored; that is no more than a warning.                  *)
RegisterClient ==
    /\ At("register") /\ Len(registry.known) < MaxClients
    /\ Answered(Done(mem))
    /\ LET client == Len(registry.known) + 1
           record == [client |-> client, port |-> listener.port]
       IN /\ login' = [login EXCEPT !.client = client]
          /\ \E stored \in BOOLEAN :
               registry' = [registry EXCEPT
                 !.known = Append(@, listener.port),
                 !.cached = IF stored THEN record ELSE @]
    /\ UNCHANGED listener

(* The URL may not be built; a browser that does not open is no obstacle. *)
Authorize ==
    /\ At("authorize")
    /\ (Proceed /\ UNCHANGED listener) \/ Aborted
    /\ UNCHANGED <<inv, fresh, interrupts, login, registry>>

(***************************************************************************)
(* The deadline.  Time is "ample" while 30 seconds are left.               *)
(***************************************************************************)
InLogin == AtSome({"bind", "register", "authorize", "wait", "exchange"})

Tick ==
    /\ InLogin
    /\ \/ login.clock = "ample" /\ login' = [login EXCEPT !.clock = "short"]
       \/ login.clock = "short" /\ login' = [login EXCEPT !.clock = "over"]
       \/ login.floor = "running" /\ login' = [login EXCEPT !.floor = "over"]
    /\ UNCHANGED <<commandVars, listener, registry>>

(* A default deadline that is close is replaced by one of 30 seconds. *)
ExchangeFloor == IF ~inv.explicit /\ login.clock # "ample" THEN "running" ELSE "none"

ExchangeOver == IF login.floor = "none" THEN login.clock = "over" ELSE login.floor = "over"

(***************************************************************************)
(* Wait: whichever of its three channels is ready.                         *)
(***************************************************************************)
ValidateCallbackResult(kind) == kind = "code"

WaitResult ==
    /\ At("wait") /\ listener.result # << >>
    /\ LET kind == Head(listener.result) IN
         /\ IF ValidateCallbackResult(kind)
            THEN Proceed /\ listener' = [listener EXCEPT !.result = << >>]
            ELSE Refuse /\ listener' = [listener EXCEPT !.result = << >>, !.up = FALSE]
         /\ login' = [login EXCEPT !.won = kind, !.floor = ExchangeFloor]
    /\ UNCHANGED <<inv, fresh, interrupts, registry>>

WaitServeErr ==
    /\ At("wait") /\ listener.dead
    /\ Aborted
    /\ UNCHANGED <<inv, fresh, interrupts, login, registry>>

\* Mutant: Wait has the context of the command and not the deadline.
WaitCancelled ==
    /\ At("wait") /\ Cancelled
    /\ Aborted
    /\ UNCHANGED <<inv, fresh, interrupts, login, registry>>

WaitDone ==
    /\ At("wait") /\ (login.clock = "over" \/ Cancelled)
    /\ Aborted
    /\ UNCHANGED <<inv, fresh, interrupts, login, registry>>

(***************************************************************************)
(* The exchange.                                                           *)
(***************************************************************************)
Exchanged ==
    /\ At("exchange")
    /\ Answered([Done(mem) EXCEPT !.status = "ok"])
    /\ listener' = [listener EXCEPT !.up = FALSE]
    /\ UNCHANGED <<login, registry>>

(* invalidateOAuthClient; a deletion that fails is not reported. *)
InvalidateOAuthClient ==
    \/ registry' = [registry EXCEPT !.cached = NoRecord,
                                    !.disowned = @ \union {login.client}]
    \/ UNCHANGED registry

(* The server has lost the registration. *)
InvalidClient ==
    /\ At("exchange") /\ ~Cancelled
    /\ Aborted
    /\ InvalidateOAuthClient
    /\ UNCHANGED <<inv, fresh, interrupts, login>>

(* Any other failure of a request, for the deadline or without it. *)
LoginRequestFails ==
    /\ AtSome({"discover", "register", "exchange"})
    /\ Aborted
    /\ UNCHANGED <<inv, fresh, interrupts, login, registry>>

LoginCutShort ==
    /\ Cancelled \/ (At("exchange") /\ ExchangeOver)
    /\ LoginRequestFails

LoginStep ==
    \/ StartCallbackListener \/ UseCachedClient \/ Authorize
    \/ WaitResult \/ WaitServeErr \/ WaitDone \/ Deliver
LoginRequest == Discover \/ RegisterClient \/ Exchanged \/ InvalidClient \/ LoginRequestFails
LoginEnvironment ==
    \/ \E kind \in Kinds : HandleCallback(kind)
    \/ ListenerDies \/ Tick

(***************************************************************************)
(* Properties.                                                             *)
(***************************************************************************)
(* The first request that echoes the state. *)
Decisive(i) ==
    /\ i \in DOMAIN listener.log /\ listener.log[i].kind \in Genuine
    /\ \A j \in 1..(i - 1) : listener.log[j].kind \notin Genuine

(* Whoever else calls the listener, in whatever order and however far the  *)
(* handlers have got: the first request that echoes the state decides the  *)
(* login, all others that do are turned away, and none that does not takes *)
(* its place (login/callback.go:132-190).                                  *)
FirstCallbackWins ==
    /\ \A i \in DOMAIN listener.log :
         LET r == listener.log[i] IN
           r.reply = "gone" => \E j \in 1..(i - 1) : listener.log[j].kind \in Genuine
    /\ login.won # "none" =>
         \E i \in DOMAIN listener.log : Decisive(i) /\ login.won = listener.log[i].kind
    /\ inv.cmd = "login" /\ mem.status = "ok" => login.won = "code"

(* Over any number of logins, with a cache that may fail to be read or     *)
(* written and a server that may forget: a login sends the user to the     *)
(* server with a client that is registered for the redirect URI of its own *)
(* listener, and never with one the server has disowned, unless its record *)
(* could not be deleted (login/login.go:439-457, 642-686).                 *)
RegistrationHeals ==
    AtSome({"authorize", "wait", "exchange"}) /\ inv.cmd = "login" =>
        /\ login.client \notin registry.disowned
        /\ registry.known[login.client] = listener.port

(* A login whose browser has been opened ends, with nobody calling back    *)
(* and no interrupt; the exchange that a late callback starts has 30       *)
(* seconds of its own, and no more (login/login.go:329-347, 416-457).      *)
LoginEnds == At("wait") ~> mem.status \in Ended
=============================================================================
