-------------------------- MODULE OAuthSessionProofs --------------------------
(***************************************************************************)
(* Theorems of OAuthSession, for any number of commands, servers and       *)
(* tokens: its types; that login never revokes the session that is stored, *)
(* nor stores one that is revoked; what commands that run one at a time    *)
(* leave: one authentication state, no session without an owner, nothing   *)
(* replaced unasked; and that a session stays beside its issuer's URL.     *)
(***************************************************************************)
EXTENDS OAuthSession, TLAPS

(* Login holds a token that is not in the profile yet. *)
Obtaining == {"lookup", "persist", "compensate"}

Issued == {t \in Tokens : issuer[t] # NoServer}

(* Login has a server before it asks for a token. *)
Targeted == \A c \in Commands : cmd[c].pc \in {"loginPrompt", "exchange"} => cmd[c].api # NoServer

(* A token in the profile, or read from it, was issued. *)
ReadIssued ==
    /\ profile.refresh \in Issued \union {NoToken}
    /\ \A c \in Commands : cmd[c].read.refresh \in Issued \union {NoToken}

(* A token that login has obtained but not stored is live, and nobody else *)
(* has it: neither the profile, nor a command that read the profile.       *)
NewTokenPrivate ==
    \A c \in Commands : cmd[c].pc \in Obtaining =>
        /\ cmd[c].token \in live
        /\ cmd[c].token # profile.refresh
        /\ \A d \in Commands :
             /\ cmd[c].token # cmd[d].read.refresh
             /\ d # c /\ cmd[d].pc \in Obtaining => cmd[d].token # cmd[c].token

(* The session login is about to revoke is not the one that is stored. *)
Superseded ==
    \A c \in Commands :
        cmd[c].pc = "revokeOld" => cmd[c].read.refresh \notin {profile.refresh, NoToken}

IInv == TypeOK /\ Targeted /\ ReadIssued /\ NewTokenPrivate /\ Superseded

(* The initial state. *)
LEMMA InitInv == Init => IInv
<1>. SUFFICES ASSUME Init PROVE IInv
  OBVIOUS
<1>1. Missing \in Profiles /\ Idle \in Memory
  BY DEF Missing, Profiles, Idle, Memory, Seen, States, Steps, UpdateFlags, NoFlags, Api, Refresh
<1>2. TypeOK
  BY <1>1 DEF Init, TypeOK, Api
<1>3. Missing.refresh = NoToken /\ Idle.pc = "idle" /\ Idle.read.refresh = NoToken
  BY DEF Missing, Idle
<1>. QED
  BY <1>2, <1>3 DEF Init, IInv, Targeted, ReadIssued, NewTokenPrivate, Superseded, Obtaining

(* A step of command c to memory m, in which no token is issued and at     *)
(* most the token `gone` is revoked.                                       *)
LEMMA StepKeeps ==
    ASSUME IInv, NEW c \in Commands, NEW m \in Memory, NEW gone \in Refresh,
           cmd' = [cmd EXCEPT ![c] = m], profile' \in Profiles, issuer' = issuer,
           live' \subseteq live, live \ {gone} \subseteq live', overlapped' \in BOOLEAN,
           m.pc \in {"loginPrompt", "exchange"} => m.api # NoServer,
           m.read.refresh \in {cmd[c].read.refresh, profile.refresh, NoToken},
           m.pc \in Obtaining => cmd[c].pc \in Obtaining /\ m.token = cmd[c].token,
           m.pc = "revokeOld" => /\ m.read.refresh = cmd[c].read.refresh
                                 /\ m.read.refresh \notin {profile'.refresh, NoToken},
           \/ profile'.refresh \in {profile.refresh, NoToken}
           \/ /\ cmd[c].pc \in Obtaining /\ m.pc \notin Obtaining
              /\ profile'.refresh = cmd[c].token,
           \/ gone = NoToken
           \/ \E d \in Commands : gone = cmd[d].read.refresh
           \/ cmd[c].pc \in Obtaining /\ m.pc \notin Obtaining /\ gone = cmd[c].token,
           \/ gone = NoToken
           \/ gone # profile'.refresh
           \/ /\ At(c, "logoutRevoke") \/ At(c, "updateRevoke")
              /\ m.pc # cmd[c].pc /\ profile' = profile
    PROVE  IInv' /\ StoredStep
<1>. USE SessionAssumption DEF IInv
<1>1. TypeOK'
  BY DEF TypeOK
<1>2. cmd'[c] = m /\ \A d \in Commands : d # c => cmd'[d] = cmd[d]
  BY DEF TypeOK
<1>3. Targeted'
  BY <1>2 DEF Targeted
<1>4. NoToken \notin live /\ live \subseteq Issued /\ Issued' = Issued
  BY DEF TypeOK, Tokens, Issued
<1>5. ReadIssued'
  BY <1>2, <1>4 DEF ReadIssued, NewTokenPrivate
<1>6. ASSUME NEW d \in Commands, cmd'[d].pc \in Obtaining
      PROVE  /\ cmd[d].pc \in Obtaining /\ cmd'[d].token = cmd[d].token
             /\ cmd[d].token \in live /\ cmd[d].token # NoToken
             /\ cmd[d].token # profile.refresh
             /\ \A e \in Commands : /\ cmd[d].token # cmd[e].read.refresh
                                    /\ e # d /\ cmd[e].pc \in Obtaining => cmd[e].token # cmd[d].token
  BY <1>2, <1>4, <1>6 DEF NewTokenPrivate
<1>7. ASSUME NEW d \in Commands, cmd'[d].pc \in Obtaining
      PROVE  /\ cmd'[d].token \in live' /\ cmd'[d].token # profile'.refresh
             /\ \A e \in Commands :
                  /\ cmd'[d].token # cmd'[e].read.refresh
                  /\ e # d /\ cmd'[e].pc \in Obtaining => cmd'[e].token # cmd'[d].token
  <2>1. cmd[d].token # gone /\ cmd[d].token # profile'.refresh
    BY <1>2, <1>6, <1>7
  <2>2. ASSUME NEW e \in Commands
        PROVE  /\ cmd'[d].token # cmd'[e].read.refresh
               /\ e # d /\ cmd'[e].pc \in Obtaining => cmd'[e].token # cmd'[d].token
    BY <1>2, <1>6, <1>7
  <2>. QED
    BY <1>6, <1>7, <2>1, <2>2
<1>8. NewTokenPrivate'
  BY <1>7 DEF NewTokenPrivate, Obtaining
<1>9. Superseded'
  BY <1>2, <1>4 DEF Superseded, NewTokenPrivate, Obtaining
<1>10. StoredStep
  BY <1>2, <1>4 DEF StoredStep, NewTokenPrivate
<1>. QED
  BY <1>1, <1>3, <1>5, <1>8, <1>9, <1>10

(* A token just issued is nobody's yet. *)
LEMMA IssueNew ==
    ASSUME IInv, NEW t \in Tokens, NEW api, Issue(t, api)
    PROVE  /\ issuer[t] = NoServer /\ t \notin live /\ t # profile.refresh /\ t # NoToken
           /\ issuer' = [issuer EXCEPT ![t] = api]
           /\ \A c \in Commands : /\ t # cmd[c].read.refresh
                                  /\ cmd[c].pc \in Obtaining => t # cmd[c].token
<1>. USE SessionAssumption DEF IInv
<1>1. issuer[t] = NoServer /\ issuer' = [issuer EXCEPT ![t] = api]
  BY DEF Issue, Tokens
<1>2. t \notin live /\ t # NoToken
  BY <1>1 DEF TypeOK, Tokens
<1>. QED
  BY <1>1, <1>2 DEF ReadIssued, Issued, NewTokenPrivate

(* The memories a command starts with, and ends in. *)
LEMMA IdleType ==
    /\ Idle \in Memory /\ Dead \in Memory /\ NoFlags \in UpdateFlags
    /\ Idle.pc = "idle" /\ Dead.pc = "dead"
    /\ Idle.read.refresh = NoToken /\ Dead.read.refresh = NoToken
    /\ Idle.token = NoToken /\ Dead.token = NoToken
BY DEF Idle, Dead, Memory, Seen, States, Steps, UpdateFlags, NoFlags, Api, Refresh

(* What a command remembers of the profile when it reads it.               *)
LEMMA ReadType == TypeOK => Read \in Seen /\ Read.refresh = profile.refresh
BY DEF TypeOK, Read, Seen, States, ProfileState, Profiles, Api, Refresh

(* A command that begins knows nothing but what it read. *)
LEMMA BeginKeeps ==
    ASSUME IInv, NEW c \in Commands, NEW m \in Memory, Begin(c, m), LeaveWorld,
           m.pc \notin Obtaining \union {"revokeOld"},
           m.pc \in {"loginPrompt", "exchange"} => m.api # NoServer,
           m.read.refresh \in {profile.refresh, NoToken}
    PROVE  IInv' /\ StoredStep
<1>. DEFINE gone == NoToken
<1>1. gone \in Refresh /\ overlapped' \in BOOLEAN /\ profile \in Profiles
  BY DEF Refresh, Begin, MayBegin, IInv, TypeOK
<1>2. cmd' = [cmd EXCEPT ![c] = m]
  BY DEF Begin
<1>. QED
  BY <1>1, <1>2, StepKeeps DEF LeaveWorld, serverVars

(* A command that ends, or dies, forgets everything. *)
LEMMA StopKeeps ==
    ASSUME IInv, NEW c \in Commands, NEW m \in {Idle, Dead}, cmd' = [cmd EXCEPT ![c] = m],
           LeaveWorld, UNCHANGED overlapped
    PROVE  IInv' /\ StoredStep
<1>. DEFINE gone == NoToken
<1>1. gone \in Refresh /\ overlapped' \in BOOLEAN /\ profile \in Profiles
  BY DEF Refresh, IInv, TypeOK
<1>2. m \in Memory /\ m.pc \in {"idle", "dead"} /\ m.read.refresh = NoToken
  BY IdleType
<1>. QED
  BY <1>1, <1>2, StepKeeps DEF LeaveWorld, serverVars, Obtaining

(* A prompt that is answered with yes moves its command on. *)
LEMMA ConfirmKeeps ==
    ASSUME IInv, NEW c \in Commands, NEW from, NEW to \in Steps, Confirm(c, from, to),
           to \notin Obtaining \union {"loginPrompt", "revokeOld"},
           to = "exchange" => from = "loginPrompt"
    PROVE  IInv' /\ StoredStep
<1>1. CASE End(c)
  BY <1>1, StopKeeps DEF Confirm, End
<1>2. CASE cmd' = [cmd EXCEPT ![c].pc = to, ![c].asked = TRUE]
  <2>. DEFINE m == [cmd[c] EXCEPT !.pc = to, !.asked = TRUE]
              gone == NoToken
  <2>1. cmd[c] \in Memory /\ gone \in Refresh /\ overlapped' \in BOOLEAN /\ profile \in Profiles
    BY DEF IInv, TypeOK, Refresh, Confirm
  <2>2. /\ m \in Memory /\ m.pc = to /\ m.api = cmd[c].api
        /\ m.read.refresh = cmd[c].read.refresh
    BY <2>1 DEF Memory
  <2>3. cmd' = [cmd EXCEPT ![c] = m]
    BY <1>2
  <2>4. m.pc \in {"loginPrompt", "exchange"} => m.api # NoServer
    BY <2>2 DEF Confirm, At, IInv, Targeted
  <2>. HIDE DEF m
  <2>. QED
    BY <2>1, <2>2, <2>3, <2>4, StepKeeps DEF LeaveWorld, serverVars, Confirm
<1>. QED
  BY <1>1, <1>2 DEF Confirm

------------------------------------------------------------------------------
(* The steps of login. *)

(* A revocation takes at most the token it is about. *)
LEMMA RevokeTakes ==
    ASSUME NEW api, NEW t, NEW ok, Revoke(api, t, ok)
    PROVE  live' \subseteq live /\ live \ {t} \subseteq live'
BY DEF Revoke

(* Login starts.                                                           *)
LEMMA BeginLoginKeeps ==
    ASSUME IInv, NEW c \in Commands, BeginLogin(c)
    PROVE  IInv' /\ StoredStep
<1>1. PICK given \in Api :
        LET api == IF given # NoServer THEN given ELSE profile.api IN
        /\ api # NoServer
        /\ Begin(c, [Idle EXCEPT !.read = Read, !.api = api,
                         !.pc = IF NeedsPrompt(Read.state) THEN "loginPrompt" ELSE "exchange"])
  BY DEF BeginLogin
<1>. DEFINE api == IF given # NoServer THEN given ELSE profile.api
            m == [Idle EXCEPT !.read = Read, !.api = api,
                      !.pc = IF NeedsPrompt(Read.state) THEN "loginPrompt" ELSE "exchange"]
<1>2. api \in Api /\ Read \in Seen /\ Read.refresh = profile.refresh
  BY ReadType DEF IInv, TypeOK, Profiles
<1>3. /\ m \in Memory /\ m.pc \in {"loginPrompt", "exchange"}
      /\ m.api # NoServer /\ m.read.refresh = profile.refresh
  BY <1>1, <1>2, IdleType DEF Memory, Steps, Idle
<1>4. Begin(c, m) /\ LeaveWorld
  BY <1>1 DEF BeginLogin
<1>. HIDE DEF m, api
<1>. QED
  BY <1>3, <1>4, BeginKeeps DEF Obtaining

(* Login obtains a token, or loses it.                                     *)
LEMMA ExchangeKeeps ==
    ASSUME IInv, NEW c \in Commands, Exchange(c)
    PROVE  IInv' /\ StoredStep
<1>. USE SessionAssumption
<1>1. PICK t \in Tokens :
        /\ Issue(t, cmd[c].api)
        /\ live' = live \union {t}
        /\ \/ cmd' = [cmd EXCEPT ![c].pc = "lookup", ![c].token = t]
           \/ Abandon(c, t)
           \/ End(c)
  BY DEF Exchange
<1>2. /\ issuer[t] = NoServer /\ t \notin live /\ t # profile.refresh /\ t # NoToken
      /\ issuer' = [issuer EXCEPT ![t] = cmd[c].api]
      /\ \A d \in Commands : /\ t # cmd[d].read.refresh
                             /\ cmd[d].pc \in Obtaining => t # cmd[d].token
  BY <1>1, IssueNew
<1>3. /\ cmd[c] \in Memory /\ cmd[c].api \in Api \ {NoServer} /\ t \in Refresh
      /\ UNCHANGED <<profile, overlapped>>
  BY DEF IInv, TypeOK, Memory, Targeted, Exchange, At, Refresh
<1>4. \E m \in Memory : /\ cmd' = [cmd EXCEPT ![c] = m]
                        /\ m.pc \in {"lookup", "compensate", "idle"}
                        /\ m.pc \in Obtaining => m.token = t
                        /\ m.read.refresh \in {cmd[c].read.refresh, NoToken}
  <2>1. CASE cmd' = [cmd EXCEPT ![c].pc = "lookup", ![c].token = t]
    <3>. DEFINE m == [cmd[c] EXCEPT !.pc = "lookup", !.token = t]
    <3>1. m \in Memory /\ m.pc = "lookup" /\ m.token = t /\ m.read.refresh = cmd[c].read.refresh
      BY <1>3 DEF Memory, Steps
    <3>2. cmd' = [cmd EXCEPT ![c] = m]
      BY <2>1
    <3>. HIDE DEF m
    <3>. QED
      BY <3>1, <3>2
  <2>2. CASE Abandon(c, t)
    <3>. DEFINE m == [Idle EXCEPT !.pc = "compensate", !.api = cmd[c].api, !.token = t]
    <3>1. m \in Memory /\ m.pc = "compensate" /\ m.token = t /\ m.read.refresh = NoToken
      BY <1>3, IdleType DEF Memory, Steps, Idle
    <3>2. cmd' = [cmd EXCEPT ![c] = m]
      BY <2>2 DEF Abandon
    <3>. HIDE DEF m
    <3>. QED
      BY <3>1, <3>2
  <2>3. CASE End(c)
    BY <2>3, IdleType DEF End, Obtaining
  <2>. QED
    BY <1>1, <2>1, <2>2, <2>3
<1>5. PICK m \in Memory : /\ cmd' = [cmd EXCEPT ![c] = m]
                          /\ m.pc \in {"lookup", "compensate", "idle"}
                          /\ m.pc \in Obtaining => m.token = t
                          /\ m.read.refresh \in {cmd[c].read.refresh, NoToken}
  BY <1>4
<1>6. cmd'[c] = m /\ \A d \in Commands : d # c => cmd'[d] = cmd[d]
  <2>1. cmd \in [Commands -> Memory] /\ cmd' = [cmd EXCEPT ![c] = m]
    BY <1>5 DEF IInv, TypeOK
  <2>. QED
    BY <2>1
<1>7. issuer'[t] # NoServer /\ \A u \in Tokens : u # t => issuer'[u] = issuer[u]
  BY <1>2, <1>3 DEF IInv, TypeOK
<1>8. TypeOK'
  <2>1. cmd' \in [Commands -> Memory]
    BY <1>5 DEF IInv, TypeOK
  <2>2. issuer' \in [Tokens -> Api]
    BY <1>2, <1>3 DEF IInv, TypeOK
  <2>3. live' \subseteq {u \in Tokens : issuer'[u] # NoServer}
    BY <1>1, <1>7 DEF IInv, TypeOK
  <2>. QED
    BY <1>3, <2>1, <2>2, <2>3 DEF IInv, TypeOK
<1>9. Targeted'
  BY <1>5, <1>6 DEF IInv, Targeted
<1>10. Issued \subseteq Issued'
  BY <1>7, <1>2 DEF Issued
<1>11. ReadIssued'
  BY <1>3, <1>5, <1>6, <1>10 DEF IInv, ReadIssued
<1>12. NewTokenPrivate'
  <2>1. ASSUME NEW d \in Commands, cmd'[d].pc \in Obtaining, NEW e \in Commands
        PROVE  /\ cmd'[d].token \in live' /\ cmd'[d].token # profile'.refresh
               /\ cmd'[d].token # cmd'[e].read.refresh
               /\ e # d /\ cmd'[e].pc \in Obtaining => cmd'[e].token # cmd'[d].token
    <3>1. cmd'[e].read.refresh \in {cmd[e].read.refresh, cmd[c].read.refresh, NoToken}
      BY <1>5, <1>6
    <3>2. CASE d = c
      BY <1>1, <1>2, <1>3, <1>5, <1>6, <2>1, <3>1, <3>2
    <3>3. CASE d # c
      <4>1. cmd'[d] = cmd[d] /\ cmd[d].pc \in Obtaining
        BY <1>6, <2>1, <3>3
      <4>2. /\ cmd[d].token \in live /\ cmd[d].token # profile.refresh
            /\ \A f \in Commands : /\ cmd[d].token # cmd[f].read.refresh
                                   /\ f # d /\ cmd[f].pc \in Obtaining => cmd[f].token # cmd[d].token
        BY <4>1 DEF IInv, NewTokenPrivate
      <4>3. cmd[d].token # NoToken /\ cmd[d].token # t
        BY <1>2, <4>1, <4>2 DEF IInv, TypeOK, Tokens
      <4>. QED
        BY <1>1, <1>3, <1>5, <1>6, <3>1, <3>3, <4>1, <4>2, <4>3
    <3>. QED
      BY <3>2, <3>3
  <2>. QED
    BY <2>1 DEF NewTokenPrivate, Obtaining
<1>13. Superseded'
  BY <1>3, <1>5, <1>6 DEF IInv, Superseded
<1>14. StoredStep
  BY <1>1, <1>3 DEF StoredStep
<1>. QED
  BY <1>8, <1>9, <1>11, <1>12, <1>13, <1>14 DEF IInv

(* Login looks the profile up.                                             *)
LEMMA LookUpKeeps ==
    ASSUME IInv, NEW c \in Commands, LookUp(c)
    PROVE  IInv' /\ StoredStep
<1>. DEFINE gone == NoToken
<1>1. /\ cmd[c] \in Memory /\ cmd[c].pc = "lookup" /\ gone \in Refresh /\ profile \in Profiles
      /\ overlapped' \in BOOLEAN /\ UNCHANGED <<profile, issuer, live>>
  BY DEF IInv, TypeOK, Refresh, LookUp, At, LeaveWorld, serverVars
<1>2. CASE cmd' = [cmd EXCEPT ![c].pc = "persist", ![c].found = profile.exists]
  <2>. DEFINE m == [cmd[c] EXCEPT !.pc = "persist", !.found = profile.exists]
  <2>1. /\ m \in Memory /\ m.pc = "persist" /\ m.token = cmd[c].token
        /\ m.read.refresh = cmd[c].read.refresh
    BY <1>1 DEF Memory, Steps, Profiles
  <2>2. cmd' = [cmd EXCEPT ![c] = m]
    BY <1>2
  <2>. HIDE DEF m
  <2>. QED
    BY <1>1, <2>1, <2>2, StepKeeps DEF Obtaining
<1>3. CASE Abandon(c, cmd[c].token)
  <2>. DEFINE m == [Idle EXCEPT !.pc = "compensate", !.api = cmd[c].api, !.token = cmd[c].token]
  <2>1. /\ m \in Memory /\ m.pc = "compensate" /\ m.token = cmd[c].token
        /\ m.read.refresh = NoToken
    BY <1>1, IdleType DEF Memory, Steps, Idle
  <2>2. cmd' = [cmd EXCEPT ![c] = m]
    BY <1>3 DEF Abandon
  <2>. HIDE DEF m
  <2>. QED
    BY <1>1, <2>1, <2>2, StepKeeps DEF Obtaining
<1>. QED
  BY <1>2, <1>3 DEF LookUp

(* Login stores the token, or gives it up.                                 *)
LEMMA PersistKeeps ==
    ASSUME IInv, NEW c \in Commands, Persist(c)
    PROVE  IInv' /\ StoredStep
<1>. DEFINE gone == NoToken
<1>1. /\ cmd[c] \in Memory /\ cmd[c].pc = "persist" /\ gone \in Refresh /\ profile \in Profiles
      /\ overlapped' \in BOOLEAN /\ UNCHANGED <<issuer, live>>
  BY DEF IInv, TypeOK, Refresh, Persist, At, serverVars
<1>2. CASE /\ profile' = [exists |-> TRUE, oauth |-> TRUE, auth |-> "access",
                          refresh |-> cmd[c].token, api |-> cmd[c].api]
           /\ Stored(c)
  <2>1. profile' \in Profiles /\ profile'.refresh = cmd[c].token
    BY <1>1, <1>2 DEF Profiles, Memory
  <2>2. CASE cmd[c].read.refresh = NoToken
    <3>1. cmd' = [cmd EXCEPT ![c] = Idle]
      BY <1>2, <2>2 DEF Stored, End
    <3>. QED
      BY <1>1, <2>1, <3>1, IdleType, StepKeeps DEF Obtaining
  <2>3. CASE cmd[c].read.refresh # NoToken
    <3>. DEFINE m == [Idle EXCEPT !.pc = "revokeOld", !.read = cmd[c].read]
    <3>1. m \in Memory /\ m.pc = "revokeOld" /\ m.read.refresh = cmd[c].read.refresh
      BY <1>1, IdleType DEF Memory, Steps, Idle
    <3>2. cmd' = [cmd EXCEPT ![c] = m]
      BY <1>2, <2>3 DEF Stored
    <3>3. cmd[c].read.refresh \notin {profile'.refresh, NoToken}
      BY <1>1, <2>1, <2>3 DEF IInv, NewTokenPrivate, Obtaining
    <3>. HIDE DEF m
    <3>. QED
      BY <1>1, <2>1, <3>1, <3>2, <3>3, StepKeeps DEF Obtaining
  <2>. QED
    BY <2>2, <2>3
<1>3. CASE Abandon(c, cmd[c].token) /\ UNCHANGED profile
  <2>. DEFINE m == [Idle EXCEPT !.pc = "compensate", !.api = cmd[c].api, !.token = cmd[c].token]
  <2>1. /\ m \in Memory /\ m.pc = "compensate" /\ m.token = cmd[c].token
        /\ m.read.refresh = NoToken
    BY <1>1, IdleType DEF Memory, Steps, Idle
  <2>2. cmd' = [cmd EXCEPT ![c] = m]
    BY <1>3 DEF Abandon
  <2>. HIDE DEF m
  <2>. QED
    BY <1>1, <1>3, <2>1, <2>2, StepKeeps DEF Obtaining
<1>. QED
  BY <1>2, <1>3 DEF Persist

(* The memory EndNoting leaves. *)
LEMMA EndNotingType ==
    ASSUME TypeOK, NEW c \in Commands, NEW ok \in BOOLEAN, EndNoting(c, ok)
    PROVE  \E m \in Memory : /\ cmd' = [cmd EXCEPT ![c] = m]
                             /\ m.pc \in {"idle", "report"} /\ m.read.refresh = NoToken
<1>. DEFINE m == IF ok THEN Idle ELSE [Idle EXCEPT !.pc = "report", !.revoked = FALSE]
<1>1. m \in Memory /\ m.pc \in {"idle", "report"} /\ m.read.refresh = NoToken
  BY IdleType DEF Memory, Steps, Idle
<1>2. cmd' = [cmd EXCEPT ![c] = m]
  BY DEF EndNoting
<1>. HIDE DEF m
<1>. QED
  BY <1>1, <1>2

(* Login revokes a token it could not store.                               *)
LEMMA CompensateKeeps ==
    ASSUME IInv, NEW c \in Commands, Compensate(c)
    PROVE  IInv' /\ StoredStep
<1>. DEFINE gone == cmd[c].token
<1>1. /\ cmd[c] \in Memory /\ cmd[c].pc = "compensate" /\ gone \in Refresh /\ profile \in Profiles
      /\ overlapped' \in BOOLEAN /\ UNCHANGED <<profile, issuer>>
  BY DEF IInv, TypeOK, Memory, Compensate, At
<1>2. PICK ok \in BOOLEAN : Revoke(cmd[c].api, gone, ok) /\ EndNoting(c, ok)
  BY DEF Compensate
<1>3. live' \subseteq live /\ live \ {gone} \subseteq live'
  BY <1>2, RevokeTakes
<1>4. PICK m \in Memory : /\ cmd' = [cmd EXCEPT ![c] = m]
                         /\ m.pc \in {"idle", "report"} /\ m.read.refresh = NoToken
  BY <1>2, EndNotingType DEF IInv
<1>5. gone # profile'.refresh
  BY <1>1 DEF IInv, NewTokenPrivate, Obtaining
<1>. QED
  BY <1>1, <1>3, <1>4, <1>5, StepKeeps DEF Obtaining

(* Login revokes the session it replaced.                                  *)
LEMMA RevokeOldKeeps ==
    ASSUME IInv, NEW c \in Commands, RevokeOld(c)
    PROVE  IInv' /\ StoredStep
<1>. DEFINE gone == cmd[c].read.refresh
<1>1. /\ cmd[c] \in Memory /\ cmd[c].pc = "revokeOld" /\ gone \in Refresh /\ profile \in Profiles
      /\ overlapped' \in BOOLEAN /\ UNCHANGED <<profile, issuer>>
  BY DEF IInv, TypeOK, Memory, Seen, RevokeOld, At
<1>2. PICK ok \in BOOLEAN :
        /\ EndNoting(c, ok)
        /\ IF cmd[c].read.api = NoServer THEN ~ok /\ UNCHANGED live
           ELSE Revoke(cmd[c].read.api, gone, ok)
  BY DEF RevokeOld
<1>3. live' \subseteq live /\ live \ {gone} \subseteq live'
  BY <1>2, RevokeTakes
<1>4. PICK m \in Memory : /\ cmd' = [cmd EXCEPT ![c] = m]
                         /\ m.pc \in {"idle", "report"} /\ m.read.refresh = NoToken
  BY <1>2, EndNotingType DEF IInv
<1>5. gone # profile'.refresh
  BY <1>1 DEF IInv, Superseded
<1>. QED
  BY <1>1, <1>3, <1>4, <1>5, StepKeeps DEF Obtaining

(* Every step of login.                                                    *)
LEMMA LoginKeeps ==
    ASSUME IInv, NEW c \in Commands, Login(c)
    PROVE  IInv' /\ StoredStep
<1>1. CASE AnswerLogin(c)
  BY <1>1, ConfirmKeeps DEF AnswerLogin, Steps, Obtaining
<1>2. CASE NotAuthorized(c) \/ Report(c)
  BY <1>2, StopKeeps DEF NotAuthorized, Report, End
<1>. QED
  BY <1>1, <1>2, BeginLoginKeeps, ExchangeKeeps, LookUpKeeps, PersistKeeps,
     CompensateKeeps, RevokeOldKeeps DEF Login

------------------------------------------------------------------------------
(* The steps of logout and update. *)

(* A command that writes the profile and ends: it adds no token to it. *)
LEMMA LastWriteKeeps ==
    ASSUME IInv, NEW c \in Commands, End(c), UNCHANGED <<serverVars, overlapped>>,
           profile' \in Profiles, profile'.refresh \in {profile.refresh, NoToken}
    PROVE  IInv' /\ StoredStep
<1>. DEFINE gone == NoToken
<1>1. gone \in Refresh /\ overlapped' \in BOOLEAN
  BY DEF IInv, TypeOK, Refresh
<1>2. cmd' = [cmd EXCEPT ![c] = Idle]
  BY DEF End
<1>. QED
  BY <1>1, <1>2, IdleType, StepKeeps DEF serverVars, Obtaining

(* The revocation of the session that logout or update read. *)
LEMMA RevokeReadKeeps ==
    ASSUME IInv, NEW c \in Commands, NEW step \in {"clear", "write"},
           At(c, "logoutRevoke") \/ At(c, "updateRevoke"), NEW ok \in BOOLEAN,
           Revoke(cmd[c].read.api, cmd[c].read.refresh, ok), GotoNoting(c, step, ok),
           UNCHANGED <<profile, issuer, overlapped>>
    PROVE  IInv' /\ StoredStep
<1>. DEFINE gone == cmd[c].read.refresh
            m == [cmd[c] EXCEPT !.pc = step, !.revoked = ok]
<1>1. /\ cmd[c] \in Memory /\ gone \in Refresh /\ profile \in Profiles
      /\ overlapped' \in BOOLEAN
  BY DEF IInv, TypeOK, Memory, Seen
<1>2. live' \subseteq live /\ live \ {gone} \subseteq live'
  BY RevokeTakes
<1>3. m \in Memory /\ m.pc = step /\ m.read.refresh = cmd[c].read.refresh
  BY <1>1 DEF Memory, Steps
<1>4. cmd' = [cmd EXCEPT ![c] = m]
  BY DEF GotoNoting
<1>5. m.pc # cmd[c].pc
  BY <1>3 DEF At
<1>. HIDE DEF m
<1>. QED
  BY <1>1, <1>2, <1>3, <1>4, <1>5, StepKeeps DEF Obtaining

(* Every step of logout.                                                   *)
LEMMA LogoutKeeps ==
    ASSUME IInv, NEW c \in Commands, Logout(c)
    PROVE  IInv' /\ StoredStep
<1>. USE DEF Obtaining
<1>1. CASE BeginLogout(c)
  <2>1. CASE Begin(c, [Idle EXCEPT !.pc = "logoutPrompt", !.read = Read])
    <3>. DEFINE m == [Idle EXCEPT !.pc = "logoutPrompt", !.read = Read]
    <3>1. m \in Memory /\ m.pc = "logoutPrompt" /\ m.read.refresh = profile.refresh
      BY IdleType, ReadType DEF IInv, Memory, Steps, Idle
    <3>2. Begin(c, m) /\ LeaveWorld
      BY <1>1, <2>1 DEF BeginLogout
    <3>. HIDE DEF m
    <3>. QED
      BY <3>1, <3>2, BeginKeeps
  <2>2. CASE Begin(c, [Idle EXCEPT !.pc = "clearStale"])
    <3>. DEFINE m == [Idle EXCEPT !.pc = "clearStale"]
    <3>1. m \in Memory /\ m.pc = "clearStale" /\ m.read.refresh = NoToken
      BY IdleType DEF Memory, Steps, Idle
    <3>2. Begin(c, m) /\ LeaveWorld
      BY <1>1, <2>2 DEF BeginLogout
    <3>. HIDE DEF m
    <3>. QED
      BY <3>1, <3>2, BeginKeeps
  <2>. QED
    BY <1>1, <2>1, <2>2 DEF BeginLogout
<1>2. CASE ClearStale(c)
  <2>1. profile' \in Profiles /\ profile'.refresh = profile.refresh
    BY <1>2 DEF ClearStale, IInv, TypeOK, Profiles
  <2>. QED
    BY <1>2, <2>1, LastWriteKeeps DEF ClearStale
<1>3. CASE AnswerLogout(c)
  BY <1>3, ConfirmKeeps DEF AnswerLogout, Steps
<1>4. CASE LogoutRevoke(c)
  BY <1>4, RevokeReadKeeps DEF LogoutRevoke
<1>5. CASE Clear(c)
  <2>1. profile' \in Profiles /\ profile'.refresh \in {profile.refresh, NoToken}
    BY <1>5 DEF Clear, IInv, TypeOK, Profiles, Refresh
  <2>. QED
    BY <1>5, <2>1, LastWriteKeeps DEF Clear
<1>. QED
  BY <1>1, <1>2, <1>3, <1>4, <1>5 DEF Logout

(* Every step of update.                                                   *)
LEMMA UpdateKeeps ==
    ASSUME IInv, NEW c \in Commands, Update(c)
    PROVE  IInv' /\ StoredStep
<1>. USE DEF Obtaining
<1>1. CASE BeginUpdate(c)
  <2>1. PICK flags \in Choices :
          Begin(c, [Idle EXCEPT !.flags = flags,
                !.read = IF flags.oauth = "off" THEN Read ELSE @,
                !.pc = IF Destructive(profile, flags) THEN "updatePrompt"
                       ELSE IF flags.oauth = "off" /\ profile.oauth THEN "updateRevoke"
                       ELSE "write"])
    BY <1>1 DEF BeginUpdate
  <2>. DEFINE read == IF flags.oauth = "off" THEN Read ELSE Idle.read
              pc == IF Destructive(profile, flags) THEN "updatePrompt"
                    ELSE IF flags.oauth = "off" /\ profile.oauth THEN "updateRevoke"
                    ELSE "write"
              m == [Idle EXCEPT !.flags = flags, !.read = read, !.pc = pc]
  <2>2. /\ flags \in UpdateFlags /\ pc \in {"updatePrompt", "updateRevoke", "write"}
        /\ read \in Seen /\ read.refresh \in {profile.refresh, NoToken}
    BY IdleType, ReadType, ChoicesAssumption DEF IInv, Memory
  <2>3. Begin(c, m) /\ LeaveWorld
    BY <1>1, <2>1 DEF BeginUpdate, Idle
  <2>. HIDE DEF read, pc
  <2>4. m \in Memory /\ m.pc = pc /\ m.read = read
    BY <2>2, IdleType DEF Memory, Steps, Idle
  <2>. HIDE DEF m
  <2>. QED
    BY <2>2, <2>3, <2>4, BeginKeeps
<1>2. CASE AnswerUpdate(c)
  BY <1>2, ConfirmKeeps DEF AnswerUpdate, Steps
<1>3. CASE UpdateRevoke(c)
  BY <1>3, RevokeReadKeeps DEF UpdateRevoke
<1>4. CASE Write(c)
  <2>1. profile \in Profiles /\ cmd[c].flags \in UpdateFlags
    BY DEF IInv, TypeOK, Memory
  <2>2. Updated(profile, cmd[c].flags) \in Profiles
    BY <2>1 DEF Updated, TargetOAuth, Profiles, UpdateFlags, Refresh
  <2>3. Updated(profile, cmd[c].flags).refresh \in {profile.refresh, NoToken}
    BY DEF Updated
  <2>. QED
    BY <1>4, <2>1, <2>2, <2>3, LastWriteKeeps DEF Write
<1>. QED
  BY <1>1, <1>2, <1>3, <1>4 DEF Update

------------------------------------------------------------------------------
(* The commands of one step, and the refresh. *)

(* Only the profile changes, and it holds no token afterwards. *)
LEMMA CreateDeleteKeeps ==
    ASSUME IInv, Create \/ Delete
    PROVE  IInv' /\ StoredStep
<1>1. profile' \in Profiles /\ profile'.refresh = NoToken
  <2>1. CASE Create
    <3>1. PICK api \in Api, kind \in {"none", "static", "oauth"} :
            profile' = [exists |-> TRUE, api |-> api, oauth |-> kind = "oauth",
                        refresh |-> NoToken, auth |-> IF kind = "static" THEN "static" ELSE "none"]
      BY <2>1 DEF Create
    <3>. QED
      BY <3>1 DEF Profiles, Refresh
  <2>2. CASE Delete
    BY <2>2 DEF Delete, Missing, Profiles, Api, Refresh
  <2>. QED
    BY <2>1, <2>2
<1>2. overlapped' \in BOOLEAN /\ UNCHANGED <<cmd, issuer, live>>
  BY DEF Create, Delete, MayBegin, serverVars, IInv, TypeOK
<1>3. NoToken \notin live
  BY SessionAssumption DEF IInv, TypeOK, Tokens
<1>. QED
  BY <1>1, <1>2, <1>3 DEF IInv, TypeOK, Targeted, ReadIssued, Issued, NewTokenPrivate,
     Obtaining, Superseded, StoredStep

(* The refresh trades the stored token for a new one. *)
LEMMA RefreshKeeps ==
    ASSUME IInv, RefreshSession
    PROVE  IInv' /\ StoredStep
<1>. USE SessionAssumption
<1>1. PICK t \in Tokens :
        /\ Issue(t, profile.api)
        /\ live' = (live \ {profile.refresh}) \union {t}
        /\ profile' = [profile EXCEPT !.refresh = t, !.auth = "access"]
  BY DEF RefreshSession
<1>2. /\ issuer[t] = NoServer /\ t \notin live /\ t # profile.refresh /\ t # NoToken
      /\ issuer' = [issuer EXCEPT ![t] = profile.api]
      /\ \A d \in Commands : /\ t # cmd[d].read.refresh
                             /\ cmd[d].pc \in Obtaining => t # cmd[d].token
  BY <1>1, IssueNew
<1>3. /\ profile.api \in Api \ {NoServer} /\ overlapped' \in BOOLEAN /\ UNCHANGED cmd
      /\ cmd \in [Commands -> Memory]
  BY DEF IInv, TypeOK, Profiles, RefreshSession, MayBegin
<1>4. profile' \in Profiles /\ profile'.refresh = t
  BY <1>1 DEF IInv, TypeOK, Profiles, Refresh
<1>5. issuer' \in [Tokens -> Api] /\ issuer'[t] # NoServer
      /\ \A u \in Tokens : u # t => issuer'[u] = issuer[u]
  BY <1>2, <1>3 DEF IInv, TypeOK
<1>6. live' \subseteq {u \in Tokens : issuer'[u] # NoServer}
  BY <1>1, <1>5 DEF IInv, TypeOK
<1>7. TypeOK'
  BY <1>3, <1>4, <1>5, <1>6 DEF TypeOK
<1>8. Targeted' /\ ReadIssued'
  BY <1>3, <1>4, <1>5 DEF IInv, Targeted, ReadIssued, Issued
<1>9. NewTokenPrivate'
  BY <1>1, <1>2, <1>3, <1>4 DEF IInv, NewTokenPrivate, Obtaining
<1>10. Superseded' /\ StoredStep
  BY <1>1, <1>2, <1>3, <1>4 DEF IInv, Superseded, StoredStep
<1>. QED
  BY <1>7, <1>8, <1>9, <1>10 DEF IInv

------------------------------------------------------------------------------
(* Every step. *)
LEMMA NextKeeps == IInv /\ [Next]_vars => IInv' /\ (StoredStep \/ UNCHANGED vars)
<1>. SUFFICES ASSUME IInv, [Next]_vars PROVE IInv' /\ (StoredStep \/ UNCHANGED vars)
  OBVIOUS
<1>1. ASSUME NEW c \in Commands, Crash(c) PROVE IInv' /\ StoredStep
  BY <1>1, StopKeeps DEF Crash
<1>2. CASE UNCHANGED vars
  BY <1>2 DEF vars, IInv, TypeOK, Targeted, ReadIssued, Issued, NewTokenPrivate, Obtaining, Superseded
<1>. QED
  BY <1>1, <1>2, LoginKeeps, LogoutKeeps, UpdateKeeps, CreateDeleteKeeps, RefreshKeeps DEF Next

(* Every variable keeps its type, for any number of commands running at    *)
(* once.                                                                   *)
THEOREM SessionTypeCorrect == Spec => []TypeOK
<1>1. IInv => TypeOK
  BY DEF IInv
<1>. QED
  BY InitInv, NextKeeps, <1>1, PTL DEF Spec

(* However many commands of login, logout, update, create, delete and      *)
(* refresh interleave, and wherever they die: a session is live when it is *)
(* stored, and while it is stored only logout and update --oauth=false     *)
(* revoke it.  Login's revocations (login.go:505-531) never hit it.        *)
THEOREM StoredSessionKept == Spec => StoredSessionLive
<1>. QED
  BY InitInv, NextKeeps, PTL DEF Spec, StoredSessionLive

------------------------------------------------------------------------------
(* One command at a time.  What a command holds follows from where it is;  *)
(* and as long as no two commands ran at once, what the only one that runs *)
(* has read is what is stored, and it asked where it had to.               *)

(* A token that is not stored is in the hands of the login that got it, at *)
(* the server it got it from; a command that is over holds none.           *)
HeldByPlace ==
    \A c \in Commands :
        /\ cmd[c].pc \notin Obtaining => cmd[c].token = NoToken
        /\ cmd[c].pc \in {"idle", "dead", "report", "clearStale", "compensate"}
              => cmd[c].read.refresh = NoToken
        /\ cmd[c].pc \in Obtaining => issuer[cmd[c].token] = cmd[c].api

(* Login and logout have read what is stored, and login asked for it.      *)
ReadIsStored(c) ==
    /\ cmd[c].pc \in {"loginPrompt", "exchange", "lookup", "persist",
                      "logoutPrompt", "logoutRevoke", "clear"} => cmd[c].read = Read
    /\ cmd[c].pc \in {"exchange", "lookup", "persist"} /\ NeedsPrompt(cmd[c].read.state)
          => cmd[c].asked

(* The flags of update are still valid, and with --oauth=false it has read *)
(* the stored token; a stale access token has no refresh token beside it.  *)
FlagsFit(c) ==
    /\ cmd[c].pc \in {"updatePrompt", "updateRevoke", "write"} =>
          /\ ValidFlags(profile, cmd[c].flags)
          /\ cmd[c].read.refresh = IF cmd[c].flags.oauth = "off" THEN profile.refresh ELSE NoToken
    /\ cmd[c].pc = "clearStale" => profile.refresh = NoToken

(* Before the profile is cleared, its token was revoked at its issuer, or  *)
(* the failure was noted, or another server was asked.                     *)
RevokedBefore(c) ==
    cmd[c].pc \in {"clear", "write"} /\ cmd[c].revoked /\ cmd[c].read.refresh \in live
        => cmd[c].read.api # issuer[cmd[c].read.refresh]

Alone(c) == ReadIsStored(c) /\ FlagsFit(c) /\ RevokedBefore(c)

SoloInv ==
    /\ HeldByPlace /\ OneAuthState
    /\ ~overlapped => \A c \in Running : Alone(c) /\ \A d \in Running : d = c

(* The step of SessionsAccounted. *)
AccountedStep ==
    \A c \in Commands : cmd'[c] # cmd[c] /\ ~overlapped' =>
        \A t \in live' : (t \in Known \/ t \notin live) => t \in Known' \/ Excused(c, t)

(* What command c and the profile lose with a step that leaves c with m.   *)
Kept(c, m) ==
    \A t \in live' :
        t \in {cmd[c].token, cmd[c].read.refresh, profile.refresh} \/ t \notin live
            => t \in {m.token, m.read.refresh, profile'.refresh} \/ Excused(c, t)

(* Who knows a token, before and after a step. *)
LEMMA InKnown ==
    ASSUME NEW t
    PROVE  /\ t \in Known <=> \/ t = profile.refresh
                              \/ \E d \in Commands : t \in Held(d)
           /\ t \in Known' <=> \/ t = profile'.refresh
                               \/ \E d \in Commands : t \in Held(d)'
<1>1. t \in Known <=> t = profile.refresh \/ \E d \in Commands : t \in Held(d)
  <2>1. PICK K : K = {Held(d) : d \in Commands}
    OBVIOUS
  <2>2. PICK U : U = UNION K
    OBVIOUS
  <2>3. t \in U <=> \E x \in K : t \in x
    BY <2>2
  <2>4. \A x : x \in K <=> \E d \in Commands : x = Held(d)
    BY <2>1
  <2>5. t \in U \union {profile.refresh} <=> t \in U \/ t = profile.refresh
    OBVIOUS
  <2>6. Known = U \union {profile.refresh}
    BY <2>1, <2>2, Zenon DEF Known
  <2>. QED
    BY <2>3, <2>4, <2>5, <2>6, Zenon
<1>2. t \in Known' <=> t = profile'.refresh \/ \E d \in Commands : t \in Held(d)'
  <2>1. PICK K : K = {Held(d)' : d \in Commands}
    OBVIOUS
  <2>2. PICK U : U = UNION K
    OBVIOUS
  <2>3. t \in U <=> \E x \in K : t \in x
    BY <2>2
  <2>4. \A x : x \in K <=> \E d \in Commands : x = Held(d)'
    BY <2>1
  <2>5. t \in U \union {profile'.refresh} <=> t \in U \/ t = profile'.refresh
    OBVIOUS
  <2>6. Known' = U \union {profile'.refresh}
    BY <2>1, <2>2, Zenon DEF Known
  <2>. QED
    BY <2>3, <2>4, <2>5, <2>6, Zenon
<1>. QED
  BY <1>1, <1>2

(* A step of command c to memory m. *)
LEMMA SoloStep ==
    ASSUME IInv, TypeOK', SoloInv, NEW c \in Commands, NEW m \in Memory,
           cmd' = [cmd EXCEPT ![c] = m], \A t \in Issued : issuer'[t] = issuer[t],
           m.pc \notin Obtaining => m.token = NoToken,
           m.pc \in {"idle", "dead", "report", "clearStale", "compensate"}
              => m.read.refresh = NoToken,
           m.pc \in Obtaining => issuer'[m.token] = m.api,
           ~overlapped' => /\ ~overlapped /\ \A d \in Running : d = c
                           /\ m.pc \notin {"idle", "dead"} => Alone(c)'
                           /\ Kept(c, m),
           OneAuthState'
    PROVE  SoloInv' /\ AccountedStep
<1>. USE SessionAssumption
<1>1. cmd'[c] = m /\ \A d \in Commands : d # c => cmd'[d] = cmd[d]
  <2>1. cmd \in [Commands -> Memory]
    BY DEF IInv, TypeOK
  <2>. QED
    BY <2>1
<1>2. ASSUME NEW d \in Commands, d # c, cmd[d].pc \in Obtaining
      PROVE  issuer'[cmd[d].token] = cmd[d].api
  BY <1>2 DEF IInv, TypeOK, NewTokenPrivate, Issued, SoloInv, HeldByPlace
<1>3. HeldByPlace'
  <2>1. ASSUME NEW d \in Commands
        PROVE  /\ cmd'[d].pc \notin Obtaining => cmd'[d].token = NoToken
               /\ cmd'[d].pc \in {"idle", "dead", "report", "clearStale", "compensate"}
                     => cmd'[d].read.refresh = NoToken
               /\ cmd'[d].pc \in Obtaining => issuer'[cmd'[d].token] = cmd'[d].api
    <3>1. CASE d = c
      BY <1>1, <3>1
    <3>2. CASE d # c
      BY <1>1, <1>2, <3>2 DEF SoloInv, HeldByPlace
    <3>. QED
      BY <3>1, <3>2
  <2>. QED
    BY <2>1 DEF HeldByPlace, Obtaining
<1>4. ASSUME ~overlapped', NEW d \in Running' PROVE d = c
  BY <1>1, <1>4 DEF Running
<1>5. ASSUME ~overlapped', NEW d \in Running' PROVE Alone(d)' /\ \A e \in Running' : e = d
  <2>1. d = c /\ \A e \in Running' : e = c
    BY <1>4, <1>5
  <2>2. m.pc \notin {"idle", "dead"}
    BY <1>1, <1>5, <2>1 DEF Running
  <2>. QED
    BY <1>5, <2>1, <2>2
<1>6. SoloInv'
  BY <1>3, <1>5 DEF SoloInv
<1>7. ASSUME NEW d \in Commands, cmd'[d] # cmd[d], ~overlapped',
             NEW t \in live', t \in Known \/ t \notin live
      PROVE  t \in Known' \/ Excused(d, t)
  <2>1. d = c
    BY <1>1, <1>7
  <2>2. t # NoToken /\ Kept(c, m)
    BY <1>7 DEF TypeOK, Tokens
  <2>3. CASE t \in {m.token, m.read.refresh, profile'.refresh}
    BY <1>1, <2>2, <2>3, InKnown DEF Held
  <2>4. CASE Excused(c, t)
    BY <2>1, <2>4
  <2>5. ASSUME NEW e \in Commands, e # c, t \in Held(e) PROVE t \in Known'
    BY <1>1, <2>5, InKnown DEF Held
  <2>6. \/ t \in {cmd[c].token, cmd[c].read.refresh, profile.refresh} \/ t \notin live
        \/ \E e \in Commands \ {c} : t \in Held(e)
    BY <1>7, InKnown DEF Held
  <2>. QED
    BY <2>2, <2>3, <2>4, <2>5, <2>6 DEF Kept
<1>8. AccountedStep
  BY <1>7 DEF AccountedStep
<1>. QED
  BY <1>6, <1>8

(* What a running command knows of itself. *)
LEMMA AtRunning ==
    ASSUME IInv, SoloInv, NEW c \in Commands, cmd[c].pc \notin {"idle", "dead"}
    PROVE  /\ cmd[c] \in Memory /\ c \in Running
           /\ ~overlapped => Alone(c) /\ \A d \in Running : d = c
BY DEF IInv, TypeOK, SoloInv, Running

(* A command begins. *)
LEMMA BeginSolo ==
    ASSUME IInv, TypeOK', SoloInv, NEW c \in Commands, NEW m \in Memory, Begin(c, m), LeaveWorld,
           m.token = NoToken, m.pc \notin Obtaining \union {"idle", "dead", "report"},
           m.pc = "clearStale" => m.read.refresh = NoToken,
           ~overlapped => Alone(c)'
    PROVE  SoloInv' /\ AccountedStep
<1>1. /\ cmd' = [cmd EXCEPT ![c] = m] /\ UNCHANGED <<profile, issuer, live>>
      /\ overlapped' = (overlapped \/ Running # {}) /\ c \notin Running
  BY DEF Begin, MayBegin, LeaveWorld, serverVars
<1>2. cmd[c].token = NoToken /\ cmd[c].read.refresh = NoToken
  BY <1>1 DEF Running, SoloInv, HeldByPlace, Obtaining
<1>3. NoToken \notin live
  BY SessionAssumption DEF IInv, TypeOK, Tokens
<1>4. Kept(c, m)
  BY <1>1, <1>2, <1>3 DEF Kept
<1>5. OneAuthState'
  BY <1>1 DEF SoloInv, OneAuthState
<1>. QED
  BY <1>1, <1>4, <1>5, SoloStep DEF Obtaining

(* A command ends or dies. *)
LEMMA StopSolo ==
    ASSUME IInv, TypeOK', SoloInv, NEW c \in Commands, NEW m \in {Idle, Dead},
           cmd[c].pc \notin {"idle", "dead"}, cmd' = [cmd EXCEPT ![c] = m],
           issuer' = issuer, UNCHANGED overlapped, OneAuthState',
           ~overlapped => Kept(c, m)
    PROVE  SoloInv' /\ AccountedStep
<1>1. /\ m \in Memory /\ m.pc \in {"idle", "dead"} /\ m.read.refresh = NoToken
      /\ m.token = NoToken
  BY IdleType
<1>. QED
  BY <1>1, AtRunning, SoloStep DEF Obtaining

(* A command dies. *)
LEMMA CrashSolo ==
    ASSUME IInv, TypeOK', SoloInv, NEW c \in Commands, Crash(c)
    PROVE  SoloInv' /\ AccountedStep
<1>1. /\ cmd[c].pc \notin {"idle", "dead"} /\ cmd' = [cmd EXCEPT ![c] = Dead]
      /\ UNCHANGED <<profile, issuer, live, overlapped>>
  BY DEF Crash, Running, LeaveWorld, serverVars
<1>2. cmd'[c].pc = "dead"
  BY <1>1, IdleType DEF IInv, TypeOK
<1>3. Kept(c, Dead)
  BY <1>2 DEF Kept, Excused
<1>4. OneAuthState'
  BY <1>1 DEF SoloInv, OneAuthState
<1>. QED
  BY <1>1, <1>3, <1>4, StopSolo

(* A command that has not touched the servers yet ends: what it has read   *)
(* is still stored.                                                        *)
LEMMA EarlyEndSolo ==
    ASSUME IInv, TypeOK', SoloInv, NEW c \in Commands, End(c), LeaveWorld, UNCHANGED overlapped,
           cmd[c].pc \in {"loginPrompt", "exchange", "logoutPrompt", "updatePrompt", "report"}
    PROVE  SoloInv' /\ AccountedStep
<1>1. cmd' = [cmd EXCEPT ![c] = Idle] /\ UNCHANGED <<profile, issuer, live, overlapped>>
  BY DEF End, LeaveWorld, serverVars
<1>2. cmd[c].token = NoToken /\ NoToken \notin live
  BY SessionAssumption DEF SoloInv, HeldByPlace, Obtaining, IInv, TypeOK, Tokens
<1>3. ASSUME ~overlapped PROVE cmd[c].read.refresh \in {profile.refresh, NoToken}
  <2>1. Alone(c)
    BY <1>3, AtRunning
  <2>2. Read.refresh = profile.refresh
    BY ReadType DEF IInv
  <2>. QED
    BY <2>1, <2>2 DEF Alone, ReadIsStored, FlagsFit, SoloInv, HeldByPlace
<1>4. ~overlapped => Kept(c, Idle)
  BY <1>1, <1>2, <1>3 DEF Kept
<1>5. OneAuthState'
  BY <1>1 DEF SoloInv, OneAuthState
<1>. QED
  BY <1>1, <1>4, <1>5, StopSolo

(* A prompt is answered. *)
LEMMA ConfirmSolo ==
    ASSUME IInv, TypeOK', SoloInv, NEW c \in Commands, NEW from, NEW to \in Steps,
           Confirm(c, from, to),
           \/ from = "loginPrompt" /\ to = "exchange"
           \/ from = "logoutPrompt" /\ to = "logoutRevoke"
           \/ /\ from = "updatePrompt"
              /\ to = IF cmd[c].flags.oauth = "off" THEN "updateRevoke" ELSE "write"
    PROVE  SoloInv' /\ AccountedStep
<1>1. CASE End(c)
  BY <1>1, EarlyEndSolo DEF Confirm, At
<1>2. CASE cmd' = [cmd EXCEPT ![c].pc = to, ![c].asked = TRUE]
  <2>. PICK m : m = [cmd[c] EXCEPT !.pc = to, !.asked = TRUE]
    OBVIOUS
  <2>1. /\ cmd[c] \in Memory /\ cmd[c].pc = from
        /\ UNCHANGED <<profile, issuer, live, overlapped>>
    BY DEF IInv, TypeOK, Confirm, At, LeaveWorld, serverVars
  <2>2. /\ m \in Memory /\ m.pc = to /\ m.asked /\ m.token = cmd[c].token
        /\ m.read = cmd[c].read /\ m.flags = cmd[c].flags
    BY <2>1 DEF Memory
  <2>3. cmd' = [cmd EXCEPT ![c] = m] /\ cmd'[c] = m
    BY <1>2 DEF IInv, TypeOK
  <2>4. /\ m.token = NoToken /\ NoToken \notin live
        /\ m.pc \in {"exchange", "logoutRevoke", "updateRevoke", "write"}
    BY <2>1, <2>2, SessionAssumption DEF SoloInv, HeldByPlace, Obtaining, IInv, TypeOK, Tokens
  <2>5. ASSUME ~overlapped PROVE Alone(c)' /\ \A d \in Running : d = c
    <3>1. Alone(c) /\ \A d \in Running : d = c
      BY <2>1, <2>5, AtRunning
    <3>2. Read' = Read
      BY <2>1 DEF Read, ProfileState
    <3>3. ReadIsStored(c)'
      BY <2>1, <2>2, <2>3, <2>4, <3>1, <3>2 DEF Alone, ReadIsStored
    <3>4. FlagsFit(c)'
      BY <2>1, <2>2, <2>3, <2>4, <3>1 DEF Alone, FlagsFit, ValidFlags, TargetOAuth
    <3>5. RevokedBefore(c)'
      BY <2>1, <2>2, <2>3, <2>4, <3>1 DEF Alone, FlagsFit, RevokedBefore
    <3>. QED
      BY <3>1, <3>3, <3>4, <3>5 DEF Alone
  <2>6. Kept(c, m)
    BY <2>1, <2>2 DEF Kept
  <2>7. OneAuthState'
    BY <2>1 DEF SoloInv, OneAuthState
  <2>. QED
    BY <2>1, <2>2, <2>3, <2>4, <2>5, <2>6, <2>7, SoloStep DEF Obtaining
<1>. QED
  BY <1>1, <1>2 DEF Confirm

(* Login begins with what is stored. *)
LEMMA BeginLoginSolo ==
    ASSUME IInv, TypeOK', SoloInv, NEW c \in Commands, BeginLogin(c)
    PROVE  SoloInv' /\ AccountedStep
<1>1. PICK api \in Api, m \in Memory :
        /\ m.pc = IF NeedsPrompt(Read.state) THEN "loginPrompt" ELSE "exchange"
        /\ m.read = Read /\ m.token = NoToken /\ Begin(c, m)
  <2>1. PICK given \in Api :
          LET api == IF given # NoServer THEN given ELSE profile.api IN
          /\ api # NoServer
          /\ Begin(c, [Idle EXCEPT !.read = Read, !.api = api,
                           !.pc = IF NeedsPrompt(Read.state) THEN "loginPrompt" ELSE "exchange"])
    BY DEF BeginLogin
  <2>. DEFINE api == IF given # NoServer THEN given ELSE profile.api
              m == [Idle EXCEPT !.read = Read, !.api = api,
                        !.pc = IF NeedsPrompt(Read.state) THEN "loginPrompt" ELSE "exchange"]
  <2>2. api \in Api /\ Read \in Seen
    BY ReadType DEF IInv, TypeOK, Profiles
  <2>. HIDE DEF api
  <2>3. /\ m \in Memory /\ m.read = Read /\ m.token = NoToken
        /\ m.pc = IF NeedsPrompt(Read.state) THEN "loginPrompt" ELSE "exchange"
    BY <2>2, IdleType DEF Memory, Steps, Idle
  <2>4. Begin(c, m)
    BY <2>1 DEF api
  <2>. HIDE DEF m
  <2>. QED
    BY <2>2, <2>3, <2>4
<1>2. cmd'[c] = m /\ Read' = Read
  BY <1>1 DEF IInv, TypeOK, Begin, BeginLogin, LeaveWorld, Read, ProfileState
<1>3. m.pc \in {"loginPrompt", "exchange"} /\ (m.pc = "exchange" => ~NeedsPrompt(m.read.state))
  BY <1>1
<1>4. Alone(c)'
  BY <1>1, <1>2, <1>3 DEF Alone, ReadIsStored, FlagsFit, RevokedBefore
<1>5. LeaveWorld
  BY DEF BeginLogin
<1>. QED
  BY <1>1, <1>3, <1>4, <1>5, BeginSolo DEF Obtaining

(* Logout begins with what is stored, or with a stale access token. *)
LEMMA BeginLogoutSolo ==
    ASSUME IInv, TypeOK', SoloInv, NEW c \in Commands, BeginLogout(c)
    PROVE  SoloInv' /\ AccountedStep
<1>1. PICK m \in Memory :
        /\ Begin(c, m) /\ m.token = NoToken
        /\ \/ m.pc = "logoutPrompt" /\ m.read = Read
           \/ m.pc = "clearStale" /\ m.read.refresh = NoToken /\ profile.refresh = NoToken
  <2>1. CASE profile.refresh # NoToken
    <3>. DEFINE m == [Idle EXCEPT !.pc = "logoutPrompt", !.read = Read]
    <3>1. m \in Memory /\ m.pc = "logoutPrompt" /\ m.read = Read /\ m.token = NoToken
      BY IdleType, ReadType DEF IInv, Memory, Steps, Idle
    <3>2. Begin(c, m)
      BY <2>1 DEF BeginLogout
    <3>. HIDE DEF m
    <3>. QED
      BY <3>1, <3>2
  <2>2. CASE profile.refresh = NoToken
    <3>. DEFINE m == [Idle EXCEPT !.pc = "clearStale"]
    <3>1. m \in Memory /\ m.pc = "clearStale" /\ m.read.refresh = NoToken /\ m.token = NoToken
      BY IdleType DEF Memory, Steps, Idle
    <3>2. Begin(c, m)
      BY <2>2 DEF BeginLogout
    <3>. HIDE DEF m
    <3>. QED
      BY <2>2, <3>1, <3>2
  <2>. QED
    BY <2>1, <2>2
<1>2. cmd'[c] = m /\ Read' = Read /\ profile' = profile
  BY <1>1 DEF IInv, TypeOK, Begin, BeginLogout, LeaveWorld, Read, ProfileState
<1>3. Alone(c)'
  BY <1>1, <1>2 DEF Alone, ReadIsStored, FlagsFit, RevokedBefore
<1>4. LeaveWorld
  BY DEF BeginLogout
<1>. QED
  BY <1>1, <1>3, <1>4, BeginSolo DEF Obtaining

(* Update begins with flags that are valid for what is stored. *)
LEMMA BeginUpdateSolo ==
    ASSUME IInv, TypeOK', SoloInv, NEW c \in Commands, BeginUpdate(c)
    PROVE  SoloInv' /\ AccountedStep
<1>1. PICK flags \in Choices :
        /\ ValidFlags(profile, flags)
        /\ Begin(c, [Idle EXCEPT !.flags = flags,
              !.read = IF flags.oauth = "off" THEN Read ELSE @,
              !.pc = IF Destructive(profile, flags) THEN "updatePrompt"
                     ELSE IF flags.oauth = "off" /\ profile.oauth THEN "updateRevoke"
                     ELSE "write"])
  BY DEF BeginUpdate
<1>. DEFINE read == IF flags.oauth = "off" THEN Read ELSE Idle.read
            pc == IF Destructive(profile, flags) THEN "updatePrompt"
                  ELSE IF flags.oauth = "off" /\ profile.oauth THEN "updateRevoke"
                  ELSE "write"
            memory == [Idle EXCEPT !.flags = flags, !.read = read, !.pc = pc]
<1>2. /\ flags \in UpdateFlags /\ pc \in {"updatePrompt", "updateRevoke", "write"}
      /\ read \in Seen /\ read.refresh = IF flags.oauth = "off" THEN profile.refresh ELSE NoToken
  BY IdleType, ReadType, ChoicesAssumption DEF IInv, Memory
<1>3. pc = "write" /\ flags.oauth = "off" => ~profile.oauth
  OBVIOUS
<1>4. Begin(c, memory) /\ LeaveWorld
  BY <1>1 DEF BeginUpdate, Idle
<1>. HIDE DEF read, pc
<1>5. /\ memory \in Memory /\ memory.pc = pc /\ memory.read = read /\ memory.flags = flags
      /\ memory.token = NoToken
  BY <1>2, IdleType DEF Memory, Steps, Idle
<1>. PICK m : m = memory
  OBVIOUS
<1>. HIDE DEF memory
<1>6. /\ m \in Memory /\ m.pc \in {"updatePrompt", "updateRevoke", "write"} /\ m.flags = flags
      /\ m.read.refresh = IF flags.oauth = "off" THEN profile.refresh ELSE NoToken
      /\ m.token = NoToken /\ Begin(c, m)
      /\ m.pc = "write" /\ flags.oauth = "off" => ~profile.oauth
  BY <1>2, <1>3, <1>4, <1>5
<1>7. cmd'[c] = m /\ UNCHANGED <<profile, issuer, live>>
  BY <1>4, <1>6 DEF IInv, TypeOK, Begin, LeaveWorld, serverVars
<1>8. NoToken \notin live
  BY SessionAssumption DEF IInv, TypeOK, Tokens
<1>9. ASSUME ~overlapped PROVE Alone(c)'
  <2>1. ReadIsStored(c)'
    BY <1>6, <1>7 DEF ReadIsStored
  <2>2. FlagsFit(c)'
    BY <1>1, <1>6, <1>7 DEF FlagsFit, ValidFlags, TargetOAuth
  <2>3. RevokedBefore(c)'
    BY <1>6, <1>7, <1>8, <1>9 DEF RevokedBefore, SoloInv, OneAuthState
  <2>. QED
    BY <2>1, <2>2, <2>3 DEF Alone
<1>. QED
  BY <1>4, <1>6, <1>9, BeginSolo DEF Obtaining

(* The exchange adds a token, which login holds unless the reply was lost. *)
LEMMA ExchangeSolo ==
    ASSUME IInv, TypeOK', SoloInv, NEW c \in Commands, Exchange(c)
    PROVE  SoloInv' /\ AccountedStep
<1>. USE SessionAssumption
<1>1. PICK t \in Tokens :
        /\ Issue(t, cmd[c].api)
        /\ live' = live \union {t}
        /\ \/ cmd' = [cmd EXCEPT ![c].pc = "lookup", ![c].token = t]
           \/ Abandon(c, t)
           \/ End(c)
  BY DEF Exchange
<1>2. /\ issuer[t] = NoServer /\ t \notin live /\ t # NoToken
      /\ issuer' = [issuer EXCEPT ![t] = cmd[c].api]
  BY <1>1, IssueNew
<1>3. /\ cmd[c] \in Memory /\ cmd[c].pc = "exchange" /\ t \in Refresh
      /\ UNCHANGED <<profile, overlapped>>
  BY DEF IInv, TypeOK, Exchange, At, Refresh
<1>4. issuer'[t] = cmd[c].api /\ \A u \in Issued : issuer'[u] = issuer[u]
  BY <1>2 DEF IInv, TypeOK, Issued
<1>5. OneAuthState'
  BY <1>3 DEF SoloInv, OneAuthState
<1>6. NoToken \notin live' /\ cmd[c].token = NoToken
  BY <1>3 DEF TypeOK, Tokens, SoloInv, HeldByPlace, Obtaining
<1>7. ASSUME ~overlapped
      PROVE  /\ \A d \in Running : d = c
             /\ cmd[c].read = Read /\ cmd[c].read.refresh = profile.refresh
             /\ NeedsPrompt(cmd[c].read.state) => cmd[c].asked
  BY <1>3, <1>7, AtRunning, ReadType DEF Alone, ReadIsStored, IInv
<1>8. ASSUME NEW m \in Memory, t = m.token \/ Excused(c, t), ~overlapped PROVE Kept(c, m)
  BY <1>1, <1>3, <1>6, <1>7, <1>8 DEF Kept
<1>9. CASE cmd' = [cmd EXCEPT ![c].pc = "lookup", ![c].token = t]
  <2>. PICK m : m = [cmd[c] EXCEPT !.pc = "lookup", !.token = t]
    OBVIOUS
  <2>1. /\ m \in Memory /\ m.pc = "lookup" /\ m.token = t /\ m.read = cmd[c].read
        /\ m.asked = cmd[c].asked /\ m.api = cmd[c].api
    BY <1>3 DEF Memory, Steps
  <2>2. cmd' = [cmd EXCEPT ![c] = m] /\ cmd'[c] = m
    BY <1>9 DEF IInv, TypeOK
  <2>3. ~overlapped => Alone(c)'
    <3>1. Read' = Read
      BY <1>3 DEF Read, ProfileState
    <3>. QED
      BY <1>7, <2>1, <2>2, <3>1 DEF Alone, ReadIsStored, FlagsFit, RevokedBefore
  <2>. QED
    BY <1>3, <1>4, <1>5, <1>7, <1>8, <2>1, <2>2, <2>3, SoloStep DEF Obtaining
<1>10. CASE Abandon(c, t)
  <2>. PICK m : m = [Idle EXCEPT !.pc = "compensate", !.api = cmd[c].api, !.token = t]
    OBVIOUS
  <2>1. /\ m \in Memory /\ m.pc = "compensate" /\ m.token = t /\ m.read.refresh = NoToken
        /\ m.api = cmd[c].api
    BY <1>3, IdleType DEF Memory, Steps, Idle
  <2>2. cmd' = [cmd EXCEPT ![c] = m] /\ cmd'[c] = m
    BY <1>10 DEF Abandon, IInv, TypeOK
  <2>3. Alone(c)'
    BY <2>1, <2>2 DEF Alone, ReadIsStored, FlagsFit, RevokedBefore
  <2>. QED
    BY <1>3, <1>4, <1>5, <1>7, <1>8, <2>1, <2>2, <2>3, SoloStep DEF Obtaining
<1>11. CASE End(c)
  <2>1. cmd' = [cmd EXCEPT ![c] = Idle]
    BY <1>11 DEF End
  <2>2. Excused(c, t)
    BY <1>2, <1>3 DEF Excused, At
  <2>3. ~overlapped => Kept(c, Idle)
    BY <1>8, <2>2, IdleType
  <2>. QED
    BY <1>3, <1>4, <1>5, <1>7, <2>1, <2>3, IdleType, SoloStep DEF Obtaining
<1>. QED
  BY <1>1, <1>9, <1>10, <1>11

(* A login that gives its session up holds on to the token. *)
LEMMA AbandonSolo ==
    ASSUME IInv, TypeOK', SoloInv, NEW c \in Commands, cmd[c].pc \in {"lookup", "persist"},
           Abandon(c, cmd[c].token), UNCHANGED <<profile, issuer, live, overlapped>>
    PROVE  SoloInv' /\ AccountedStep
<1>. PICK m : m = [Idle EXCEPT !.pc = "compensate", !.api = cmd[c].api, !.token = cmd[c].token]
  OBVIOUS
<1>1. cmd[c] \in Memory
  BY DEF IInv, TypeOK
<1>2. /\ m \in Memory /\ m.pc = "compensate" /\ m.token = cmd[c].token
      /\ m.read.refresh = NoToken /\ m.api = cmd[c].api
  BY <1>1, IdleType DEF Memory, Steps, Idle
<1>3. cmd' = [cmd EXCEPT ![c] = m] /\ cmd'[c] = m
  BY DEF Abandon, IInv, TypeOK
<1>4. Alone(c)'
  BY <1>2, <1>3 DEF Alone, ReadIsStored, FlagsFit, RevokedBefore
<1>5. ~overlapped => cmd[c].read.refresh = profile.refresh /\ \A d \in Running : d = c
  BY AtRunning, ReadType DEF Alone, ReadIsStored, IInv
<1>6. ~overlapped => Kept(c, m)
  BY <1>2, <1>5 DEF Kept
<1>7. OneAuthState' /\ issuer[cmd[c].token] = cmd[c].api
  BY DEF SoloInv, OneAuthState, HeldByPlace, Obtaining
<1>. QED
  BY <1>2, <1>3, <1>4, <1>5, <1>6, <1>7, SoloStep DEF Obtaining

(* Reading the store loses nothing. *)
LEMMA LookUpSolo ==
    ASSUME IInv, TypeOK', SoloInv, NEW c \in Commands, LookUp(c)
    PROVE  SoloInv' /\ AccountedStep
<1>1. /\ cmd[c] \in Memory /\ cmd[c].pc = "lookup" /\ profile \in Profiles
      /\ UNCHANGED <<profile, issuer, live, overlapped>>
  BY DEF IInv, TypeOK, LookUp, At, LeaveWorld, serverVars
<1>2. CASE cmd' = [cmd EXCEPT ![c].pc = "persist", ![c].found = profile.exists]
  <2>. PICK m : m = [cmd[c] EXCEPT !.pc = "persist", !.found = profile.exists]
    OBVIOUS
  <2>1. /\ m \in Memory /\ m.pc = "persist" /\ m.token = cmd[c].token
        /\ m.read = cmd[c].read /\ m.asked = cmd[c].asked /\ m.api = cmd[c].api
    BY <1>1 DEF Memory, Steps, Profiles
  <2>2. cmd' = [cmd EXCEPT ![c] = m] /\ cmd'[c] = m
    BY <1>2 DEF IInv, TypeOK
  <2>3. ASSUME ~overlapped PROVE Alone(c)' /\ \A d \in Running : d = c
    <3>1. Alone(c) /\ \A d \in Running : d = c
      BY <1>1, <2>3, AtRunning
    <3>2. Read' = Read
      BY <1>1 DEF Read, ProfileState
    <3>. QED
      BY <1>1, <2>1, <2>2, <3>1, <3>2 DEF Alone, ReadIsStored, FlagsFit, RevokedBefore
  <2>4. Kept(c, m)
    BY <1>1, <2>1 DEF Kept
  <2>5. OneAuthState' /\ issuer[cmd[c].token] = cmd[c].api
    BY <1>1 DEF SoloInv, OneAuthState, HeldByPlace, Obtaining
  <2>. QED
    BY <1>1, <2>1, <2>2, <2>3, <2>4, <2>5, SoloStep DEF Obtaining
<1>. QED
  BY <1>1, <1>2, AbandonSolo DEF LookUp

(* The new session is stored, and the old one, if any, is still in hand. *)
LEMMA PersistSolo ==
    ASSUME IInv, TypeOK', SoloInv, NEW c \in Commands, Persist(c)
    PROVE  SoloInv' /\ AccountedStep
<1>1. /\ cmd[c] \in Memory /\ cmd[c].pc = "persist" /\ UNCHANGED <<issuer, live, overlapped>>
  BY DEF IInv, TypeOK, Persist, At, serverVars
<1>2. CASE /\ profile' = [exists |-> TRUE, oauth |-> TRUE, auth |-> "access",
                          refresh |-> cmd[c].token, api |-> cmd[c].api]
           /\ Stored(c)
  <2>1. /\ profile'.refresh = cmd[c].token /\ profile'.oauth /\ profile'.auth = "access"
    BY <1>2
  <2>2. cmd[c].token \in live /\ NoToken \notin live
    BY <1>1, SessionAssumption DEF IInv, NewTokenPrivate, Obtaining, TypeOK, Tokens
  <2>3. OneAuthState'
    BY <2>1, <2>2 DEF OneAuthState
  <2>4. ~overlapped => cmd[c].read.refresh = profile.refresh /\ \A d \in Running : d = c
    BY <1>1, AtRunning, ReadType DEF Alone, ReadIsStored, IInv
  <2>5. CASE cmd[c].read.refresh = NoToken
    <3>1. cmd' = [cmd EXCEPT ![c] = Idle]
      BY <1>2, <2>5 DEF Stored, End
    <3>2. ~overlapped => Kept(c, Idle)
      BY <1>1, <2>1, <2>2, <2>4, <2>5 DEF Kept
    <3>. QED
      BY <1>1, <2>3, <3>1, <3>2, StopSolo
  <2>6. CASE cmd[c].read.refresh # NoToken
    <3>. PICK m : m = [Idle EXCEPT !.pc = "revokeOld", !.read = cmd[c].read]
      OBVIOUS
    <3>1. m \in Memory /\ m.pc = "revokeOld" /\ m.read = cmd[c].read /\ m.token = NoToken
      BY <1>1, IdleType DEF Memory, Steps, Idle
    <3>2. cmd' = [cmd EXCEPT ![c] = m] /\ cmd'[c] = m
      BY <1>2, <2>6 DEF Stored, IInv, TypeOK
    <3>3. Alone(c)'
      BY <3>1, <3>2 DEF Alone, ReadIsStored, FlagsFit, RevokedBefore
    <3>4. ~overlapped => Kept(c, m)
      BY <1>1, <2>1, <2>4, <3>1 DEF Kept
    <3>. QED
      BY <1>1, <2>3, <2>4, <3>1, <3>2, <3>3, <3>4, SoloStep DEF Obtaining
  <2>. QED
    BY <2>5, <2>6
<1>3. CASE Abandon(c, cmd[c].token) /\ UNCHANGED profile
  BY <1>1, <1>3, AbandonSolo
<1>. QED
  BY <1>2, <1>3 DEF Persist

(* A command that ends, with a report when its revocation failed: what was *)
(* in its hands was revoked, or excused.                                   *)
LEMMA EndNotingSolo ==
    ASSUME IInv, TypeOK', SoloInv, NEW c \in Commands, NEW ok \in BOOLEAN, EndNoting(c, ok),
           cmd[c].pc \notin {"idle", "dead"}, UNCHANGED <<profile, issuer, overlapped>>,
           live' \subseteq live,
           ok => \A t \in live' : t \in {cmd[c].token, cmd[c].read.refresh} => Excused(c, t)
    PROVE  SoloInv' /\ AccountedStep
<1>. PICK m : m = IF ok THEN Idle ELSE [Idle EXCEPT !.pc = "report", !.revoked = FALSE]
  OBVIOUS
<1>1. /\ m \in Memory /\ m.pc \in {"idle", "report"} /\ m.read.refresh = NoToken
      /\ m.token = NoToken /\ (~ok => ~m.revoked)
  BY IdleType DEF Memory, Steps, Idle
<1>2. cmd' = [cmd EXCEPT ![c] = m] /\ cmd'[c] = m
  BY DEF EndNoting, IInv, TypeOK
<1>3. Kept(c, m)
  <2>1. ASSUME ~ok, NEW t PROVE Excused(c, t)
    BY <1>1, <1>2, <2>1 DEF Excused
  <2>. QED
    BY <2>1 DEF Kept
<1>4. OneAuthState'
  BY DEF SoloInv, OneAuthState
<1>5. ~overlapped => \A d \in Running : d = c
  BY AtRunning
<1>6. m.pc \notin {"idle", "dead"} => Alone(c)'
  BY <1>1, <1>2 DEF Alone, ReadIsStored, FlagsFit, RevokedBefore
<1>. QED
  BY <1>1, <1>2, <1>3, <1>4, <1>5, <1>6, SoloStep DEF Obtaining

(* What a successful revocation at the issuer takes. *)
LEMMA RevokedAway ==
    ASSUME NEW api, NEW t \in Tokens, Revoke(api, t, TRUE), api = issuer[t], NoToken \notin Tokens
    PROVE  t \notin live'
BY DEF Revoke

(* The compensating revocation goes to the server that issued the token. *)
LEMMA CompensateSolo ==
    ASSUME IInv, TypeOK', SoloInv, NEW c \in Commands, Compensate(c)
    PROVE  SoloInv' /\ AccountedStep
<1>1. /\ cmd[c].pc = "compensate" /\ UNCHANGED <<profile, issuer, overlapped>>
  BY DEF Compensate, At
<1>2. PICK ok \in BOOLEAN : Revoke(cmd[c].api, cmd[c].token, ok) /\ EndNoting(c, ok)
  BY DEF Compensate
<1>3. live' \subseteq live
  BY <1>2, RevokeTakes
<1>4. /\ cmd[c].token \in Tokens /\ cmd[c].api = issuer[cmd[c].token]
      /\ cmd[c].read.refresh = NoToken
  BY <1>1 DEF IInv, TypeOK, NewTokenPrivate, SoloInv, HeldByPlace, Obtaining
<1>5. NoToken \notin Tokens /\ NoToken \notin live
  BY SessionAssumption DEF IInv, TypeOK, Tokens
<1>6. ok => cmd[c].token \notin live'
  BY <1>2, <1>4, <1>5, RevokedAway
<1>. QED
  BY <1>1, <1>2, <1>3, <1>4, <1>5, <1>6, EndNotingSolo

(* So does the revocation of the superseded session, or it is excused. *)
LEMMA RevokeOldSolo ==
    ASSUME IInv, TypeOK', SoloInv, NEW c \in Commands, RevokeOld(c)
    PROVE  SoloInv' /\ AccountedStep
<1>1. /\ cmd[c].pc = "revokeOld" /\ UNCHANGED <<profile, issuer, overlapped>>
  BY DEF RevokeOld, At
<1>2. PICK ok \in BOOLEAN :
        /\ EndNoting(c, ok)
        /\ IF cmd[c].read.api = NoServer THEN ~ok /\ UNCHANGED live
           ELSE Revoke(cmd[c].read.api, cmd[c].read.refresh, ok)
  BY DEF RevokeOld
<1>3. live' \subseteq live
  BY <1>2, RevokeTakes
<1>4. NoToken \notin Tokens /\ NoToken \notin live /\ live \subseteq Tokens
  BY SessionAssumption DEF IInv, TypeOK, Tokens
<1>5. cmd[c].token = NoToken
  BY <1>1 DEF SoloInv, HeldByPlace, Obtaining
<1>6. ASSUME ok, cmd[c].read.refresh \in live' PROVE Excused(c, cmd[c].read.refresh)
  <2>1. cmd[c].read.refresh \in Tokens /\ Revoke(cmd[c].read.api, cmd[c].read.refresh, TRUE)
    BY <1>2, <1>3, <1>4, <1>6
  <2>2. cmd[c].read.api # issuer[cmd[c].read.refresh]
    BY <1>4, <1>6, <2>1, RevokedAway
  <2>. QED
    BY <2>2 DEF Excused
<1>. QED
  BY <1>1, <1>2, <1>3, <1>4, <1>5, <1>6, EndNotingSolo

(* The revocation that precedes a write is noted. *)
LEMMA RevokeReadSolo ==
    ASSUME IInv, TypeOK', SoloInv, NEW c \in Commands, NEW ok \in BOOLEAN, NEW step,
           \/ At(c, "logoutRevoke") /\ step = "clear"
           \/ At(c, "updateRevoke") /\ step = "write",
           Revoke(cmd[c].read.api, cmd[c].read.refresh, ok), GotoNoting(c, step, ok),
           UNCHANGED <<profile, issuer, overlapped>>
    PROVE  SoloInv' /\ AccountedStep
<1>. PICK m : m = [cmd[c] EXCEPT !.pc = step, !.revoked = ok]
  OBVIOUS
<1>1. cmd[c] \in Memory /\ cmd[c].pc \in {"logoutRevoke", "updateRevoke"}
  BY DEF IInv, TypeOK, At
<1>2. /\ m \in Memory /\ m.pc = step /\ m.read = cmd[c].read /\ m.flags = cmd[c].flags
      /\ m.revoked = ok /\ m.token = cmd[c].token
  BY <1>1 DEF Memory, Steps
<1>3. cmd' = [cmd EXCEPT ![c] = m] /\ cmd'[c] = m
  BY DEF GotoNoting, IInv, TypeOK
<1>4. live' \subseteq live /\ NoToken \notin Tokens /\ live \subseteq Tokens
  BY RevokeTakes, SessionAssumption DEF IInv, TypeOK, Tokens
<1>5. RevokedBefore(c)'
  <2>1. ASSUME ok, m.read.refresh \in live' PROVE m.read.api # issuer[m.read.refresh]
    BY <1>2, <1>4, <2>1, RevokedAway
  <2>. QED
    BY <1>2, <1>3, <2>1 DEF RevokedBefore
<1>6. ASSUME ~overlapped PROVE Alone(c)' /\ \A d \in Running : d = c
  <2>1. Alone(c) /\ \A d \in Running : d = c
    BY <1>1, <1>6, AtRunning
  <2>2. Read' = Read
    BY DEF Read, ProfileState
  <2>3. ReadIsStored(c)'
    BY <1>2, <1>3, <2>1, <2>2 DEF Alone, ReadIsStored, At
  <2>4. FlagsFit(c)'
    BY <1>2, <1>3, <2>1 DEF Alone, FlagsFit, ValidFlags, TargetOAuth, At
  <2>. QED
    BY <1>5, <2>1, <2>3, <2>4 DEF Alone
<1>7. Kept(c, m)
  BY <1>2, <1>4 DEF Kept
<1>8. OneAuthState' /\ m.token = NoToken
  BY <1>1, <1>2 DEF SoloInv, OneAuthState, HeldByPlace, Obtaining
<1>. QED
  BY <1>2, <1>3, <1>6, <1>7, <1>8, SoloStep DEF Obtaining

(* A stale access token is cleared where there is no refresh token. *)
LEMMA ClearStaleSolo ==
    ASSUME IInv, TypeOK', SoloInv, NEW c \in Commands, ClearStale(c)
    PROVE  SoloInv' /\ AccountedStep
<1>1. /\ cmd[c].pc = "clearStale" /\ UNCHANGED <<issuer, live, overlapped>>
      /\ cmd' = [cmd EXCEPT ![c] = Idle]
      /\ profile' = [profile EXCEPT !.auth = "none"] \/ profile' = profile
  BY DEF ClearStale, At, End, serverVars
<1>2. /\ profile'.refresh = profile.refresh /\ profile'.oauth = profile.oauth
      /\ profile'.auth \in {profile.auth, "none"}
  BY <1>1 DEF IInv, TypeOK, Profiles
<1>3. /\ cmd[c].token = NoToken /\ cmd[c].read.refresh = NoToken /\ NoToken \notin live
  BY <1>1, SessionAssumption DEF SoloInv, HeldByPlace, Obtaining, IInv, TypeOK, Tokens
<1>4. ~overlapped => profile.refresh = NoToken
  BY <1>1, AtRunning DEF Alone, FlagsFit
<1>5. OneAuthState'
  BY <1>1, <1>2, <1>4 DEF SoloInv, OneAuthState
<1>6. Kept(c, Idle)
  BY <1>1, <1>2, <1>3 DEF Kept
<1>. QED
  BY <1>1, <1>5, <1>6, StopSolo

(* A session is removed from the profile once it was revoked, or noted. *)
LEMMA RemoveSolo ==
    ASSUME IInv, TypeOK', SoloInv, NEW c \in Commands, End(c), UNCHANGED <<serverVars, overlapped>>,
           cmd[c].pc \in {"clear", "write"}, OneAuthState',
           ~overlapped =>
              \/ profile'.refresh = profile.refresh
              \/ cmd[c].pc = "write" /\ cmd[c].flags.oauth = "on"
              \/ cmd[c].read.refresh = profile.refresh,
           cmd[c].pc = "write" /\ ~overlapped => cmd[c].read.refresh \in {profile.refresh, NoToken}
    PROVE  SoloInv' /\ AccountedStep
<1>1. cmd' = [cmd EXCEPT ![c] = Idle] /\ UNCHANGED <<issuer, live, overlapped>>
  BY DEF End, serverVars
<1>2. cmd[c].token = NoToken /\ NoToken \notin live
  BY SessionAssumption DEF SoloInv, HeldByPlace, Obtaining, IInv, TypeOK, Tokens
<1>3. ASSUME ~overlapped PROVE Kept(c, Idle)
  <2>1. Alone(c) /\ cmd[c].read.refresh \in {profile.refresh, NoToken}
    BY <1>3, AtRunning, ReadType DEF Alone, ReadIsStored, IInv
  <2>2. ASSUME NEW t \in live', t = profile.refresh, t # profile'.refresh
        PROVE  Excused(c, t)
    <3>1. CASE cmd[c].pc = "write" /\ cmd[c].flags.oauth = "on"
      BY <3>1 DEF Excused, At
    <3>2. CASE cmd[c].read.refresh = profile.refresh
      BY <1>1, <2>1, <2>2, <3>2 DEF Alone, RevokedBefore, Excused
    <3>. QED
      BY <1>3, <2>2, <3>1, <3>2
  <2>. QED
    BY <1>1, <1>2, <2>1, <2>2 DEF Kept
<1>. QED
  BY <1>1, <1>3, StopSolo

(* Logout clears what it has read and revoked. *)
LEMMA ClearSolo ==
    ASSUME IInv, TypeOK', SoloInv, NEW c \in Commands, Clear(c)
    PROVE  SoloInv' /\ AccountedStep
<1>1. /\ cmd[c].pc = "clear" /\ End(c) /\ UNCHANGED <<serverVars, overlapped>>
      /\ \/ profile' = [profile EXCEPT !.auth = "none", !.oauth = TRUE, !.refresh = NoToken]
         \/ profile' = profile
  BY DEF Clear, At
<1>2. OneAuthState'
  <2>1. CASE profile' = profile
    BY <1>1, <2>1 DEF SoloInv, OneAuthState
  <2>2. CASE profile' = [profile EXCEPT !.auth = "none", !.oauth = TRUE, !.refresh = NoToken]
    <3>1. profile'.auth = "none" /\ profile'.oauth /\ profile'.refresh = NoToken
      BY <2>2 DEF IInv, TypeOK, Profiles
    <3>. QED
      BY <3>1 DEF OneAuthState
  <2>. QED
    BY <1>1, <2>1, <2>2
<1>3. ~overlapped => cmd[c].read.refresh = profile.refresh
  BY <1>1, AtRunning, ReadType DEF Alone, ReadIsStored, IInv
<1>. QED
  BY <1>1, <1>2, <1>3, RemoveSolo

(* Valid flags keep the profile in one authentication state. *)
LEMMA UpdatedState ==
    ASSUME NEW p \in Profiles, NEW flags \in UpdateFlags, ValidFlags(p, flags),
           NEW q, q = Updated(p, flags),
           p.oauth => p.auth # "static", p.auth = "access" <=> p.refresh # NoToken,
           p.refresh # NoToken => p.oauth
    PROVE  /\ q.oauth => q.auth # "static"
           /\ q.auth = "access" <=> q.refresh # NoToken
           /\ q.refresh # NoToken => q.oauth
<1>1. /\ q.oauth = TargetOAuth(p, flags)
      /\ q.refresh = IF flags.oauth # "keep" THEN NoToken ELSE p.refresh
      /\ q.auth = IF flags.auth # "keep" THEN flags.auth
                  ELSE IF flags.oauth # "keep" THEN "none" ELSE p.auth
  BY DEF Updated
<1>2. flags.auth \in {"keep", "none", "static"} /\ flags.oauth \in {"keep", "on", "off"}
  BY DEF UpdateFlags
<1>3. CASE flags.oauth = "keep"
  BY <1>1, <1>2, <1>3 DEF ValidFlags, TargetOAuth
<1>4. CASE flags.oauth = "on"
  BY <1>1, <1>2, <1>4 DEF ValidFlags, TargetOAuth
<1>5. CASE flags.oauth = "off"
  BY <1>1, <1>2, <1>5 DEF ValidFlags, TargetOAuth
<1>. QED
  BY <1>2, <1>3, <1>4, <1>5

(* Update writes what its flags say of what is stored. *)
LEMMA WriteSolo ==
    ASSUME IInv, TypeOK', SoloInv, NEW c \in Commands, Write(c)
    PROVE  SoloInv' /\ AccountedStep
<1>1. /\ cmd[c].pc = "write" /\ End(c) /\ UNCHANGED <<serverVars, overlapped>>
      /\ profile' = Updated(profile, cmd[c].flags) \/ profile' = profile
      /\ profile \in Profiles /\ cmd[c].flags \in UpdateFlags
  BY DEF Write, At, IInv, TypeOK, Memory
<1>2. ASSUME ~overlapped
      PROVE  /\ ValidFlags(profile, cmd[c].flags)
             /\ cmd[c].read.refresh = IF cmd[c].flags.oauth = "off" THEN profile.refresh ELSE NoToken
  BY <1>1, <1>2, AtRunning DEF Alone, FlagsFit
<1>3. OneAuthState'
  <2>1. CASE profile' = profile
    BY <1>1, <2>1 DEF SoloInv, OneAuthState
  <2>2. CASE profile' = Updated(profile, cmd[c].flags)
    BY <1>1, <1>2, <2>2, UpdatedState DEF SoloInv, OneAuthState
  <2>. QED
    BY <1>1, <2>1, <2>2
<1>4. ASSUME ~overlapped
      PROVE  \/ profile'.refresh = profile.refresh
             \/ cmd[c].pc = "write" /\ cmd[c].flags.oauth = "on"
             \/ cmd[c].read.refresh = profile.refresh
  <2>1. CASE profile' = Updated(profile, cmd[c].flags) /\ cmd[c].flags.oauth = "keep"
    BY <2>1 DEF Updated
  <2>. QED
    BY <1>1, <1>2, <1>4, <2>1 DEF UpdateFlags
<1>. QED
  BY <1>1, <1>2, <1>3, <1>4, RemoveSolo

(* The commands of one step count as overlapping whatever runs meanwhile. *)
LEMMA WorldSolo ==
    ASSUME IInv, TypeOK', SoloInv, MayBegin, UNCHANGED cmd, OneAuthState',
           \A t \in Issued : issuer'[t] = issuer[t]
    PROVE  SoloInv' /\ AccountedStep
<1>1. ~overlapped' => Running = {} /\ Running' = {}
  BY DEF MayBegin, Running
<1>2. ASSUME NEW d \in Commands, cmd[d].pc \in Obtaining PROVE issuer'[cmd[d].token] = cmd[d].api
  BY <1>2 DEF IInv, TypeOK, NewTokenPrivate, Issued, SoloInv, HeldByPlace
<1>3. HeldByPlace'
  BY <1>2 DEF SoloInv, HeldByPlace, Obtaining
<1>. QED
  BY <1>1, <1>3 DEF SoloInv, AccountedStep

(* Creating, deleting and refreshing keep the profile in one state. *)
LEMMA OneStepSolo ==
    ASSUME IInv, TypeOK', SoloInv, Create \/ Delete \/ RefreshSession
    PROVE  SoloInv' /\ AccountedStep
<1>1. CASE Create
  <2>1. PICK api \in Api, kind \in {"none", "static", "oauth"} :
          profile' = [exists |-> TRUE, api |-> api, oauth |-> kind = "oauth",
                      refresh |-> NoToken, auth |-> IF kind = "static" THEN "static" ELSE "none"]
    BY <1>1 DEF Create
  <2>2. OneAuthState'
    BY <2>1 DEF OneAuthState
  <2>. QED
    BY <1>1, <2>2, WorldSolo DEF Create, serverVars
<1>2. CASE Delete
  <2>1. OneAuthState'
    BY <1>2 DEF Delete, Missing, OneAuthState
  <2>. QED
    BY <1>2, <2>1, WorldSolo DEF Delete, serverVars
<1>3. CASE RefreshSession
  <2>1. PICK t \in Tokens :
          /\ Issue(t, profile.api)
          /\ profile' = [profile EXCEPT !.refresh = t, !.auth = "access"]
    BY <1>3 DEF RefreshSession
  <2>2. /\ profile'.refresh = t /\ profile'.auth = "access" /\ profile'.oauth = profile.oauth
        /\ t # NoToken
    BY <2>1, SessionAssumption DEF IInv, TypeOK, Profiles, Tokens
  <2>3. profile.refresh # NoToken
    BY <1>3, SessionAssumption DEF RefreshSession, IInv, TypeOK, Tokens
  <2>4. OneAuthState'
    BY <1>3, <2>2, <2>3 DEF SoloInv, OneAuthState, RefreshSession, MayBegin
  <2>5. \A u \in Issued : issuer'[u] = issuer[u]
    BY <2>1, IssueNew DEF IInv, TypeOK, Issued
  <2>. QED
    BY <1>3, <2>4, <2>5, WorldSolo DEF RefreshSession
<1>. QED
  BY <1>1, <1>2, <1>3

(* Every step. *)
LEMMA NextSolo ==
    IInv /\ SoloInv /\ [Next]_vars => SoloInv' /\ (AccountedStep \/ UNCHANGED vars)
<1>. SUFFICES ASSUME IInv, SoloInv, [Next]_vars
              PROVE  SoloInv' /\ (AccountedStep \/ UNCHANGED vars)
  OBVIOUS
<1>1. TypeOK'
  BY NextKeeps DEF IInv
<1>2. CASE UNCHANGED vars
  <2>1. UNCHANGED <<profile, cmd, issuer, live, overlapped>>
    BY <1>2 DEF vars
  <2>2. HeldByPlace' /\ OneAuthState' /\ Running' = Running
    BY <2>1 DEF SoloInv, HeldByPlace, OneAuthState, Running
  <2>3. Read' = Read
    BY <2>1 DEF Read, ProfileState
  <2>4. ASSUME NEW c \in Commands, Alone(c) PROVE Alone(c)'
    <3>1. ReadIsStored(c)'
      BY <2>1, <2>3, <2>4 DEF Alone, ReadIsStored
    <3>2. FlagsFit(c)' /\ RevokedBefore(c)'
      BY <2>1, <2>4 DEF Alone, FlagsFit, ValidFlags, TargetOAuth, RevokedBefore
    <3>. QED
      BY <3>1, <3>2 DEF Alone
  <2>5. Running \subseteq Commands
    BY DEF Running
  <2>. QED
    BY <1>2, <2>1, <2>2, <2>4, <2>5 DEF SoloInv
<1>3. ASSUME NEW c \in Commands, Login(c) PROVE SoloInv' /\ AccountedStep
  <2>1. CASE AnswerLogin(c)
    BY <1>1, <2>1, ConfirmSolo DEF AnswerLogin, Steps
  <2>2. CASE NotAuthorized(c) \/ Report(c)
    BY <1>1, <2>2, EarlyEndSolo DEF NotAuthorized, Report, At
  <2>. QED
    BY <1>1, <1>3, <2>1, <2>2, BeginLoginSolo, ExchangeSolo, LookUpSolo, PersistSolo,
       CompensateSolo, RevokeOldSolo DEF Login
<1>4. ASSUME NEW c \in Commands, Logout(c) PROVE SoloInv' /\ AccountedStep
  <2>1. CASE AnswerLogout(c)
    BY <1>1, <2>1, ConfirmSolo DEF AnswerLogout, Steps
  <2>2. CASE LogoutRevoke(c)
    BY <1>1, <2>2, RevokeReadSolo DEF LogoutRevoke
  <2>. QED
    BY <1>1, <1>4, <2>1, <2>2, BeginLogoutSolo, ClearStaleSolo, ClearSolo DEF Logout
<1>5. ASSUME NEW c \in Commands, Update(c) PROVE SoloInv' /\ AccountedStep
  <2>1. CASE AnswerUpdate(c)
    BY <1>1, <2>1, ConfirmSolo DEF AnswerUpdate, Steps
  <2>2. CASE UpdateRevoke(c)
    BY <1>1, <2>2, RevokeReadSolo DEF UpdateRevoke
  <2>. QED
    BY <1>1, <1>5, <2>1, <2>2, BeginUpdateSolo, WriteSolo DEF Update
<1>6. ASSUME NEW c \in Commands, Crash(c) PROVE SoloInv' /\ AccountedStep
  BY <1>1, <1>6, CrashSolo
<1>. QED
  BY <1>1, <1>2, <1>3, <1>4, <1>5, <1>6, OneStepSolo DEF Next

(* The initial state. *)
LEMMA InitSolo == Init => SoloInv
<1>. SUFFICES ASSUME Init PROVE SoloInv
  OBVIOUS
<1>1. \A c \in Commands : cmd[c] = Idle
  BY DEF Init
<1>2. Running = {}
  BY <1>1, IdleType DEF Running
<1>3. HeldByPlace
  BY <1>1, IdleType DEF HeldByPlace, Obtaining
<1>4. OneAuthState
  BY DEF Init, Missing, OneAuthState
<1>. QED
  BY <1>2, <1>3, <1>4 DEF SoloInv

(* As long as commands run one at a time, the profile is in one state.     *)
THEOREM SoloOneAuthState == Spec => []OneAuthState
<1>1. SoloInv => OneAuthState
  BY DEF SoloInv
<1>. QED
  BY InitInv, InitSolo, NextKeeps, NextSolo, <1>1, PTL DEF Spec

(* As long as commands run one at a time, no step loses track of a live    *)
(* session, wherever a command fails: it is stored, in hand, or excused.   *)
THEOREM SoloSessionsAccounted == Spec => SessionsAccounted
<1>1. AccountedStep \/ UNCHANGED vars =>
        [\A c \in Commands : cmd'[c] # cmd[c] /\ ~overlapped' =>
           \A t \in live' : (t \in Known \/ t \notin live) => t \in Known' \/ Excused(c, t)]_vars
  BY DEF AccountedStep
<1>. QED
  BY InitInv, InitSolo, NextKeeps, NextSolo, <1>1, PTL DEF Spec, SessionsAccounted

(* As long as commands run one at a time, login asks before it replaces    *)
(* credentials, and replaces what the prompt spoke of.                     *)
THEOREM SoloLoginAsksFirst == Spec => LoginAsksFirst
<1>1. IInv /\ SoloInv =>
        \A c \in Commands :
           (At(c, "persist") /\ profile' # profile /\ ~overlapped
              /\ Read.state \in {"missing", "noAuth", "static"})
              => cmd[c].asked /\ cmd[c].read.state = Read.state
  <2>. SUFFICES ASSUME IInv, SoloInv, NEW c \in Commands, cmd[c].pc = "persist", ~overlapped,
                       Read.state \in {"missing", "noAuth", "static"}
                PROVE  cmd[c].asked /\ cmd[c].read.state = Read.state
    BY DEF At
  <2>1. ReadIsStored(c)
    BY AtRunning DEF Alone
  <2>. QED
    BY <2>1 DEF ReadIsStored, NeedsPrompt
<1>. QED
  BY InitInv, InitSolo, NextKeeps, NextSolo, <1>1, PTL DEF Spec, LoginAsksFirst

------------------------------------------------------------------------------
(* The URL of a profile and the server of its session. *)

IssuerStep ==
    profile'.refresh # NoToken =>
        \/ issuer'[profile'.refresh] = profile'.api
        \/ /\ profile'.refresh = profile.refresh
           /\ \/ issuer[profile.refresh] # profile.api
              \/ \E c \in Commands : At(c, "write") /\ cmd[c].flags.api # "keep"

(* A step that leaves token and URL, or drops the token, keeps the match.  *)
LEMMA SameIssuer ==
    ASSUME IInv, \A t \in Issued : issuer'[t] = issuer[t],
           \/ profile'.refresh = NoToken
           \/ profile'.refresh = profile.refresh /\ profile'.api = profile.api
    PROVE  IssuerStep
BY DEF IssuerStep, IInv, ReadIssued

(* Login stores the token with the URL of the server that issued it. *)
LEMMA PersistIssuer ==
    ASSUME IInv, SoloInv, NEW c \in Commands, Persist(c)
    PROVE  IssuerStep
<1>1. cmd[c].pc = "persist" /\ issuer' = issuer
  BY DEF Persist, At, serverVars
<1>2. \/ profile'.refresh = cmd[c].token /\ profile'.api = cmd[c].api
      \/ profile' = profile
  BY DEF Persist
<1>3. issuer[cmd[c].token] = cmd[c].api
  BY <1>1 DEF SoloInv, HeldByPlace, Obtaining
<1>. QED
  BY <1>1, <1>2, <1>3, SameIssuer DEF IssuerStep

(* Logout and update only drop tokens; the URL changes with its flag. *)
LEMMA EditIssuer ==
    ASSUME IInv, NEW c \in Commands, ClearStale(c) \/ Clear(c) \/ Write(c)
    PROVE  IssuerStep
<1>1. issuer' = issuer /\ profile \in Profiles
  BY DEF ClearStale, Clear, Write, serverVars, IInv, TypeOK
<1>2. CASE ClearStale(c)
  <2>1. profile'.refresh = profile.refresh /\ profile'.api = profile.api
    BY <1>1, <1>2 DEF ClearStale, Profiles
  <2>. QED
    BY <1>1, <2>1, SameIssuer
<1>3. CASE Clear(c)
  <2>1. profile' = profile \/ profile'.refresh = NoToken
    BY <1>1, <1>3 DEF Clear, Profiles
  <2>. QED
    BY <1>1, <2>1, SameIssuer
<1>4. CASE Write(c)
  <2>1. At(c, "write") /\ (profile' = profile \/ profile' = Updated(profile, cmd[c].flags))
    BY <1>4 DEF Write
  <2>2. CASE cmd[c].flags.api = "keep" \/ profile' = profile
    <3>1. \/ profile'.refresh = NoToken
          \/ profile'.refresh = profile.refresh /\ profile'.api = profile.api
      BY <2>1, <2>2 DEF Updated
    <3>. QED
      BY <1>1, <3>1, SameIssuer
  <2>3. CASE cmd[c].flags.api # "keep" /\ profile' = Updated(profile, cmd[c].flags)
    <3>1. profile'.refresh \in {NoToken, profile.refresh}
      BY <2>3 DEF Updated
    <3>. QED
      BY <2>1, <2>3, <3>1 DEF IssuerStep
  <2>. QED
    BY <2>1, <2>2, <2>3
<1>. QED
  BY <1>2, <1>3, <1>4

(* Creating and deleting drop the session, and a refresh keeps its server. *)
LEMMA WorldIssuer ==
    ASSUME IInv, Create \/ Delete \/ RefreshSession
    PROVE  IssuerStep
<1>1. CASE Create
  <2>1. profile'.refresh = NoToken
    BY <1>1 DEF Create
  <2>. QED
    BY <2>1 DEF IssuerStep
<1>2. CASE Delete
  BY <1>2 DEF Delete, Missing, IssuerStep
<1>3. CASE RefreshSession
  <2>1. PICK t \in Tokens :
          /\ Issue(t, profile.api)
          /\ profile' = [profile EXCEPT !.refresh = t, !.auth = "access"]
    BY <1>3 DEF RefreshSession
  <2>2. profile'.refresh = t /\ profile'.api = profile.api
    BY <2>1 DEF IInv, TypeOK, Profiles
  <2>3. issuer'[t] = profile.api
    BY <2>1 DEF Issue, IInv, TypeOK
  <2>. QED
    BY <2>2, <2>3 DEF IssuerStep
<1>. QED
  BY <1>1, <1>2, <1>3

(* Every step. *)
LEMMA NextIssuer == IInv /\ SoloInv /\ [Next]_vars => IssuerStep
<1>. SUFFICES ASSUME IInv, SoloInv, [Next]_vars PROVE IssuerStep
  OBVIOUS
<1>1. CASE profile' = profile /\ issuer' = issuer
  BY <1>1, SameIssuer
<1>2. ASSUME NEW c \in Commands, Login(c) PROVE IssuerStep
  <2>1. CASE Exchange(c)
    <3>1. PICK t \in Tokens : Issue(t, cmd[c].api)
      BY <2>1 DEF Exchange
    <3>2. profile' = profile /\ \A u \in Issued : issuer'[u] = issuer[u]
      BY <2>1, <3>1, IssueNew DEF Exchange, IInv, TypeOK, Issued
    <3>. QED
      BY <3>2, SameIssuer
  <2>2. CASE Persist(c)
    BY <2>2, PersistIssuer
  <2>3. Exchange(c) \/ Persist(c) \/ (profile' = profile /\ issuer' = issuer)
    BY <1>2 DEF Login, BeginLogin, AnswerLogin, Confirm, NotAuthorized, LookUp, Compensate,
       RevokeOld, Report, LeaveWorld, serverVars
  <2>. QED
    BY <1>1, <2>1, <2>2, <2>3
<1>3. ASSUME NEW c \in Commands, Logout(c) PROVE IssuerStep
  <2>1. ClearStale(c) \/ Clear(c) \/ (profile' = profile /\ issuer' = issuer)
    BY <1>3 DEF Logout, BeginLogout, AnswerLogout, Confirm, LogoutRevoke, LeaveWorld, serverVars
  <2>. QED
    BY <1>1, <2>1, EditIssuer
<1>4. ASSUME NEW c \in Commands, Update(c) PROVE IssuerStep
  <2>1. Write(c) \/ (profile' = profile /\ issuer' = issuer)
    BY <1>4 DEF Update, BeginUpdate, AnswerUpdate, Confirm, UpdateRevoke, LeaveWorld, serverVars
  <2>. QED
    BY <1>1, <2>1, EditIssuer
<1>5. ASSUME NEW c \in Commands, Crash(c) PROVE IssuerStep
  BY <1>1, <1>5 DEF Crash, LeaveWorld, serverVars
<1>6. CASE UNCHANGED vars
  BY <1>1, <1>6 DEF vars
<1>. QED
  BY <1>2, <1>3, <1>4, <1>5, <1>6, WorldIssuer DEF Next

(* Whatever commands run at once, the URL of a profile is that of the      *)
(* server that issued its session, unless `profiles update` changed it.    *)
THEOREM UrlOfIssuer == Spec => IssuerRecorded
<1>1. IssuerStep => [profile'.refresh # NoToken =>
         \/ issuer'[profile'.refresh] = profile'.api
         \/ /\ profile'.refresh = profile.refresh
            /\ \/ issuer[profile.refresh] # profile.api
               \/ \E c \in Commands : At(c, "write") /\ cmd[c].flags.api # "keep"]_vars
  BY DEF IssuerStep
<1>. QED
  BY InitInv, InitSolo, NextKeeps, NextSolo, NextIssuer, <1>1, PTL DEF Spec, IssuerRecorded
=============================================================================
