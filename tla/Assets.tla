-------------------------------- MODULE Assets --------------------------------
(***************************************************************************)
(* The calls by which a command reads, writes and removes assets: the      *)
(* imports of internal/asset, and the `update`, `delete` and `remove`      *)
(* commands of the packages beside it.                                     *)
(*                                                                         *)
(* Every write is two calls: a GET, whose answer decides what follows and  *)
(* is the left side of the printed diff, and a PUT or POST.  Other clients *)
(* write between the two, and any call may fail, with or without effect.   *)
(*                                                                         *)
(* The API is not in the repository.  What it does on a PUT is what the    *)
(* comments of the imports rely on.  What a write stores is told apart by  *)
(* a revision, and the fields of a team's display by the revision that     *)
(* last set them.                                                          *)
(***************************************************************************)
EXTENDS Naturals, Sequences

CONSTANTS
    Clients,     \* processes that run one command after another
    Keys,        \* the identifiers that documents and arguments name
    NoKey,       \* the identifier of a document without one
    Commands,    \* the command lines the clients run
    Starts,      \* what may be on the server at first: sets of keys
    MaxWrites    \* bound on the revisions ever stored

Kinds == {"dashboard", "checkRule", "view", "syntheticCheck",
          "notificationChannel", "recordingRule", "spamFilter", "team",
          "member", "teamMember"}
AssetKinds == Kinds \ {"member", "teamMember"}
AssetKeys == {k \in Keys : k.kind \in AssetKinds}
Fields == {"name", "color"}

(* A part of a document is one call of an import: a PrometheusRule can have *)
(* several.  `valid` is what is found before the first call, `parses` what  *)
(* is found when the document's turn comes.                                 *)
Parts == Seq(AssetKeys \union {NoKey}) \ {<<>>}
Documents == [valid : BOOLEAN, parses : BOOLEAN, parts : Parts]

CommandLines == [op : {"apply", "update", "display", "remove"},
                 docs : Seq(Documents),
                 key : AssetKeys \union {NoKey},
                 given : SUBSET Fields,
                 targets : Seq(Keys),
                 force : BOOLEAN, dry : BOOLEAN]

ASSUME AssetsAssumption ==
    /\ \A k \in Keys : /\ k.kind \in Kinds /\ k.by \in {"id", "origin", "email"}
                       /\ k.by = "email" => k.kind = "member"
    /\ NoKey \notin Keys
    /\ Commands \subseteq CommandLines /\ Commands # {}
    /\ \A x \in Commands :
          /\ x.op \in {"update", "display"} => x.key # NoKey
          /\ x.op = "display" => x.key.kind = "team" /\ x.given # {}
    /\ Starts \subseteq SUBSET Keys
    /\ MaxWrites \in Nat \ {0}

VARIABLES
    store,      \* what the server has under each key
    strays,     \* how many assets a document's key made under another identifier
    written,    \* the last revision stored
    mem         \* what each client has in memory

server == <<store, strays, written>>
assetVars == <<store, strays, written, mem>>

Revisions == 1..MaxWrites
StoredRevisions == 0..MaxWrites
Assets == [rev : StoredRevisions, display : [Fields -> StoredRevisions]]

Written(rev) == [rev |-> rev, display |-> [f \in Fields |-> rev]]
Absent == Written(0)
Known(k) == store[k] # Absent

(* Routes: what follows the GET.  `found`, `missing` and `failed` are the *)
(* call made when it finds the asset, when it answers 404 and when it     *)
(* fails otherwise; "stop" ends the command with the error.               *)
PutAlways == [found |-> "put", missing |-> "put", failed |-> "put"]
PutFound == [found |-> "put", missing |-> "stop", failed |-> "stop"]

ImportDashboard == PutAlways
ImportCheckRule == PutAlways
ImportView == PutAlways
ImportSyntheticCheck == PutAlways
ImportNotificationChannel == PutAlways
ImportRecordingRule == PutAlways
ImportSpamFilter == PutAlways
(* Mutants: a team is put like the others, or posted after any error. *)
ImportTeamByPut(by) == PutAlways
ImportTeamOnAnyError(by) ==
    IF by = "origin" THEN PutAlways ELSE [found |-> "put", missing |-> "post", failed |-> "post"]

ImportTeam(by) ==
    IF by = "origin" THEN PutAlways
    ELSE [found |-> "put", missing |-> "post", failed |-> "stop"]

Import(k) ==
    CASE k.kind = "dashboard"           -> ImportDashboard
      [] k.kind = "checkRule"           -> ImportCheckRule
      [] k.kind = "view"                -> ImportView
      [] k.kind = "syntheticCheck"      -> ImportSyntheticCheck
      [] k.kind = "notificationChannel" -> ImportNotificationChannel
      [] k.kind = "recordingRule"       -> ImportRecordingRule
      [] k.kind = "spamFilter"          -> ImportSpamFilter
      [] k.kind = "team"                -> ImportTeam(k.by)

UpdateDashboard == PutFound
UpdateCheckRule == PutFound
UpdateView == PutFound
UpdateSyntheticCheck == PutFound
UpdateNotificationChannel == PutFound
UpdateRecordingRule == PutFound
UpdateSpamFilter == PutFound
UpdateTeamFromFile == PutFound
UpdateTeamDisplay == [PutFound EXCEPT !.found = "display"]

Update(k) ==
    CASE k.kind = "dashboard"           -> UpdateDashboard
      [] k.kind = "checkRule"           -> UpdateCheckRule
      [] k.kind = "view"                -> UpdateView
      [] k.kind = "syntheticCheck"      -> UpdateSyntheticCheck
      [] k.kind = "notificationChannel" -> UpdateNotificationChannel
      [] k.kind = "recordingRule"       -> UpdateRecordingRule
      [] k.kind = "spamFilter"          -> UpdateSpamFilter
      [] k.kind = "team"                -> UpdateTeamFromFile

Route(c) ==
    CASE mem[c].cmd.op = "apply"   -> Import(mem[c].key)
      [] mem[c].cmd.op = "update"  -> Update(mem[c].key)
      [] mem[c].cmd.op = "display" -> UpdateTeamDisplay

-----------------------------------------------------------------------------
DeleteAttempts == 4

(* A client's memory: where it is, the asset at hand, what the GET said of *)
(* it (`read` is FALSE when it failed, which leaves `before` nil), the     *)
(* revision the write's answer told, the targets left to remove, the       *)
(* failed attempts at the first of them, and how the last asset ended.     *)
Places == {"idle", "parse", "get", "put", "post", "display",
           "resolve", "remove", "answered", "report", "ended"}
Results == {"none", "ok", "notFound", "refused", "conflict", "failed", "lost",
            "unprinted"}

Seen == [read : BOOLEAN, before : Assets]
Memory == [pc : Places, cmd : Commands, key : AssetKeys \union {NoKey}, seen : Seen,
           after : StoredRevisions, left : Seq(Keys), tries : 0..(DeleteAttempts - 1),
           result : Results]

Unread == [read |-> FALSE, before |-> Absent]

Ended(c, result) == [mem EXCEPT ![c].pc = "answered", ![c].result = result]

(* Mutant: the version is left out. *)
CarryNoVersion(before) == 0

(* The version a PUT carries: of recording rules, and only when the GET *)
(* found one.                                                           *)
CarryRecordingRuleVersion(before) == before.rev

Version(c) ==
    IF mem[c].key.kind = "recordingRule"
      THEN CarryRecordingRuleVersion(mem[c].seen.before) ELSE 0

(* The server's side of a PUT.  Recording rules are locked optimistically, *)
(* a team that is not there cannot be put by its id, and a spam filter     *)
(* that is not there gets another id than the one in the request.          *)
Accepts(k, version) ==
    /\ k.kind = "recordingRule" => version = store[k].rev
    /\ k.kind = "team" /\ k.by = "id" => Known(k)

StoreElsewhere(k) ==
    /\ strays' = IF k = NoKey THEN strays ELSE [strays EXCEPT ![k] = @ + 1]
    /\ UNCHANGED store

StoreAt(k) ==
    /\ store' = [store EXCEPT ![k] = Written(written + 1)]
    /\ UNCHANGED strays

Stores(k) ==
    IF k.kind = "spamFilter" /\ k.by = "id" /\ ~Known(k)
      THEN StoreElsewhere(k) ELSE StoreAt(k)

(* A write that arrives takes effect; its answer may get lost, which the *)
(* client takes for any other failure.                                   *)
Arrives(c) ==
    /\ written < MaxWrites
    /\ written' = written + 1
    /\ mem' \in {[Ended(c, "ok") EXCEPT ![c].after = written + 1], Ended(c, "lost")}

-----------------------------------------------------------------------------
PreflightFound(c) ==
    /\ mem[c].pc = "get" /\ Known(mem[c].key)
    /\ mem' = [mem EXCEPT
                 ![c].seen = [read |-> TRUE, before |-> store[mem[c].key]],
                 ![c].pc = IF mem[c].cmd.dry THEN "answered" ELSE Route(c).found,
                 ![c].result = IF mem[c].cmd.dry THEN "ok" ELSE "none"]
    /\ UNCHANGED server

Continue(c, next, seen, error) ==
    mem' = IF next = "stop" THEN Ended(c, error)
           ELSE [mem EXCEPT ![c].pc = next, ![c].seen = seen]

PreflightMissing(c) ==
    /\ mem[c].pc = "get" /\ ~Known(mem[c].key)
    /\ Continue(c, Route(c).missing, [Unread EXCEPT !.read = TRUE], "notFound")
    /\ UNCHANGED server

PreflightFailed(c) ==
    /\ mem[c].pc = "get"
    /\ Continue(c, Route(c).failed, Unread, "failed")
    /\ UNCHANGED server

Put(c) ==
    /\ mem[c].pc = "put"
    /\ Accepts(mem[c].key, Version(c))
    /\ Stores(mem[c].key)
    /\ Arrives(c)

PutRefused(c) ==
    /\ mem[c].pc = "put"
    /\ ~Accepts(mem[c].key, Version(c))
    /\ mem' = Ended(c, "refused")
    /\ UNCHANGED server

Post(c) ==
    /\ mem[c].pc = "post"
    /\ StoreElsewhere(mem[c].key)
    /\ Arrives(c)

(* Mutant: only what the flags say is sent. *)
MergedNot(given, before, rev) == [f \in Fields |-> IF f \in given THEN rev ELSE 0]

(* `teams update` without a file: the flags given, and for the rest what *)
(* was read; the call replaces the whole display.                        *)
Merged(given, before, rev) == [f \in Fields |-> IF f \in given THEN rev ELSE before[f]]

Display(c) ==
    LET display == Merged(mem[c].cmd.given, mem[c].seen.before.display, written + 1)
    IN  /\ mem[c].pc = "display" /\ Known(mem[c].key)
        /\ store' = [store EXCEPT ![mem[c].key] = [rev |-> written + 1, display |-> display]]
        /\ UNCHANGED strays
        /\ Arrives(c)

DisplayRefused(c) ==
    /\ mem[c].pc = "display" /\ ~Known(mem[c].key)
    /\ mem' = Ended(c, "refused")
    /\ UNCHANGED server

(* The call never arrived, or was turned down for reasons of its own. *)
WriteFailed(c) ==
    /\ mem[c].pc \in {"put", "post", "display"}
    /\ mem' = Ended(c, "failed")
    /\ UNCHANGED server

-----------------------------------------------------------------------------
(* Removals: one target after the other; with --force a target that is    *)
(* already gone counts as removed.  Members are looked up first, in the   *)
(* list of all members of the organization: an e-mail address that is not *)
(* in it has no identifier to remove.                                     *)
Unresolved(c) ==
    \E i \in DOMAIN mem[c].left :
        LET k == mem[c].left[i] IN k.kind = "member" /\ k.by = "email" /\ ~Known(k)

ResolveMembers(c) ==
    /\ mem[c].pc = "resolve"
    /\ mem' \in {IF Unresolved(c) THEN Ended(c, "notFound")
                 ELSE [mem EXCEPT ![c].pc = "remove"],
                 Ended(c, "failed")}
    /\ UNCHANGED server

(* Mutant: --force forgives any error. *)
IsDeletedByForce(error, force) == force

IsAlreadyDeleted(error, force) == force /\ error = "notFound"

Removed(c) == [mem EXCEPT ![c].left = Tail(@), ![c].tries = 0]

AfterError(c, error) ==
    IF IsAlreadyDeleted(error, mem[c].cmd.force) THEN Removed(c) ELSE Ended(c, error)

Removing(c) == mem[c].pc = "remove" /\ mem[c].left # <<>>

Remove(c) ==
    /\ Removing(c) /\ Known(Head(mem[c].left))
    /\ store' = [store EXCEPT ![Head(mem[c].left)] = Absent]
    /\ mem' \in {Removed(c), AfterError(c, "lost")}
    /\ UNCHANGED <<strays, written>>

RemoveMissing(c) ==
    /\ Removing(c) /\ ~Known(Head(mem[c].left))
    /\ mem' = AfterError(c, "notFound")
    /\ UNCHANGED server

RemoveFailed(c) ==
    /\ Removing(c)
    /\ mem' = AfterError(c, "failed")
    /\ UNCHANGED server

(* Mutant: one attempt too many. *)
RemoveConflictOnceMore(c) ==
    /\ Removing(c) /\ Head(mem[c].left).kind = "spamFilter"
    /\ mem' = IF mem[c].tries < DeleteAttempts
                THEN [mem EXCEPT ![c].tries = @ + 1]
                ELSE AfterError(c, "conflict")
    /\ UNCHANGED server

(* Right after a write the store of spam filters may answer with a version *)
(* conflict that goes away: only that is tried again.                      *)
RemoveConflict(c) ==
    /\ Removing(c) /\ Head(mem[c].left).kind = "spamFilter"
    /\ mem' = IF mem[c].tries + 1 < DeleteAttempts
                THEN [mem EXCEPT ![c].tries = @ + 1]
                ELSE AfterError(c, "conflict")
    /\ UNCHANGED server

RemoveDone(c) ==
    /\ mem[c].pc = "remove" /\ mem[c].left = <<>>
    /\ mem' = Ended(c, "ok")
    /\ UNCHANGED server

-----------------------------------------------------------------------------
Call(c) ==
    \/ PreflightFound(c) \/ PreflightMissing(c) \/ PreflightFailed(c)
    \/ Put(c) \/ PutRefused(c) \/ Post(c) \/ WriteFailed(c)
    \/ Display(c) \/ DisplayRefused(c)
    \/ Remove(c) \/ RemoveMissing(c) \/ RemoveFailed(c) \/ RemoveConflict(c)
    \/ ResolveMembers(c) \/ RemoveDone(c)
=============================================================================
