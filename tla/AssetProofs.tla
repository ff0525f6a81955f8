----------------------------- MODULE AssetProofs -----------------------------
(***************************************************************************)
(* Theorems of AssetCommands, for any number of clients, assets, commands  *)
(* and documents: its types, that a diff tells the truth, that a write     *)
(* nobody disturbed is not turned down, that no asset is made twice, that  *)
(* an update of some fields keeps the others, that a removal is complete,  *)
(* that the output of an apply names what it stored, and that an apply     *)
(* that ends well has stored every part of its documents.                  *)
(*                                                                         *)
(* IInv, the inductive invariant, says what a client may rely on at each   *)
(* place.  Accounted and Progressing, on top of it, keep the books of an   *)
(* apply: what it has said, and what is still to come.                     *)
(***************************************************************************)
EXTENDS AssetCommands, SequenceTheorems, TLAPS

TeamById(k) == k.kind = "team" /\ k.by = "id"

(* Each place belongs to the commands that get there, with a key to work on. *)
Placed(m) ==
    /\ m.pc \in {"get", "put", "display"} => m.key \in AssetKeys
    /\ m.pc \in {"parse", "report"} => m.cmd.op = "apply"
    /\ m.pc = "get" => /\ m.cmd.op \in {"apply", "update", "display"}
                       /\ m.cmd.op = "display" => m.key.kind = "team"
    /\ m.pc \in {"put", "post"} => m.cmd.op \in {"apply", "update"}
    /\ m.pc = "display" => m.cmd.op = "display" /\ m.key.kind = "team"
    /\ m.pc \in {"resolve", "remove"} => m.cmd.op = "remove"

(* A team is put by its id, or its display replaced, only after it was found, *)
(* and posted only after it was not, and then it stays away.                  *)
Justified(m, s) ==
    /\ m.pc = "display" \/ (m.pc = "put" /\ TeamById(m.key))
         => m.seen.read /\ m.seen.before # Absent
    /\ m.pc = "post" /\ m.key # NoKey => TeamById(m.key) /\ s[m.key] = Absent

(* What was read of a recording rule is told by its version. *)
Versioned(m) ==
    m.key \in AssetKeys /\ m.key.kind = "recordingRule"
      => m.seen.before = Written(m.seen.before.rev)

(* What was read is what is there as long as nobody else runs, and then the *)
(* write is not refused.                                                    *)
UpToDate(m, s, undisturbed) ==
    undisturbed /\ m.seen.read =>
        /\ m.pc \in {"put", "display"} => m.seen.before = s[m.key]
        /\ m.pc = "answered" => m.result # "refused"

(* A removal nobody disturbs has yet to remove what is still there. *)
Remaining(m, s, undisturbed) ==
    undisturbed /\ m.cmd.op = "remove" =>
        /\ m.pc \in {"resolve", "remove"} =>
              \A k \in Range(m.cmd.targets) : s[k] = Absent \/ k \in Range(m.left)
        /\ m.pc = "answered" /\ m.result = "ok" =>
              \A k \in Range(m.cmd.targets) : s[k] = Absent

Sound(m, s, undisturbed) ==
    /\ Placed(m) /\ Justified(m, s) /\ Versioned(m)
    /\ UpToDate(m, s, undisturbed) /\ Remaining(m, s, undisturbed)

ClientsSound == \A c \in Clients : Sound(mem[c], store, alone[c])

AloneTrue ==
    \A c \in Clients : Running(c) /\ alone[c] => \A d \in Clients \ {c} : ~Running(d)

(* Only the fields of a team are written one by one. *)
StoreWhole == \A k \in Keys : k.kind # "team" => store[k] = Written(store[k].rev)

(* An apply is at a document from its first call to its report. *)
AtDocument ==
    \A c \in Clients :
        mem[c].pc = "report" \/ (Applying(c) /\ mem[c].pc \in {"get", "put", "post", "answered"})
          => run[c].docs # <<>>

IInv == TypeOK /\ ClientsSound /\ AloneTrue /\ StoreWhole /\ AtDocument
-----------------------------------------------------------------------------
(* What the choice of a key, a command or a route can be. *)
LEMMA AbsentType ==
    /\ Absent \in Assets /\ Absent = Written(Absent.rev)
    /\ Unread \in Seen /\ ~Unread.read /\ Unread.before = Absent
    /\ \A r \in StoredRevisions : Written(r) \in Assets
<1>1. \A r \in StoredRevisions : Written(r) \in Assets
  BY DEF Written, Assets
<1>2. 0 \in StoredRevisions
  BY AssetsAssumption DEF StoredRevisions
<1>3. Absent = Written(Absent.rev)
  BY DEF Absent, Written
<1>. QED
  BY <1>1, <1>2, <1>3 DEF Absent, Unread, Seen

(* A command that starts is at the first place of its kind.                *)
LEMMA StartedType ==
    ASSUME NEW x \in Commands
    PROVE  /\ Started(x) \in Memory /\ Started(x).pc = FirstPlace(x) /\ Started(x).cmd = x
           /\ Started(x).key = x.key /\ Started(x).seen = Unread /\ Started(x).result = "none"
           /\ Started(x).left = x.targets
           /\ x \in CommandLines
           /\ x.op = "apply" => FirstPlace(x) \in {"ended", "parse"}
           /\ x.op \in {"update", "display"} => FirstPlace(x) = "get"
           /\ x.op = "remove" => FirstPlace(x) \in {"resolve", "remove"}
<1>1. x \in CommandLines
  BY AssetsAssumption
<1>2. /\ x.op = "apply" => FirstPlace(x) \in {"ended", "parse"}
      /\ x.op \in {"update", "display"} => FirstPlace(x) = "get"
      /\ x.op = "remove" => FirstPlace(x) \in {"resolve", "remove"}
  BY DEF FirstPlace
<1>3. x.op \in {"apply", "update", "display", "remove"}
  BY <1>1 DEF CommandLines
<1>4. FirstPlace(x) \in Places
  BY <1>2, <1>3 DEF Places
<1>5. 0 \in StoredRevisions /\ 0 \in 0..(DeleteAttempts - 1)
  BY AssetsAssumption DEF StoredRevisions, DeleteAttempts
<1>6. x.key \in AssetKeys \union {NoKey} /\ x.targets \in Seq(Keys)
  BY <1>1 DEF CommandLines
<1>. QED
  BY <1>1, <1>2, <1>4, <1>5, <1>6, AbsentType DEF Started, Memory, Results

(* A process that has not started. *)
LEMMA NotStartedType ==
    NotStarted \in Memory /\ NotStarted.pc = "idle" /\ NotStarted.seen = Unread
<1>. DEFINE x == CHOOSE y \in Commands : TRUE
<1>1. x \in Commands
  BY AssetsAssumption
<1>2. NotStarted = [Started(x) EXCEPT !.pc = "idle"]
  BY DEF NotStarted
<1>3. Started(x) \in Memory /\ Started(x).seen = Unread
  BY <1>1, StartedType
<1>. HIDE DEF x
<1>. QED
  BY <1>2, <1>3 DEF Memory, Places

(* What may follow a GET, of an import and of an update, by the key.       *)
LEMMA Routes ==
    ASSUME NEW k \in AssetKeys
    PROVE  /\ Import(k).found = "put" /\ Update(k).found = "put"
           /\ Update(k).missing = "stop" /\ Update(k).failed = "stop"
           /\ TeamById(k) => Import(k).missing = "post" /\ Import(k).failed = "stop"
           /\ ~TeamById(k) => Import(k).missing = "put" /\ Import(k).failed = "put"
<1>1. k.kind \in AssetKinds /\ (k.kind = "team" => k.by \in {"id", "origin"})
  BY AssetsAssumption DEF AssetKeys, AssetKinds, Kinds
<1>2. /\ Update(k) = PutFound
      /\ k.kind # "team" => Import(k) = PutAlways
      /\ k.kind = "team" => Import(k) = ImportTeam(k.by)
  BY <1>1 DEF AssetKinds, Kinds, Update, Import, UpdateDashboard, UpdateCheckRule, UpdateView,
     UpdateSyntheticCheck, UpdateNotificationChannel, UpdateRecordingRule, UpdateSpamFilter,
     UpdateTeamFromFile, ImportDashboard, ImportCheckRule, ImportView, ImportSyntheticCheck,
     ImportNotificationChannel, ImportRecordingRule, ImportSpamFilter
<1>. QED
  BY <1>1, <1>2 DEF PutFound, PutAlways, ImportTeam, TeamById

-----------------------------------------------------------------------------
(* The initial state. *)
LEMMA InitInv == Init => IInv
<1>. SUFFICES ASSUME Init PROVE IInv
  OBVIOUS
<1>1. PICK present \in Starts :
        store = [k \in Keys |-> IF k \in present THEN Written(1) ELSE Absent]
  BY DEF Init
<1>2. Written(1) \in Assets /\ Written(1).rev = 1 /\ Absent = Written(0) /\ Absent.rev = 0
  BY AbsentType, AssetsAssumption DEF StoredRevisions, Written, Absent
<1>3. store \in [Keys -> Assets] /\ StoreWhole
  BY <1>1, <1>2, AbsentType DEF StoreWhole
<1>4. NoRun \in Runs /\ 1 \in Revisions
  BY AssetsAssumption DEF NoRun, Runs, Revisions
<1>5. TypeOK
  BY <1>3, <1>4, NotStartedType DEF Init, TypeOK
<1>6. \A c \in Clients : mem[c] = NotStarted
  BY DEF Init
<1>7. ClientsSound
  BY <1>6, AbsentType, NotStartedType
     DEF ClientsSound, Sound, Placed, Justified, Versioned, UpToDate, Remaining
<1>. QED
  BY <1>3, <1>5, <1>6, <1>7, NotStartedType DEF IInv, AloneTrue, Running, AtDocument

(* A step of client c to memory m, while the others stay where they are. *)
LEMMA StepKeeps ==
    ASSUME IInv, NEW c \in Clients, NEW m \in Memory, mem' = [mem EXCEPT ![c] = m],
           Running(c), m.pc # "idle", alone' = alone,
           run' \in [Clients -> Runs], \A d \in Clients \ {c} : run'[d] = run[d],
           wrote' \in [Clients -> Seq(Revisions)],
           store' \in [Keys -> Assets], strays' \in [Keys -> Nat], written' \in Revisions,
           StoreWhole',
           \A k \in Keys : TeamById(k) /\ store[k] = Absent => store'[k] = Absent,
           Sound(m, store', alone[c]),
           m.pc = "report" \/ (m.cmd.op = "apply" /\ m.pc \in {"get", "put", "post", "answered"})
             => run'[c].docs # <<>>
    PROVE  IInv'
<1>. USE DEF IInv
<1>1. TypeOK'
  BY DEF TypeOK
<1>2. mem'[c] = m /\ \A d \in Clients : d # c => mem'[d] = mem[d]
  BY DEF TypeOK
<1>3. AloneTrue'
  BY <1>2 DEF AloneTrue, Running
<1>4. ASSUME NEW d \in Clients, d # c PROVE Sound(mem[d], store', alone[d])
  <2>1. Sound(mem[d], store, alone[d]) /\ mem[d] \in Memory
    BY DEF ClientsSound, TypeOK
  <2>2. Justified(mem[d], store')
    BY <2>1 DEF Sound, Justified, Memory, AssetKeys
  <2>3. mem[d].pc # "idle" => ~alone[d]
    BY <1>4 DEF AloneTrue, Running
  <2>4. UpToDate(mem[d], store', alone[d])
    BY <2>1, <2>3 DEF Sound, UpToDate
  <2>5. Remaining(mem[d], store', alone[d])
    BY <2>1, <2>3 DEF Sound, Remaining
  <2>. QED
    BY <2>1, <2>2, <2>4, <2>5 DEF Sound
<1>5. ClientsSound'
  BY <1>2, <1>4 DEF ClientsSound
<1>6. AtDocument'
  BY <1>2 DEF AtDocument, Applying
<1>. QED
  BY <1>1, <1>3, <1>5, <1>6

(* The places from which a client makes a call. *)
Calling == {"get", "put", "post", "display", "resolve", "remove"}

(* A call that leaves client c, of the same command, in memory m. *)
LEMMA CallKeeps ==
    ASSUME IInv, NEW c \in Clients, NEW m \in Memory, mem' = [mem EXCEPT ![c] = m],
           mem[c].pc \in Calling, m.pc \notin {"idle", "parse", "report"},
           m.cmd = mem[c].cmd,
           UNCHANGED <<run, alone>>,
           wrote' = [wrote EXCEPT ![c] = IF written' # written /\ Applying(c)
                                           THEN Append(@, written') ELSE @],
           store' \in [Keys -> Assets], strays' \in [Keys -> Nat], written' \in Revisions,
           StoreWhole',
           \A k \in Keys : TeamById(k) /\ store[k] = Absent => store'[k] = Absent,
           Sound(m, store', alone[c])
    PROVE  IInv'
<1>1. wrote' \in [Clients -> Seq(Revisions)]
  BY DEF IInv, TypeOK
<1>2. Running(c) /\ run' \in [Clients -> Runs] /\ run' = run /\ alone' = alone
  BY DEF IInv, TypeOK, Calling, Running
<1>3. m.cmd.op = "apply" => run'[c].docs # <<>>
  BY <1>2 DEF IInv, ClientsSound, Sound, Placed, AtDocument, Applying, Calling
<1>. QED
  BY <1>1, <1>2, <1>3, StepKeeps

(* A call that was answered, and what its client remembers of the answer. *)
LEMMA AnswerKeeps ==
    ASSUME IInv, NEW c \in Clients, NEW result \in Results, NEW after \in StoredRevisions,
           mem' = [mem EXCEPT ![c].pc = "answered", ![c].result = result, ![c].after = after],
           mem[c].pc \in Calling,
           result = "refused" => ~(alone[c] /\ mem[c].seen.read),
           result = "ok" /\ alone[c] /\ mem[c].cmd.op = "remove"
             => \A k \in Range(mem[c].cmd.targets) : store'[k] = Absent,
           UNCHANGED <<run, alone>>,
           wrote' = [wrote EXCEPT ![c] = IF written' # written /\ Applying(c)
                                           THEN Append(@, written') ELSE @],
           store' \in [Keys -> Assets], strays' \in [Keys -> Nat], written' \in Revisions,
           StoreWhole',
           \A k \in Keys : TeamById(k) /\ store[k] = Absent => store'[k] = Absent
    PROVE  IInv'
<1>. DEFINE m == [mem[c] EXCEPT !.pc = "answered", !.result = result, !.after = after]
<1>1. mem[c] \in Memory /\ Sound(mem[c], store, alone[c])
  BY DEF IInv, TypeOK, ClientsSound
<1>2. /\ m \in Memory /\ m.pc = "answered" /\ m.result = result
      /\ m.cmd = mem[c].cmd /\ m.key = mem[c].key /\ m.seen = mem[c].seen
  BY <1>1 DEF Memory, Places
<1>3. mem' = [mem EXCEPT ![c] = m]
  OBVIOUS
<1>. HIDE DEF m
<1>4. Sound(m, store', alone[c])
  BY <1>1, <1>2 DEF Sound, Placed, Justified, Versioned, UpToDate, Remaining
<1>. QED
  BY <1>2, <1>3, <1>4, CallKeeps

(* The same, of a call whose answer told no revision. *)
LEMMA EndedKeeps ==
    ASSUME IInv, NEW c \in Clients, NEW result \in Results, mem' = Ended(c, result),
           mem[c].pc \in Calling, Calls(c),
           result = "refused" => ~(alone[c] /\ mem[c].seen.read),
           result = "ok" /\ alone[c] /\ mem[c].cmd.op = "remove"
             => \A k \in Range(mem[c].cmd.targets) : store'[k] = Absent,
           store' \in [Keys -> Assets], strays' \in [Keys -> Nat], written' \in Revisions,
           StoreWhole',
           \A k \in Keys : TeamById(k) /\ store[k] = Absent => store'[k] = Absent
    PROVE  IInv'
<1>1. mem[c] \in Memory /\ mem \in [Clients -> Memory]
  BY DEF IInv, TypeOK
<1>2. mem[c].after \in StoredRevisions
  BY <1>1 DEF Memory
<1>3. mem' = [mem EXCEPT ![c].pc = "answered", ![c].result = result, ![c].after = mem[c].after]
  BY <1>1 DEF Ended, Memory
<1>. QED
  BY <1>2, <1>3, AnswerKeeps DEF Calls

(* Where the server is left alone, its variables keep their types.         *)
LEMMA ServerSame ==
    ASSUME IInv, UNCHANGED server
    PROVE  /\ store' \in [Keys -> Assets] /\ strays' \in [Keys -> Nat] /\ written' \in Revisions
           /\ StoreWhole' /\ store' = store
BY DEF IInv, TypeOK, server, StoreWhole

(* A call that had no effect, and ended its asset.                         *)
LEMMA TurnedDownKeeps ==
    ASSUME IInv, NEW c \in Clients, NEW result \in Results, mem' = Ended(c, result),
           mem[c].pc \in Calling, Calls(c), UNCHANGED server,
           result = "refused" => ~(alone[c] /\ mem[c].seen.read),
           result = "ok" /\ alone[c] /\ mem[c].cmd.op = "remove"
             => \A k \in Range(mem[c].cmd.targets) : store[k] = Absent
    PROVE  IInv'
BY ServerSame, EndedKeeps

(* The answer of a GET that leaves the command going on. *)
LEMMA ReadKeeps ==
    ASSUME IInv, NEW c \in Clients, NEW m \in Memory, mem' = [mem EXCEPT ![c] = m],
           mem[c].pc \in Calling, m.pc \notin {"idle", "parse", "report"},
           m.cmd = mem[c].cmd, Calls(c), UNCHANGED server, Sound(m, store, alone[c])
    PROVE  IInv'
BY ServerSame, CallKeeps DEF Calls

-----------------------------------------------------------------------------
(* The preflight. *)
LEMMA PreflightFoundKeeps ==
    ASSUME IInv, NEW c \in Clients, Calls(c), PreflightFound(c)
    PROVE  IInv'
<1>. DEFINE key == mem[c].key
            m == [mem[c] EXCEPT !.seen = [read |-> TRUE, before |-> store[key]],
                                !.pc = IF mem[c].cmd.dry THEN "answered" ELSE Route(c).found,
                                !.result = IF mem[c].cmd.dry THEN "ok" ELSE "none"]
<1>1. /\ mem[c] \in Memory /\ mem[c].pc = "get" /\ Known(key) /\ UNCHANGED server
      /\ mem' = [mem EXCEPT ![c] = m]
  BY DEF IInv, TypeOK, PreflightFound
<1>2. /\ key \in AssetKeys /\ key \in Keys
      /\ mem[c].cmd.op \in {"apply", "update", "display"}
      /\ mem[c].cmd.op = "display" => key.kind = "team"
  BY <1>1 DEF IInv, ClientsSound, Sound, Placed, AssetKeys
<1>3. store[key] \in Assets /\ [read |-> TRUE, before |-> store[key]] \in Seen
  BY <1>2 DEF IInv, TypeOK, Seen
<1>4. /\ Route(c).found \in {"put", "display"}
      /\ Route(c).found = "display" <=> mem[c].cmd.op = "display"
  BY <1>2, Routes DEF Route, UpdateTeamDisplay, PutFound
<1>5. /\ m \in Memory /\ m.cmd = mem[c].cmd /\ m.key = key /\ m.seen.read
      /\ m.seen.before = store[key] /\ m.pc \in {"answered", Route(c).found}
      /\ m.result # "refused"
  BY <1>1, <1>3, <1>4 DEF Memory, Places, Results
<1>. HIDE DEF m, key
<1>6. Placed(m) /\ Justified(m, store)
  BY <1>1, <1>2, <1>4, <1>5 DEF Placed, Justified, Known
<1>7. Versioned(m) /\ UpToDate(m, store, alone[c]) /\ Remaining(m, store, alone[c])
  BY <1>2, <1>5 DEF Versioned, UpToDate, Remaining, IInv, StoreWhole
<1>. QED
  BY <1>1, <1>4, <1>5, <1>6, <1>7, ReadKeeps DEF Calling, Sound

(* A command that goes on with `next` after a GET that told it nothing. *)
LEMMA ContinueKeeps ==
    ASSUME IInv, NEW c \in Clients, Calls(c), mem[c].pc = "get", UNCHANGED server,
           NEW next \in {"put", "post", "stop"}, NEW seen \in Seen,
           NEW error \in Results \ {"ok", "refused"}, Continue(c, next, seen, error),
           seen.before = Absent, seen.read => store[mem[c].key] = Absent,
           next = "put" => ~TeamById(mem[c].key),
           next # "stop" => mem[c].cmd.op = "apply",
           next = "post" => TeamById(mem[c].key) /\ store[mem[c].key] = Absent
    PROVE  IInv'
<1>1. mem[c] \in Memory /\ mem[c].key \in AssetKeys
  BY DEF IInv, TypeOK, ClientsSound, Sound, Placed
<1>2. CASE next = "stop"
  BY <1>2, TurnedDownKeeps DEF Continue, Calling
<1>3. CASE next # "stop"
  <2>. DEFINE m == [mem[c] EXCEPT !.pc = next, !.seen = seen]
  <2>1. /\ m \in Memory /\ m.cmd = mem[c].cmd /\ m.key = mem[c].key /\ m.seen = seen
        /\ m.pc = next
    BY <1>1, <1>3 DEF Memory, Places
  <2>2. mem' = [mem EXCEPT ![c] = m]
    BY <1>3 DEF Continue
  <2>. HIDE DEF m
  <2>3. /\ Placed(m) /\ Justified(m, store)
        /\ UpToDate(m, store, alone[c]) /\ Remaining(m, store, alone[c])
    BY <1>1, <1>3, <2>1 DEF Placed, Justified, UpToDate, Remaining
  <2>4. Versioned(m)
    BY <2>1, AbsentType DEF Versioned
  <2>. QED
    BY <1>3, <2>1, <2>2, <2>3, <2>4, ReadKeeps DEF Calling, Sound
<1>. QED
  BY <1>2, <1>3

(* The GET, answered in any way.                                           *)
LEMMA PreflightKeeps ==
    ASSUME IInv, NEW c \in Clients, Calls(c), PreflightMissing(c) \/ PreflightFailed(c)
    PROVE  IInv'
<1>1. /\ mem[c].pc = "get" /\ UNCHANGED server /\ mem[c].key \in AssetKeys
      /\ mem[c].cmd.op \in {"apply", "update", "display"}
      /\ mem[c].cmd.op = "display" => mem[c].key.kind = "team"
  BY DEF PreflightMissing, PreflightFailed, IInv, ClientsSound, Sound, Placed
<1>2. /\ Route(c).missing \in {"put", "post", "stop"}
      /\ Route(c).failed \in {"put", "stop"}
      /\ Route(c).missing = "put" \/ Route(c).failed = "put" => ~TeamById(mem[c].key)
      /\ Route(c).missing = "post" => TeamById(mem[c].key)
      /\ Route(c).missing # "stop" \/ Route(c).failed # "stop" => mem[c].cmd.op = "apply"
  BY <1>1, Routes DEF Route, UpdateTeamDisplay, PutFound
<1>3. CASE PreflightMissing(c)
  <2>. DEFINE seen == [Unread EXCEPT !.read = TRUE]
  <2>1. seen \in Seen /\ seen.before = Absent
    BY AbsentType DEF Seen
  <2>2. store[mem[c].key] = Absent /\ Continue(c, Route(c).missing, seen, "notFound")
    BY <1>3 DEF PreflightMissing, Known
  <2>. HIDE DEF seen
  <2>. QED
    BY <1>1, <1>2, <2>1, <2>2, ContinueKeeps DEF Results
<1>4. CASE PreflightFailed(c)
  <2>1. Continue(c, Route(c).failed, Unread, "failed")
    BY <1>4 DEF PreflightFailed
  <2>. QED
    BY <1>1, <1>2, <2>1, AbsentType, ContinueKeeps DEF Results
<1>. QED
  BY <1>3, <1>4

-----------------------------------------------------------------------------
(* The writes. *)

(* What the server makes of a write. *)
LEMMA StoreKeeps ==
    ASSUME IInv, NEW k \in Keys \union {NoKey},
           written < MaxWrites, written' = written + 1,
           StoreElsewhere(k) \/ (StoreAt(k) /\ k \in Keys /\ ~(TeamById(k) /\ store[k] = Absent))
    PROVE  /\ store' \in [Keys -> Assets] /\ strays' \in [Keys -> Nat]
           /\ written' \in Revisions /\ written' \in StoredRevisions
           /\ StoreWhole'
           /\ \A j \in Keys : TeamById(j) /\ store[j] = Absent => store'[j] = Absent
<1>1. written' \in Revisions /\ written' \in StoredRevisions
  BY AssetsAssumption DEF IInv, TypeOK, Revisions, StoredRevisions
<1>2. Written(written') \in Assets /\ Written(written') = Written(Written(written').rev)
  BY <1>1, AbsentType DEF Written
<1>3. CASE StoreElsewhere(k)
  BY <1>1, <1>3 DEF StoreElsewhere, IInv, TypeOK, StoreWhole
<1>4. CASE StoreAt(k) /\ k \in Keys /\ ~(TeamById(k) /\ store[k] = Absent)
  BY <1>1, <1>2, <1>4 DEF StoreAt, IInv, TypeOK, StoreWhole
<1>. QED
  BY <1>3, <1>4

(* A write that took effect, answered or not.                              *)
LEMMA ArrivesKeeps ==
    ASSUME IInv, NEW c \in Clients, Calls(c), Arrives(c), mem[c].pc \in {"put", "post", "display"},
           store' \in [Keys -> Assets], strays' \in [Keys -> Nat],
           written' \in Revisions, written' \in StoredRevisions, StoreWhole',
           \A k \in Keys : TeamById(k) /\ store[k] = Absent => store'[k] = Absent
    PROVE  IInv'
<1>. mem[c].pc \in Calling /\ mem[c].cmd.op # "remove"
  BY DEF Calling, IInv, ClientsSound, Sound, Placed
<1>1. CASE mem' = [Ended(c, "ok") EXCEPT ![c].after = written + 1]
  <2>1. mem' = [mem EXCEPT ![c].pc = "answered", ![c].result = "ok", ![c].after = written']
    BY <1>1 DEF Arrives, Ended, IInv, TypeOK
  <2>2. "ok" \in Results
    BY DEF Results
  <2>. QED
    BY <2>1, <2>2, AnswerKeeps DEF Calls
<1>2. CASE mem' = Ended(c, "lost")
  BY <1>2, EndedKeeps DEF Results
<1>. QED
  BY <1>1, <1>2 DEF Arrives

(* PUT.                                                                    *)
LEMMA PutKeeps ==
    ASSUME IInv, NEW c \in Clients, Calls(c), Put(c)
    PROVE  IInv'
<1>. DEFINE k == mem[c].key
<1>1. /\ k \in AssetKeys /\ k \in Keys /\ mem[c].pc = "put" /\ Arrives(c)
      /\ written < MaxWrites /\ written' = written + 1
  BY DEF Put, Arrives, IInv, ClientsSound, Sound, Placed, AssetKeys
<1>2. StoreElsewhere(k) \/ (StoreAt(k) /\ ~(TeamById(k) /\ store[k] = Absent))
  BY DEF Put, Stores, Accepts, Known, TeamById
<1>. HIDE DEF k
<1>. QED
  BY <1>1, <1>2, StoreKeeps, ArrivesKeeps

(* POST.                                                                   *)
LEMMA PostKeeps ==
    ASSUME IInv, NEW c \in Clients, Calls(c), Post(c)
    PROVE  IInv'
<1>. DEFINE k == mem[c].key
<1>1. /\ k \in Keys \union {NoKey} /\ mem[c].pc = "post" /\ Arrives(c)
      /\ written < MaxWrites /\ written' = written + 1 /\ StoreElsewhere(k)
  BY DEF Post, Arrives, IInv, TypeOK, Memory, AssetKeys
<1>. HIDE DEF k
<1>. QED
  BY <1>1, StoreKeeps, ArrivesKeeps

(* The call that replaces the display of a team.                           *)
LEMMA DisplayKeeps ==
    ASSUME IInv, NEW c \in Clients, Calls(c), Display(c)
    PROVE  IInv'
<1>. DEFINE k == mem[c].key
            display == Merged(mem[c].cmd.given, mem[c].seen.before.display, written + 1)
            asset == [rev |-> written + 1, display |-> display]
<1>1. /\ k \in Keys /\ k.kind = "team" /\ Known(k) /\ mem[c].pc = "display" /\ Arrives(c)
      /\ written' = written + 1 /\ written < MaxWrites
      /\ store' = [store EXCEPT ![k] = asset] /\ strays' = strays
  BY DEF Display, Arrives, IInv, ClientsSound, Sound, Placed, AssetKeys
<1>2. written' \in Revisions /\ written' \in StoredRevisions
  BY <1>1, AssetsAssumption DEF IInv, TypeOK, Revisions, StoredRevisions
<1>3. mem[c].seen.before \in Assets
  BY DEF IInv, TypeOK, Memory, Seen
<1>4. asset \in Assets
  BY <1>1, <1>2, <1>3 DEF Merged, Assets
<1>. HIDE DEF k, asset
<1>5. /\ store' \in [Keys -> Assets] /\ strays' \in [Keys -> Nat] /\ StoreWhole'
      /\ \A j \in Keys : TeamById(j) /\ store[j] = Absent => store'[j] = Absent
  BY <1>1, <1>4 DEF IInv, TypeOK, StoreWhole, Known
<1>. QED
  BY <1>1, <1>2, <1>5, ArrivesKeeps

(* A write is refused only to those that something has overtaken. *)
LEMMA RefusedKeeps ==
    ASSUME IInv, NEW c \in Clients, Calls(c), PutRefused(c) \/ DisplayRefused(c)
    PROVE  IInv'
<1>1. /\ mem[c].pc \in {"put", "display"} /\ mem' = Ended(c, "refused") /\ UNCHANGED server
      /\ Sound(mem[c], store, alone[c]) /\ mem[c].key \in AssetKeys
  BY DEF PutRefused, DisplayRefused, IInv, ClientsSound, Sound, Placed
<1>2. ASSUME alone[c], mem[c].seen.read PROVE FALSE
  <2>1. mem[c].seen.before = store[mem[c].key]
    BY <1>1, <1>2 DEF Sound, UpToDate
  <2>2. CASE DisplayRefused(c)
    BY <1>1, <2>1, <2>2 DEF DisplayRefused, Known, Sound, Justified
  <2>3. CASE PutRefused(c)
    BY <1>1, <2>1, <2>3
       DEF PutRefused, Accepts, Known, Sound, Justified, TeamById, Version,
           CarryRecordingRuleVersion
  <2>. QED
    BY <2>2, <2>3
<1>. QED
  BY <1>1, <1>2, TurnedDownKeeps DEF Calling, Results

(* A write that failed.                                                    *)
LEMMA WriteFailedKeeps ==
    ASSUME IInv, NEW c \in Clients, Calls(c), WriteFailed(c)
    PROVE  IInv'
BY TurnedDownKeeps DEF WriteFailed, Calling, Results

-----------------------------------------------------------------------------
(* The removals. *)
LEMMA RemovalMemory ==
    ASSUME IInv, NEW c \in Clients, mem[c].pc \in {"resolve", "remove"}, NEW m \in Memory,
           m.pc = "remove", m.cmd = mem[c].cmd, m.key = mem[c].key, m.seen = mem[c].seen
    PROVE  \A s, a : Remaining(m, s, a) => Sound(m, s, a)
<1>1. Sound(mem[c], store, alone[c])
  BY DEF IInv, ClientsSound
<1>. QED
  BY <1>1 DEF Sound, Placed, Justified, Versioned, UpToDate

(* The look-up of members before they are removed.                         *)
LEMMA ResolveKeeps ==
    ASSUME IInv, NEW c \in Clients, Calls(c), ResolveMembers(c)
    PROVE  IInv'
<1>. DEFINE m == [mem[c] EXCEPT !.pc = "remove"]
<1>1. mem[c] \in Memory /\ mem[c].pc = "resolve" /\ UNCHANGED server
  BY DEF IInv, TypeOK, ResolveMembers
<1>2. /\ m \in Memory /\ m.pc = "remove" /\ m.cmd = mem[c].cmd /\ m.key = mem[c].key
      /\ m.seen = mem[c].seen /\ m.left = mem[c].left
  BY <1>1 DEF Memory, Places
<1>3. mem' = Ended(c, "notFound") \/ mem' = Ended(c, "failed") \/ mem' = [mem EXCEPT ![c] = m]
  BY DEF ResolveMembers
<1>. HIDE DEF m
<1>4. CASE mem' = [mem EXCEPT ![c] = m]
  <2>1. Remaining(m, store, alone[c])
    BY <1>1, <1>2 DEF IInv, ClientsSound, Sound, Remaining
  <2>. QED
    BY <1>1, <1>2, <1>4, <2>1, RemovalMemory, ReadKeeps DEF Calling
<1>. QED
  BY <1>1, <1>3, <1>4, TurnedDownKeeps DEF Calling, Results

(* The first element of a sequence, and the others.                        *)
LEMMA HeadOrTail ==
    ASSUME NEW s \in Seq(Keys), s # <<>>
    PROVE  \A k \in Range(s) : k = Head(s) \/ k \in Range(Tail(s))
<1>. SUFFICES ASSUME NEW i \in 1..Len(s), i # 1 PROVE s[i] \in Range(Tail(s))
  BY DEF Range
<1>1. i - 1 \in DOMAIN Tail(s) /\ Tail(s)[i - 1] = s[i]
  OBVIOUS
<1>. QED
  BY <1>1 DEF Range

(* The targets of a command are keys.                                      *)
LEMMA TargetsType ==
    ASSUME IInv, NEW c \in Clients
    PROVE  Range(mem[c].cmd.targets) \subseteq Keys
<1>1. mem[c].cmd \in CommandLines
  BY AssetsAssumption DEF IInv, TypeOK, Memory
<1>2. mem[c].cmd.targets \in Seq(Keys)
  BY <1>1 DEF CommandLines
<1>. QED
  BY <1>2 DEF Range

(* What a removal does to the memory: the next attempt, the next target, or *)
(* the end.                                                                 *)
LEMMA RemovalKeeps ==
    ASSUME IInv, NEW c \in Clients, Calls(c), Removing(c),
           \/ mem' = Removed(c) /\ store'[Head(mem[c].left)] = Absent
           \/ \E error \in Results \ {"ok", "refused"} :
                 /\ mem' = AfterError(c, error)
                 /\ error = "notFound" => store'[Head(mem[c].left)] = Absent
           \/ mem' = [mem EXCEPT ![c].tries = @ + 1] /\ mem[c].tries + 1 < DeleteAttempts,
           store' \in [Keys -> Assets], strays' = strays, written' = written, StoreWhole',
           \A k \in Keys : store'[k] \in {store[k], Absent}
    PROVE  IInv'
<1>1. /\ mem[c] \in Memory /\ mem[c].pc = "remove" /\ mem[c].left # <<>>
      /\ mem[c].left \in Seq(Keys) /\ mem[c].tries \in 0..(DeleteAttempts - 1)
      /\ strays' \in [Keys -> Nat] /\ written' \in Revisions
  BY DEF IInv, TypeOK, Memory, Removing
<1>2. \A k \in Keys : TeamById(k) /\ store[k] = Absent => store'[k] = Absent
  OBVIOUS
<1>3. /\ Remaining(mem[c], store, alone[c])
      /\ \A k \in Range(mem[c].left) : k = Head(mem[c].left) \/ k \in Range(Tail(mem[c].left))
      /\ \A k \in Range(mem[c].cmd.targets) : store'[k] \in {store[k], Absent}
  BY <1>1, HeadOrTail, TargetsType DEF IInv, ClientsSound, Sound
<1>4. ASSUME mem' = Removed(c), store'[Head(mem[c].left)] = Absent PROVE IInv'
  <2>. DEFINE m == [mem[c] EXCEPT !.left = Tail(mem[c].left), !.tries = 0]
  <2>1. Tail(mem[c].left) \in Seq(Keys) /\ 0 \in 0..(DeleteAttempts - 1)
    BY <1>1 DEF DeleteAttempts
  <2>2. /\ m \in Memory /\ m.pc = "remove" /\ m.cmd = mem[c].cmd /\ m.key = mem[c].key
        /\ m.seen = mem[c].seen /\ m.left = Tail(mem[c].left)
    BY <1>1, <2>1 DEF Memory
  <2>3. mem' = [mem EXCEPT ![c] = m]
    BY <1>4 DEF Removed
  <2>. HIDE DEF m
  <2>4. Remaining(m, store', alone[c])
    BY <1>1, <1>3, <1>4, <2>2 DEF Remaining
  <2>5. Sound(m, store', alone[c])
    BY <1>1, <2>2, <2>4, RemovalMemory
  <2>. QED
    BY <1>1, <1>2, <2>2, <2>3, <2>5, CallKeeps DEF Calls, Calling
<1>5. CASE mem' = [mem EXCEPT ![c].tries = @ + 1] /\ mem[c].tries + 1 < DeleteAttempts
  <2>. DEFINE m == [mem[c] EXCEPT !.tries = mem[c].tries + 1]
  <2>1. mem[c].tries + 1 \in 0..(DeleteAttempts - 1)
    BY <1>1, <1>5 DEF DeleteAttempts
  <2>2. /\ m \in Memory /\ m.pc = "remove" /\ m.cmd = mem[c].cmd /\ m.key = mem[c].key
        /\ m.seen = mem[c].seen /\ m.left = mem[c].left
    BY <1>1, <2>1 DEF Memory
  <2>3. mem' = [mem EXCEPT ![c] = m]
    BY <1>5
  <2>. HIDE DEF m
  <2>4. Remaining(m, store', alone[c])
    BY <1>1, <1>3, <2>2 DEF Remaining
  <2>5. Sound(m, store', alone[c])
    BY <1>1, <2>2, <2>4, RemovalMemory
  <2>. QED
    BY <1>1, <1>2, <2>2, <2>3, <2>5, CallKeeps DEF Calls, Calling
<1>6. ASSUME NEW error \in Results \ {"ok", "refused"}, mem' = AfterError(c, error),
             error = "notFound" => store'[Head(mem[c].left)] = Absent
      PROVE  IInv'
  <2>1. CASE mem' = Ended(c, error)
    BY <1>1, <1>2, <2>1, EndedKeeps DEF Calling
  <2>. QED
    BY <1>4, <1>6, <2>1 DEF AfterError, IsAlreadyDeleted
<1>. QED
  BY <1>4, <1>5, <1>6

(* A removal, answered or not.                                             *)
LEMMA RemoveKeeps ==
    ASSUME IInv, NEW c \in Clients, Calls(c), Remove(c)
    PROVE  IInv'
<1>1. Removing(c) /\ Head(mem[c].left) \in Keys /\ strays' = strays /\ written' = written
  BY DEF Remove, Removing, IInv, TypeOK, Memory
<1>2. /\ store' \in [Keys -> Assets] /\ StoreWhole'
      /\ \A k \in Keys : store'[k] \in {store[k], Absent}
      /\ store'[Head(mem[c].left)] = Absent
  BY <1>1, AbsentType DEF Remove, IInv, TypeOK, StoreWhole
<1>3. mem' = Removed(c) \/ mem' = AfterError(c, "lost")
  BY DEF Remove
<1>. QED
  BY <1>1, <1>2, <1>3, RemovalKeeps DEF Results

(* A removal that was turned down, forgiven, tried again or not.           *)
LEMMA RemoveErrorKeeps ==
    ASSUME IInv, NEW c \in Clients, Calls(c),
           RemoveMissing(c) \/ RemoveFailed(c) \/ RemoveConflict(c)
    PROVE  IInv'
<1>1. Removing(c) /\ UNCHANGED server /\ strays' = strays /\ written' = written
  BY DEF RemoveMissing, RemoveFailed, RemoveConflict, server
<1>2. \/ mem' = AfterError(c, "notFound") /\ store[Head(mem[c].left)] = Absent
      \/ mem' = AfterError(c, "failed")
      \/ mem' = AfterError(c, "conflict")
      \/ mem' = [mem EXCEPT ![c].tries = @ + 1] /\ mem[c].tries + 1 < DeleteAttempts
  BY DEF RemoveMissing, RemoveFailed, RemoveConflict, Known
<1>3. {"notFound", "failed", "conflict"} \subseteq Results \ {"ok", "refused"}
  BY DEF Results
<1>. QED
  BY <1>1, <1>2, <1>3, ServerSame, RemovalKeeps

(* The end of a list of removals.                                          *)
LEMMA RemoveDoneKeeps ==
    ASSUME IInv, NEW c \in Clients, Calls(c), RemoveDone(c)
    PROVE  IInv'
<1>1. /\ mem[c].pc = "remove" /\ mem[c].left = <<>> /\ mem' = Ended(c, "ok") /\ UNCHANGED server
      /\ Remaining(mem[c], store, alone[c])
  BY DEF RemoveDone, IInv, ClientsSound, Sound
<1>2. Range(mem[c].left) = {}
  BY <1>1 DEF Range
<1>. QED
  BY <1>1, <1>2, TurnedDownKeeps DEF Remaining, Calling, Results

(* Every call.                                                             *)
LEMMA CallsKeep ==
    ASSUME IInv, NEW c \in Clients, Calls(c)
    PROVE  IInv'
BY PreflightFoundKeeps, PreflightKeeps, PutKeeps, PostKeeps, DisplayKeeps, RefusedKeeps,
   WriteFailedKeeps, ResolveKeeps, RemoveKeeps, RemoveErrorKeeps, RemoveDoneKeeps
   DEF Calls, Call

-----------------------------------------------------------------------------
(* The commands around the calls. *)

(* A step of c that makes no call and leaves it running. *)
LEMMA LocalKeeps ==
    ASSUME IInv, NEW c \in Clients, NEW m \in Memory, mem' = [mem EXCEPT ![c] = m],
           NEW r \in Runs, run' = [run EXCEPT ![c] = r],
           Running(c), m.pc # "idle", UNCHANGED <<server, wrote, alone>>,
           Sound(m, store, alone[c]),
           m.pc = "report" \/ (m.cmd.op = "apply" /\ m.pc \in {"get", "put", "post", "answered"})
             => r.docs # <<>>
    PROVE  IInv'
<1>1. /\ run' \in [Clients -> Runs] /\ run'[c] = r
      /\ \A d \in Clients \ {c} : run'[d] = run[d]
  BY DEF IInv, TypeOK
<1>2. wrote' \in [Clients -> Seq(Revisions)] /\ alone' = alone
  BY DEF IInv, TypeOK
<1>. QED
  BY <1>1, <1>2, ServerSame, StepKeeps

(* A command starts, and disturbs those that run.                          *)
LEMMA BeginKeeps ==
    ASSUME IInv, NEW c \in Clients, Begin(c)
    PROVE  IInv'
<1>1. PICK x \in Commands : /\ mem' = [mem EXCEPT ![c] = Started(x)]
                            /\ run' = [run EXCEPT ![c].docs = x.docs]
  BY DEF Begin
<1>. DEFINE m == Started(x)
            r == [run[c] EXCEPT !.docs = x.docs]
<1>2. /\ m \in Memory /\ m.pc = FirstPlace(x) /\ m.cmd = x /\ m.key = x.key /\ m.seen = Unread
      /\ m.result = "none" /\ m.left = x.targets /\ x \in CommandLines
      /\ x.op = "apply" => m.pc \in {"ended", "parse"}
      /\ x.op \in {"update", "display"} => m.pc = "get"
      /\ x.op = "remove" => m.pc \in {"resolve", "remove"}
  BY StartedType
<1>3. x.op \in {"apply", "update", "display", "remove"} /\ x.docs \in Seq(Documents)
  BY <1>2 DEF CommandLines
<1>4. r \in Runs /\ run' = [run EXCEPT ![c] = r]
  BY <1>1, <1>3 DEF IInv, TypeOK, Runs
<1>5. mem' = [mem EXCEPT ![c] = m]
  BY <1>1
<1>. HIDE DEF m, r
<1>6. /\ mem'[c] = m /\ \A d \in Clients : d # c => mem'[d] = mem[d] /\ run'[d] = run[d]
      /\ \A d \in Clients : d # c /\ Running(d) => ~alone'[d]
      /\ alone'[c] => \A d \in Clients \ {c} : ~Running(d)
      /\ alone' \in [Clients -> BOOLEAN] /\ ~Running(c)
  BY <1>4, <1>5 DEF Begin, IInv, TypeOK
<1>7. TypeOK' /\ StoreWhole'
  BY <1>2, <1>4, <1>5, <1>6, ServerSame DEF Begin, IInv, TypeOK
<1>8. Sound(m, store, alone'[c])
  <2>1. /\ x.op \in {"update", "display"} => x.key \in AssetKeys
        /\ x.op = "display" => x.key.kind = "team"
    BY <1>2, AssetsAssumption DEF CommandLines
  <2>. QED
    BY <1>2, <1>3, <2>1, AbsentType DEF Sound, Placed, Justified, Versioned, UpToDate, Remaining
<1>9. ASSUME NEW d \in Clients, d # c PROVE Sound(mem[d], store, alone'[d])
  BY <1>6, <1>9 DEF IInv, ClientsSound, Sound, UpToDate, Remaining, Running
<1>10. ClientsSound'
  BY <1>6, <1>8, <1>9, ServerSame DEF Begin, ClientsSound
<1>11. AloneTrue'
  BY <1>6 DEF AloneTrue, Running
<1>12. AtDocument'
  BY <1>2, <1>3, <1>6 DEF IInv, AtDocument, Applying
<1>. QED
  BY <1>7, <1>10, <1>11, <1>12 DEF IInv

(* A process ends.                                                         *)
LEMMA ExitKeeps ==
    ASSUME IInv, NEW c \in Clients, Exit(c)
    PROVE  IInv'
<1>1. /\ mem' = [mem EXCEPT ![c] = NotStarted] /\ run' = [run EXCEPT ![c] = NoRun]
      /\ wrote' = [wrote EXCEPT ![c] = <<>>] /\ alone' = [alone EXCEPT ![c] = TRUE]
      /\ UNCHANGED server
  BY DEF Exit
<1>2. /\ mem'[c] = NotStarted
      /\ \A d \in Clients : d # c => mem'[d] = mem[d] /\ run'[d] = run[d] /\ alone'[d] = alone[d]
  BY <1>1 DEF IInv, TypeOK
<1>3. NoRun \in Runs
  BY DEF NoRun, Runs
<1>4. TypeOK'
  BY <1>1, <1>3, NotStartedType, ServerSame DEF IInv, TypeOK
<1>5. Sound(NotStarted, store, TRUE)
  BY NotStartedType, AbsentType DEF Sound, Placed, Justified, Versioned, UpToDate, Remaining
<1>6. ClientsSound'
  BY <1>1, <1>2, <1>5, ServerSame DEF IInv, TypeOK, ClientsSound
<1>7. AloneTrue' /\ AtDocument'
  BY <1>2, NotStartedType DEF IInv, AloneTrue, Running, AtDocument, Applying
<1>. QED
  BY <1>1, <1>4, <1>6, <1>7, ServerSame DEF IInv

(* The memory with which the import of a part starts. *)
LEMMA StartPartSound ==
    ASSUME IInv, NEW c \in Clients, Applying(c), run[c].docs # <<>>,
           NEW i \in 1..Len(Head(run[c].docs).parts)
    PROVE  \E m \in Memory : /\ StartPart(c, i) = [mem EXCEPT ![c] = m]
                             /\ m.pc \in {"get", "post"}
                             /\ Sound(m, store, alone[c])
<1>. DEFINE key == run[c].docs[1].parts[i]
            m == [mem[c] EXCEPT !.pc = IF key = NoKey THEN "post" ELSE "get",
                                !.key = key, !.seen = Unread, !.result = "none"]
<1>1. run[c].docs \in Seq(Documents) /\ Head(run[c].docs) = run[c].docs[1]
  BY DEF IInv, TypeOK, Runs
<1>2. run[c].docs[1] \in Documents
  BY <1>1
<1>3. key \in AssetKeys \union {NoKey}
  BY <1>1, <1>2 DEF Documents, Parts
<1>4. mem[c] \in Memory /\ mem[c].cmd.op = "apply"
  BY DEF IInv, TypeOK, Applying
<1>5. /\ m \in Memory /\ m.cmd = mem[c].cmd /\ m.key = key /\ m.seen = Unread
      /\ m.result = "none" /\ m.pc = IF key = NoKey THEN "post" ELSE "get"
  BY <1>3, <1>4, AbsentType DEF Memory, Places, Results
<1>6. StartPart(c, i) = [mem EXCEPT ![c] = m]
  BY DEF StartPart
<1>. HIDE DEF m, key
<1>7. Sound(m, store, alone[c])
  BY <1>3, <1>4, <1>5, AbsentType DEF Sound, Placed, Justified, Versioned, UpToDate, Remaining
<1>. QED
  BY <1>5, <1>6, <1>7

(* An apply that goes to its report, or ends, with what it knew. *)
LEMMA MoveKeeps ==
    ASSUME IInv, NEW c \in Clients, mem[c].pc \in {"parse", "answered", "report"}, Applying(c),
           NEW to \in {"parse", "report", "ended"}, NEW result \in Results,
           mem' = [mem EXCEPT ![c].pc = to, ![c].result = result],
           NEW r \in Runs, run' = [run EXCEPT ![c] = r], to = "report" => r.docs # <<>>,
           UNCHANGED <<server, wrote, alone>>
    PROVE  IInv'
<1>. DEFINE m == [mem[c] EXCEPT !.pc = to, !.result = result]
<1>1. mem[c] \in Memory /\ Sound(mem[c], store, alone[c]) /\ Running(c)
  BY DEF IInv, TypeOK, ClientsSound, Running
<1>2. /\ m \in Memory /\ m.pc = to /\ m.cmd = mem[c].cmd /\ m.key = mem[c].key
      /\ m.seen = mem[c].seen
  BY <1>1 DEF Memory, Places
<1>3. mem' = [mem EXCEPT ![c] = m]
  OBVIOUS
<1>. HIDE DEF m
<1>4. Sound(m, store, alone[c])
  BY <1>1, <1>2 DEF Sound, Placed, Justified, Versioned, UpToDate, Remaining, Applying
<1>. QED
  BY <1>1, <1>2, <1>3, <1>4, LocalKeeps

(* Apply turns to the next document.                                       *)
LEMMA NextDocumentKeeps ==
    ASSUME IInv, NEW c \in Clients, NextDocument(c)
    PROVE  IInv'
<1>1. /\ mem[c] \in Memory /\ mem[c].pc = "parse" /\ run[c].docs # <<>> /\ Applying(c)
      /\ run[c] \in Runs /\ UNCHANGED <<server, wrote, alone>>
  BY DEF IInv, TypeOK, NextDocument, ClientsSound, Sound, Placed, Applying
<1>2. CASE Head(run[c].docs).parses
  <2>. DEFINE r == [run[c] EXCEPT !.part = 1]
  <2>1. r \in Runs /\ r.docs = run[c].docs
    BY <1>1 DEF Runs
  <2>2. run' = [run EXCEPT ![c] = r] /\ mem' = StartPart(c, 1)
    BY <1>2 DEF NextDocument
  <2>. HIDE DEF r
  <2>3. Head(run[c].docs) \in Documents
    BY <1>1 DEF Runs
  <2>4. 1 \in 1..Len(Head(run[c].docs).parts)
    BY <2>3 DEF Documents, Parts
  <2>5. PICK m \in Memory : /\ mem' = [mem EXCEPT ![c] = m] /\ m.pc \in {"get", "post"}
                            /\ Sound(m, store, alone[c])
    BY <1>1, <2>2, <2>4, StartPartSound
  <2>. QED
    BY <1>1, <2>1, <2>2, <2>5, LocalKeeps DEF Running
<1>3. CASE ~Head(run[c].docs).parses
  <2>1. mem' = [mem EXCEPT ![c].pc = "report", ![c].result = "failed"] /\ run' = run
    BY <1>3 DEF NextDocument
  <2>2. run' = [run EXCEPT ![c] = run[c]]
    BY <2>1 DEF IInv, TypeOK
  <2>. QED
    BY <1>1, <2>1, <2>2, MoveKeeps DEF Results
<1>. QED
  BY <1>2, <1>3

(* Apply goes on to the next part of a document, or to its report.         *)
LEMMA PartAnsweredKeeps ==
    ASSUME IInv, NEW c \in Clients, PartAnswered(c)
    PROVE  IInv'
<1>1. /\ mem[c] \in Memory /\ mem[c].pc = "answered" /\ Applying(c) /\ run[c].docs # <<>>
      /\ run[c] \in Runs /\ UNCHANGED <<server, wrote, alone>>
  BY DEF IInv, TypeOK, PartAnswered, AtDocument
<1>2. Collected(c) \in Seq(PartResults)
  <2>1. run[c].results \in Seq(PartResults)
    BY <1>1 DEF Runs
  <2>2. [rev |-> mem[c].after, updated |-> mem[c].seen.before # Absent] \in PartResults
    BY <1>1 DEF Memory, PartResults
  <2>. QED
    BY <2>1, <2>2 DEF Collected
<1>3. CASE mem[c].result = "ok" /\ run[c].part < Len(Head(run[c].docs).parts)
  <2>. DEFINE r == [run[c] EXCEPT !.results = Collected(c), !.part = run[c].part + 1]
  <2>1. r \in Runs /\ r.docs = run[c].docs
    <3>1. run[c].part + 1 \in Nat
      BY <1>1 DEF Runs
    <3>. QED
      BY <1>1, <1>2, <3>1 DEF Runs
  <2>2. run' = [run EXCEPT ![c] = r] /\ mem' = StartPart(c, run[c].part + 1)
    BY <1>3 DEF PartAnswered
  <2>. HIDE DEF r
  <2>3. Head(run[c].docs) \in Documents /\ run[c].part \in Nat
    BY <1>1 DEF Runs
  <2>4. run[c].part + 1 \in 1..Len(Head(run[c].docs).parts)
    BY <1>3, <2>3 DEF Documents, Parts
  <2>5. PICK m \in Memory : /\ mem' = [mem EXCEPT ![c] = m] /\ m.pc \in {"get", "post"}
                            /\ Sound(m, store, alone[c])
    BY <1>1, <2>2, <2>4, StartPartSound
  <2>. QED
    BY <1>1, <2>1, <2>2, <2>5, LocalKeeps DEF Running
<1>4. CASE ~(mem[c].result = "ok" /\ run[c].part < Len(Head(run[c].docs).parts))
  <2>. DEFINE r == [run[c] EXCEPT !.results = Collected(c)]
  <2>1. r \in Runs /\ r.docs = run[c].docs
    BY <1>1, <1>2 DEF Runs
  <2>2. run' = [run EXCEPT ![c] = r]
    BY <1>4 DEF PartAnswered
  <2>3. mem' = [mem EXCEPT ![c].pc = "report", ![c].result = mem[c].result]
    BY <1>1, <1>4 DEF PartAnswered, Memory
  <2>4. mem[c].result \in Results
    BY <1>1 DEF Memory
  <2>. HIDE DEF r
  <2>. QED
    BY <1>1, <2>1, <2>2, <2>3, <2>4, MoveKeeps
<1>. QED
  BY <1>3, <1>4

(* The revisions of results are revisions, as many as there are results.   *)
LEMMA RevsType ==
    ASSUME NEW results \in Seq(PartResults)
    PROVE  Revs(results) \in Seq(StoredRevisions)
<1>1. DOMAIN results = 1..Len(results) /\ Len(results) \in Nat
  OBVIOUS
<1>2. \A i \in 1..Len(results) : results[i].rev \in StoredRevisions
  <2>. SUFFICES ASSUME NEW i \in 1..Len(results) PROVE results[i].rev \in StoredRevisions
    OBVIOUS
  <2>1. results[i] \in PartResults
    OBVIOUS
  <2>. QED
    BY <2>1 DEF PartResults
<1>. QED
  BY <1>1, <1>2 DEF Revs

(* The report of a document.                                               *)
LEMMA ReportKeeps ==
    ASSUME IInv, NEW c \in Clients, Report(c)
    PROVE  IInv'
<1>1. /\ mem[c] \in Memory /\ mem[c].pc = "report" /\ Applying(c) /\ run[c].docs # <<>>
      /\ run[c] \in Runs /\ UNCHANGED <<server, wrote, alone>> /\ mem[c].result \in Results
  BY DEF IInv, TypeOK, Report, AtDocument, ClientsSound, Sound, Placed, Applying, Memory
<1>2. run[c].told \o Revs(run[c].results) \in Seq(StoredRevisions)
  BY <1>1, RevsType DEF Runs
<1>3. CASE mem[c].result = "ok"
  <2>. DEFINE r == [docs |-> Tail(run[c].docs), part |-> 0, results |-> <<>>,
                    told |-> run[c].told \o Revs(run[c].results)]
  <2>1. r \in Runs
    BY <1>1, <1>2 DEF Runs
  <2>2. run' = [run EXCEPT ![c] = r]
    BY <1>3 DEF Report
  <2>3. mem' = [mem EXCEPT ![c].pc = "parse", ![c].result = mem[c].result]
    BY <1>1, <1>3 DEF Report, Memory
  <2>. HIDE DEF r
  <2>. QED
    BY <1>1, <2>1, <2>2, <2>3, MoveKeeps
<1>4. CASE mem[c].result # "ok"
  <2>. DEFINE r == [run[c] EXCEPT !.told = run[c].told \o Revs(run[c].results)]
  <2>1. r \in Runs
    BY <1>1, <1>2 DEF Runs
  <2>2. run' = [run EXCEPT ![c] = r]
    BY <1>4 DEF Report
  <2>3. mem' = [mem EXCEPT ![c].pc = "ended", ![c].result = mem[c].result]
    BY <1>1, <1>4 DEF Report, Memory
  <2>. HIDE DEF r
  <2>. QED
    BY <1>1, <2>1, <2>2, <2>3, MoveKeeps
<1>. QED
  BY <1>3, <1>4

(* A report that cannot be written.                                        *)
LEMMA ReportFailedKeeps ==
    ASSUME IInv, NEW c \in Clients, ReportFailed(c)
    PROVE  IInv'
<1>1. /\ mem[c].pc = "report" /\ Applying(c) /\ run[c] \in Runs
      /\ UNCHANGED <<server, wrote, alone>>
      /\ mem' = [mem EXCEPT ![c].pc = "ended", ![c].result = "unprinted"]
  BY DEF IInv, TypeOK, ReportFailed, ClientsSound, Sound, Placed, Applying
<1>2. PICK i \in DOMAIN run[c].results :
        run' = [run EXCEPT ![c].told = @ \o Revs(SubSeq(run[c].results, 1, i - 1))]
  BY DEF ReportFailed
<1>. DEFINE said == SubSeq(run[c].results, 1, i - 1)
            r == [run[c] EXCEPT !.told = run[c].told \o Revs(said)]
<1>3. said \in Seq(PartResults)
  <2>1. run[c].results \in Seq(PartResults) /\ i \in 1..Len(run[c].results)
    BY <1>1, <1>2 DEF Runs
  <2>2. \A j \in 1..(i - 1) : run[c].results[j] \in PartResults
    BY <2>1
  <2>. QED
    BY <2>1, <2>2, SubSeqProperties
<1>4. run[c].told \o Revs(said) \in Seq(StoredRevisions)
  <2>. HIDE DEF said
  <2>. QED
    BY <1>1, <1>3, RevsType DEF Runs
<1>5. r \in Runs /\ run' = [run EXCEPT ![c] = r]
  <2>. HIDE DEF said
  <2>1. r \in Runs
    BY <1>1, <1>4 DEF Runs
  <2>. QED
    BY <1>2, <2>1 DEF said
<1>. HIDE DEF r
<1>. QED
  BY <1>1, <1>5, MoveKeeps DEF Results

(* The end of an apply.                                                    *)
LEMMA ApplyDoneKeeps ==
    ASSUME IInv, NEW c \in Clients, ApplyDone(c)
    PROVE  IInv'
<1>1. /\ mem[c].pc = "parse" /\ Applying(c) /\ run[c] \in Runs
      /\ UNCHANGED <<server, wrote, alone>> /\ run' = [run EXCEPT ![c] = run[c]]
      /\ mem' = [mem EXCEPT ![c].pc = "ended", ![c].result = "ok"]
  BY DEF IInv, TypeOK, ApplyDone, ClientsSound, Sound, Placed, Applying
<1>. QED
  BY <1>1, MoveKeeps DEF Results

(* Every step.                                                             *)
LEMMA NextKeeps == IInv /\ [Next]_vars => IInv'
<1>1. ASSUME IInv, Next PROVE IInv'
  BY <1>1, BeginKeeps, CallsKeep, ExitKeeps, NextDocumentKeeps, PartAnsweredKeeps, ReportKeeps,
     ReportFailedKeeps, ApplyDoneKeeps DEF Next
<1>2. ASSUME IInv, UNCHANGED vars PROVE IInv'
  BY <1>2 DEF vars, assetVars, IInv, TypeOK, ClientsSound, AloneTrue, Running, StoreWhole,
     AtDocument, Applying
<1>. QED
  BY <1>1, <1>2

(* The invariant.                                                          *)
LEMMA Invariance == Spec => []IInv
BY InitInv, NextKeeps, PTL DEF Spec

-----------------------------------------------------------------------------
(* What apply has stored and what it has said. *)

(* What the output of an apply names, once the results at hand are printed. *)
Said(r) == r.told \o Revs(r.results)

OneMore(w, said) == \E rev \in Revisions : w = Append(said, rev)

Account(m, r, w) ==
    /\ m.pc = "idle" => r = NoRun /\ w = <<>>
    /\ m.cmd.op = "apply" =>
         /\ m.pc \notin {"idle", "ended"} => ~m.cmd.dry
         /\ m.pc = "parse" => r.results = <<>> /\ w = r.told
         /\ m.pc \in {"get", "put", "post"} => w = Said(r)
         /\ m.pc = "answered" /\ m.result = "ok" => w = Append(Said(r), m.after)
         /\ m.pc = "report" /\ m.result = "ok" => w = Said(r)
         /\ m.pc \in {"answered", "report"} /\ m.result # "ok" =>
              w = Said(r) \/ (m.result = "lost" /\ OneMore(w, Said(r)))
         /\ m.pc = "ended" /\ m.result # "unprinted" =>
              w = r.told \/ (m.result = "lost" /\ OneMore(w, r.told))

Accounted == \A c \in Clients : Account(mem[c], run[c], wrote[c])

(* What is said is a sequence of revisions.                                *)
LEMMA SaidType ==
    ASSUME NEW r \in Runs
    PROVE  /\ Said(r) \in Seq(StoredRevisions)
           /\ r.results = <<>> => Said(r) = r.told
<1>1. /\ r.told \in Seq(StoredRevisions) /\ Revs(r.results) \in Seq(StoredRevisions)
      /\ r.results \in Seq(PartResults)
  BY RevsType DEF Runs
<1>2. r.results = <<>> => Revs(r.results) = <<>>
  BY DEF Revs
<1>. QED
  BY <1>1, <1>2, ConcatProperties, ConcatEmptySeq DEF Said

(* Appending to the second of two sequences appends to both together.      *)
LEMMA AppendLast ==
    ASSUME NEW S, NEW s \in Seq(S), NEW t \in Seq(S), NEW e \in S
    PROVE  s \o Append(t, e) = Append(s \o t, e)
<1>1. s \o t \in Seq(S) /\ <<e>> \in Seq(S)
  BY ConcatProperties
<1>2. Append(t, e) = t \o <<e>> /\ Append(s \o t, e) = (s \o t) \o <<e>>
  BY <1>1, AppendIsConcat
<1>3. (s \o t) \o <<e>> = s \o (t \o <<e>>)
  BY <1>1, ConcatAssociative
<1>. QED
  BY <1>2, <1>3

(* Without its last element, an appended sequence is what it was.          *)
LEMMA AppendLess ==
    ASSUME NEW S, NEW s \in Seq(S), NEW e \in S
    PROVE  SubSeq(Append(s, e), 1, Len(Append(s, e)) - 1) = s
<1>1. Len(Append(s, e)) - 1 = Len(s) /\ \A i \in 1..Len(s) : Append(s, e)[i] = s[i]
  BY AppendProperties
<1>. QED
  BY <1>1, SubSeqProperties

(* One more result at hand is one more revision to be said. *)
LEMMA SaidMore ==
    ASSUME NEW r \in Runs, NEW q \in Runs, NEW p \in PartResults,
           q.told = r.told, q.results = Append(r.results, p)
    PROVE  Said(q) = Append(Said(r), p.rev)
<1>1. /\ r.told \in Seq(StoredRevisions) /\ r.results \in Seq(PartResults)
      /\ p.rev \in StoredRevisions
  BY DEF Runs, PartResults
<1>2. Revs(r.results) \in Seq(StoredRevisions)
  BY <1>1, RevsType
<1>3. Revs(q.results) = Append(Revs(r.results), p.rev)
  <2>1. /\ DOMAIN q.results = 1..(Len(r.results) + 1) /\ DOMAIN r.results = 1..Len(r.results)
        /\ \A i \in 1..Len(r.results) : q.results[i] = r.results[i]
        /\ q.results[Len(r.results) + 1] = p /\ Len(r.results) \in Nat
    BY <1>1
  <2>2. /\ Revs(q.results) = [i \in 1..(Len(r.results) + 1) |-> q.results[i].rev]
        /\ Revs(r.results) = [i \in 1..Len(r.results) |-> r.results[i].rev]
    BY <2>1 DEF Revs
  <2>3. Len(Revs(r.results)) = Len(r.results)
    BY <1>2, <2>1, <2>2
  <2>. QED
    BY <1>1, <1>2, <2>1, <2>2, <2>3
<1>4. Said(q) = r.told \o Append(Revs(r.results), p.rev)
  BY <1>3 DEF Said
<1>5. \A u, v \in Seq(StoredRevisions), e \in StoredRevisions :
        u \o Append(v, e) = Append(u \o v, e)
  BY AppendLast
<1>6. r.told \o Append(Revs(r.results), p.rev) = Append(r.told \o Revs(r.results), p.rev)
  BY <1>1, <1>2, <1>5
<1>. QED
  BY <1>4, <1>6 DEF Said

(* Nothing is said and nothing is stored at first.                         *)
LEMMA InitAccounted == Init => Accounted
BY NotStartedType DEF Init, Accounted, Account

(* A step of c to memory m, with r left to do and w stored. *)
LEMMA AccountKeeps ==
    ASSUME IInv, Accounted, NEW c \in Clients, NEW m, NEW r, NEW w,
           mem' = [mem EXCEPT ![c] = m], run' = [run EXCEPT ![c] = r],
           wrote' = [wrote EXCEPT ![c] = w], Account(m, r, w)
    PROVE  Accounted'
<1>1. /\ mem'[c] = m /\ run'[c] = r /\ wrote'[c] = w
      /\ \A d \in Clients : d # c => mem'[d] = mem[d] /\ run'[d] = run[d] /\ wrote'[d] = wrote[d]
  BY DEF IInv, TypeOK
<1>. QED
  BY <1>1 DEF Accounted

(* A step that leaves what is to be said alone. *)
LEMMA CallAccount ==
    ASSUME IInv, Accounted, NEW c \in Clients, NEW m, mem' = [mem EXCEPT ![c] = m], Calls(c),
           mem[c].pc \in Calling, Account(m, run[c], wrote'[c])
    PROVE  Accounted'
<1>1. /\ run' = [run EXCEPT ![c] = run[c]]
      /\ wrote' = [wrote EXCEPT ![c] = wrote'[c]]
  BY DEF Calls, IInv, TypeOK
<1>. QED
  BY <1>1, AccountKeeps

(* No apply replaces a display by itself.                                  *)
LEMMA DisplayAlone ==
    ASSUME IInv, NEW c \in Clients, mem[c].pc = "display"
    PROVE  mem[c].cmd.op # "apply"
BY DEF IInv, ClientsSound, Sound, Placed

(* A call that stores nothing.                                             *)
LEMMA ReadsAccounted ==
    ASSUME IInv, Accounted, NEW c \in Clients, Calls(c), NEW m \in Memory,
           mem' = [mem EXCEPT ![c] = m], m.cmd = mem[c].cmd, UNCHANGED server,
           mem[c].pc \in {"get", "put", "post", "display"},
           m.pc \in {"put", "post", "display", "answered"},
           m.pc = "answered" => m.result # "ok" \/ m.cmd.op # "apply"
    PROVE  Accounted'
<1>1. wrote'[c] = wrote[c] /\ Account(mem[c], run[c], wrote[c]) /\ mem[c].pc \in Calling
  BY DEF Calls, server, IInv, TypeOK, Accounted, Calling
<1>2. Account(m, run[c], wrote'[c])
  BY <1>1, DisplayAlone DEF Account
<1>. QED
  BY <1>1, <1>2, CallAccount

(* A call that stores a revision, and may tell it.                         *)
LEMMA WritesAccounted ==
    ASSUME IInv, Accounted, NEW c \in Clients, Calls(c), Arrives(c),
           mem[c].pc \in {"put", "post", "display"}
    PROVE  Accounted'
<1>. DEFINE ok == [mem[c] EXCEPT !.pc = "answered", !.result = "ok", !.after = written + 1]
            lost == [mem[c] EXCEPT !.pc = "answered", !.result = "lost"]
<1>1. mem[c] \in Memory /\ written' = written + 1 /\ written \in Nat /\ written' \in Revisions
  BY AssetsAssumption DEF Arrives, IInv, TypeOK, Revisions
<1>2. Account(mem[c], run[c], wrote[c]) /\ mem[c].pc \in Calling
  BY DEF Accounted, Calling
<1>3. mem[c].cmd.op = "apply" => wrote[c] = Said(run[c]) /\ wrote'[c] = Append(wrote[c], written')
  BY <1>1, <1>2, DisplayAlone DEF Account, Calls, Applying, IInv, TypeOK
<1>4. CASE mem' = [mem EXCEPT ![c] = ok]
  <2>1. /\ ok.cmd = mem[c].cmd /\ ok.pc = "answered" /\ ok.result = "ok"
        /\ ok.after = written'
    BY <1>1 DEF Memory
  <2>. HIDE DEF ok
  <2>2. Account(ok, run[c], wrote'[c])
    BY <1>2, <1>3, <2>1, DisplayAlone DEF Account
  <2>. QED
    BY <1>2, <1>4, <2>2, CallAccount
<1>5. CASE mem' = [mem EXCEPT ![c] = lost]
  <2>1. /\ lost.cmd = mem[c].cmd /\ lost.pc = "answered" /\ lost.result = "lost"
    BY <1>1 DEF Memory
  <2>. HIDE DEF lost
  <2>2. Account(lost, run[c], wrote'[c])
    BY <1>1, <1>2, <1>3, <2>1, DisplayAlone DEF Account, OneMore
  <2>. QED
    BY <1>2, <1>5, <2>2, CallAccount
<1>. QED
  BY <1>4, <1>5 DEF Arrives, Ended, IInv, TypeOK

(* Removals are no business of an apply. *)
LEMMA RemovalsAccounted ==
    ASSUME IInv, Accounted, NEW c \in Clients, Calls(c), NEW m \in Memory,
           mem' = [mem EXCEPT ![c] = m], m.cmd = mem[c].cmd, m.pc # "idle",
           mem[c].pc \in {"resolve", "remove"}
    PROVE  Accounted'
<1>1. m.cmd.op = "remove" /\ mem[c].pc \in Calling
  BY DEF IInv, ClientsSound, Sound, Placed, Calling
<1>2. Account(m, run[c], wrote'[c])
  BY <1>1 DEF Account
<1>. QED
  BY <1>1, <1>2, CallAccount

(* What may follow a GET. *)
LEMMA FoundRoute ==
    ASSUME IInv, NEW c \in Clients, mem[c].pc = "get"
    PROVE  /\ Route(c).found \in {"put", "display"}
           /\ Route(c).missing \in {"put", "post", "stop"}
           /\ Route(c).failed \in {"put", "post", "stop"}
<1>1. /\ mem[c].cmd.op \in {"apply", "update", "display"} /\ mem[c].key \in AssetKeys
  BY DEF IInv, ClientsSound, Sound, Placed
<1>. QED
  BY <1>1, Routes DEF Route, UpdateTeamDisplay, PutFound

(* Every call is one of these: it reads, or is not taken; or it writes; or *)
(* it removes.                                                             *)
LEMMA CallsAccounted ==
    ASSUME IInv, Accounted, NEW c \in Clients, Calls(c)
    PROVE  Accounted'
<1>1. mem[c] \in Memory /\ Sound(mem[c], store, alone[c]) /\ Account(mem[c], run[c], wrote[c])
  BY DEF IInv, TypeOK, ClientsSound, Accounted
<1>2. CASE Put(c) \/ Post(c) \/ Display(c)
  BY <1>2, WritesAccounted DEF Put, Post, Display
<1>3. ASSUME NEW result \in Results \ {"ok"}, mem' = Ended(c, result), UNCHANGED server,
             mem[c].pc \in {"get", "put", "post", "display"}
      PROVE  Accounted'
  <2>. DEFINE m == [mem[c] EXCEPT !.pc = "answered", !.result = result]
  <2>1. /\ m \in Memory /\ m.cmd = mem[c].cmd /\ m.pc = "answered" /\ m.result = result
    BY <1>1 DEF Memory, Places
  <2>2. mem' = [mem EXCEPT ![c] = m]
    BY <1>3 DEF Ended
  <2>. HIDE DEF m
  <2>. QED
    BY <1>3, <2>1, <2>2, ReadsAccounted
<1>4. CASE PutRefused(c) \/ DisplayRefused(c) \/ WriteFailed(c)
  BY <1>3, <1>4 DEF PutRefused, DisplayRefused, WriteFailed, Results
<1>5. CASE PreflightFound(c)
  <2>. DEFINE m == [mem[c] EXCEPT !.seen = [read |-> TRUE, before |-> store[mem[c].key]],
                                  !.pc = IF mem[c].cmd.dry THEN "answered" ELSE Route(c).found,
                                  !.result = IF mem[c].cmd.dry THEN "ok" ELSE "none"]
  <2>1. /\ mem[c].pc = "get" /\ UNCHANGED server /\ mem' = [mem EXCEPT ![c] = m]
    BY <1>5 DEF PreflightFound
  <2>2. m.cmd = mem[c].cmd
    BY <1>1 DEF Memory
  <2>3. m = mem'[c] /\ mem'[c] \in Memory
    BY <2>1, CallsKeep DEF IInv, TypeOK
  <2>4. m.pc \in {"answered", Route(c).found} /\ (m.pc = "answered" => mem[c].cmd.dry)
    BY <1>1, <2>1, FoundRoute DEF Memory
  <2>5. Route(c).found \in {"put", "display"}
    BY <2>1, FoundRoute
  <2>6. m.pc = "answered" => m.cmd.op # "apply"
    BY <1>1, <2>1, <2>2, <2>4 DEF Account
  <2>. HIDE DEF m
  <2>. QED
    BY <2>1, <2>2, <2>3, <2>4, <2>5, <2>6, ReadsAccounted
<1>6. CASE PreflightMissing(c) \/ PreflightFailed(c)
  <2>1. PICK next \in {"put", "post", "stop"}, seen \in Seen, error \in Results \ {"ok"} :
          Continue(c, next, seen, error) /\ mem[c].pc = "get" /\ UNCHANGED server
    <3>1. mem[c].pc = "get" /\ UNCHANGED server
      BY <1>6 DEF PreflightMissing, PreflightFailed
    <3>2. /\ Route(c).missing \in {"put", "post", "stop"}
          /\ Route(c).failed \in {"put", "post", "stop"}
      BY <3>1, FoundRoute
    <3>3. [Unread EXCEPT !.read = TRUE] \in Seen /\ Unread \in Seen
      BY AbsentType DEF Seen
    <3>4. {"notFound", "failed"} \subseteq Results \ {"ok"}
      BY DEF Results
    <3>. QED
      BY <1>6, <3>1, <3>2, <3>3, <3>4 DEF PreflightMissing, PreflightFailed
  <2>2. CASE next = "stop"
    BY <1>3, <2>1, <2>2 DEF Continue
  <2>3. CASE next # "stop"
    <3>. DEFINE m == [mem[c] EXCEPT !.pc = next, !.seen = seen]
    <3>1. m \in Memory /\ m.cmd = mem[c].cmd /\ m.pc = next
      BY <1>1, <2>3 DEF Memory, Places
    <3>2. mem' = [mem EXCEPT ![c] = m]
      BY <2>1, <2>3 DEF Continue
    <3>. HIDE DEF m
    <3>. QED
      BY <2>1, <2>3, <3>1, <3>2, ReadsAccounted
  <2>. QED
    BY <2>2, <2>3
<1>7. CASE \/ Remove(c) \/ RemoveMissing(c) \/ RemoveFailed(c) \/ RemoveConflict(c)
           \/ ResolveMembers(c) \/ RemoveDone(c)
  <2>1. mem[c].pc \in {"resolve", "remove"}
    BY <1>7 DEF Remove, RemoveMissing, RemoveFailed, RemoveConflict, ResolveMembers, RemoveDone,
       Removing
  <2>2. \/ mem' = Removed(c)
        \/ \E error : mem' = Ended(c, error)
        \/ mem' = [mem EXCEPT ![c].tries = @ + 1]
        \/ mem' = [mem EXCEPT ![c].pc = "remove"]
    BY <1>7 DEF Remove, RemoveMissing, RemoveFailed, RemoveConflict, ResolveMembers, RemoveDone,
       AfterError
  <2>3. mem' = [mem EXCEPT ![c] = mem'[c]] /\ mem'[c].cmd = mem[c].cmd /\ mem'[c].pc # "idle"
    BY <1>1, <2>1, <2>2 DEF Removed, Ended, Memory, IInv, TypeOK
  <2>4. mem'[c] \in Memory
    BY CallsKeep DEF IInv, TypeOK
  <2>. QED
    BY <2>1, <2>3, <2>4, RemovalsAccounted
<1>. QED
  BY <1>2, <1>4, <1>5, <1>6, <1>7 DEF Calls, Call

(* The steps of apply around its calls. *)
LEMMA BeginAccounted ==
    ASSUME IInv, Accounted, NEW c \in Clients, Begin(c)
    PROVE  Accounted'
<1>1. PICK x \in Commands : /\ mem' = [mem EXCEPT ![c] = Started(x)]
                            /\ run' = [run EXCEPT ![c].docs = x.docs]
  BY DEF Begin
<1>2. run[c] = NoRun /\ wrote[c] = <<>> /\ wrote' = [wrote EXCEPT ![c] = <<>>]
  BY DEF Begin, Running, Accounted, Account, IInv, TypeOK
<1>. DEFINE r == [NoRun EXCEPT !.docs = x.docs]
<1>3. r.results = <<>> /\ r.told = <<>>
  BY DEF NoRun
<1>4. run' = [run EXCEPT ![c] = r]
  BY <1>1, <1>2
<1>5. /\ Started(x).pc = FirstPlace(x) /\ Started(x).cmd = x /\ Started(x).result = "none"
      /\ FirstPlace(x) # "idle"
      /\ x.op = "apply" => FirstPlace(x) \in {"ended", "parse"}
      /\ x.op = "apply" /\ FirstPlace(x) = "parse" => ~x.dry
  <2>1. x.op \in {"apply", "update", "display", "remove"}
    BY StartedType DEF CommandLines
  <2>. QED
    BY <2>1, StartedType DEF FirstPlace
<1>. HIDE DEF r
<1>6. Account(Started(x), r, <<>>)
  BY <1>3, <1>5 DEF Account
<1>. QED
  BY <1>1, <1>2, <1>4, <1>6, AccountKeeps

(* A process ends.                                                         *)
LEMMA ExitAccounted ==
    ASSUME IInv, Accounted, NEW c \in Clients, Exit(c)
    PROVE  Accounted'
<1>1. Account(NotStarted, NoRun, <<>>)
  BY NotStartedType DEF Account
<1>. QED
  BY <1>1, AccountKeeps DEF Exit

(* The step of an apply to the first call of a part: what is to be said is *)
(* what has been stored.                                                   *)
LEMMA StartPartAccounted ==
    ASSUME IInv, Accounted, NEW c \in Clients, Applying(c), run[c].docs # <<>>,
           NEW i \in 1..Len(Head(run[c].docs).parts), mem' = StartPart(c, i),
           ~mem[c].cmd.dry,
           NEW r \in Runs, run' = [run EXCEPT ![c] = r], wrote' = wrote, wrote[c] = Said(r)
    PROVE  Accounted'
<1>1. mem[c] \in Memory /\ wrote' = [wrote EXCEPT ![c] = wrote[c]]
  BY DEF IInv, TypeOK
<1>2. PICK m : /\ mem' = [mem EXCEPT ![c] = m] /\ m.cmd = mem[c].cmd
               /\ m.pc \in {"get", "post"}
  <2>. DEFINE key == run[c].docs[1].parts[i]
              m == [mem[c] EXCEPT !.pc = IF key = NoKey THEN "post" ELSE "get",
                                  !.key = key, !.seen = Unread, !.result = "none"]
  <2>1. m.cmd = mem[c].cmd /\ m.pc \in {"get", "post"}
    BY <1>1 DEF Memory
  <2>2. mem' = [mem EXCEPT ![c] = m]
    BY DEF StartPart
  <2>. HIDE DEF m
  <2>. QED
    BY <2>1, <2>2
<1>3. Account(m, r, wrote[c])
  BY <1>2 DEF Account
<1>. QED
  BY <1>1, <1>2, <1>3, AccountKeeps

(* The step of an apply to its report, the next document or its end. *)
LEMMA MoveAccounted ==
    ASSUME IInv, Accounted, NEW c \in Clients, Applying(c), ~mem[c].cmd.dry,
           NEW to \in {"parse", "report", "ended"}, NEW result \in Results,
           mem' = [mem EXCEPT ![c].pc = to, ![c].result = result],
           NEW r, run' = [run EXCEPT ![c] = r], wrote' = wrote,
           to = "parse" => r.results = <<>> /\ wrote[c] = r.told,
           to = "report" => \/ wrote[c] = Said(r)
                            \/ result = "lost" /\ OneMore(wrote[c], Said(r)),
           to = "ended" /\ result # "unprinted" =>
                \/ wrote[c] = r.told
                \/ result = "lost" /\ OneMore(wrote[c], r.told)
    PROVE  Accounted'
<1>. DEFINE m == [mem[c] EXCEPT !.pc = to, !.result = result]
<1>1. mem[c] \in Memory /\ wrote' = [wrote EXCEPT ![c] = wrote[c]]
  BY DEF IInv, TypeOK
<1>2. m.cmd = mem[c].cmd /\ m.pc = to /\ m.result = result
  BY <1>1 DEF Memory
<1>3. mem' = [mem EXCEPT ![c] = m]
  OBVIOUS
<1>. HIDE DEF m
<1>4. Account(m, r, wrote[c])
  BY <1>2 DEF Account
<1>. QED
  BY <1>1, <1>3, <1>4, AccountKeeps

(* Apply turns to the next document with everything said.                  *)
LEMMA NextDocumentAccounted ==
    ASSUME IInv, Accounted, NEW c \in Clients, NextDocument(c)
    PROVE  Accounted'
<1>1. /\ mem[c].pc = "parse" /\ run[c].docs # <<>> /\ Applying(c) /\ run[c] \in Runs
      /\ wrote' = wrote
  BY DEF IInv, TypeOK, NextDocument, ClientsSound, Sound, Placed, Applying
<1>2. ~mem[c].cmd.dry /\ run[c].results = <<>> /\ wrote[c] = run[c].told
  BY <1>1 DEF Accounted, Account, Applying
<1>3. wrote[c] = Said(run[c])
  BY <1>1, <1>2, SaidType
<1>4. CASE Head(run[c].docs).parses
  <2>. DEFINE r == [run[c] EXCEPT !.part = 1]
  <2>1. r \in Runs /\ Said(r) = Said(run[c])
    BY <1>1 DEF Runs, Said
  <2>2. run' = [run EXCEPT ![c] = r] /\ mem' = StartPart(c, 1)
    BY <1>4 DEF NextDocument
  <2>. HIDE DEF r
  <2>3. Head(run[c].docs) \in Documents
    BY <1>1 DEF Runs
  <2>4. 1 \in 1..Len(Head(run[c].docs).parts)
    BY <2>3 DEF Documents, Parts
  <2>. QED
    BY <1>1, <1>2, <1>3, <2>1, <2>2, <2>4, StartPartAccounted
<1>5. CASE ~Head(run[c].docs).parses
  <2>1. /\ mem' = [mem EXCEPT ![c].pc = "report", ![c].result = "failed"]
        /\ run' = [run EXCEPT ![c] = run[c]]
    BY <1>5 DEF NextDocument, IInv, TypeOK
  <2>. QED
    BY <1>1, <1>2, <1>3, <2>1, MoveAccounted DEF Results
<1>. QED
  BY <1>4, <1>5

(* What an answered part adds to the results is what it added to the store. *)
LEMMA PartAnsweredAccounted ==
    ASSUME IInv, Accounted, NEW c \in Clients, PartAnswered(c)
    PROVE  Accounted'
<1>1. /\ mem[c] \in Memory /\ mem[c].pc = "answered" /\ Applying(c) /\ run[c].docs # <<>>
      /\ run[c] \in Runs /\ wrote' = wrote /\ mem[c].result \in Results
  BY DEF IInv, TypeOK, PartAnswered, AtDocument, Memory
<1>. DEFINE p == [rev |-> mem[c].after, updated |-> mem[c].seen.before # Absent]
<1>2. /\ ~mem[c].cmd.dry
      /\ mem[c].result = "ok" => wrote[c] = Append(Said(run[c]), mem[c].after)
      /\ mem[c].result # "ok" => \/ wrote[c] = Said(run[c])
                                 \/ mem[c].result = "lost" /\ OneMore(wrote[c], Said(run[c]))
  BY <1>1 DEF Accounted, Account, Applying
<1>3. p \in PartResults /\ p.rev = mem[c].after
  BY <1>1 DEF Memory, PartResults
<1>4. /\ mem[c].result = "ok" => Collected(c) = Append(run[c].results, p)
      /\ mem[c].result # "ok" => Collected(c) = run[c].results
  BY DEF Collected
<1>. HIDE DEF p
<1>5. run[c].results \in Seq(PartResults) /\ Collected(c) \in Seq(PartResults)
  <2>1. run[c].results \in Seq(PartResults)
    BY <1>1 DEF Runs
  <2>. QED
    BY <1>3, <1>4, <2>1
<1>6. ASSUME NEW r \in Runs, r.told = run[c].told, r.results = Collected(c)
      PROVE  /\ mem[c].result = "ok" => wrote[c] = Said(r)
             /\ mem[c].result # "ok" => Said(r) = Said(run[c])
  <2>1. CASE mem[c].result = "ok"
    BY <1>1, <1>2, <1>3, <1>4, <1>6, <2>1, SaidMore
  <2>2. CASE mem[c].result # "ok"
    BY <1>4, <1>6, <2>2 DEF Said
  <2>. QED
    BY <2>1, <2>2
<1>7. CASE mem[c].result = "ok" /\ run[c].part < Len(Head(run[c].docs).parts)
  <2>. DEFINE r == [run[c] EXCEPT !.results = Collected(c), !.part = run[c].part + 1]
  <2>1. r \in Runs /\ r.told = run[c].told /\ r.results = Collected(c)
    <3>1. run[c].part + 1 \in Nat
      BY <1>1 DEF Runs
    <3>. QED
      BY <1>1, <1>5, <3>1 DEF Runs
  <2>2. run' = [run EXCEPT ![c] = r] /\ mem' = StartPart(c, run[c].part + 1)
    BY <1>7 DEF PartAnswered
  <2>. HIDE DEF r
  <2>3. Head(run[c].docs) \in Documents /\ run[c].part \in Nat
    BY <1>1 DEF Runs
  <2>4. run[c].part + 1 \in 1..Len(Head(run[c].docs).parts)
    BY <1>7, <2>3 DEF Documents, Parts
  <2>5. wrote[c] = Said(r)
    BY <1>6, <1>7, <2>1
  <2>. QED
    BY <1>1, <1>2, <2>1, <2>2, <2>4, <2>5, StartPartAccounted
<1>8. CASE ~(mem[c].result = "ok" /\ run[c].part < Len(Head(run[c].docs).parts))
  <2>. DEFINE r == [run[c] EXCEPT !.results = Collected(c)]
  <2>1. r \in Runs /\ r.told = run[c].told /\ r.results = Collected(c)
    BY <1>1, <1>5 DEF Runs
  <2>2. run' = [run EXCEPT ![c] = r]
    BY <1>8 DEF PartAnswered
  <2>3. mem' = [mem EXCEPT ![c].pc = "report", ![c].result = mem[c].result]
    BY <1>1, <1>8 DEF PartAnswered, Memory
  <2>. HIDE DEF r
  <2>4. \/ wrote[c] = Said(r)
        \/ mem[c].result = "lost" /\ OneMore(wrote[c], Said(r))
    BY <1>2, <1>6, <2>1
  <2>. QED
    BY <1>1, <1>2, <2>1, <2>2, <2>3, <2>4, MoveAccounted
<1>. QED
  BY <1>7, <1>8

(* A report says what is to be said, or ends the run.                      *)
LEMMA ReportsAccounted ==
    ASSUME IInv, Accounted, NEW c \in Clients, Report(c) \/ ReportFailed(c) \/ ApplyDone(c)
    PROVE  Accounted'
<1>1. /\ mem[c] \in Memory /\ mem[c].pc \in {"report", "parse"} /\ Applying(c)
      /\ wrote' = wrote /\ mem[c].result \in Results /\ run[c] \in Runs
  BY DEF IInv, TypeOK, Report, ReportFailed, ApplyDone, ClientsSound, Sound, Placed, Applying,
     Memory
<1>2. /\ ~mem[c].cmd.dry
      /\ mem[c].pc = "parse" => wrote[c] = run[c].told
      /\ mem[c].pc = "report" /\ mem[c].result = "ok" => wrote[c] = Said(run[c])
      /\ mem[c].pc = "report" /\ mem[c].result # "ok" =>
           \/ wrote[c] = Said(run[c])
           \/ mem[c].result = "lost" /\ OneMore(wrote[c], Said(run[c]))
  BY <1>1 DEF Accounted, Account, Applying
<1>3. CASE Report(c) /\ mem[c].result = "ok"
  <2>. DEFINE r == [docs |-> Tail(run[c].docs), part |-> 0, results |-> <<>>,
                    told |-> Said(run[c])]
  <2>1. run' = [run EXCEPT ![c] = r]
    BY <1>3 DEF Report, Said
  <2>2. mem' = [mem EXCEPT ![c].pc = "parse", ![c].result = mem[c].result]
    BY <1>1, <1>3 DEF Report, Memory
  <2>3. r.results = <<>> /\ wrote[c] = r.told
    BY <1>2, <1>3 DEF Report
  <2>. HIDE DEF r
  <2>. QED
    BY <1>1, <1>2, <2>1, <2>2, <2>3, MoveAccounted
<1>4. CASE Report(c) /\ mem[c].result # "ok"
  <2>. DEFINE r == [run[c] EXCEPT !.told = Said(run[c])]
  <2>1. run' = [run EXCEPT ![c] = r]
    BY <1>4 DEF Report, Said
  <2>2. mem' = [mem EXCEPT ![c].pc = "ended", ![c].result = mem[c].result]
    BY <1>1, <1>4 DEF Report, Memory
  <2>3. r.told = Said(run[c])
    BY <1>1 DEF Runs
  <2>4. \/ wrote[c] = r.told
        \/ mem[c].result = "lost" /\ OneMore(wrote[c], r.told)
    BY <1>2, <1>4, <2>3 DEF Report
  <2>. HIDE DEF r
  <2>. QED
    BY <1>1, <1>2, <2>1, <2>2, <2>4, MoveAccounted
<1>5. CASE ReportFailed(c)
  <2>1. /\ mem' = [mem EXCEPT ![c].pc = "ended", ![c].result = "unprinted"]
        /\ run' = [run EXCEPT ![c] = run'[c]]
    BY <1>5 DEF ReportFailed, IInv, TypeOK
  <2>. QED
    BY <1>1, <1>2, <2>1, MoveAccounted DEF Results
<1>6. CASE ApplyDone(c)
  <2>1. /\ mem' = [mem EXCEPT ![c].pc = "ended", ![c].result = "ok"] /\ mem[c].pc = "parse"
        /\ run' = [run EXCEPT ![c] = run[c]]
    BY <1>6 DEF ApplyDone, IInv, TypeOK
  <2>. QED
    BY <1>1, <1>2, <2>1, MoveAccounted DEF Results
<1>. QED
  BY <1>3, <1>4, <1>5, <1>6

(* Every step.                                                             *)
LEMMA NextAccounted == IInv /\ Accounted /\ [Next]_vars => Accounted'
<1>1. ASSUME IInv, Accounted, Next PROVE Accounted'
  BY <1>1, BeginAccounted, CallsAccounted, ExitAccounted, NextDocumentAccounted,
     PartAnsweredAccounted, ReportsAccounted DEF Next
<1>2. ASSUME Accounted, UNCHANGED vars PROVE Accounted'
  BY <1>2 DEF vars, assetVars, Accounted
<1>. QED
  BY <1>1, <1>2

(* The books are kept.                                                     *)
LEMMA AccountInvariance == Spec => []Accounted
BY InitAccounted, NextAccounted, Invariance, PTL DEF Spec

-----------------------------------------------------------------------------
(* What an apply that nobody disturbs has imported. *)

(* A key that was imported shows in the store by a revision its command     *)
(* wrote, or beside it; without a key there is nothing to show.             *)
Imported(k, w, s, t) == k # NoKey => s[k].rev \in Range(w) \/ t[k] > 0

(* What is not imported is still to come: in the documents that are left,   *)
(* and in the first of them, from the part at hand on.                      *)
Progress(m, r, w, s, t) ==
    m.cmd.op = "apply" /\ m.pc \notin {"idle", "ended"} =>
      /\ \A k \in AllParts(m.cmd.docs) : Imported(k, w, s, t) \/ k \in AllParts(r.docs)
      /\ m.pc \in {"get", "put", "post", "answered"} =>
           /\ r.part \in DOMAIN Head(r.docs).parts /\ m.key = Head(r.docs).parts[r.part]
           /\ \A j \in DOMAIN Head(r.docs).parts :
                j < r.part => Imported(Head(r.docs).parts[j], w, s, t)
           /\ m.pc = "answered" /\ m.result = "ok" => Imported(m.key, w, s, t)
      /\ m.pc = "report" /\ m.result = "ok" =>
           \A k \in Range(Head(r.docs).parts) : Imported(k, w, s, t)

Progressing ==
    \A c \in Clients : alone[c] => Progress(mem[c], run[c], wrote[c], store, strays)

(* The parts of documents are keys of assets, or have none.                *)
LEMMA PartsType ==
    ASSUME NEW docs \in Seq(Documents)
    PROVE  AllParts(docs) \subseteq AssetKeys \union {NoKey}
<1>. SUFFICES ASSUME NEW i \in DOMAIN docs, NEW k \in Range(docs[i].parts)
              PROVE  k \in AssetKeys \union {NoKey}
  BY DEF AllParts
<1>1. docs[i] \in Documents
  OBVIOUS
<1>2. docs[i].parts \in Seq(AssetKeys \union {NoKey})
  BY <1>1 DEF Documents, Parts
<1>. QED
  BY <1>2 DEF Range

(* The parts of the first document, and those of the rest. *)
LEMMA PartsOfTail ==
    ASSUME NEW docs \in Seq(Documents), docs # <<>>, NEW k \in AllParts(docs)
    PROVE  k \in Range(Head(docs).parts) \/ k \in AllParts(Tail(docs))
<1>1. PICK i \in DOMAIN docs : k \in Range(docs[i].parts)
  BY DEF AllParts
<1>2. i \in 1..Len(docs) /\ Len(docs) \in Nat
  OBVIOUS
<1>3. CASE i = 1
  BY <1>1, <1>3
<1>4. CASE i # 1
  <2>1. i - 1 \in 1..(Len(docs) - 1) /\ (i - 1) + 1 = i
    BY <1>2, <1>4
  <2>2. DOMAIN Tail(docs) = 1..(Len(docs) - 1) /\ Tail(docs)[i - 1] = docs[i]
    BY <2>1, HeadTailProperties
  <2>. QED
    BY <1>1, <2>1, <2>2 DEF AllParts
<1>. QED
  BY <1>3, <1>4

(* What is in a sequence once something was appended.                      *)
LEMMA AppendRange ==
    ASSUME NEW S, NEW w \in Seq(S), NEW e \in S
    PROVE  Range(w) \subseteq Range(Append(w, e)) /\ e \in Range(Append(w, e))
<1>1. /\ DOMAIN Append(w, e) = 1..(Len(w) + 1) /\ DOMAIN w = 1..Len(w) /\ Len(w) \in Nat
      /\ \A i \in 1..Len(w) : Append(w, e)[i] = w[i]
      /\ Append(w, e)[Len(w) + 1] = e
  BY AppendProperties
<1>2. 1..Len(w) \subseteq 1..(Len(w) + 1) /\ Len(w) + 1 \in 1..(Len(w) + 1)
  BY <1>1
<1>. QED
  BY <1>1, <1>2 DEF Range

(* A step of c, at document r and with w stored; when it is not disturbed, *)
(* nobody else is running.                                                 *)
LEMMA ProgressKeeps ==
    ASSUME IInv, Progressing, NEW c \in Clients, Running(c), NEW m, NEW r, NEW w,
           mem' = [mem EXCEPT ![c] = m], run' = [run EXCEPT ![c] = r],
           wrote' = [wrote EXCEPT ![c] = w], alone' = alone,
           alone[c] => Progress(m, r, w, store', strays')
    PROVE  Progressing'
<1>1. /\ mem'[c] = m /\ run'[c] = r /\ wrote'[c] = w
      /\ \A d \in Clients : d # c => mem'[d] = mem[d] /\ run'[d] = run[d] /\ wrote'[d] = wrote[d]
  BY DEF IInv, TypeOK
<1>2. ASSUME NEW d \in Clients, d # c, alone[d] PROVE mem[d].pc = "idle"
  BY <1>2 DEF IInv, AloneTrue, Running
<1>. QED
  BY <1>1, <1>2 DEF Progressing, Progress

(* The calls of an apply: it reads, or is turned down; or it writes. *)
LEMMA ApplyCalls ==
    ASSUME IInv, Accounted, NEW c \in Clients, Calls(c), Applying(c)
    PROVE  /\ mem[c].pc \in {"get", "put", "post"} /\ mem[c].key \in AssetKeys \union {NoKey}
           /\ mem'[c].cmd = mem[c].cmd /\ mem'[c].key = mem[c].key
           /\ mem'[c].pc \in {"put", "post", "answered"}
           /\ \/ UNCHANGED server /\ (mem'[c].pc = "answered" => mem'[c].result # "ok")
              \/ Put(c) \/ Post(c)
<1>1. /\ mem[c] \in Memory /\ mem \in [Clients -> Memory] /\ Sound(mem[c], store, alone[c])
      /\ Account(mem[c], run[c], wrote[c])
  BY DEF IInv, TypeOK, ClientsSound, Accounted
<1>2. mem[c].pc \notin {"display", "resolve", "remove"} /\ mem[c].cmd.op = "apply"
  BY <1>1 DEF Sound, Placed, Applying
<1>3. \/ PreflightFound(c) \/ PreflightMissing(c) \/ PreflightFailed(c)
      \/ Put(c) \/ PutRefused(c) \/ Post(c) \/ WriteFailed(c)
  BY <1>2 DEF Calls, Call, Display, DisplayRefused, Remove, RemoveMissing, RemoveFailed,
     RemoveConflict, ResolveMembers, RemoveDone, Removing
<1>4. mem[c].pc \in {"get", "put", "post"} /\ mem[c].key \in AssetKeys \union {NoKey}
  BY <1>1, <1>2, <1>3 DEF PreflightFound, PreflightMissing, PreflightFailed, Put, PutRefused, Post,
     WriteFailed, Memory
<1>5. ASSUME NEW result, mem' = Ended(c, result)
      PROVE  /\ mem'[c].cmd = mem[c].cmd /\ mem'[c].key = mem[c].key
             /\ mem'[c].pc = "answered" /\ mem'[c].result = result
  BY <1>1, <1>5 DEF Ended, Memory
<1>6. CASE Put(c) \/ Post(c)
  <2>1. mem' = [Ended(c, "ok") EXCEPT ![c].after = written + 1] \/ mem' = Ended(c, "lost")
    BY <1>6 DEF Put, Post, Arrives
  <2>2. CASE mem' = [Ended(c, "ok") EXCEPT ![c].after = written + 1]
    BY <1>1, <1>4, <1>6, <2>2 DEF Ended, Memory
  <2>. QED
    BY <1>4, <1>5, <1>6, <2>1, <2>2
<1>7. CASE PutRefused(c) \/ WriteFailed(c)
  BY <1>4, <1>5, <1>7 DEF PutRefused, WriteFailed
<1>8. CASE PreflightFound(c)
  <2>1. mem[c].pc = "get" /\ ~mem[c].cmd.dry /\ UNCHANGED server
    BY <1>1, <1>2, <1>8 DEF PreflightFound, Account
  <2>2. Route(c).found = "put"
    BY <1>1, <1>2, <2>1, Routes DEF Route, Sound, Placed
  <2>3. mem' = [mem EXCEPT ![c].seen = [read |-> TRUE, before |-> store[mem[c].key]],
                           ![c].pc = "put", ![c].result = "none"]
    BY <1>8, <2>1, <2>2 DEF PreflightFound
  <2>. QED
    BY <1>1, <1>4, <2>1, <2>3 DEF Memory
<1>9. CASE PreflightMissing(c) \/ PreflightFailed(c)
  <2>1. mem[c].pc = "get" /\ UNCHANGED server
    BY <1>9 DEF PreflightMissing, PreflightFailed
  <2>2. ASSUME NEW next \in {"put", "post", "stop"}, NEW seen, NEW error \in {"notFound", "failed"},
               Continue(c, next, seen, error)
        PROVE  /\ mem'[c].cmd = mem[c].cmd /\ mem'[c].key = mem[c].key
               /\ mem'[c].pc \in {"put", "post", "answered"}
               /\ mem'[c].pc = "answered" => mem'[c].result # "ok"
    <3>1. CASE next = "stop"
      BY <1>5, <2>2, <3>1 DEF Continue
    <3>2. CASE next # "stop"
      BY <1>1, <2>2, <3>2 DEF Continue, Memory
    <3>. QED
      BY <3>1, <3>2
  <2>3. /\ Route(c).missing \in {"put", "post", "stop"}
        /\ Route(c).failed \in {"put", "post", "stop"}
    BY <2>1, FoundRoute
  <2>4. CASE PreflightMissing(c)
    <3>1. Continue(c, Route(c).missing, [Unread EXCEPT !.read = TRUE], "notFound")
      BY <2>4 DEF PreflightMissing
    <3>. QED
      BY <1>4, <2>1, <2>2, <2>3, <3>1
  <2>5. CASE PreflightFailed(c)
    <3>1. Continue(c, Route(c).failed, Unread, "failed")
      BY <2>5 DEF PreflightFailed
    <3>. QED
      BY <1>4, <2>1, <2>2, <2>3, <3>1
  <2>. QED
    BY <1>9, <2>4, <2>5
<1>. QED
  BY <1>3, <1>6, <1>7, <1>8, <1>9

(* No call of an apply takes away what it has imported, and one that is    *)
(* taken imports its part.                                                 *)
LEMMA ImportedMore ==
    ASSUME IInv, Accounted, NEW c \in Clients, Calls(c), Applying(c)
    PROVE  /\ \A k \in AssetKeys \union {NoKey} :
                Imported(k, wrote[c], store, strays) => Imported(k, wrote'[c], store', strays')
           /\ Put(c) \/ Post(c) => Imported(mem[c].key, wrote'[c], store', strays')
<1>1. /\ store \in [Keys -> Assets] /\ strays \in [Keys -> Nat] /\ wrote[c] \in Seq(Revisions)
      /\ AssetKeys \subseteq Keys /\ wrote \in [Clients -> Seq(Revisions)]
  BY DEF IInv, TypeOK, AssetKeys
<1>2. CASE UNCHANGED server /\ ~(Put(c) \/ Post(c))
  <2>1. wrote'[c] = wrote[c] /\ store' = store /\ strays' = strays
    BY <1>1, <1>2 DEF Calls, server
  <2>. QED
    BY <1>2, <2>1
<1>3. CASE Put(c) \/ Post(c)
  <2>. DEFINE key == mem[c].key
  <2>1. /\ written' = written + 1 /\ written \in Nat /\ written' \in Revisions
        /\ key \in AssetKeys \union {NoKey}
    BY <1>3, AssetsAssumption, CallsKeep, ApplyCalls DEF Put, Post, Arrives, IInv, TypeOK, Revisions
  <2>2. wrote'[c] = Append(wrote[c], written')
    BY <1>1, <2>1 DEF Calls
  <2>3. Range(wrote[c]) \subseteq Range(wrote'[c]) /\ written' \in Range(wrote'[c])
    BY <1>1, <2>1, <2>2, AppendRange
  <2>4. \/ store' = [store EXCEPT ![key] = Written(written')] /\ strays' = strays
        \/ /\ strays' = IF key = NoKey THEN strays ELSE [strays EXCEPT ![key] = @ + 1]
           /\ store' = store
    BY <1>3, <2>1 DEF Put, Post, Stores, StoreAt, StoreElsewhere
  <2>5. (key # NoKey \/ store' = store) /\ NoKey \notin AssetKeys
    <3>1. Put(c) => key \in AssetKeys
      BY DEF Put, IInv, ClientsSound, Sound, Placed
    <3>. QED
      BY <1>3, <3>1, AssetsAssumption DEF AssetKeys, Post, StoreElsewhere
  <2>6. Written(written').rev = written'
    BY DEF Written
  <2>. HIDE DEF key
  <2>7. ASSUME NEW k \in AssetKeys
        PROVE  /\ store'[k] = store[k] \/ (k = key /\ store'[k].rev = written')
               /\ strays'[k] = strays[k] \/ strays'[k] > 0
               /\ k = key => store'[k].rev = written' \/ strays'[k] > 0
               /\ strays'[k] >= strays[k]
    <3>1. k \in Keys /\ strays[k] \in Nat /\ strays[k] + 1 > 0
      BY <1>1
    <3>2. CASE store' = [store EXCEPT ![key] = Written(written')] /\ strays' = strays
      BY <1>1, <2>6, <3>1, <3>2
    <3>3. CASE /\ strays' = IF key = NoKey THEN strays ELSE [strays EXCEPT ![key] = @ + 1]
               /\ store' = store
      BY <1>1, <2>5, <3>1, <3>3
    <3>. QED
      BY <2>4, <3>2, <3>3
  <2>8. ASSUME NEW k \in AssetKeys, Imported(k, wrote[c], store, strays)
        PROVE  Imported(k, wrote'[c], store', strays')
    <3>1. /\ strays[k] \in Nat /\ strays'[k] >= strays[k] /\ k # NoKey
          /\ store'[k] = store[k] \/ store'[k].rev = written'
      BY <1>1, <2>5, <2>7
    <3>2. strays'[k] \in Nat
      BY <1>1, CallsKeep DEF IInv, TypeOK
    <3>3. strays[k] > 0 => strays'[k] > 0
      BY <3>1, <3>2
    <3>. QED
      BY <2>3, <2>8, <3>1, <3>3 DEF Imported
  <2>9. key = NoKey \/ Imported(key, wrote'[c], store', strays')
    BY <2>1, <2>3, <2>7 DEF Imported
  <2>. QED
    BY <2>8, <2>9 DEF Imported, key
<1>. QED
  BY <1>2, <1>3, ApplyCalls

(* A call of an apply. *)
LEMMA CallsProgress ==
    ASSUME IInv, Accounted, Progressing, NEW c \in Clients, Calls(c)
    PROVE  Progressing'
<1>1. /\ mem[c] \in Memory /\ mem[c].pc \in Calling /\ alone' = alone /\ run' = run
      /\ mem' = [mem EXCEPT ![c] = mem'[c]] /\ run' = [run EXCEPT ![c] = run[c]]
      /\ wrote' = [wrote EXCEPT ![c] = wrote'[c]] /\ run[c] \in Runs
  <2>1. mem[c].pc \in Calling
    BY DEF Calls, Call, PreflightFound, PreflightMissing, PreflightFailed, Put, PutRefused, Post,
       WriteFailed, Display, DisplayRefused, Remove, RemoveMissing, RemoveFailed, RemoveConflict,
       ResolveMembers, RemoveDone, Removing, Calling
  <2>2. \E m : mem' = [mem EXCEPT ![c] = m]
    <3>. SUFFICES mem' \in [Clients -> Memory] /\ \A d \in Clients \ {c} : mem'[d] = mem[d]
      BY DEF IInv, TypeOK
    <3>1. mem' \in [Clients -> Memory]
      BY CallsKeep DEF IInv, TypeOK
    <3>. QED
      BY <3>1 DEF Calls, Call, PreflightFound, PreflightMissing, PreflightFailed, Put, PutRefused,
         Post, WriteFailed, Display, DisplayRefused, Remove, RemoveMissing, RemoveFailed,
         RemoveConflict, ResolveMembers, RemoveDone, Removing, Arrives, AfterError, Removed,
         Continue, Ended, IInv, TypeOK
  <2>. QED
    BY <2>1, <2>2 DEF Calls, IInv, TypeOK
<1>2. Running(c)
  BY <1>1 DEF Calling, Running
<1>3. mem'[c].cmd = mem[c].cmd
  <2>1. mem' \in [Clients -> Memory]
    BY CallsKeep DEF IInv, TypeOK
  <2>. QED
    BY <1>1 DEF Calls, Call, PreflightFound, PreflightMissing, PreflightFailed, Put, PutRefused,
       Post, WriteFailed, Display, DisplayRefused, Remove, RemoveMissing, RemoveFailed,
       RemoveConflict, ResolveMembers, RemoveDone, Removing, Arrives, AfterError, Removed,
       Continue, Ended, IInv, TypeOK, Memory
<1>4. ASSUME alone[c] PROVE Progress(mem'[c], run[c], wrote'[c], store', strays')
  <2>1. CASE ~Applying(c)
    BY <1>3, <2>1 DEF Progress, Applying
  <2>2. CASE Applying(c)
    <3>1. /\ mem[c].pc \in {"get", "put", "post"} /\ mem'[c].key = mem[c].key
          /\ mem'[c].pc \in {"put", "post", "answered"}
          /\ mem'[c].pc = "answered" /\ mem'[c].result = "ok" => Put(c) \/ Post(c)
      BY <2>2, ApplyCalls
    <3>2. Progress(mem[c], run[c], wrote[c], store, strays)
      BY <1>4 DEF Progressing
    <3>3. run[c].docs # <<>> /\ run[c].docs \in Seq(Documents)
      BY <1>1, <2>2, <3>1 DEF IInv, AtDocument, Runs
    <3>4. Head(run[c].docs).parts \in Seq(AssetKeys \union {NoKey})
      <4>1. Head(run[c].docs) \in Documents
        BY <3>3
      <4>. QED
        BY <4>1 DEF Documents, Parts
    <3>5. /\ AllParts(mem[c].cmd.docs) \subseteq AssetKeys \union {NoKey}
          /\ \A j \in DOMAIN Head(run[c].docs).parts :
               Head(run[c].docs).parts[j] \in AssetKeys \union {NoKey}
      <4>1. mem[c].cmd \in CommandLines
        BY <1>1, AssetsAssumption DEF Memory
      <4>. QED
        BY <3>4, <4>1, PartsType DEF CommandLines
    <3>. QED
      BY <1>3, <2>2, <3>1, <3>2, <3>5, ImportedMore DEF Progress, Applying
  <2>. QED
    BY <2>1, <2>2
<1>5. PICK m, r, w : m = mem'[c] /\ r = run[c] /\ w = wrote'[c]
  OBVIOUS
<1>6. alone[c] => Progress(m, r, w, store', strays')
  BY <1>4, <1>5
<1>7. /\ mem' = [mem EXCEPT ![c] = m] /\ run' = [run EXCEPT ![c] = r]
      /\ wrote' = [wrote EXCEPT ![c] = w] /\ alone' = alone
  BY <1>1, <1>5
<1>. QED
  BY <1>2, <1>6, <1>7, ProgressKeeps

(* The steps of apply around its calls. *)
LEMMA BeginProgress ==
    ASSUME IInv, Progressing, NEW c \in Clients, Begin(c)
    PROVE  Progressing'
<1>1. PICK x \in Commands : /\ mem' = [mem EXCEPT ![c] = Started(x)]
                            /\ run' = [run EXCEPT ![c].docs = x.docs]
  BY DEF Begin
<1>2. /\ mem'[c] = Started(x) /\ run'[c].docs = x.docs
      /\ \A d \in Clients : d # c => mem'[d] = mem[d]
  BY <1>1 DEF IInv, TypeOK, Runs
<1>3. /\ Started(x).cmd = x /\ Started(x).pc = FirstPlace(x)
      /\ x.op = "apply" => FirstPlace(x) \in {"ended", "parse"}
  BY StartedType
<1>4. ASSUME NEW w, NEW s, NEW t PROVE Progress(Started(x), run'[c], w, s, t)
  BY <1>2, <1>3 DEF Progress
<1>5. ASSUME NEW d \in Clients, d # c, alone'[d] PROVE mem[d].pc = "idle"
  BY <1>5 DEF Begin, Running
<1>. QED
  BY <1>2, <1>4, <1>5 DEF Progressing, Progress

(* A process ends.                                                         *)
LEMMA ExitProgress ==
    ASSUME IInv, Progressing, NEW c \in Clients, Exit(c)
    PROVE  Progressing'
<1>1. /\ mem'[c] = NotStarted
      /\ \A d \in Clients : d # c => /\ mem'[d] = mem[d] /\ run'[d] = run[d]
                                     /\ wrote'[d] = wrote[d] /\ alone'[d] = alone[d]
      /\ store' = store /\ strays' = strays
  BY DEF Exit, server, IInv, TypeOK
<1>. QED
  BY <1>1, NotStartedType DEF Progressing, Progress

(* The first call of a part, when the parts before it are imported. *)
LEMMA StartPartProgress ==
    ASSUME IInv, Progressing, NEW c \in Clients, Running(c), Applying(c), run[c].docs # <<>>,
           NEW i \in DOMAIN Head(run[c].docs).parts, mem' = StartPart(c, i),
           UNCHANGED <<server, wrote, alone>>,
           NEW r, run' = [run EXCEPT ![c] = r], r.docs = run[c].docs, r.part = i,
           alone[c] =>
             /\ \A k \in AllParts(mem[c].cmd.docs) :
                  Imported(k, wrote[c], store, strays) \/ k \in AllParts(run[c].docs)
             /\ \A j \in DOMAIN Head(run[c].docs).parts :
                  j < i => Imported(Head(run[c].docs).parts[j], wrote[c], store, strays)
    PROVE  Progressing'
<1>1. /\ mem[c] \in Memory /\ wrote' = [wrote EXCEPT ![c] = wrote[c]] /\ alone' = alone
      /\ store' = store /\ strays' = strays /\ run[c].docs \in Seq(Documents)
  BY DEF server, IInv, TypeOK, Runs
<1>2. PICK m : /\ mem' = [mem EXCEPT ![c] = m] /\ m.cmd = mem[c].cmd
               /\ m.pc \in {"get", "post"} /\ m.key = Head(run[c].docs).parts[i]
  <2>. DEFINE key == run[c].docs[1].parts[i]
              m == [mem[c] EXCEPT !.pc = IF key = NoKey THEN "post" ELSE "get",
                                  !.key = key, !.seen = Unread, !.result = "none"]
  <2>1. m.cmd = mem[c].cmd /\ m.pc \in {"get", "post"} /\ m.key = key
    BY <1>1 DEF Memory
  <2>2. mem' = [mem EXCEPT ![c] = m]
    BY DEF StartPart
  <2>3. Head(run[c].docs) = run[c].docs[1]
    BY <1>1
  <2>. HIDE DEF m
  <2>. QED
    BY <2>1, <2>2, <2>3
<1>3. alone[c] => Progress(m, r, wrote[c], store', strays')
  BY <1>1, <1>2 DEF Progress
<1>. QED
  BY <1>1, <1>2, <1>3, ProgressKeeps

(* The step of an apply to its report, the next document or its end. *)
LEMMA MoveProgress ==
    ASSUME IInv, Progressing, NEW c \in Clients, Running(c), Applying(c),
           NEW to \in {"parse", "report", "ended"}, NEW result \in Results,
           mem' = [mem EXCEPT ![c].pc = to, ![c].result = result],
           UNCHANGED <<server, wrote, alone>>, NEW r, run' = [run EXCEPT ![c] = r],
           to # "ended" /\ alone[c] =>
             \A k \in AllParts(mem[c].cmd.docs) :
               Imported(k, wrote[c], store, strays) \/ k \in AllParts(r.docs),
           to = "report" /\ result = "ok" /\ alone[c] =>
             \A k \in Range(Head(r.docs).parts) : Imported(k, wrote[c], store, strays)
    PROVE  Progressing'
<1>1. PICK m : m = [mem[c] EXCEPT !.pc = to, !.result = result]
  OBVIOUS
<1>2. /\ mem[c] \in Memory /\ wrote' = [wrote EXCEPT ![c] = wrote[c]] /\ alone' = alone
      /\ store' = store /\ strays' = strays
  BY DEF server, IInv, TypeOK
<1>3. m.cmd = mem[c].cmd /\ m.pc = to /\ m.result = result /\ mem' = [mem EXCEPT ![c] = m]
  BY <1>1, <1>2 DEF Memory
<1>4. alone[c] => Progress(m, r, wrote[c], store', strays')
  BY <1>2, <1>3 DEF Progress, Applying
<1>. QED
  BY <1>2, <1>3, <1>4, ProgressKeeps

(* Apply turns to the next document, with no part of it done.              *)
LEMMA NextDocumentProgress ==
    ASSUME IInv, Progressing, NEW c \in Clients, NextDocument(c)
    PROVE  Progressing'
<1>1. /\ mem[c].pc = "parse" /\ run[c].docs # <<>> /\ Applying(c) /\ run[c] \in Runs
      /\ UNCHANGED <<server, wrote, alone>> /\ Running(c)
  BY DEF IInv, TypeOK, NextDocument, ClientsSound, Sound, Placed, Applying, Running
<1>2. alone[c] => \A k \in AllParts(mem[c].cmd.docs) :
                    Imported(k, wrote[c], store, strays) \/ k \in AllParts(run[c].docs)
  BY <1>1 DEF Progressing, Progress, Applying
<1>3. CASE Head(run[c].docs).parses
  <2>1. PICK r : r = [run[c] EXCEPT !.part = 1]
    OBVIOUS
  <2>2. run' = [run EXCEPT ![c] = r] /\ mem' = StartPart(c, 1)
    BY <1>3, <2>1 DEF NextDocument
  <2>3. Head(run[c].docs) \in Documents /\ r.docs = run[c].docs /\ r.part = 1
    BY <1>1, <2>1 DEF Runs
  <2>4. PICK parts \in Parts : parts = Head(run[c].docs).parts
    BY <2>3 DEF Documents
  <2>5. 1 \in DOMAIN parts /\ \A j \in DOMAIN parts : ~(j < 1)
    BY DEF Parts
  <2>. QED
    BY <1>1, <1>2, <2>2, <2>3, <2>4, <2>5, StartPartProgress
<1>4. CASE ~Head(run[c].docs).parses
  <2>1. /\ mem' = [mem EXCEPT ![c].pc = "report", ![c].result = "failed"]
        /\ run' = [run EXCEPT ![c] = run[c]]
    BY <1>4 DEF NextDocument, IInv, TypeOK
  <2>. QED
    BY <1>1, <1>2, <2>1, MoveProgress DEF Results
<1>. QED
  BY <1>3, <1>4

(* A part that was imported is the last of what is done.                   *)
LEMMA PartAnsweredProgress ==
    ASSUME IInv, Progressing, NEW c \in Clients, PartAnswered(c)
    PROVE  Progressing'
<1>1. /\ mem[c] \in Memory /\ mem[c].pc = "answered" /\ Applying(c) /\ run[c].docs # <<>>
      /\ run[c] \in Runs /\ mem[c].result \in Results /\ Running(c)
      /\ UNCHANGED <<server, wrote, alone>>
  BY DEF IInv, TypeOK, PartAnswered, AtDocument, Memory, Running
<1>2. PICK parts \in Parts : parts = Head(run[c].docs).parts
  <2>1. Head(run[c].docs) \in Documents
    BY <1>1 DEF Runs
  <2>. QED
    BY <2>1 DEF Documents
<1>3. PICK part \in Nat : part = run[c].part
  BY <1>1 DEF Runs
<1>4. DOMAIN parts = 1..Len(parts) /\ Len(parts) \in Nat
  BY DEF Parts
<1>5. ASSUME alone[c]
      PROVE  /\ \A k \in AllParts(mem[c].cmd.docs) :
                  Imported(k, wrote[c], store, strays) \/ k \in AllParts(run[c].docs)
             /\ part \in DOMAIN parts
             /\ mem[c].result = "ok" =>
                  \A j \in DOMAIN parts :
                    j < part + 1 => Imported(parts[j], wrote[c], store, strays)
  <2>1. Progress(mem[c], run[c], wrote[c], store, strays)
    BY <1>5 DEF Progressing
  <2>2. /\ part \in DOMAIN parts /\ mem[c].key = parts[part]
        /\ \A j \in DOMAIN parts : j < part => Imported(parts[j], wrote[c], store, strays)
        /\ mem[c].result = "ok" => Imported(mem[c].key, wrote[c], store, strays)
    BY <1>1, <1>2, <1>3, <2>1 DEF Progress, Applying
  <2>3. \A j \in DOMAIN parts : j < part + 1 => j < part \/ j = part
    BY <1>4
  <2>. QED
    BY <1>1, <2>1, <2>2, <2>3 DEF Progress, Applying
<1>6. CASE mem[c].result = "ok" /\ part < Len(parts)
  <2>1. PICK r : r = [run[c] EXCEPT !.results = Collected(c), !.part = part + 1]
    OBVIOUS
  <2>2. run' = [run EXCEPT ![c] = r] /\ mem' = StartPart(c, part + 1)
    BY <1>2, <1>3, <1>6, <2>1 DEF PartAnswered
  <2>3. r.docs = run[c].docs /\ r.part = part + 1
    BY <1>1, <2>1 DEF Runs
  <2>4. part + 1 \in DOMAIN parts
    BY <1>4, <1>6
  <2>. QED
    BY <1>1, <1>2, <1>5, <1>6, <2>2, <2>3, <2>4, StartPartProgress
<1>7. CASE ~(mem[c].result = "ok" /\ part < Len(parts))
  <2>1. PICK r : r = [run[c] EXCEPT !.results = Collected(c)]
    OBVIOUS
  <2>2. run' = [run EXCEPT ![c] = r]
    BY <1>2, <1>3, <1>7, <2>1 DEF PartAnswered
  <2>3. mem' = [mem EXCEPT ![c].pc = "report", ![c].result = mem[c].result]
    BY <1>1, <1>2, <1>3, <1>7 DEF PartAnswered, Memory
  <2>4. r.docs = run[c].docs
    BY <1>1, <2>1 DEF Runs
  <2>5. mem[c].result = "ok" /\ alone[c] =>
          \A k \in Range(parts) : Imported(k, wrote[c], store, strays)
    <3>1. mem[c].result = "ok" /\ alone[c] => \A j \in DOMAIN parts : j < part + 1
      BY <1>4, <1>5, <1>7
    <3>. QED
      BY <1>5, <3>1 DEF Range
  <2>. QED
    BY <1>1, <1>2, <1>5, <2>2, <2>3, <2>4, <2>5, MoveProgress
<1>. QED
  BY <1>6, <1>7

(* A document that is reported well has been imported as a whole.          *)
LEMMA ReportsProgress ==
    ASSUME IInv, Progressing, NEW c \in Clients, Report(c) \/ ReportFailed(c) \/ ApplyDone(c)
    PROVE  Progressing'
<1>1. /\ mem[c] \in Memory /\ mem[c].pc \in {"report", "parse"} /\ Applying(c) /\ Running(c)
      /\ UNCHANGED <<server, wrote, alone>> /\ mem[c].result \in Results /\ run[c] \in Runs
      /\ mem[c].pc = "report" => run[c].docs # <<>>
  BY DEF IInv, TypeOK, Report, ReportFailed, ApplyDone, ClientsSound, Sound, Placed, Applying,
     Memory, Running, AtDocument
<1>2. alone[c] => Progress(mem[c], run[c], wrote[c], store, strays)
  BY DEF Progressing
<1>3. CASE Report(c) /\ mem[c].result = "ok"
  <2>1. PICK r : r = [docs |-> Tail(run[c].docs), part |-> 0, results |-> <<>>,
                      told |-> run[c].told \o Revs(run[c].results)]
    OBVIOUS
  <2>2. run' = [run EXCEPT ![c] = r]
    BY <1>3, <2>1 DEF Report
  <2>3. mem' = [mem EXCEPT ![c].pc = "parse", ![c].result = mem[c].result]
    BY <1>1, <1>3 DEF Report, Memory
  <2>4. ASSUME alone[c], NEW k \in AllParts(mem[c].cmd.docs)
        PROVE  Imported(k, wrote[c], store, strays) \/ k \in AllParts(r.docs)
    <3>1. \/ Imported(k, wrote[c], store, strays)
          \/ k \in AllParts(run[c].docs) /\ k \notin Range(Head(run[c].docs).parts)
      BY <1>1, <1>2, <1>3, <2>4 DEF Progress, Applying, Report
    <3>2. run[c].docs \in Seq(Documents) /\ run[c].docs # <<>>
      BY <1>1, <1>3 DEF Runs, Report
    <3>. QED
      BY <2>1, <3>1, <3>2, PartsOfTail
  <2>. QED
    BY <1>1, <2>2, <2>3, <2>4, MoveProgress
<1>4. CASE ~(Report(c) /\ mem[c].result = "ok")
  <2>1. PICK result \in Results : mem' = [mem EXCEPT ![c].pc = "ended", ![c].result = result]
    <3>1. CASE Report(c)
      <4>1. mem' = [mem EXCEPT ![c].pc = "ended", ![c].result = mem[c].result]
        BY <1>1, <1>4, <3>1 DEF Report, Memory
      <4>. QED
        BY <1>1, <4>1
    <3>2. CASE ReportFailed(c) \/ ApplyDone(c)
      BY <3>2 DEF ReportFailed, ApplyDone, Results
    <3>. QED
      BY <3>1, <3>2
  <2>2. run' = [run EXCEPT ![c] = run'[c]]
    BY <1>4 DEF Report, ReportFailed, ApplyDone, IInv, TypeOK
  <2>. QED
    BY <1>1, <2>1, <2>2, MoveProgress
<1>. QED
  BY <1>3, <1>4

(* Nothing is under way at first.                                          *)
LEMMA InitProgress == Init => Progressing
BY NotStartedType DEF Init, Progressing, Progress

(* Every step.                                                             *)
LEMMA NextProgress == IInv /\ Accounted /\ Progressing /\ [Next]_vars => Progressing'
<1>1. ASSUME IInv, Accounted, Progressing, Next PROVE Progressing'
  BY <1>1, BeginProgress, CallsProgress, ExitProgress, NextDocumentProgress, PartAnsweredProgress,
     ReportsProgress DEF Next
<1>2. ASSUME Progressing, UNCHANGED vars PROVE Progressing'
  BY <1>2 DEF vars, assetVars, Progressing
<1>. QED
  BY <1>1, <1>2

-----------------------------------------------------------------------------
(* The theorems. *)

(* Every variable keeps its type: in particular what a client remembers of  *)
(* an asset is a state the asset can be in (Assets, AssetCommands: TypeOK). *)
THEOREM AssetTypeCorrect == Spec => []TypeOK
<1>1. IInv => TypeOK
  BY DEF IInv
<1>. QED
  BY <1>1, Invariance, PTL

(* A command that nobody disturbed, and whose GET was answered, is never   *)
(* turned down, whatever kind of asset it writes (internal/asset).         *)
THEOREM UndisturbedAccepted == Spec => []UndisturbedSucceeds
<1>1. IInv => UndisturbedSucceeds
  BY DEF IInv, ClientsSound, Sound, UpToDate, UndisturbedSucceeds
<1>. QED
  BY <1>1, Invariance, PTL

(* A removal that reports success, and that nobody disturbed, has removed   *)
(* all of its targets, whatever was retried or forgiven on the way          *)
(* (spamfilters/delete.go, teams/remove_members.go, client.go:472-496).     *)
THEOREM RemovalsComplete == Spec => []RemovalCompletes
<1>1. IInv => RemovalCompletes
  BY DEF IInv, ClientsSound, Sound, Remaining, RemovalCompletes, Range, Known
<1>. QED
  BY <1>1, Invariance, PTL

(* When an apply ends, its output has named every asset it stored, in the  *)
(* order it stored them, but for one whose answer was lost: any number of  *)
(* documents and of parts, any failure (apply.go, runApply).               *)
THEOREM ReportsComplete == Spec => []ApplyReports
<1>1. IInv /\ Accounted => ApplyReports
  <2>. SUFFICES ASSUME IInv, Accounted, NEW c \in Clients,
                       mem[c].pc = "ended", Applying(c), mem[c].result # "unprinted",
                       run[c].told # wrote[c]
                PROVE  /\ mem[c].result = "lost"
                       /\ run[c].told = SubSeq(wrote[c], 1, Len(wrote[c]) - 1)
    BY DEF ApplyReports
  <2>1. mem[c].result = "lost" /\ OneMore(wrote[c], run[c].told)
    BY DEF Accounted, Account, Applying
  <2>2. PICK rev \in Revisions : wrote[c] = Append(run[c].told, rev)
    BY <2>1 DEF OneMore
  <2>3. run[c].told \in Seq(StoredRevisions) /\ rev \in StoredRevisions
    BY DEF IInv, TypeOK, Runs, Revisions, StoredRevisions
  <2>. QED
    BY <2>1, <2>2, <2>3, AppendLess
<1>. QED
  BY <1>1, Invariance, AccountInvariance, PTL

(* What a PUT replaces is what its command was told, and has printed: for  *)
(* a recording rule always, by the version that it carries, for the rest   *)
(* as long as nobody else runs (asset/recordingrule.go, asset/dashboard.go). *)
THEOREM DiffsAreTrue == Spec => DiffIsTrue
<1>. DEFINE Step == \A c \in Clients :
         Put(c) /\ mem[c].seen.read /\ (alone[c] \/ mem[c].key.kind = "recordingRule")
           => mem[c].seen.before = store[mem[c].key]
<1>1. IInv => Step
  <2>. SUFFICES ASSUME IInv, NEW c \in Clients, Put(c), mem[c].seen.read,
                       alone[c] \/ mem[c].key.kind = "recordingRule"
                PROVE  mem[c].seen.before = store[mem[c].key]
    OBVIOUS
  <2>1. /\ mem[c].pc = "put" /\ Accepts(mem[c].key, Version(c)) /\ mem[c].key \in AssetKeys
        /\ mem[c].key \in Keys /\ Sound(mem[c], store, alone[c])
    BY DEF Put, IInv, ClientsSound, Sound, Placed, AssetKeys
  <2>2. CASE alone[c]
    BY <2>1, <2>2 DEF Sound, UpToDate
  <2>3. CASE mem[c].key.kind = "recordingRule"
    <3>1. mem[c].seen.before.rev = store[mem[c].key].rev
      BY <2>1, <2>3 DEF Accepts, Version, CarryRecordingRuleVersion
    <3>2. /\ mem[c].seen.before = Written(mem[c].seen.before.rev)
          /\ store[mem[c].key] = Written(store[mem[c].key].rev)
      BY <2>1, <2>3 DEF Sound, Versioned, IInv, StoreWhole
    <3>. QED
      BY <3>1, <3>2
  <2>. QED
    BY <2>2, <2>3
<1>2. IInv => [Step]_vars
  BY <1>1
<1>. QED
  BY <1>2, Invariance, PTL DEF DiffIsTrue

(* A document with an identifier makes a second asset only where the API   *)
(* leaves no choice; no failure, and no other client, leads to one more    *)
(* (asset/team.go:51-70: only a 404 turns an update into a create).        *)
THEOREM NoSecondAsset == Spec => NoDuplicate
<1>. DEFINE Step == \A k \in Keys : strays'[k] # strays[k]
         => k.by = "id" /\ k.kind \in {"team", "spamFilter"} /\ ~Known(k)
<1>1. ASSUME IInv, Next PROVE Step
  <2>. SUFFICES ASSUME NEW k \in Keys, strays'[k] # strays[k]
                PROVE  k.by = "id" /\ k.kind \in {"team", "spamFilter"} /\ ~Known(k)
    OBVIOUS
  <2>1. PICK c \in Clients : Put(c) \/ Post(c)
    BY <1>1 DEF Next, Begin, Calls, Exit, NextDocument, PartAnswered, Report, ReportFailed,
       ApplyDone, server, Call, PreflightFound, PreflightMissing, PreflightFailed, PutRefused,
       WriteFailed, Display, DisplayRefused, Remove, RemoveMissing, RemoveFailed, RemoveConflict,
       ResolveMembers, RemoveDone
  <2>2. strays \in [Keys -> Nat] /\ Sound(mem[c], store, alone[c])
    BY <1>1 DEF IInv, TypeOK, ClientsSound
  <2>3. CASE Put(c)
    BY <2>2, <2>3 DEF Put, Stores, StoreElsewhere, StoreAt
  <2>4. CASE Post(c)
    BY <2>2, <2>4 DEF Post, StoreElsewhere, Sound, Justified, TeamById, Known
  <2>. QED
    BY <2>1, <2>3, <2>4
<1>2. IInv /\ [Next]_vars => [Step]_vars
  BY <1>1
<1>. QED
  BY <1>2, Invariance, PTL DEF Spec, NoDuplicate

(* `teams update` leaves the fields it was not given as they were, unless  *)
(* somebody else ran in between (teams/update.go:203-224).                 *)
THEOREM FieldsKept == Spec => UnspecifiedKept
<1>. DEFINE Step == \A c \in Clients : Display(c) /\ alone[c]
         => \A f \in Fields \ mem[c].cmd.given :
              store'[mem[c].key].display[f] = store[mem[c].key].display[f]
<1>1. IInv => Step
  <2>. SUFFICES ASSUME IInv, NEW c \in Clients, Display(c), alone[c],
                       NEW f \in Fields \ mem[c].cmd.given
                PROVE  store'[mem[c].key].display[f] = store[mem[c].key].display[f]
    OBVIOUS
  <2>1. /\ mem[c].pc = "display" /\ mem[c].key \in Keys /\ store \in [Keys -> Assets]
        /\ mem[c].seen.before = store[mem[c].key]
    BY DEF Display, IInv, TypeOK, ClientsSound, Sound, Placed, Justified, UpToDate, AssetKeys
  <2>. QED
    BY <2>1 DEF Display, Merged
<1>2. IInv => [Step]_vars
  BY <1>1
<1>. QED
  BY <1>2, Invariance, PTL DEF UnspecifiedKept

(* An apply that ends well, and that nobody disturbed, has stored every    *)
(* part of every document, in any number of documents and parts            *)
(* (apply.go: runApply, applyPrometheusRule, applyCheckRule).              *)
THEOREM ApplyIsComplete == Spec => []ApplyComplete
<1>1. ASSUME IInv, Progressing PROVE ApplyComplete
  <2>. SUFFICES ASSUME NEW c \in Clients, mem[c].pc = "parse", run[c].docs = <<>>, alone[c],
                       NEW k \in AllParts(mem[c].cmd.docs) \ {NoKey}
                PROVE  store[k].rev \in Range(wrote[c]) \/ strays[k] > 0
    BY DEF ApplyComplete
  <2>1. mem[c].cmd.op = "apply"
    BY <1>1 DEF IInv, ClientsSound, Sound, Placed
  <2>2. AllParts(run[c].docs) = {}
    BY DEF AllParts
  <2>. QED
    BY <1>1, <2>1, <2>2 DEF Progressing, Progress, Imported
<1>. QED
  BY <1>1, InitProgress, NextProgress, Invariance, AccountInvariance, PTL DEF Spec

=============================================================================
