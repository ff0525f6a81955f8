---------------------------- MODULE AssetCommands ----------------------------
(***************************************************************************)
(* The commands that write assets, run by several clients at a time:       *)
(* `dash0 apply -f` (internal/apply/apply.go), which imports the documents *)
(* of its input one by one, and the `update` and `delete` commands, which  *)
(* handle one asset, or `remove`, which handles a list.  `create -f` is an *)
(* apply of one document.                                                  *)
(*                                                                         *)
(* Apply checks all documents before its first call.  After that there is  *)
(* no way back: what has been imported stays, and what the user knows of   *)
(* it is what was printed.                                                 *)
(***************************************************************************)
EXTENDS Assets, Functions

VARIABLES
    run,       \* the progress of each client's apply
    wrote,     \* the revisions each client's command has stored (history)
    alone      \* whether no other command ran at the same time (history)

vars == <<assetVars, run, wrote, alone>>

(* The documents left, the part of the first that is being imported, the *)
(* results of its parts, and the revisions that have been printed.       *)
PartResults == [rev : StoredRevisions, updated : BOOLEAN]
Runs == [docs : Seq(Documents), part : Nat, results : Seq(PartResults),
         told : Seq(StoredRevisions)]

NoRun == [docs |-> <<>>, part |-> 0, results |-> <<>>, told |-> <<>>]

(* An empty input or an invalid document stops apply before the first call, *)
(* as a dry run does. A removal has been confirmed.                         *)
FirstPlace(x) ==
    CASE x.op = "apply" ->
           IF x.dry \/ x.docs = <<>> \/ \E i \in DOMAIN x.docs : ~x.docs[i].valid
             THEN "ended" ELSE "parse"
      [] x.op \in {"update", "display"} -> "get"
      [] x.op = "remove" ->
           IF \E i \in DOMAIN x.targets : x.targets[i].kind \in {"member", "teamMember"}
             THEN "resolve" ELSE "remove"

Started(x) ==
    [pc |-> FirstPlace(x), cmd |-> x, key |-> x.key, seen |-> Unread, after |-> 0,
     left |-> x.targets, tries |-> 0, result |-> "none"]

(* No process; what its memory holds does not matter. *)
NotStarted == [Started(CHOOSE x \in Commands : TRUE) EXCEPT !.pc = "idle"]

Init ==
    /\ \E present \in Starts :
          store = [k \in Keys |-> IF k \in present THEN Written(1) ELSE Absent]
    /\ strays = [k \in Keys |-> 0]
    /\ written = 1
    /\ mem = [c \in Clients |-> NotStarted]
    /\ run = [c \in Clients |-> NoRun]
    /\ wrote = [c \in Clients |-> <<>>]
    /\ alone = [c \in Clients |-> TRUE]

-----------------------------------------------------------------------------
Applying(c) == mem[c].cmd.op = "apply"
Running(c) == mem[c].pc # "idle"

Begin(c) ==
    /\ ~Running(c)
    /\ \E x \in Commands :
         /\ mem' = [mem EXCEPT ![c] = Started(x)]
         /\ run' = [run EXCEPT ![c].docs = x.docs]
    /\ alone' = [d \in Clients |->
                   IF d = c THEN \A e \in Clients \ {c} : ~Running(e) ELSE ~Running(d)]
    /\ UNCHANGED <<server, wrote>>

(* The process is gone, once its apply has ended or its one asset, or its *)
(* list, has been answered.                                               *)
Exit(c) ==
    /\ mem[c].pc = "ended" \/ (mem[c].pc = "answered" /\ ~Applying(c))
    /\ mem' = [mem EXCEPT ![c] = NotStarted]
    /\ run' = [run EXCEPT ![c] = NoRun]
    /\ wrote' = [wrote EXCEPT ![c] = <<>>]
    /\ alone' = [alone EXCEPT ![c] = TRUE]
    /\ UNCHANGED server

(* One call of Assets, and what history remembers of it. *)
Calls(c) ==
    /\ Call(c)
    /\ wrote' = [wrote EXCEPT ![c] = IF written' # written /\ Applying(c)
                                       THEN Append(@, written') ELSE @]
    /\ UNCHANGED <<run, alone>>

-----------------------------------------------------------------------------
(* Apply. *)
StartPart(c, i) ==
    LET key == run[c].docs[1].parts[i]
    IN  [mem EXCEPT ![c].pc = IF key = NoKey THEN "post" ELSE "get",
                    ![c].key = key, ![c].seen = Unread, ![c].result = "none"]

NextDocument(c) ==
    /\ mem[c].pc = "parse" /\ run[c].docs # <<>>
    /\ IF Head(run[c].docs).parses
         THEN /\ mem' = StartPart(c, 1)
              /\ run' = [run EXCEPT ![c].part = 1]
         ELSE /\ mem' = [mem EXCEPT ![c].pc = "report", ![c].result = "failed"]
              /\ UNCHANGED run
    /\ UNCHANGED <<server, wrote, alone>>

(* Mutant: an error leaves nothing of its document. *)
CollectedUnlessError(c) ==
    IF mem[c].result = "ok"
      THEN Append(run[c].results, [rev |-> mem[c].after,
                                   updated |-> mem[c].seen.before # Absent])
      ELSE <<>>

(* A part that was imported joins the results of its document; the first *)
(* that was not ends the document, with the results there are.           *)
Collected(c) ==
    IF mem[c].result = "ok"
      THEN Append(run[c].results, [rev |-> mem[c].after,
                                   updated |-> mem[c].seen.before # Absent])
      ELSE run[c].results

(* Mutant: the last of several parts is skipped. *)
PartAnsweredSkippingLast(c) ==
    /\ mem[c].pc = "answered" /\ Applying(c)
    /\ IF mem[c].result = "ok" /\ run[c].part + 1 < Len(Head(run[c].docs).parts)
         THEN /\ mem' = StartPart(c, run[c].part + 1)
              /\ run' = [run EXCEPT ![c].results = Collected(c), ![c].part = @ + 1]
         ELSE /\ mem' = [mem EXCEPT ![c].pc = "report"]
              /\ run' = [run EXCEPT ![c].results = Collected(c)]
    /\ UNCHANGED <<server, wrote, alone>>

PartAnswered(c) ==
    /\ mem[c].pc = "answered" /\ Applying(c)
    /\ IF mem[c].result = "ok" /\ run[c].part < Len(Head(run[c].docs).parts)
         THEN /\ mem' = StartPart(c, run[c].part + 1)
              /\ run' = [run EXCEPT ![c].results = Collected(c), ![c].part = @ + 1]
         ELSE /\ mem' = [mem EXCEPT ![c].pc = "report"]
              /\ run' = [run EXCEPT ![c].results = Collected(c)]
    /\ UNCHANGED <<server, wrote, alone>>

Revs(results) == [i \in DOMAIN results |-> results[i].rev]

(* The results are printed; an error ends the run, with the list of what *)
(* was applied before it.                                                *)
Report(c) ==
    /\ mem[c].pc = "report"
    /\ IF mem[c].result = "ok"
         THEN /\ mem' = [mem EXCEPT ![c].pc = "parse"]
              /\ run' = [run EXCEPT ![c] = [docs |-> Tail(@.docs), part |-> 0, results |-> <<>>,
                                            told |-> @.told \o Revs(@.results)]]
         ELSE /\ mem' = [mem EXCEPT ![c].pc = "ended"]
              /\ run' = [run EXCEPT ![c].told = @ \o Revs(run[c].results)]
    /\ UNCHANGED <<server, wrote, alone>>

(* The diff of an update cannot be printed: the run ends without a word *)
(* about that update, the results after it, or the list.                *)
ReportFailed(c) ==
    /\ mem[c].pc = "report"
    /\ \E i \in DOMAIN run[c].results :
         /\ run[c].results[i].updated
         /\ run' = [run EXCEPT ![c].told = @ \o Revs(SubSeq(run[c].results, 1, i - 1))]
    /\ mem' = [mem EXCEPT ![c].pc = "ended", ![c].result = "unprinted"]
    /\ UNCHANGED <<server, wrote, alone>>

ApplyDone(c) ==
    /\ mem[c].pc = "parse" /\ run[c].docs = <<>>
    /\ mem' = [mem EXCEPT ![c].pc = "ended", ![c].result = "ok"]
    /\ UNCHANGED <<server, run, wrote, alone>>

Next ==
    \E c \in Clients :
        \/ Begin(c) \/ Calls(c) \/ Exit(c)
        \/ NextDocument(c) \/ PartAnswered(c)
        \/ Report(c) \/ ReportFailed(c) \/ ApplyDone(c)

Spec == Init /\ [][Next]_vars

-----------------------------------------------------------------------------
TypeOK ==
    /\ store \in [Keys -> Assets]
    /\ strays \in [Keys -> Nat]
    /\ written \in Revisions
    /\ mem \in [Clients -> Memory]
    /\ run \in [Clients -> Runs]
    /\ wrote \in [Clients -> Seq(Revisions)]
    /\ alone \in [Clients -> BOOLEAN]

(* A PUT replaces what the GET before it found, so that the diff and the      *)
(* action that are printed are those of the write: of recording rules always, *)
(* by the version they carry, of the rest when no other command ran at the    *)
(* same time (asset/recordingrule.go, asset/dashboard.go).                    *)
DiffIsTrue ==
    [][\A c \in Clients :
         Put(c) /\ mem[c].seen.read /\ (alone[c] \/ mem[c].key.kind = "recordingRule")
           => mem[c].seen.before = store[mem[c].key]]_vars

(* A command whose GET was answered and that no other command disturbed is   *)
(* not turned down: it carries the version that is asked for, and puts to no *)
(* identifier the API will not take (asset/recordingrule.go, asset/team.go). *)
UndisturbedSucceeds ==
    \A c \in Clients :
        mem[c].pc = "answered" /\ mem[c].result = "refused"
          => ~alone[c] \/ ~mem[c].seen.read

(* A document with an identifier makes a second asset beside it only where *)
(* the API leaves no choice: a team or a spam filter named by an id alone  *)
(* that is not there. No failure, retry or other client leads to another.  *)
(* (asset/team.go: any error but a 404 must surface.)                      *)
NoDuplicate ==
    [][\A k \in Keys : strays'[k] # strays[k]
         => k.by = "id" /\ k.kind \in {"team", "spamFilter"} /\ ~Known(k)]_vars

(* `teams update` without a file leaves the fields it was not given as they *)
(* were, unless another command ran at the same time (teams/update.go).     *)
UnspecifiedKept ==
    [][\A c \in Clients : Display(c) /\ alone[c]
         => \A f \in Fields \ mem[c].cmd.given :
              store'[mem[c].key].display[f] = store[mem[c].key].display[f]]_vars

(* A removal that says it is done, undisturbed, has left none of its targets,  *)
(* whatever failed on the way (client.IsAlreadyDeleted, teams/remove_members). *)
RemovalCompletes ==
    \A c \in Clients :
        mem[c].pc = "answered" /\ mem[c].result = "ok" /\ alone[c] /\ mem[c].cmd.op = "remove"
          => \A i \in DOMAIN mem[c].cmd.targets : ~Known(mem[c].cmd.targets[i])

(* "one concurrently-removed member does not fail the whole --force call" *)
(* (docs/commands.md:696): with --force no removal ends with "not found". *)
ForceForgivesRemoved ==
    \A c \in Clients :
        mem[c].pc = "answered" /\ mem[c].cmd.op = "remove" /\ mem[c].cmd.force
          => mem[c].result # "notFound"

(* When apply ends, its output names everything it has stored, in order; only *)
(* the asset whose call failed may have been stored unsaid. An output that    *)
(* could not be written is the exception (apply.go, the loop of runApply).    *)
ApplyReports ==
    \A c \in Clients :
        mem[c].pc = "ended" /\ Applying(c) /\ mem[c].result # "unprinted"
          => \/ run[c].told = wrote[c]
             \/ /\ mem[c].result = "lost"
                /\ run[c].told = SubSeq(wrote[c], 1, Len(wrote[c]) - 1)

AllParts(docs) == UNION {Range(docs[i].parts) : i \in DOMAIN docs}

(* An apply that ends well and undisturbed has stored every part of every *)
(* document, under its identifier where the API keeps it (runApply,       *)
(* applyPrometheusRule, applyCheckRule).                                  *)
ApplyComplete ==
    \A c \in Clients :
        mem[c].pc = "parse" /\ run[c].docs = <<>> /\ alone[c]
          => \A k \in AllParts(mem[c].cmd.docs) \ {NoKey} :
               \/ store[k].rev \in Range(wrote[c])
               \/ strays[k] > 0
=============================================================================
