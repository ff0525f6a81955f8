---------------------------- MODULE SkillInstall ----------------------------
(***************************************************************************)
(* `dash0 skill install`: write SKILL.md and one file per topic into the   *)
(* directory of the agent at hand, in several steps, over what an earlier  *)
(* release, or an earlier install that was cut short, has left there.  And *)
(* the hint at the skill that main appends to every error.                 *)
(***************************************************************************)
EXTENDS Commands

CONSTANTS
    Manifest,    \* the topics of this release, in order
    OldTopics    \* topics of earlier releases

ASSUME ManifestAssumption ==
    /\ Manifest \in Seq(STRING) /\ Manifest # << >>
    /\ OldTopics \in SUBSET STRING

VARIABLE files   \* the bundle in the project's directory

filesVars == <<commandVars, files>>

(* A file is absent, left incomplete, of an earlier release or of this one. *)
Contents == {"absent", "torn", "old", "new"}
Topics == ToSet(Manifest) \union OldTopics
Bundles == [skillMd : Contents, topics : [Topics -> Contents]]

Bundle(md, written, content) ==
    [skillMd |-> md, topics |-> [t \in Topics |-> IF t \in written THEN content ELSE "absent"]]
NoBundle == Bundle("absent", {}, "absent")
OldBundle == Bundle("old", OldTopics, "old")
WholeBundle == Bundle("new", ToSet(Manifest), "new")

(***************************************************************************)
(* Steps.  A write that fails, and one during which the process is killed, *)
(* leaves a file that is there and not complete, or none.                  *)
(***************************************************************************)
CutShort == mem' \in {Failing(mem), [mem EXCEPT !.status = "killed"]}

WriteSkillMD ==
    /\ At("skillMd")
    /\ \/ Proceed /\ files' = [files EXCEPT !.skillMd = "new"]
       \/ CutShort /\ files' \in {files, [files EXCEPT !.skillMd = "torn"]}
    /\ UNCHANGED <<inv, fresh, interrupts>>

WithoutTopics(gone) ==
    [files EXCEPT !.topics = [t \in Topics |-> IF t \in gone THEN "absent" ELSE @[t]]]

\* Mutant: the directory is not cleared.
KeepReferences ==
    /\ At("clear")
    /\ Proceed
    /\ UNCHANGED <<inv, fresh, interrupts, files>>

(* RemoveAll, which may stop at some file, and the directory made again. *)
ClearReferences ==
    /\ At("clear")
    /\ \/ Proceed /\ files' = WithoutTopics(Topics)
       \/ CutShort /\ \E gone \in SUBSET Topics : files' = WithoutTopics(gone)
    /\ UNCHANGED <<inv, fresh, interrupts>>

(* One topic after the other; mem.got counts those written. *)
WriteTopic ==
    /\ At("topics") /\ mem.got < Len(Manifest)
    /\ LET topic == Manifest[mem.got + 1] IN
       \/ /\ mem' = [mem EXCEPT !.got = @ + 1]
          /\ files' = [files EXCEPT !.topics[topic] = "new"]
       \/ CutShort /\ files' \in {files, [files EXCEPT !.topics[topic] = "torn"]}
    /\ UNCHANGED <<inv, fresh, interrupts>>

TopicsWritten ==
    /\ At("topics") /\ mem.got = Len(Manifest)
    /\ Proceed
    /\ UNCHANGED <<inv, fresh, interrupts, files>>

ReportInstall ==
    /\ At("report")
    /\ mem' = [Done(mem) EXCEPT !.status = "ok"]
    /\ UNCHANGED <<inv, fresh, interrupts, files>>

InstallStep ==
    WriteSkillMD \/ ClearReferences \/ WriteTopic \/ TopicsWritten \/ ReportInstall

(***************************************************************************)
(* The hint.  A bundle counts as installed when SKILL.md and the topic     *)
(* that comes first in the manifest are there.                             *)
(***************************************************************************)
IsInstalled == files.skillMd # "absent" /\ files.topics[Head(Manifest)] # "absent"

AtFailure(steps) == mem.status = "failing" /\ Head(mem.todo) \in steps

(* Errors about the terminal, the agent's host and a session that has no   *)
(* tokens have a hint of their own; one about a session that was revoked,  *)
(* or a profile where there is none, may have.                             *)
OwnHint ==
    \/ AtFailure({"host", "terminal"})
    \/ AtFailure({"client", "ingressClient"}) /\ ~CheckOAuthEmpty
    \/ AtFailure({"ingressClient"}) /\ ~CheckOAuthOnOtlp

MayHaveOwnHint == OAuthProfile \/ AtFailure({"profile"})

(* --no-skill-hint, or a host that cannot have the skill, suppresses it. *)
WithSkillHint ==
    IF OwnHint THEN {"own"}
    ELSE {"none"} \union (IF MayHaveOwnHint THEN {"own"} ELSE {})
           \union (IF ~IsInstalled THEN {"install"} ELSE IF inv.agent THEN {"consult"} ELSE {})

(* main prints the error, with a hint where there is none, and exits. *)
PrintError ==
    /\ mem.status = "failing"
    /\ \E hint \in WithSkillHint : mem' = [mem EXCEPT !.status = "failed", !.hint = hint]
    /\ UNCHANGED <<inv, fresh, interrupts, files>>

(***************************************************************************)
(* Properties.                                                             *)
(***************************************************************************)

(* Whatever earlier installs, by this release or another, cut short or     *)
(* killed between any two files or within one, have left: an install that  *)
(* reports success leaves exactly the topics of this release, complete and *)
(* none of an earlier one; and nobody is told to install what is whole     *)
(* (skill/install.go:87-130, skill/bundle.go:148-178, main.go:150-205).    *)
InstallComplete ==
    /\ inv.cmd = "skillInstall" /\ mem.status = "ok" => files = WholeBundle
    /\ mem.hint = "install" => files # WholeBundle
=============================================================================
