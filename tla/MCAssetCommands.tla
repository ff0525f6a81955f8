--------------------------- MODULE MCAssetCommands ---------------------------
(* A few command lines, chosen so that they meet at the same assets. *)
EXTENDS AssetCommands, TLC

Rule  == [kind |-> "recordingRule", by |-> "id", name |-> "rule"]
Team  == [kind |-> "team", by |-> "id", name |-> "team"]
Crew  == [kind |-> "team", by |-> "origin", name |-> "crew"]
Spam  == [kind |-> "spamFilter", by |-> "id", name |-> "spam"]
Ann   == [kind |-> "member", by |-> "email", name |-> "ann"]
Bob   == [kind |-> "member", by |-> "email", name |-> "bob"]

AllKeys == {Rule, Team, Crew, Spam, Ann}
AnyStart == SUBSET AllKeys

Doc(parts) == [valid |-> TRUE, parses |-> TRUE, parts |-> parts]

Line(op) == [op |-> op, docs |-> <<>>, key |-> NoKey, given |-> {}, targets |-> <<>>,
             force |-> FALSE, dry |-> FALSE]
Apply(docs) == [Line("apply") EXCEPT !.docs = docs]
UpdateOf(key) == [Line("update") EXCEPT !.key = key]
Give(key, given) == [Line("display") EXCEPT !.key = key, !.given = given]
RemoveAll(targets, force) == [Line("remove") EXCEPT !.targets = targets, !.force = force]

FewCommands ==
    {Apply(<<Doc(<<NoKey, Rule>>)>>), Apply(<<Doc(<<Team>>), Doc(<<Crew>>)>>),
     Apply(<<Doc(<<Spam>>), [Doc(<<Crew>>) EXCEPT !.parses = FALSE]>>),
     Apply(<<[Doc(<<Crew>>) EXCEPT !.valid = FALSE]>>),
     UpdateOf(Rule), [UpdateOf(Crew) EXCEPT !.dry = TRUE], Give(Crew, {"name"}),
     RemoveAll(<<Rule>>, FALSE), RemoveAll(<<Spam>>, TRUE), RemoveAll(<<Crew>>, TRUE), RemoveAll(<<Ann>>, TRUE)}

(* Members removed by e-mail address by two people at the same time. *)
Members == {Ann, Bob}
BothThere == {Members}
RemoveMembers == {RemoveAll(<<Ann, Bob>>, TRUE)}

Symmetric == Permutations(Clients)
=============================================================================
