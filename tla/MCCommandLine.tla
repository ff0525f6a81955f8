---------------------------- MODULE MCCommandLine ----------------------------
(* Instances of CommandLine for TLC.                                       *)
EXTENDS CommandLine

MCStock == << <<1, 2>>, <<3>> >>
MCManifest == <<"t1", "t2">>
MCOldTopics == {"t2", "t9"}
MCEphemeral == {1, 2}

Plain ==
    [cmd |-> "logsQuery", format |-> "none", limit |-> 0, all |-> FALSE, skip |-> FALSE,
     column |-> FALSE, bad |-> "none", flag |-> FALSE, env |-> FALSE, profile |-> "static",
     agent |-> FALSE, experimental |-> TRUE, follow |-> FALSE, upper |-> FALSE,
     explicit |-> FALSE, port |-> 0]

Own == {"tracesGet", "login", "skillInstall"}
Limitable == Queries \union AssetLists
Acting == {"membersInvite", "teamsAddMembers", "teamsCreate"}
Printing ==
    Commands \ ({"login", "skillInstall", "api", "configShow", "logsSend", "spansSend"}
                   \union Acting)

(* Every command in every format and with every limit, *)
Formatted ==
    {[Plain EXCEPT !.cmd = c, !.format = f, !.limit = n, !.agent = a] :
        c \in Printing \ Own, f \in ListFormats \union {"none"}, n \in {0}, a \in {FALSE}}
    \union {[Plain EXCEPT !.cmd = c, !.format = f, !.limit = n, !.all = a] :
        c \in Limitable, f \in {"none", "csv", "json"}, n \in 1..3, a \in BOOLEAN}
Acted == {[Plain EXCEPT !.cmd = c] : c \in Acting}
(* with one thing wrong, *)
Faulty ==
    UNION {{[Plain EXCEPT !.cmd = c, !.bad = b] :
              b \in Checks \intersect ToSet(MainSteps \o Programs[c])} : c \in Commands}
    \union {[Plain EXCEPT !.cmd = c, !.bad = b] :
              c \in {"logsQuery", "spansSend", "api"},
              b \in {"client", "ingressClient", "rawClient", "body"}}
    \union {[Plain EXCEPT !.cmd = c, !.experimental = FALSE] : c \in Commands \ Own}
    \union {[Plain EXCEPT !.cmd = c, !.format = f, !.skip = s, !.column = ~s] :
              c \in Printing, f \in {"none", "json", "odd"}, s \in BOOLEAN}
(* and with all ways of authentication. *)
Credentialed ==
    {[Plain EXCEPT !.cmd = c, !.profile = p, !.flag = f, !.env = e, !.agent = a] :
        c \in {"logsQuery", "dashboardsList", "teamsGet", "logsSend", "spansSend", "api",
               "metricsInstant"},
        p \in Profiles, f \in BOOLEAN, e \in BOOLEAN, a \in BOOLEAN}
Traces ==
    {[Plain EXCEPT !.cmd = "tracesGet", !.format = f, !.follow = l, !.upper = u] :
        f \in {"none", "json"}, l \in {TRUE}, u \in BOOLEAN}
    \union {[Plain EXCEPT !.cmd = "tracesGet"]}
Installs == {[Plain EXCEPT !.cmd = "skillInstall", !.agent = TRUE]}
Logins ==
    {[Plain EXCEPT !.cmd = "login", !.profile = "missing"],
     [Plain EXCEPT !.cmd = "login", !.explicit = TRUE, !.port = 1]}
Complaint == [Plain EXCEPT !.cmd = "configShow", !.bad = "color"]
MCInvocations ==
    Formatted \union Acted \union Faulty \union Credentialed
    \union Traces \union Installs \union {Complaint} \union Logins

MCApi == {[Plain EXCEPT !.cmd = "api"]}

(* What lasts is the bundle and the registration. *)
MCFollowers(i) ==
    IF i.cmd = "skillInstall" THEN Installs \union {Complaint}
    ELSE IF i.cmd = "login" THEN Logins ELSE {}

(* Every forest, and every cycle, of three spans without links, and pairs  *)
(* of spans with up to one link each.                                      *)
SpanSeq(parents, links) ==
    [i \in DOMAIN parents |-> [id |-> i, parent |-> parents[i], links |-> links[i]]]
Unlinked == {SpanSeq(p, << << >>, << >>, << >> >>) : p \in [1..3 -> 0..4]}
LinksTo == {<<1>>, <<2>>, <<3>>, << >>, <<2, 3>>}
LinkPairs == {SpanSeq(<<0, 1>>, <<l, m>>) : l \in LinksTo, m \in LinksTo}
MCAnswers(t) == IF t = 1 THEN Unlinked \union LinkPairs ELSE {SpanSeq(<<0>>, <<l>>) : l \in LinksTo}
==============================================================================
