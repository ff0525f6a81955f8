---------------------------- MODULE AnswerProofs ----------------------------
(***************************************************************************)
(* Theorems of CommandLine, for any stock of records however the API       *)
(* groups them, any traces however their spans and links are arranged, any *)
(* limits and any command lines: a command that exits with 0 has printed   *)
(* exactly what it was asked for; and every variable keeps its type, from  *)
(* one command to the next.                                                *)
(*                                                                         *)
(* For the queries: FlattenSeq over one group more is the concatenation of *)
(* that group, by induction over the number of groups; every program       *)
(* collects at one step and looks at what it has collected only behind     *)
(* that step; what is in memory is, at every point of the program, what    *)
(* the API has offered so far, cut to the limit.  Then the types, for      *)
(* which the invariants of CommandLineProofs bound the listener and the    *)
(* registry.                                                               *)
(*                                                                         *)
(* For `traces get`: what FlattenSeq makes of distinct elements and which  *)
(* of them comes first; the tree that BuildTree walks, by an invariant of  *)
(* its loop and a measure that falls (SumsAndLoops); the traces fetched,   *)
(* by what the program of the process has left to do; and the rows.        *)
(***************************************************************************)
EXTENDS CommandLineProofs, SumsAndLoops

(***************************************************************************)
(* Concatenation of groups.                                                *)
(***************************************************************************)
(* f solves the recursive equations by which FlattenSeq is defined.        *)
Flattens(f, s, n) == f = [i \in 1..n |-> IF i = 1 THEN s[i] ELSE f[i - 1] \o s[i]]

(* FlattenSeq, by the recursive function in its definition.                *)
LEMMA FlattenIs ==
  ASSUME NEW s
  PROVE  FlattenSeq(s) = IF Len(s) = 0 THEN s ELSE (CHOOSE f : Flattens(f, s, Len(s)))[Len(s)]
BY Zenon DEF FlattenSeq, Flattens

(* A solution at one index.                                                *)
LEMMA FlattensAt ==
  ASSUME NEW s, NEW n, NEW f, Flattens(f, s, n), NEW i \in 1..n
  PROVE  f[i] = IF i = 1 THEN s[i] ELSE f[i - 1] \o s[i]
<1>. DEFINE F(j) == IF j = 1 THEN s[j] ELSE f[j - 1] \o s[j]
<1>1. f = [j \in 1..n |-> F(j)]
  BY Zenon DEF Flattens
<1>. HIDE DEF F
<1>2. f[i] = F(i)
  BY <1>1
<1>. QED
  BY <1>2 DEF F

(* Stands for Seq(T): the provers unfold a sequence of sequences too far.  *)
ClosedUnderConcat(X) == \A a, b \in X : a \o b \in X

(* Two solutions agree as far as the sequences they flatten do.            *)
LEMMA FlattensUnique ==
  ASSUME NEW X, ClosedUnderConcat(X), NEW n \in Nat, NEW m \in Nat, NEW l \in Nat, l <= n, l <= m,
         NEW s, NEW t, \A i \in 1..l : s[i] = t[i] /\ s[i] \in X,
         NEW f, NEW g, Flattens(f, s, n), Flattens(g, t, m)
  PROVE  \A i \in 1..l : f[i] = g[i] /\ f[i] \in X
<1>. DEFINE P(k) == k \in 1..l => f[k] = g[k] /\ f[k] \in X
            M == {k \in Nat : P(k)}
<1>1. P(0)
  OBVIOUS
<1>2. ASSUME NEW k \in Nat, P(k) PROVE P(k + 1)
  <2>1. SUFFICES ASSUME k + 1 \in 1..l PROVE f[k + 1] = g[k + 1] /\ f[k + 1] \in X
    OBVIOUS
  <2>. DEFINE j == k + 1
  <2>2. j \in 1..n /\ j \in 1..m /\ j - 1 = k /\ (j = 1 <=> k = 0)
    BY <2>1
  <2>3. s[j] = t[j] /\ s[j] \in X
    BY <2>1
  <2>. HIDE DEF j
  <2>4. /\ f[j] = IF j = 1 THEN s[j] ELSE f[j - 1] \o s[j]
        /\ g[j] = IF j = 1 THEN t[j] ELSE g[j - 1] \o t[j]
    BY <2>2, FlattensAt
  <2>5. k # 0 => f[k] = g[k] /\ f[k] \in X
    BY <1>2, <2>1
  <2>6. f[j] = g[j] /\ f[j] \in X
    BY <2>2, <2>3, <2>4, <2>5 DEF ClosedUnderConcat
  <2>. QED
    BY <2>6 DEF j
<1>3. Nat \subseteq M
  <2>1. 0 \in M
    BY <1>1
  <2>2. ASSUME NEW k \in Nat, k \in M PROVE k + 1 \in M
    <3>. HIDE DEF P
    <3>. QED
      BY <1>2, <2>2
  <2>. HIDE DEF M
  <2>. QED
    BY <2>1, <2>2, SetInduction
<1>4. \A k \in Nat : P(k)
  <2>. HIDE DEF P
  <2>. QED
    BY <1>3
<1>. QED
  BY <1>4

(* There is a solution: one for n elements is extended by one for the      *)
(* next.                                                                   *)
LEMMA FlattensExists ==
  ASSUME NEW X, ClosedUnderConcat(X), NEW N \in Nat \ {0}, NEW s, \A i \in 1..N : s[i] \in X
  PROVE  \E f : Flattens(f, s, N)
<1>. DEFINE F(f, i) == IF i = 1 THEN s[i] ELSE f[i - 1] \o s[i]
            Upto(f, n) == \A i \in 1..N : i <= n => f[i] = F(f, i)
            M == {n \in Nat : \E f \in [1..N -> X] : Upto(f, n)}
<1>1. 0 \in M
  <2>. DEFINE f == [i \in 1..N |-> s[i]]
  <2>1. f \in [1..N -> X]
    OBVIOUS
  <2>2. Upto(f, 0)
    OBVIOUS
  <2>. QED
    BY <2>1, <2>2
<1>2. ASSUME NEW n \in Nat, n \in M PROVE n + 1 \in M
  <2>1. PICK f \in [1..N -> X] : Upto(f, n)
    BY <1>2
  <2>. DEFINE x == F(f, n + 1)
              g == [i \in 1..N |-> IF i = n + 1 THEN x ELSE f[i]]
  <2>2. n + 1 \in 1..N => x \in X
    <3>1. SUFFICES ASSUME n + 1 \in 1..N PROVE x \in X
      OBVIOUS
    <3>2. s[n + 1] \in X /\ (n # 0 => f[n] \in X)
      BY <3>1
    <3>3. x = IF n = 0 THEN s[n + 1] ELSE f[n] \o s[n + 1]
      OBVIOUS
    <3>. HIDE DEF x
    <3>. QED
      BY <3>2, <3>3 DEF ClosedUnderConcat
  <2>. HIDE DEF x
  <2>3. ASSUME NEW i \in 1..N, i <= n + 1 PROVE F(g, i) = F(f, i)
    <3>1. i # 1 => g[i - 1] = f[i - 1]
      BY <2>3
    <3>. QED
      BY <3>1
  <2>5. g \in [1..N -> X]
    BY <2>2
  <2>. HIDE DEF F
  <2>6. \A i \in 1..N : i <= n => g[i] = F(g, i)
    <3>1. \A i \in 1..N : i <= n => g[i] = f[i]
      BY DEF F
    <3>. QED
      BY <2>1, <2>3, <3>1
  <2>7. n + 1 \in 1..N => g[n + 1] = F(g, n + 1)
    <3>1. n + 1 \in 1..N => g[n + 1] = x
      OBVIOUS
    <3>. HIDE DEF g
    <3>. QED
      BY <2>3, <3>1 DEF x
  <2>. HIDE DEF g
  <2>8. Upto(g, n + 1)
    BY <2>6, <2>7
  <2>. HIDE DEF Upto
  <2>. QED
    BY <2>5, <2>8
<1>3. Nat \subseteq M
  <2>. HIDE DEF M
  <2>. QED
    BY <1>1, <1>2, SetInduction
<1>. HIDE DEF F
<1>4. PICK f \in [1..N -> X] : Upto(f, N)
  BY <1>3
<1>5. \A i \in 1..N : f[i] = F(f, i)
  BY <1>4
<1>6. f = [i \in 1..N |-> F(f, i)]
  BY <1>5
<1>. QED
  BY <1>6, Zenon DEF Flattens, F

(* Sequences over T are closed under concatenation.                        *)
LEMMA ClosedSeq == ASSUME NEW T PROVE ClosedUnderConcat(Seq(T))
BY DEF ClosedUnderConcat

(* No groups make nothing.                                                 *)
LEMMA FlattenEmpty == FlattenSeq(<< >>) = << >>
BY FlattenIs

(* So FlattenSeq is the last value of a solution.                          *)
LEMMA FlattenSolves ==
  ASSUME NEW X, ClosedUnderConcat(X), NEW s, Len(s) \in Nat \ {0}, \A i \in 1..Len(s) : s[i] \in X
  PROVE  \E f : Flattens(f, s, Len(s)) /\ FlattenSeq(s) = f[Len(s)] /\ f[Len(s)] \in X
<1>. DEFINE f == CHOOSE f : Flattens(f, s, Len(s))
<1>1. PICK n \in Nat \ {0} : n = Len(s)
  OBVIOUS
<1>2. Flattens(f, s, n)
  BY <1>1, FlattensExists
<1>3. FlattenSeq(s) = f[n]
  BY <1>1, FlattenIs
<1>. HIDE DEF f
<1>4. f[n] \in X
  BY <1>1, <1>2, FlattensUnique
<1>. QED
  BY <1>1, <1>2, <1>3, <1>4

(* Groups over T make a sequence over T.                                   *)
LEMMA FlattenType == ASSUME NEW T, NEW s \in Seq(Seq(T)) PROVE FlattenSeq(s) \in Seq(T)
<1>1. Len(s) \in Nat /\ (\A i \in 1..Len(s) : s[i] \in Seq(T)) /\ (Len(s) = 0 => s = << >>)
  BY EmptySeq
<1>2. CASE Len(s) = 0
  <2>1. << >> \in Seq(T)
    OBVIOUS
  <2>. QED
    BY <1>1, <1>2, <2>1, FlattenEmpty
<1>3. CASE Len(s) # 0
  BY <1>1, <1>3, ClosedSeq, FlattenSolves
<1>. QED
  BY <1>2, <1>3

(* q is p, of length n, with one element more.                             *)
OneLonger(p, q, n, X) ==
    /\ ClosedUnderConcat(X) /\ n \in Nat \ {0} /\ Len(p) = n /\ Len(q) = n + 1
    /\ \A i \in 1..n : p[i] = q[i]
    /\ \A i \in 1..(n + 1) : q[i] \in X

(* One group more is appended.                                             *)
LEMMA FlattenPrefix ==
  ASSUME NEW X, NEW p, NEW q, NEW n \in Nat, OneLonger(p, q, n, X)
  PROVE  FlattenSeq(q) = FlattenSeq(p) \o q[n + 1]
<1>. USE DEF OneLonger
<1>1. PICK g : Flattens(g, q, n + 1) /\ FlattenSeq(q) = g[n + 1]
  BY FlattenSolves
<1>2. PICK f : Flattens(f, p, n) /\ FlattenSeq(p) = f[n]
  BY FlattenSolves
<1>3. \A i \in 1..n : f[i] = g[i] /\ f[i] \in X
  BY <1>1, <1>2, FlattensUnique
<1>4. g[n + 1] = IF n + 1 = 1 THEN q[n + 1] ELSE g[n + 1 - 1] \o q[n + 1]
  BY <1>1, FlattensAt
<1>5. g[n + 1] = g[n] \o q[n + 1]
  <2>1. n + 1 # 1 /\ n + 1 - 1 = n
    OBVIOUS
  <2>. QED
    BY <1>4, <2>1, Zenon
<1>6. f[n] = g[n]
  BY <1>3
<1>. QED
  BY <1>1, <1>2, <1>5, <1>6

(* One group makes itself.                                                 *)
LEMMA FlattenOne ==
  ASSUME NEW x PROVE FlattenSeq(<<x>>) = x
<1>1. FlattenSeq(<<x>>) = (CHOOSE f : Flattens(f, <<x>>, 1))[1]
  <2>1. Len(<<x>>) = 1
    OBVIOUS
  <2>. DEFINE s == <<x>>
  <2>2. Len(s) = 1 /\ Len(s) # 0
    BY <2>1
  <2>. HIDE DEF s
  <2>3. FlattenSeq(s) = (CHOOSE f : Flattens(f, s, 1))[1]
    BY <2>2, FlattenIs
  <2>. QED
    BY <2>3 DEF s
<1>2. Flattens([i \in 1..1 |-> x], <<x>>, 1)
  BY DEF Flattens
<1>3. PICK f : Flattens(f, <<x>>, 1) /\ FlattenSeq(<<x>>) = f[1]
  BY <1>1, <1>2
<1>. QED
  BY <1>3, FlattensAt

(* The first n + 1 groups make what the first n do, and the next group.    *)
LEMMA FlattenNext ==
  ASSUME NEW T, NEW s \in Seq(Seq(T)), NEW n \in Nat, n < Len(s)
  PROVE  FlattenSeq(SubSeq(s, 1, n + 1)) = FlattenSeq(SubSeq(s, 1, n)) \o s[n + 1]
<1>0. PICK p, q, X : p = SubSeq(s, 1, n) /\ q = SubSeq(s, 1, n + 1) /\ X = Seq(T)
  OBVIOUS
<1>1. /\ p \in Seq(X) /\ Len(p) = n /\ \A i \in 1..n : p[i] = s[i]
      /\ q \in Seq(X) /\ Len(q) = n + 1 /\ \A i \in 1..(n + 1) : q[i] = s[i]
  BY <1>0, SubSeqProperties, SMTT(30)
<1>2. (\A i \in 1..(n + 1) : s[i] \in X) /\ s[n + 1] \in X
  BY <1>0
<1>3. s[n + 1] = << >> \o s[n + 1]
  BY <1>0, <1>2
<1>4. ClosedUnderConcat(X)
  BY <1>0, ClosedSeq
<1>5. q[n + 1] = s[n + 1]
  BY <1>1
<1>6. FlattenSeq(q) = FlattenSeq(p) \o s[n + 1]
  <2>1. CASE n = 0
    <3>1. p = << >> /\ q = <<s[n + 1]>>
      BY ONLY <1>1, <2>1
    <3>. QED
      BY <3>1, <1>3, FlattenEmpty, FlattenOne
  <2>2. CASE n # 0
    <3>1. OneLonger(p, q, n, X)
      <4>1. n \in Nat \ {0} /\ \A i \in 1..n : p[i] = q[i]
        BY ONLY <1>1, <2>2, n \in Nat
      <4>2. \A i \in 1..(n + 1) : q[i] \in X
        BY ONLY <1>1, <1>2
      <4>. QED
        BY <1>1, <1>4, <4>1, <4>2 DEF OneLonger
    <3>2. FlattenSeq(q) = FlattenSeq(p) \o q[n + 1]
      BY <3>1, FlattenPrefix
    <3>. QED
      BY <1>5, <3>2
  <2>. QED
    BY <2>1, <2>2
<1>. QED
  BY <1>0, <1>6

(***************************************************************************)
(* The programs.                                                           *)
(***************************************************************************)
(* The commands with steps of their own; the steps at which the others     *)
(* collect, those that look at what was collected, and those that do       *)
(* neither.                                                                *)
Private == {"tracesGet", "login", "skillInstall"}
Gathering == {"pages", "stream", "fetch", "invite", "request", "send", "read"}
Late == {"details", "names", "resolve", "print", "status"}
QuietPlaces == Checks \union {"client", "ingressClient", "rawClient", "body", "lookUp"}
(* The commands whose answer is a list.                                    *)
Listing ==
    AssetLists \union Queries
        \union {"membersList", "teamsList", "channelsList", "teamMembersList", "membersInvite"}

(* One of the steps of S is among those left.                              *)
Ahead(t, S) == \E i \in 1..Len(t) : t[i] \in S

(* The command c may have the step s.                                      *)
Fits(c, s) ==
    /\ IF c \in Private THEN s \notin Gathering \union Late ELSE s \in CommandPlaces
    /\ s \in Gathering => (s = "stream" <=> c \in Queries)
    /\ s = "status" => c = "api"
    /\ s = "invite" => c = "membersInvite"
    /\ s = "fetch" /\ c \in AssetLists => c = "spamFiltersList"
    /\ s \in {"request", "send", "read"} => c \notin Listing

(* The one step that collects is the k-th, and all that look at what was   *)
(* collected come later.                                                   *)
Gathers(t, k) ==
    /\ k \in 1..Len(t) /\ t[k] \in Gathering
    /\ \A i \in 1..Len(t) : t[i] \in Gathering => i = k
    /\ \A i \in 1..Len(t) : t[i] \in Late => k < i

(* t is well formed as the program of c, or the end of one.                *)
Well(c, t) ==
    /\ t \in Seq(Places)
    /\ \A i \in 1..Len(t) : Fits(c, t[i])
    /\ \A i \in 1..Len(t) : t[i] = "print" => i = Len(t)
    /\ c \notin Private => \E k \in 1..Len(t) : Gathers(t, k)

(* No step of s collects, or looks at what was collected.                  *)
Quiet(s) == s \in Seq(QuietPlaces)

(* Two quiet parts make a quiet one.                                       *)
LEMMA QuietConcat == ASSUME NEW s, NEW t, Quiet(s), Quiet(t) PROVE Quiet(s \o t)
BY DEF Quiet

(* A quiet step fits every command.                                        *)
LEMMA QuietFits == ASSUME NEW c, NEW s \in QuietPlaces PROVE
    Fits(c, s) /\ s \notin Gathering /\ s \notin Late /\ s # "print" /\ s \in Places
<1>1. s \notin Gathering /\ s \notin Late
  BY DEF QuietPlaces, Checks, Gathering, Late
<1>2. s \in CommandPlaces
  BY DEF QuietPlaces, CommandPlaces
<1>3. s \in Places
  BY <1>2 DEF Places, LocalPlaces
<1>. QED
  BY <1>1, <1>2, <1>3 DEF Fits, Gathering, Late

(* Quiet steps may be put in front of a program.                           *)
LEMMA WellQuiet ==
    ASSUME NEW c, NEW s, NEW t, Quiet(s), Well(c, t), t # << >> PROVE Well(c, s \o t)
<1>. DEFINE p == s \o t
<1>1. /\ s \in Seq(QuietPlaces) /\ t \in Seq(Places) /\ QuietPlaces \subseteq Places
  BY QuietFits DEF Quiet, Well
<1>2. PICK m \in Nat, n \in Nat : m = Len(s) /\ n = Len(t) /\ n # 0
  BY <1>1, EmptySeq
<1>3. /\ p \in Seq(Places) /\ Len(p) = m + n
      /\ \A i \in 1..m : p[i] = s[i] /\ s[i] \in QuietPlaces
      /\ \A i \in (m + 1)..(m + n) : p[i] = t[i - m]
  <2>1. s \in Seq(Places)
    BY <1>1
  <2>. QED
    BY <1>1, <1>2, <2>1
<1>. HIDE DEF p
<1>4. ASSUME NEW i \in 1..Len(p) PROVE i \in 1..m \/ (i \in (m + 1)..(m + n) /\ i - m \in 1..n)
  BY <1>3
<1>5. ASSUME NEW i \in 1..Len(p) PROVE Fits(c, p[i]) /\ (p[i] = "print" => i = Len(p))
  BY <1>2, <1>3, <1>4, QuietFits DEF Well
<1>6. ASSUME c \notin Private PROVE \E k \in 1..Len(p) : Gathers(p, k)
  <2>1. PICK k \in 1..n : Gathers(t, k)
    BY <1>2, <1>6 DEF Well
  <2>2. k + m \in 1..Len(p) /\ k + m \in (m + 1)..(m + n) /\ p[k + m] = t[k]
    BY <1>3
  <2>3. ASSUME NEW i \in 1..Len(p)
        PROVE  /\ p[i] \in Gathering => i = k + m
               /\ p[i] \in Late => k + m < i
    <3>1. CASE i \in 1..m
      BY <1>3, <3>1, QuietFits
    <3>2. CASE i \in (m + 1)..(m + n) /\ i - m \in 1..n
      <4>1. p[i] = t[i - m]
        BY <1>3, <3>2
      <4>2. /\ t[i - m] \in Gathering => i - m = k
            /\ t[i - m] \in Late => k < i - m
        BY <1>2, <2>1, <3>2 DEF Gathers
      <4>. QED
        BY <4>1, <4>2
    <3>. QED
      BY <1>4, <3>1, <3>2
  <2>4. Gathers(p, k + m)
    BY <2>1, <2>2, <2>3 DEF Gathers
  <2>. QED
    BY <2>2, <2>4
<1>. QED
  BY <1>3, <1>5, <1>6 DEF Well, p

(* The steps of main, the checks of the queries and that of what is        *)
(* experimental are quiet.                                                 *)
LEMMA QuietParts == Quiet(MainSteps) /\ Quiet(QuerySteps) /\ Quiet(<<"experimental">>)
BY DEF Quiet, QuietPlaces, Checks, MainSteps, QuerySteps

(* The steps of the commands are steps.                                    *)
LEMMA PlacesAre == CommandPlaces \subseteq Places
BY DEF Places, LocalPlaces

(* A program given step by step is well formed.                            *)
LEMMA WellTuple ==
    ASSUME NEW c, NEW S, NEW t \in Seq(S), NEW g, Gathers(t, g),
           \A s \in S : Fits(c, s) /\ s \in Places,
           \A i \in 1..Len(t) : t[i] = "print" => i = Len(t)
    PROVE  Well(c, t)
<1>1. t \in Seq(Places) /\ \A i \in 1..Len(t) : Fits(c, t[i])
  OBVIOUS
<1>. QED
  BY <1>1 DEF Well, Gathers

(* The programs, one after the other: `logs query` and `spans query`.      *)
LEMMA WellStream == ASSUME NEW c \in Queries PROVE
    Well(c, <<"client", "filters", "jsonLimit", "precision", "stream", "print">>)
<1>. DEFINE S == {"client", "filters", "jsonLimit", "precision", "stream", "print"}
            t == <<"client", "filters", "jsonLimit", "precision", "stream", "print">>
<1>1. ASSUME NEW s \in S
      PROVE  Fits(c, s) /\ s \in Places /\ (s \in Gathering <=> s = "stream")
             /\ (s \in Late <=> s \in {"print"})
  BY PlacesAre
     DEF Fits, CommandPlaces, Checks, Gathering, Late, Private, Queries, AssetLists, Listing
<1>2. /\ t \in Seq(S) /\ Len(t) = 6
      /\ t[1] = "client" /\ t[2] = "filters" /\ t[3] = "jsonLimit" /\ t[4] = "precision"
      /\ t[5] = "stream" /\ t[6] = "print"
  OBVIOUS
<1>. HIDE DEF t
<1>3. Gathers(t, 5) /\ \A i \in 1..Len(t) : t[i] = "print" => i = Len(t)
  BY <1>1, <1>2 DEF Gathers
<1>. HIDE DEF S
<1>4. Well(c, t)
  BY <1>1, <1>2, <1>3, WellTuple
<1>. QED
  BY <1>4 DEF t

(* `failed-checks query`.                                                  *)
LEMMA WellChecks == ASSUME NEW c \in Queries PROVE
    Well(c, <<"filters", "client", "jsonLimit", "stream", "print">>)
<1>. DEFINE S == {"filters", "client", "jsonLimit", "stream", "print"}
            t == <<"filters", "client", "jsonLimit", "stream", "print">>
<1>1. ASSUME NEW s \in S
      PROVE  Fits(c, s) /\ s \in Places /\ (s \in Gathering <=> s = "stream")
             /\ (s \in Late <=> s \in {"print"})
  BY PlacesAre
     DEF Fits, CommandPlaces, Checks, Gathering, Late, Private, Queries, AssetLists, Listing
<1>2. /\ t \in Seq(S) /\ Len(t) = 5
      /\ t[1] = "filters" /\ t[2] = "client" /\ t[3] = "jsonLimit" /\ t[4] = "stream"
      /\ t[5] = "print"
  OBVIOUS
<1>. HIDE DEF t
<1>3. Gathers(t, 4) /\ \A i \in 1..Len(t) : t[i] = "print" => i = Len(t)
  BY <1>1, <1>2 DEF Gathers
<1>. HIDE DEF S
<1>4. Well(c, t)
  BY <1>1, <1>2, <1>3, WellTuple
<1>. QED
  BY <1>4 DEF t

(* `dashboards list`.                                                      *)
LEMMA WellDashboards == ASSUME NEW c \in {"dashboardsList"} PROVE
    Well(c, DashboardsList)
<1>. DEFINE S == {"skipHeader", "client", "pages",
                  "lateFormat", "details", "names", "print"}
            t == DashboardsList
<1>1. ASSUME NEW s \in S
      PROVE  Fits(c, s) /\ s \in Places /\ (s \in Gathering <=> s = "pages")
             /\ (s \in Late <=> s \in {"details", "names", "print"})
  BY PlacesAre
     DEF Fits, CommandPlaces, Checks, Gathering, Late, Private, Queries, AssetLists, Listing
<1>2. /\ t \in Seq(S) /\ Len(t) = 7
      /\ t[1] = "skipHeader" /\ t[2] = "client" /\ t[3] = "pages" /\ t[4] = "lateFormat"
      /\ t[5] = "details" /\ t[6] = "names" /\ t[7] = "print"
  BY DEF DashboardsList, AssetList
<1>. HIDE DEF t
<1>3. Gathers(t, 3) /\ \A i \in 1..Len(t) : t[i] = "print" => i = Len(t)
  BY <1>1, <1>2 DEF Gathers
<1>. HIDE DEF S
<1>4. Well(c, t)
  BY <1>1, <1>2, <1>3, WellTuple
<1>. QED
  BY <1>4 DEF t

(* The lists of views, synthetic checks and check rules.                   *)
LEMMA WellViews == ASSUME NEW c \in {"viewsList", "syntheticChecksList", "checkRulesList"} PROVE
    Well(c, ViewsList)
<1>. DEFINE S == {"skipHeader", "client", "pages", "lateFormat", "details", "print"}
            t == ViewsList
<1>1. ASSUME NEW s \in S
      PROVE  Fits(c, s) /\ s \in Places /\ (s \in Gathering <=> s = "pages")
             /\ (s \in Late <=> s \in {"details", "print"})
  BY PlacesAre
     DEF Fits, CommandPlaces, Checks, Gathering, Late, Private, Queries, AssetLists, Listing
<1>2. /\ t \in Seq(S) /\ Len(t) = 6
      /\ t[1] = "skipHeader" /\ t[2] = "client" /\ t[3] = "pages" /\ t[4] = "lateFormat"
      /\ t[5] = "details" /\ t[6] = "print"
  BY DEF ViewsList, AssetList
<1>. HIDE DEF t
<1>3. Gathers(t, 3) /\ \A i \in 1..Len(t) : t[i] = "print" => i = Len(t)
  BY <1>1, <1>2 DEF Gathers
<1>. HIDE DEF S
<1>4. Well(c, t)
  BY <1>1, <1>2, <1>3, WellTuple
<1>. QED
  BY <1>4 DEF t

(* `recording-rules list`.                                                 *)
LEMMA WellRules == ASSUME NEW c \in {"recordingRulesList"} PROVE
    Well(c, RecordingRulesList)
<1>. DEFINE S == {"skipHeader", "client", "pages", "lateFormat", "print"}
            t == RecordingRulesList
<1>1. ASSUME NEW s \in S
      PROVE  Fits(c, s) /\ s \in Places /\ (s \in Gathering <=> s = "pages")
             /\ (s \in Late <=> s \in {"print"})
  BY PlacesAre
     DEF Fits, CommandPlaces, Checks, Gathering, Late, Private, Queries, AssetLists, Listing
<1>2. /\ t \in Seq(S) /\ Len(t) = 5
      /\ t[1] = "skipHeader" /\ t[2] = "client" /\ t[3] = "pages" /\ t[4] = "lateFormat"
      /\ t[5] = "print"
  BY DEF RecordingRulesList, AssetList
<1>. HIDE DEF t
<1>3. Gathers(t, 3) /\ \A i \in 1..Len(t) : t[i] = "print" => i = Len(t)
  BY <1>1, <1>2 DEF Gathers
<1>. HIDE DEF S
<1>4. Well(c, t)
  BY <1>1, <1>2, <1>3, WellTuple
<1>. QED
  BY <1>4 DEF t

(* `spam-filters list`.                                                    *)
LEMMA WellFilters == ASSUME NEW c \in {"spamFiltersList"} PROVE
    Well(c, SpamFiltersList)
<1>. DEFINE S == {"experimental", "skipHeader", "client", "fetch", "lateFormat", "print"}
            t == SpamFiltersList
<1>1. ASSUME NEW s \in S
      PROVE  Fits(c, s) /\ s \in Places /\ (s \in Gathering <=> s = "fetch")
             /\ (s \in Late <=> s \in {"print"})
  BY PlacesAre
     DEF Fits, CommandPlaces, Checks, Gathering, Late, Private, Queries, AssetLists, Listing
<1>2. /\ t \in Seq(S) /\ Len(t) = 6
      /\ t[1] = "experimental" /\ t[2] = "skipHeader" /\ t[3] = "client" /\ t[4] = "fetch"
      /\ t[5] = "lateFormat" /\ t[6] = "print"
  BY DEF SpamFiltersList
<1>. HIDE DEF t
<1>3. Gathers(t, 4) /\ \A i \in 1..Len(t) : t[i] = "print" => i = Len(t)
  BY <1>1, <1>2 DEF Gathers
<1>. HIDE DEF S
<1>4. Well(c, t)
  BY <1>1, <1>2, <1>3, WellTuple
<1>. QED
  BY <1>4 DEF t

(* The lists of members, teams and notification channels.                  *)
LEMMA WellPages == ASSUME NEW c \in {"membersList", "teamsList", "channelsList"} PROVE
    Well(c, <<"client", "pages", "print">>)
<1>. DEFINE S == {"client", "pages", "print"}
            t == <<"client", "pages", "print">>
<1>1. ASSUME NEW s \in S
      PROVE  Fits(c, s) /\ s \in Places /\ (s \in Gathering <=> s = "pages")
             /\ (s \in Late <=> s \in {"print"})
  BY PlacesAre
     DEF Fits, CommandPlaces, Checks, Gathering, Late, Private, Queries, AssetLists, Listing
<1>2. /\ t \in Seq(S) /\ Len(t) = 3
      /\ t[1] = "client" /\ t[2] = "pages" /\ t[3] = "print"
  OBVIOUS
<1>. HIDE DEF t
<1>3. Gathers(t, 2) /\ \A i \in 1..Len(t) : t[i] = "print" => i = Len(t)
  BY <1>1, <1>2 DEF Gathers
<1>. HIDE DEF S
<1>4. Well(c, t)
  BY <1>1, <1>2, <1>3, WellTuple
<1>. QED
  BY <1>4 DEF t

(* `teams list-members`.                                                   *)
LEMMA WellFetch == ASSUME NEW c \in {"teamMembersList"} PROVE
    Well(c, <<"client", "fetch", "print">>)
<1>. DEFINE S == {"client", "fetch", "print"}
            t == <<"client", "fetch", "print">>
<1>1. ASSUME NEW s \in S
      PROVE  Fits(c, s) /\ s \in Places /\ (s \in Gathering <=> s = "fetch")
             /\ (s \in Late <=> s \in {"print"})
  BY PlacesAre
     DEF Fits, CommandPlaces, Checks, Gathering, Late, Private, Queries, AssetLists, Listing
<1>2. /\ t \in Seq(S) /\ Len(t) = 3
      /\ t[1] = "client" /\ t[2] = "fetch" /\ t[3] = "print"
  OBVIOUS
<1>. HIDE DEF t
<1>3. Gathers(t, 2) /\ \A i \in 1..Len(t) : t[i] = "print" => i = Len(t)
  BY <1>1, <1>2 DEF Gathers
<1>. HIDE DEF S
<1>4. Well(c, t)
  BY <1>1, <1>2, <1>3, WellTuple
<1>. QED
  BY <1>4 DEF t

(* The `get` of each asset.                                                *)
LEMMA WellGets ==
  ASSUME NEW c \in {"dashboardsGet", "viewsGet", "syntheticChecksGet", "checkRulesGet",
                    "recordingRulesGet", "spamFiltersGet", "channelsGet"}
  PROVE  Well(c, AssetGet)
<1>. DEFINE S == {"client", "fetch", "lateFormat", "print"}
            t == AssetGet
<1>1. ASSUME NEW s \in S
      PROVE  Fits(c, s) /\ s \in Places /\ (s \in Gathering <=> s = "fetch")
             /\ (s \in Late <=> s \in {"print"})
  BY PlacesAre
     DEF Fits, CommandPlaces, Checks, Gathering, Late, Private, Queries, AssetLists, Listing
<1>2. /\ t \in Seq(S) /\ Len(t) = 4
      /\ t[1] = "client" /\ t[2] = "fetch" /\ t[3] = "lateFormat" /\ t[4] = "print"
  BY DEF AssetGet
<1>. HIDE DEF t
<1>3. Gathers(t, 2) /\ \A i \in 1..Len(t) : t[i] = "print" => i = Len(t)
  BY <1>1, <1>2 DEF Gathers
<1>. HIDE DEF S
<1>4. Well(c, t)
  BY <1>1, <1>2, <1>3, WellTuple
<1>. QED
  BY <1>4 DEF t

(* `teams get`.                                                            *)
LEMMA WellTeam == ASSUME NEW c \in {"teamsGet"} PROVE
    Well(c, TeamsGet)
<1>. DEFINE S == {"experimental", "client", "format", "fetch", "resolve", "print"}
            t == TeamsGet
<1>1. ASSUME NEW s \in S
      PROVE  Fits(c, s) /\ s \in Places /\ (s \in Gathering <=> s = "fetch")
             /\ (s \in Late <=> s \in {"resolve", "print"})
  BY PlacesAre
     DEF Fits, CommandPlaces, Checks, Gathering, Late, Private, Queries, AssetLists, Listing
<1>2. /\ t \in Seq(S) /\ Len(t) = 6
      /\ t[1] = "experimental" /\ t[2] = "client" /\ t[3] = "format" /\ t[4] = "fetch"
      /\ t[5] = "resolve" /\ t[6] = "print"
  BY DEF TeamsGet
<1>. HIDE DEF t
<1>3. Gathers(t, 4) /\ \A i \in 1..Len(t) : t[i] = "print" => i = Len(t)
  BY <1>1, <1>2 DEF Gathers
<1>. HIDE DEF S
<1>4. Well(c, t)
  BY <1>1, <1>2, <1>3, WellTuple
<1>. QED
  BY <1>4 DEF t

(* `members invite`.                                                       *)
LEMMA WellInvite == ASSUME NEW c \in {"membersInvite"} PROVE
    Well(c, MembersInvite)
<1>. DEFINE S == {"experimental", "args", "client", "invite", "print"}
            t == MembersInvite
<1>1. ASSUME NEW s \in S
      PROVE  Fits(c, s) /\ s \in Places /\ (s \in Gathering <=> s = "invite")
             /\ (s \in Late <=> s \in {"print"})
  BY PlacesAre
     DEF Fits, CommandPlaces, Checks, Gathering, Late, Private, Queries, AssetLists, Listing
<1>2. /\ t \in Seq(S) /\ Len(t) = 5
      /\ t[1] = "experimental" /\ t[2] = "args" /\ t[3] = "client" /\ t[4] = "invite"
      /\ t[5] = "print"
  BY DEF MembersInvite
<1>. HIDE DEF t
<1>3. Gathers(t, 4) /\ \A i \in 1..Len(t) : t[i] = "print" => i = Len(t)
  BY <1>1, <1>2 DEF Gathers
<1>. HIDE DEF S
<1>4. Well(c, t)
  BY <1>1, <1>2, <1>3, WellTuple
<1>. QED
  BY <1>4 DEF t

(* `teams add-members`.                                                    *)
LEMMA WellAdd == ASSUME NEW c \in {"teamsAddMembers"} PROVE
    Well(c, TeamsAddMembers)
<1>. DEFINE S == {"experimental", "client", "lookUp", "send", "print"}
            t == TeamsAddMembers
<1>1. ASSUME NEW s \in S
      PROVE  Fits(c, s) /\ s \in Places /\ (s \in Gathering <=> s = "send")
             /\ (s \in Late <=> s \in {"print"})
  BY PlacesAre
     DEF Fits, CommandPlaces, Checks, Gathering, Late, Private, Queries, AssetLists, Listing
<1>2. /\ t \in Seq(S) /\ Len(t) = 5
      /\ t[1] = "experimental" /\ t[2] = "client" /\ t[3] = "lookUp" /\ t[4] = "send"
      /\ t[5] = "print"
  BY DEF TeamsAddMembers
<1>. HIDE DEF t
<1>3. Gathers(t, 4) /\ \A i \in 1..Len(t) : t[i] = "print" => i = Len(t)
  BY <1>1, <1>2 DEF Gathers
<1>. HIDE DEF S
<1>4. Well(c, t)
  BY <1>1, <1>2, <1>3, WellTuple
<1>. QED
  BY <1>4 DEF t

(* `teams create`.                                                         *)
LEMMA WellCreate == ASSUME NEW c \in {"teamsCreate"} PROVE
    Well(c, TeamsCreate)
<1>. DEFINE S == {"experimental", "args", "client", "send", "print"}
            t == TeamsCreate
<1>1. ASSUME NEW s \in S
      PROVE  Fits(c, s) /\ s \in Places /\ (s \in Gathering <=> s = "send")
             /\ (s \in Late <=> s \in {"print"})
  BY PlacesAre
     DEF Fits, CommandPlaces, Checks, Gathering, Late, Private, Queries, AssetLists, Listing
<1>2. /\ t \in Seq(S) /\ Len(t) = 5
      /\ t[1] = "experimental" /\ t[2] = "args" /\ t[3] = "client" /\ t[4] = "send"
      /\ t[5] = "print"
  BY DEF TeamsCreate
<1>. HIDE DEF t
<1>3. Gathers(t, 4) /\ \A i \in 1..Len(t) : t[i] = "print" => i = Len(t)
  BY <1>1, <1>2 DEF Gathers
<1>. HIDE DEF S
<1>4. Well(c, t)
  BY <1>1, <1>2, <1>3, WellTuple
<1>. QED
  BY <1>4 DEF t

(* `metrics instant`.                                                      *)
LEMMA WellInstant == ASSUME NEW c \in {"metricsInstant"} PROVE
    Well(c, MetricsInstant)
<1>. DEFINE S == {"args", "format", "columnFormat", "columns",
                  "rawClient", "filters", "request", "print"}
            t == MetricsInstant
<1>1. ASSUME NEW s \in S
      PROVE  Fits(c, s) /\ s \in Places /\ (s \in Gathering <=> s = "request")
             /\ (s \in Late <=> s \in {"print"})
  BY PlacesAre
     DEF Fits, CommandPlaces, Checks, Gathering, Late, Private, Queries, AssetLists, Listing
<1>2. /\ t \in Seq(S) /\ Len(t) = 8
      /\ t[1] = "args" /\ t[2] = "format" /\ t[3] = "columnFormat" /\ t[4] = "columns"
      /\ t[5] = "rawClient" /\ t[6] = "filters" /\ t[7] = "request" /\ t[8] = "print"
  BY DEF MetricsInstant
<1>. HIDE DEF t
<1>3. Gathers(t, 7) /\ \A i \in 1..Len(t) : t[i] = "print" => i = Len(t)
  BY <1>1, <1>2 DEF Gathers
<1>. HIDE DEF S
<1>4. Well(c, t)
  BY <1>1, <1>2, <1>3, WellTuple
<1>. QED
  BY <1>4 DEF t

(* `api`.                                                                  *)
LEMMA WellApi == ASSUME NEW c \in {"api"} PROVE
    Well(c, Api)
<1>. DEFINE S == {"experimental", "rawClient", "args", "body",
                  "headers", "url", "request", "status"}
            t == Api
<1>1. ASSUME NEW s \in S
      PROVE  Fits(c, s) /\ s \in Places /\ (s \in Gathering <=> s = "request")
             /\ (s \in Late <=> s \in {"status"})
  BY PlacesAre
     DEF Fits, CommandPlaces, Checks, Gathering, Late, Private, Queries, AssetLists, Listing
<1>2. /\ t \in Seq(S) /\ Len(t) = 8
      /\ t[1] = "experimental" /\ t[2] = "rawClient" /\ t[3] = "args" /\ t[4] = "body"
      /\ t[5] = "headers" /\ t[6] = "url" /\ t[7] = "request" /\ t[8] = "status"
  BY DEF Api
<1>. HIDE DEF t
<1>3. Gathers(t, 7) /\ \A i \in 1..Len(t) : t[i] = "print" => i = Len(t)
  BY <1>1, <1>2 DEF Gathers
<1>. HIDE DEF S
<1>4. Well(c, t)
  BY <1>1, <1>2, <1>3, WellTuple
<1>. QED
  BY <1>4 DEF t

(* `logs send`.                                                            *)
LEMMA WellLogs == ASSUME NEW c \in {"logsSend"} PROVE
    Well(c, LogsSend)
<1>. DEFINE S == {"attributes", "times", "ids", "ingressClient", "send", "print"}
            t == LogsSend
<1>1. ASSUME NEW s \in S
      PROVE  Fits(c, s) /\ s \in Places /\ (s \in Gathering <=> s = "send")
             /\ (s \in Late <=> s \in {"print"})
  BY PlacesAre
     DEF Fits, CommandPlaces, Checks, Gathering, Late, Private, Queries, AssetLists, Listing
<1>2. /\ t \in Seq(S) /\ Len(t) = 6
      /\ t[1] = "attributes" /\ t[2] = "times" /\ t[3] = "ids" /\ t[4] = "ingressClient"
      /\ t[5] = "send" /\ t[6] = "print"
  BY DEF LogsSend
<1>. HIDE DEF t
<1>3. Gathers(t, 5) /\ \A i \in 1..Len(t) : t[i] = "print" => i = Len(t)
  BY <1>1, <1>2 DEF Gathers
<1>. HIDE DEF S
<1>4. Well(c, t)
  BY <1>1, <1>2, <1>3, WellTuple
<1>. QED
  BY <1>4 DEF t

(* `spans send`.                                                           *)
LEMMA WellSpans == ASSUME NEW c \in {"spansSend"} PROVE
    Well(c, SpansSend)
<1>. DEFINE S == {"args", "attributes", "times", "ids",
                  "links", "ingressClient", "send", "print"}
            t == SpansSend
<1>1. ASSUME NEW s \in S
      PROVE  Fits(c, s) /\ s \in Places /\ (s \in Gathering <=> s = "send")
             /\ (s \in Late <=> s \in {"print"})
  BY PlacesAre
     DEF Fits, CommandPlaces, Checks, Gathering, Late, Private, Queries, AssetLists, Listing
<1>2. /\ t \in Seq(S) /\ Len(t) = 8
      /\ t[1] = "args" /\ t[2] = "attributes" /\ t[3] = "times" /\ t[4] = "ids"
      /\ t[5] = "links" /\ t[6] = "ingressClient" /\ t[7] = "send" /\ t[8] = "print"
  BY DEF SpansSend
<1>. HIDE DEF t
<1>3. Gathers(t, 7) /\ \A i \in 1..Len(t) : t[i] = "print" => i = Len(t)
  BY <1>1, <1>2 DEF Gathers
<1>. HIDE DEF S
<1>4. Well(c, t)
  BY <1>1, <1>2, <1>3, WellTuple
<1>. QED
  BY <1>4 DEF t

(* `config show`.                                                          *)
LEMMA WellShow == ASSUME NEW c \in {"configShow"} PROVE
    Well(c, ConfigShow)
<1>. DEFINE S == {"read", "print"}
            t == ConfigShow
<1>1. ASSUME NEW s \in S
      PROVE  Fits(c, s) /\ s \in Places /\ (s \in Gathering <=> s = "read")
             /\ (s \in Late <=> s \in {"print"})
  BY PlacesAre
     DEF Fits, CommandPlaces, Checks, Gathering, Late, Private, Queries, AssetLists, Listing
<1>2. /\ t \in Seq(S) /\ Len(t) = 2
      /\ t[1] = "read" /\ t[2] = "print"
  BY DEF ConfigShow
<1>. HIDE DEF t
<1>3. Gathers(t, 1) /\ \A i \in 1..Len(t) : t[i] = "print" => i = Len(t)
  BY <1>1, <1>2 DEF Gathers
<1>. HIDE DEF S
<1>4. Well(c, t)
  BY <1>1, <1>2, <1>3, WellTuple
<1>. QED
  BY <1>4 DEF t

(* `config profiles list`.                                                 *)
LEMMA WellProfiles == ASSUME NEW c \in {"profilesList"} PROVE
    Well(c, ProfilesList)
<1>. DEFINE S == {"format", "skipHeader", "read", "print"}
            t == ProfilesList
<1>1. ASSUME NEW s \in S
      PROVE  Fits(c, s) /\ s \in Places /\ (s \in Gathering <=> s = "read")
             /\ (s \in Late <=> s \in {"print"})
  BY PlacesAre
     DEF Fits, CommandPlaces, Checks, Gathering, Late, Private, Queries, AssetLists, Listing
<1>2. /\ t \in Seq(S) /\ Len(t) = 4
      /\ t[1] = "format" /\ t[2] = "skipHeader" /\ t[3] = "read" /\ t[4] = "print"
  BY DEF ProfilesList
<1>. HIDE DEF t
<1>3. Gathers(t, 3) /\ \A i \in 1..Len(t) : t[i] = "print" => i = Len(t)
  BY <1>1, <1>2 DEF Gathers
<1>. HIDE DEF S
<1>4. Well(c, t)
  BY <1>1, <1>2, <1>3, WellTuple
<1>. QED
  BY <1>4 DEF t

(* The programs with steps of their own collect nothing in this sense.     *)
LEMMA WellPrivate == ASSUME NEW c \in Private PROVE
    Well(c, TraceGetSteps) /\ Well(c, LoginSteps) /\ Well(c, InstallSteps)
<1>. DEFINE S == {"traceId", "client", "root", "follow", "show", "terminal", "discover", "bind",
                  "register", "authorize", "wait", "exchange", "host", "skillMd", "clear",
                  "topics", "report"}
<1>1. ASSUME NEW s \in S PROVE Fits(c, s) /\ s \in Places /\ s # "print"
  BY DEF Fits, Gathering, Late, Places, LocalPlaces, CommandPlaces, TracePlaces, InstallPlaces,
         LoginPlaces, Checks
<1>2. ASSUME NEW t \in Seq(S) PROVE Well(c, t)
  <2>. HIDE DEF S
  <2>1. t \in Seq(Places) /\ \A i \in 1..Len(t) : Fits(c, t[i]) /\ t[i] # "print"
    BY <1>1
  <2>. QED
    BY <2>1 DEF Well
<1>3. Well(c, LoginSteps) /\ Well(c, InstallSteps)
  <2>1. LoginSteps \in Seq(S)
    BY DEF LoginSteps
  <2>2. InstallSteps \in Seq(S)
    BY DEF InstallSteps
  <2>. HIDE DEF S
  <2>. QED
    BY <1>2, <2>1, <2>2
<1>4. Well(c, TraceGetSteps)
  <2>. DEFINE t == <<"traceId", "client", "root", "follow", "show">>
  <2>1. t \in Seq(S) /\ t # << >>
    OBVIOUS
  <2>. HIDE DEF S, t
  <2>2. Well(c, QuerySteps \o t)
    BY <1>2, <2>1, WellQuiet, QuietParts
  <2>. QED
    BY <2>2 DEF TraceGetSteps, t
<1>. QED
  BY <1>3, <1>4

(* Behind the checks of the queries, and of what is experimental. *)
LEMMA WellBehind == ASSUME NEW c, NEW t, Well(c, t), t # << >> PROVE
    /\ Well(c, QuerySteps \o t) /\ Well(c, <<"experimental">> \o t)
    /\ Well(c, <<"experimental">> \o QuerySteps \o t)
<1>1. Quiet(<<"experimental">> \o QuerySteps)
  BY QuietParts, QuietConcat
<1>. QED
  BY <1>1, QuietParts, WellQuiet

(* Every program is well formed.                                           *)
LEMMA ProgramsWell == ASSUME NEW c \in Commands PROVE Well(c, Programs[c])
<1>1. ASSUME c \in Queries PROVE Well(c, Programs[c])
  <2>1. Programs[c] \in {LogsQuery, SpansQuery, FailedChecksQuery}
    BY <1>1 DEF Queries, Programs
  <2>. QED
    BY <1>1, <2>1, WellStream, WellChecks, WellBehind DEF LogsQuery, SpansQuery, FailedChecksQuery
<1>2. ASSUME c \in AssetLists PROVE Well(c, Programs[c])
  <2>1. /\ c = "dashboardsList" => Programs[c] = DashboardsList
        /\ c \in {"viewsList", "syntheticChecksList", "checkRulesList"} => Programs[c] = ViewsList
        /\ c = "recordingRulesList" => Programs[c] = RecordingRulesList
        /\ c = "spamFiltersList" => Programs[c] = SpamFiltersList
    BY DEF Programs, ViewsList, SyntheticChecksList, CheckRulesList
  <2>. QED
    BY <1>2, <2>1, WellDashboards, WellViews, WellRules, WellFilters DEF AssetLists
<1>3. ASSUME c \in {"membersList", "teamsList", "channelsList", "teamMembersList"}
      PROVE  Well(c, Programs[c])
  <2>1. /\ c = "membersList" => Programs[c] = MembersList
        /\ c = "teamsList" => Programs[c] = TeamsList
        /\ c = "channelsList" => Programs[c] = ChannelsList
        /\ c = "teamMembersList" => Programs[c] = TeamMembersList
    BY DEF Programs
  <2>2. c # "teamMembersList" =>
         Well(c, <<"experimental">> \o QuerySteps \o <<"client", "pages", "print">>)
    BY <1>3, WellPages, WellBehind
  <2>3. c = "teamMembersList" =>
         Well(c, <<"experimental">> \o QuerySteps \o <<"client", "fetch", "print">>)
    BY WellFetch, WellBehind
  <2>. QED
    BY <1>3, <2>1, <2>2, <2>3 DEF MembersList, TeamsList, ChannelsList, TeamMembersList
<1>4. ASSUME c \in {"dashboardsGet", "viewsGet", "syntheticChecksGet", "checkRulesGet",
                    "recordingRulesGet", "spamFiltersGet", "channelsGet"}
      PROVE  Well(c, Programs[c])
  <2>1. Well(c, AssetGet) /\ AssetGet # << >>
    BY <1>4, WellGets DEF AssetGet
  <2>2. Programs[c] \in {AssetGet, <<"experimental">> \o AssetGet}
    BY <1>4 DEF Programs, DashboardsGet, ViewsGet, SyntheticChecksGet, CheckRulesGet,
                RecordingRulesGet, SpamFiltersGet, ChannelsGet
  <2>. QED
    BY <2>1, <2>2, WellBehind
<1>5. /\ c = "teamsGet" => Well(c, Programs[c])
      /\ c = "membersInvite" => Well(c, Programs[c])
      /\ c = "teamsAddMembers" => Well(c, Programs[c])
      /\ c = "teamsCreate" => Well(c, Programs[c])
  BY WellTeam, WellInvite, WellAdd, WellCreate DEF Programs
<1>6. /\ c = "metricsInstant" => Well(c, Programs[c])
      /\ c = "api" => Well(c, Programs[c])
      /\ c = "logsSend" => Well(c, Programs[c])
      /\ c = "spansSend" => Well(c, Programs[c])
      /\ c = "configShow" => Well(c, Programs[c])
      /\ c = "profilesList" => Well(c, Programs[c])
  BY WellInstant, WellApi, WellLogs, WellSpans, WellShow, WellProfiles DEF Programs
<1>7. ASSUME c \in Private PROVE Well(c, Programs[c])
  BY <1>7, WellPrivate DEF Private, Programs
<1>8. \/ c \in Queries \/ c \in AssetLists \/ c \in Private
      \/ c \in {"membersList", "teamsList", "channelsList", "teamMembersList"}
      \/ c \in {"dashboardsGet", "viewsGet", "syntheticChecksGet", "checkRulesGet",
                "recordingRulesGet", "spamFiltersGet", "channelsGet"}
      \/ c \in {"teamsGet", "membersInvite", "teamsAddMembers", "teamsCreate"}
      \/ c \in {"metricsInstant", "api", "logsSend", "spansSend", "configShow", "profilesList"}
  BY DEF Commands, Programs, Queries, AssetLists, Private
<1>. QED
  BY <1>1, <1>2, <1>3, <1>4, <1>5, <1>6, <1>7, <1>8

(* What a command has left, seen from its head. *)
LEMMA WellHead ==
  ASSUME NEW c, NEW p, NEW t, Well(c, p), Rest(p, t), t # << >>
  PROVE  LET h == Head(t) r == Tail(t) IN
         /\ Fits(c, h)
         /\ h \in Gathering => ~Ahead(r, Gathering)
         /\ h \in Gathering /\ Ahead(p, {"details"}) => Ahead(r, {"details"})
         /\ h \in Late /\ c \notin Private => ~Ahead(t, Gathering)
         /\ h = "print" => ~Ahead(r, {"details"}) /\ ~Ahead(r, Gathering)
         /\ h \notin Gathering => (Ahead(r, Gathering) <=> Ahead(t, Gathering))
         /\ h # "details" => (Ahead(r, {"details"}) <=> Ahead(t, {"details"}))
<1>. DEFINE h == Head(t) r == Tail(t)
<1>1. PICK n \in Nat, m \in Nat : n = Len(p) /\ m = Len(t) /\ m # 0 /\ m <= n
  BY EmptySeq DEF Rest
<1>2. /\ \A i \in 1..m : t[i] = p[n - m + i]
      /\ Len(r) = m - 1 /\ \A i \in 1..(m - 1) : r[i] = t[i + 1]
      /\ h = t[1]
  BY <1>1 DEF Rest
<1>. HIDE DEF h, r
<1>3. Fits(c, h)
  <2>1. n - m + 1 \in 1..n /\ h = p[n - m + 1]
    BY <1>1, <1>2
  <2>. QED
    BY <1>1, <2>1 DEF Well
<1>4. ASSUME NEW X PROVE Ahead(t, X) <=> h \in X \/ Ahead(r, X)
  <2>1. ASSUME Ahead(t, X), h \notin X PROVE Ahead(r, X)
    <3>1. PICK i \in 1..m : t[i] \in X
      BY <1>1, <2>1 DEF Ahead
    <3>2. i - 1 \in 1..(m - 1) /\ r[i - 1] = t[i]
      BY <1>1, <1>2, <2>1, <3>1
    <3>. QED
      BY <1>2, <3>1, <3>2 DEF Ahead
  <2>2. ASSUME Ahead(r, X) PROVE Ahead(t, X)
    <3>1. PICK i \in 1..(m - 1) : r[i] \in X
      BY <1>2, <2>2 DEF Ahead
    <3>2. i + 1 \in 1..m /\ t[i + 1] \in X
      BY <1>1, <1>2, <3>1
    <3>. QED
      BY <1>1, <3>2 DEF Ahead
  <2>3. h \in X => Ahead(t, X)
    BY <1>1, <1>2 DEF Ahead
  <2>. QED
    BY <2>1, <2>2, <2>3
<1>5. ASSUME c \notin Private
      PROVE  \E k \in 1..n : /\ \A i \in 1..m : t[i] \in Gathering => n - m + i = k
                             /\ \A i \in 1..n : p[i] \in Late => k < i
  <2>1. PICK k \in 1..n : Gathers(p, k)
    BY <1>1, <1>5 DEF Well
  <2>2. \A i \in 1..m : n - m + i \in 1..n /\ t[i] = p[n - m + i]
    BY <1>1, <1>2
  <2>3. \A i \in 1..n : (p[i] \in Gathering => i = k) /\ (p[i] \in Late => k < i)
    BY <1>1, <2>1 DEF Gathers
  <2>4. \A i \in 1..m : t[i] \in Gathering => n - m + i = k
    BY <2>2, <2>3
  <2>5. \A i \in 1..n : p[i] \in Late => k < i
    BY <2>3
  <2>. QED
    BY <2>4, <2>5
<1>6. ASSUME h \in Gathering
      PROVE  ~Ahead(r, Gathering) /\ (Ahead(p, {"details"}) => Ahead(r, {"details"}))
  <2>1. c \notin Private
    BY <1>3, <1>6 DEF Fits
  <2>2. PICK k \in 1..n : /\ \A i \in 1..m : t[i] \in Gathering => n - m + i = k
                          /\ \A i \in 1..n : p[i] \in Late => k < i
    BY <1>5, <2>1
  <2>3. k = n - m + 1
    BY <1>1, <1>2, <1>6, <2>2
  <2>4. \A i \in 1..(m - 1) : r[i] \notin Gathering
    BY <1>1, <1>2, <2>2, <2>3
  <2>5. ASSUME Ahead(p, {"details"}) PROVE Ahead(r, {"details"})
    <3>1. PICK j \in 1..n : p[j] = "details"
      BY <1>1, <2>5 DEF Ahead
    <3>2. k < j
      BY <2>2, <3>1 DEF Late
    <3>3. j - k \in 1..(m - 1) /\ j - k + 1 \in 1..m /\ n - m + (j - k + 1) = j
      BY <1>1, <2>3, <3>2
    <3>4. r[j - k] = "details"
      BY <1>2, <3>1, <3>3
    <3>. QED
      BY <1>2, <3>3, <3>4 DEF Ahead
  <2>. QED
    BY <1>2, <2>4, <2>5 DEF Ahead
<1>7. ASSUME h \in Late, c \notin Private PROVE ~Ahead(t, Gathering)
  <2>1. PICK k \in 1..n : /\ \A i \in 1..m : t[i] \in Gathering => n - m + i = k
                          /\ \A i \in 1..n : p[i] \in Late => k < i
    BY <1>5, <1>7
  <2>2. k < n - m + 1
    BY <1>1, <1>2, <1>7, <2>1
  <2>. QED
    BY <1>1, <2>1, <2>2 DEF Ahead
<1>8. ASSUME h = "print" PROVE ~Ahead(r, {"details"}) /\ ~Ahead(r, Gathering)
  <2>1. n - m + 1 = n
    <3>1. n - m + 1 \in 1..n /\ p[n - m + 1] = "print"
      <4>1. 1 \in 1..m /\ n - m + 1 \in 1..n
        BY <1>1
      <4>2. t[1] = p[n - m + 1]
        BY <1>2, <4>1
      <4>. QED
        BY <1>2, <1>8, <4>1, <4>2
    <3>. QED
      BY <1>1, <3>1 DEF Well
  <2>. QED
    BY <1>1, <1>2, <2>1 DEF Ahead
<1>. QED
  BY <1>3, <1>4, <1>6, <1>7, <1>8 DEF h, r

(* No program is empty.                                                    *)
LEMMA ProgramsFilled == ASSUME NEW c \in Commands PROVE Programs[c] # << >>
<1>1. CASE c \in Private
  BY <1>1 DEF Private, Programs, TraceGetSteps, QuerySteps, LoginSteps, InstallSteps
<1>2. CASE c \notin Private
  BY <1>2, ProgramsWell DEF Well, Gathers
<1>. QED
  BY <1>1, <1>2

(* The commands whose program has a step. *)
LEMMA ProgramHas ==
  ASSUME NEW c \in Commands, NEW s, s \in ToSet(Programs[c])
  PROVE  Ahead(MainSteps \o Programs[c], {s})
<1>1. Programs[c] \in Seq(Places) /\ MainSteps \in Seq(Places)
  BY ProgramsWell, LocalMain DEF Well, Local, Places
<1>2. PICK m \in Nat, n \in Nat : m = Len(MainSteps) /\ n = Len(Programs[c])
  BY <1>1
<1>3. PICK i \in 1..n : Programs[c][i] = s
  BY <1>1, <1>2 DEF ToSet
<1>. DEFINE p == MainSteps \o Programs[c]
<1>4. Len(p) = m + n /\ p[m + i] = s
  BY <1>1, <1>2, <1>3
<1>. HIDE DEF p
<1>5. m + i \in 1..Len(p)
  BY <1>4
<1>6. Ahead(p, {s})
  BY <1>4, <1>5 DEF Ahead
<1>. QED
  BY <1>6 DEF p

(***************************************************************************)
(* What has been collected.                                                *)
(***************************************************************************)
Take(n) == FlattenSeq(SubSeq(Groups, 1, n))
(* The part that the command was asked for.                                *)
Cut(o) == IF Limited /\ CutsGroups THEN Prefix(o, inv.limit) ELSE o

(* What the memory m has collected: what the API has offered, cut to the   *)
(* limit; before the step that collects is left there is more to come,     *)
(* afterwards there is not; of the rows whose definitions are asked for, a *)
(* prefix has them, and all have behind that step.                         *)
Collects(m) ==
    /\ m.got \in 0..Len(Groups) /\ m.whole \in BOOLEAN
    /\ m.rows = Cut(Take(m.got))
    /\ Ahead(m.todo, Gathering) =>
         ~m.whole /\ ~Reached(Len(Take(m.got))) /\ m.named = << >>
    /\ ~Ahead(m.todo, Gathering) => m.whole \/ Reached(Len(Take(m.got)))
    /\ inv.cmd \in DetailCommands /\ Definitions =>
         /\ m.named \in Seq({TRUE}) /\ Len(m.named) <= Len(m.rows)
         /\ ~Ahead(m.todo, {"details"}) => Len(m.named) = Len(m.rows)
    /\ m.got > 0 /\ inv.cmd \in PagedCommands => ~Reached(Len(Take(m.got - 1)))

(* What m has printed: nothing before the end, but for the records of a    *)
(* CSV query and the body that `api` got; at the end, all that was         *)
(* collected.                                                              *)
Outputs(m) ==
    /\ m.status # "ok" /\ m.out # << >> =>
         \/ inv.cmd = "api"
         \/ inv.cmd \in Queries /\ Format = "csv" /\ m.out = m.rows
    /\ m.status = "ok" /\ inv.cmd \in PrintCommands =>
         /\ m.out = m.rows
         /\ ~Ahead(m.todo, Gathering) /\ ~Ahead(m.todo, {"details"})


(* A prefix has the length asked for, or that of the whole.                *)
LEMMA PrefixOf ==
  ASSUME NEW s \in Seq(Nat), NEW n \in Nat
  PROVE  /\ Prefix(s, n) \in Seq(Nat) /\ Len(Prefix(s, n)) = IF n < Len(s) THEN n ELSE Len(s)
         /\ Len(s) <= n => Prefix(s, n) = s
<1>1. PICK k \in Nat : k = Len(s)
  OBVIOUS
<1>2. SubSeq(s, 1, k) = s
  BY <1>1
<1>3. CASE n < k
  <2>1. SubSeq(s, 1, n) \in Seq(Nat) /\ Len(SubSeq(s, 1, n)) = n
    BY <1>1, <1>3
  <2>. QED
    BY <1>1, <1>3, <2>1 DEF Prefix
<1>4. CASE k <= n
  BY <1>1, <1>2, <1>4 DEF Prefix
<1>. QED
  BY <1>3, <1>4

(* The first n elements of a sequence.                                     *)
LEMMA SubFacts ==
  ASSUME NEW s \in Seq(Nat), NEW n \in Nat, n <= Len(s)
  PROVE  /\ SubSeq(s, 1, n) \in Seq(Nat) /\ Len(SubSeq(s, 1, n)) = n
         /\ \A i \in 1..n : SubSeq(s, 1, n)[i] = s[i]
<1>1. \A i \in 1..n : s[i] \in Nat
  OBVIOUS
<1>. QED
  BY <1>1, SubSeqProperties

(* A prefix that goes beyond o takes the rest from g: cutting group by     *)
(* group is cutting once.                                                  *)
LEMMA PrefixConcat ==
  ASSUME NEW o \in Seq(Nat), NEW g \in Seq(Nat), NEW n \in Nat, Len(o) <= n
  PROVE  Prefix(o \o g, n) = o \o Prefix(g, n - Len(o))
<1>1. PICK a \in Nat, b \in Nat, c \in Nat : a = Len(o) /\ b = Len(g) /\ c = n - a
  OBVIOUS
<1>2. PICK w \in Seq(Nat) : w = o \o g
  BY ConcatProperties
<1>3. /\ Len(w) = a + b
      /\ \A i \in 1..(a + b) : w[i] = IF i <= a THEN o[i] ELSE g[i - a]
  BY <1>1, <1>2
<1>4. CASE b <= c
  <2>1. Prefix(g, c) = g /\ Prefix(w, n) = w
    BY <1>1, <1>3, <1>4, PrefixOf
  <2>. QED
    BY <1>1, <1>2, <2>1
<1>5. CASE c < b
  <2>. DEFINE p == SubSeq(w, 1, n) q == SubSeq(g, 1, c) v == o \o q
  <2>0. n <= Len(w) /\ c <= Len(g)
    BY <1>1, <1>3, <1>5
  <2>1. p \in Seq(Nat) /\ Len(p) = n /\ \A i \in 1..n : p[i] = w[i]
    BY <2>0, SubFacts
  <2>2. q \in Seq(Nat) /\ Len(q) = c /\ \A i \in 1..c : q[i] = g[i]
    BY <2>0, SubFacts
  <2>. HIDE DEF p, q
  <2>3. /\ v \in Seq(Nat) /\ Len(v) = a + c
        /\ \A i \in 1..(a + c) : v[i] = IF i <= a THEN o[i] ELSE q[i - a]
    BY <1>1, <2>2, ConcatProperties
  <2>. HIDE DEF v
  <2>4. a + c = n
    BY <1>1
  <2>5. ASSUME NEW i \in 1..n PROVE p[i] = v[i]
    <3>1. CASE i <= a
      BY <1>1, <1>3, <1>5, <2>1, <2>3, <2>4, <3>1
    <3>2. CASE a < i
      <4>1. i - a \in 1..c /\ i \in 1..(a + b) /\ i \in 1..(a + c)
        BY <1>1, <1>5, <2>4, <3>2
      <4>. QED
        BY <1>3, <2>1, <2>2, <2>3, <3>2, <4>1
    <3>. QED
      BY <1>1, <3>1, <3>2
  <2>6. p = v
    BY <2>1, <2>3, <2>4, <2>5, SeqEqual
  <2>7. Prefix(w, n) = p /\ Prefix(g, c) = q
    <3>1. Prefix(w, n) = SubSeq(w, 1, n) /\ Prefix(g, c) = SubSeq(g, 1, c)
      BY <1>1, <1>3, <1>5, <2>4 DEF Prefix
    <3>. QED
      BY <3>1 DEF p, q
  <2>. QED
    BY <1>1, <1>2, <2>6, <2>7 DEF v
<1>. QED
  BY <1>1, <1>4, <1>5

(* The groups the API offers are sequences of records.                     *)
LEMMA GroupsType == Items \in Seq(Nat) /\ Groups \in Seq(Seq(Nat))
<1>1. Items \in Seq(Nat)
  BY CommandsAssumption, FlattenType DEF Items
<1>2. [i \in DOMAIN Items |-> <<Items[i]>>] \in Seq(Seq(Nat))
  <2>1. \A i \in 1..Len(Items) : <<Items[i]>> \in Seq(Nat)
    BY <1>1
  <2>2. DOMAIN Items = 1..Len(Items) /\ Len(Items) \in Nat
    BY <1>1
  <2>. QED
    BY <2>1, <2>2
<1>3. << << 1 >> >> \in Seq(Seq(Nat))
  OBVIOUS
<1>. QED
  BY <1>1, <1>2, <1>3, CommandsAssumption DEF Groups

(* There are so many.                                                      *)
LEMMA GroupsLen == Len(Groups) \in Nat
BY GroupsType

(* Nothing is offered at first.                                            *)
LEMMA TakeNone == Take(0) = << >>
<1>1. SubSeq(Groups, 1, 0) = << >>
  BY GroupsType
<1>. QED
  BY <1>1, FlattenEmpty DEF Take

(* What is offered is a sequence of records.                               *)
LEMMA TakeType == ASSUME NEW n \in 0..Len(Groups) PROVE Take(n) \in Seq(Nat)
<1>1. SubSeq(Groups, 1, n) \in Seq(Seq(Nat))
  BY GroupsType, SMTT(30)
<1>. QED
  BY <1>1, FlattenType DEF Take

(* The next group is appended to what was offered before.                  *)
LEMMA TakeNext == ASSUME NEW n \in Nat, n < Len(Groups) PROVE
    /\ Take(n + 1) = Take(n) \o Groups[n + 1]
    /\ Take(n) \in Seq(Nat) /\ Groups[n + 1] \in Seq(Nat)
<1>1. Take(n + 1) = Take(n) \o Groups[n + 1]
  BY GroupsType, FlattenNext DEF Take
<1>2. n \in 0..Len(Groups) /\ n + 1 \in 1..Len(Groups)
  BY GroupsType
<1>. QED
  BY <1>1, <1>2, GroupsType, TakeType

(* All groups are all that is offered.                                     *)
LEMMA TakeAll == Take(Len(Groups)) = FlattenSeq(Groups)
<1>1. SubSeq(Groups, 1, Len(Groups)) = Groups
  <2>1. PICK g \in Seq(Seq(Nat)) : g = Groups
    BY GroupsType
  <2>2. SubSeq(g, 1, Len(g)) = g
    OBVIOUS
  <2>. QED
    BY <2>1, <2>2
<1>. QED
  BY <1>1 DEF Take

(* A step of a program fits the command.                                   *)
LEMMA CommandHas ==
  ASSUME NEW c \in Commands, NEW s, s \in ToSet(Programs[c])
  PROVE  \E i \in 1..Len(Programs[c]) : Programs[c][i] = s /\ Fits(c, s)
<1>1. Well(c, Programs[c])
  BY ProgramsWell
<1>2. Programs[c] \in Seq(Places)
  BY <1>1 DEF Well
<1>3. PICK i \in 1..Len(Programs[c]) : Programs[c][i] = s
  BY <1>2 DEF ToSet
<1>. QED
  BY <1>1, <1>3 DEF Well

(* `api` and the commands with steps of their own do not print at a step   *)
(* "print".                                                                *)
LEMMA CommandKinds ==
    "api" \notin PrintCommands /\ \A c \in Private : c \notin PrintCommands
<1>1. "print" \notin ToSet(Programs["api"])
  BY DEF Programs, Api, ToSet
<1>2. ASSUME NEW c \in Private PROVE c \notin PrintCommands
  <2>1. ASSUME c \in PrintCommands PROVE FALSE
    <3>1. Fits(c, "print")
      BY <2>1, CommandHas DEF PrintCommands
    <3>. QED
      BY <3>1 DEF Fits, Late
  <2>. QED
    BY <2>1
<1>. QED
  BY <1>1, <1>2 DEF PrintCommands

(* What the next step of a process says about those that are left.         *)
LEMMA CourseHead ==
  ASSUME Course, mem.todo # << >>
  PROVE  LET c == inv.cmd h == Head(mem.todo) t == mem.todo r == Tail(mem.todo) IN
         /\ c \in Commands /\ Fits(c, h)
         /\ h \in Gathering =>
              /\ Ahead(t, Gathering) /\ ~Ahead(r, Gathering)
              /\ c \in DetailCommands => Ahead(r, {"details"})
              /\ c \in PagedCommands => h \in {"pages", "stream"}
         /\ h = "details" => Ahead(t, {"details"})
         /\ h \in Late /\ c \notin Private => ~Ahead(t, Gathering)
         /\ h = "print" => ~Ahead(r, {"details"}) /\ ~Ahead(r, Gathering)
         /\ h \notin Gathering => (Ahead(r, Gathering) <=> Ahead(t, Gathering))
         /\ h # "details" => (Ahead(r, {"details"}) <=> Ahead(t, {"details"}))
<1>1. PICK c, p, t, h, r : /\ c = inv.cmd /\ p = Program /\ t = mem.todo
                           /\ h = Head(t) /\ r = Tail(t)
  OBVIOUS
<1>2. c \in Commands
  BY <1>1, InvocationsAssumption DEF Course, Invocation
<1>3. p = MainSteps \o Programs[c]
  BY <1>1 DEF Program
<1>4. Well(c, p)
  BY <1>2, <1>3, ProgramsWell, ProgramsFilled, WellQuiet, QuietParts
<1>5. Rest(p, t) /\ t # << >>
  BY <1>1 DEF Course
<1>6. /\ Fits(c, h)
      /\ h \in Gathering => ~Ahead(r, Gathering)
      /\ h \in Gathering /\ Ahead(p, {"details"}) => Ahead(r, {"details"})
      /\ h \in Late /\ c \notin Private => ~Ahead(t, Gathering)
      /\ h = "print" => ~Ahead(r, {"details"}) /\ ~Ahead(r, Gathering)
      /\ h \notin Gathering => (Ahead(r, Gathering) <=> Ahead(t, Gathering))
      /\ h # "details" => (Ahead(r, {"details"}) <=> Ahead(t, {"details"}))
  BY <1>1, <1>4, <1>5, WellHead
<1>7. ASSUME NEW X, h \in X PROVE Ahead(t, X)
  <2>1. Len(t) >= 1 /\ t[1] = h
    BY <1>1, <1>5, EmptySeq DEF Rest
  <2>. QED
    BY <1>5, <1>7, <2>1 DEF Ahead, Rest
<1>8. c \in DetailCommands => Ahead(p, {"details"})
  BY <1>2, <1>3, ProgramHas DEF DetailCommands
<1>9. ASSUME h \in Gathering, c \in PagedCommands PROVE h \in {"pages", "stream"}
  <2>1. PICK s \in {"pages", "stream"} : s \in ToSet(Programs[c])
    BY <1>9 DEF PagedCommands
  <2>2. PICK i \in 1..Len(p) : p[i] = s
    BY <1>2, <1>3, <2>1, ProgramHas DEF Ahead
  <2>3. c \notin Private
    BY <1>6, <1>9 DEF Fits
  <2>4. PICK k \in 1..Len(p) : Gathers(p, k)
    BY <1>4, <2>3 DEF Well
  <2>5. PICK j \in 1..Len(p) : p[j] = h
    <3>1. Len(t) \in 1..Len(p) /\ Head(t) = p[Len(p) - Len(t) + 1]
      BY <1>5, RestTail
    <3>2. Len(p) - Len(t) + 1 \in 1..Len(p)
      BY <1>5, <3>1 DEF Rest
    <3>. QED
      BY <1>1, <3>1, <3>2
  <2>6. i = k /\ j = k
    BY <1>9, <2>1, <2>2, <2>4, <2>5 DEF Gathers, Gathering
  <2>. QED
    BY <2>1, <2>2, <2>5, <2>6
<1>. QED
  BY <1>1, <1>2, <1>6, <1>7, <1>8, <1>9

(***************************************************************************)
(* What a step leaves of the memory.                                       *)
(***************************************************************************)
Is(m, todo, status, rows, named, out, got, whole) ==
    /\ Whole(m) /\ m.todo = todo /\ m.status = status /\ m.rows = rows /\ m.named = named
    /\ m.out = out /\ m.got = got /\ m.whole = whole

(* The memory, field by field.                                             *)
LEMMA MemIs ==
  ASSUME Whole(mem)
  PROVE  Is(mem, mem.todo, mem.status, mem.rows, mem.named, mem.out, mem.got, mem.whole)
BY DEF Is

(* The fields after a step, a failure, a request.                          *)
LEMMA AfterIs ==
  ASSUME NEW m, NEW t, NEW s, NEW r, NEW n, NEW o, NEW g, NEW w, Is(m, t, s, r, n, o, g, w)
  PROVE  /\ Is(Done(m), Tail(t), s, r, n, o, g, w)
         /\ Is(Failing(m), t, "failing", r, n, o, g, w)
         /\ Is(Sent(m), t, s, r, n, o, g, w)
<1>1. Is(Done(m), Tail(t), s, r, n, o, g, w)
  BY DEF Is, Whole, Fields, Done
<1>2. Is(Failing(m), t, "failing", r, n, o, g, w)
  BY DEF Is, Whole, Fields, Failing
<1>3. Is(Sent(m), t, s, r, n, o, g, w)
  BY DEF Is, Whole, Fields, Sent
<1>. QED
  BY <1>1, <1>2, <1>3

(* Both. The commands with steps of their own collect elsewhere.           *)
Answer(m) == (inv.cmd \notin Private => Collects(m)) /\ Outputs(m)

(* Cutting does not change what has not reached the limit, nor whether it  *)
(* has.                                                                    *)
LEMMA CutType ==
  ASSUME Course, NEW o \in Seq(Nat)
  PROVE  /\ Cut(o) \in Seq(Nat) /\ (~Reached(Len(o)) => Cut(o) = o)
         /\ Reached(Len(Cut(o))) <=> Reached(Len(o))
<1>1. inv.limit \in Nat
  BY InvocationsAssumption DEF Course, Invocation
<1>2. CASE Limited /\ CutsGroups
  <2>1. Cut(o) = Prefix(o, inv.limit)
    BY <1>2 DEF Cut
  <2>2. PICK n \in Nat : n = Len(o)
    OBVIOUS
  <2>3. /\ Cut(o) \in Seq(Nat) /\ Len(Cut(o)) = IF inv.limit < n THEN inv.limit ELSE n
        /\ n <= inv.limit => Cut(o) = o
    BY <1>1, <2>1, <2>2, PrefixOf
  <2>. QED
    BY <1>1, <1>2, <2>2, <2>3 DEF Reached
<1>3. CASE ~(Limited /\ CutsGroups)
  BY <1>3 DEF Cut
<1>. QED
  BY <1>2, <1>3

(* The rows with the next group, emitted up to the limit, are what is      *)
(* offered then, cut to the limit.                                         *)
LEMMA RowsNext ==
  ASSUME Course, Collects(mem), mem.got < Len(Groups), ~Reached(Len(Take(mem.got))),
         NEW rows, rows = mem.rows \o Emitted(Groups[mem.got + 1])
  PROVE  /\ rows = Cut(Take(mem.got + 1)) /\ rows \in Seq(Nat)
         /\ Reached(Len(rows)) <=> Reached(Len(Take(mem.got + 1)))
<1>1. PICK n, g, o : n \in Nat /\ n = mem.got /\ g = Groups[n + 1] /\ o = Take(n)
  BY GroupsLen DEF Collects
<1>2. o \in Seq(Nat) /\ g \in Seq(Nat) /\ Take(n + 1) = o \o g
  BY <1>1, TakeNext
<1>3. mem.rows = o
  BY <1>1, <1>2, CutType DEF Collects
<1>4. inv.limit \in Nat
  BY InvocationsAssumption DEF Course, Invocation
<1>5. o \o g \in Seq(Nat)
  BY <1>2, ConcatProperties
<1>6. rows = Cut(o \o g)
  <2>1. CASE Limited /\ CutsGroups
    <3>1. Len(o) <= inv.limit
      BY <1>1, <1>2, <1>4, <2>1 DEF Reached
    <3>2. Prefix(o \o g, inv.limit) = o \o Prefix(g, inv.limit - Len(o))
      BY <1>2, <1>4, <3>1, PrefixConcat
    <3>. QED
      BY <1>1, <1>3, <2>1, <3>2 DEF Cut, Emitted
  <2>2. CASE ~(Limited /\ CutsGroups)
    BY <1>1, <1>3, <2>2 DEF Cut, Emitted
  <2>. QED
    BY <2>1, <2>2
<1>7. PICK w \in Seq(Nat) : w = o \o g
  BY <1>5
<1>8. rows = Cut(w) /\ Take(mem.got + 1) = w
  BY <1>1, <1>2, <1>6, <1>7
<1>9. Cut(w) \in Seq(Nat) /\ (Reached(Len(Cut(w))) <=> Reached(Len(w)))
  BY CutType
<1>. QED
  BY <1>8, <1>9

(* A step that collects nothing.                                           *)
LEMMA IdleAnswers ==
  ASSUME Course, Answer(mem), mem.status # "ok", NEW m, NEW t, NEW s,
         Is(m, t, s, mem.rows, mem.named, mem.out, mem.got, mem.whole), s # "ok",
         \/ t = mem.todo
         \/ /\ mem.todo # << >> /\ t = Tail(mem.todo)
            /\ Head(mem.todo) \notin Gathering \union {"details"}
  PROVE  Answer(m)
<1>1. ASSUME NEW S \in {Gathering, {"details"}} PROVE Ahead(m.todo, S) <=> Ahead(mem.todo, S)
  BY CourseHead DEF Is
<1>2. Ahead(m.todo, Gathering) <=> Ahead(mem.todo, Gathering)
  BY <1>1
<1>3. Ahead(m.todo, {"details"}) <=> Ahead(mem.todo, {"details"})
  BY <1>1
<1>4. inv.cmd \notin Private => Collects(m)
  BY <1>2, <1>3 DEF Answer, Collects, Is
<1>5. Outputs(m)
  BY DEF Answer, Outputs, Is
<1>. QED
  BY <1>4, <1>5 DEF Answer

(* A step that takes what there is to collect and is the last that does.    *)
LEMMA GatherAnswers ==
  ASSUME Course, Answer(mem), mem.todo # << >>, Head(mem.todo) \in Gathering,
         NEW m, NEW r, NEW o, NEW g, NEW w,
         Is(m, Tail(mem.todo), "running", r, mem.named, o, g, w),
         g \in 0..Len(Groups), r = Cut(Take(g)), w \in BOOLEAN,
         w \/ Reached(Len(Take(g))),
         inv.cmd \in PagedCommands /\ g > 0 => ~Reached(Len(Take(g - 1))),
         \/ o = << >> \/ inv.cmd = "api"
         \/ inv.cmd \in Queries /\ Format = "csv" /\ o = r
  PROVE  Answer(m)
<1>1. /\ inv.cmd \notin Private
      /\ Ahead(mem.todo, Gathering) /\ ~Ahead(m.todo, Gathering)
      /\ inv.cmd \in DetailCommands => Ahead(m.todo, {"details"})
  BY CourseHead DEF Is, Fits
<1>2. mem.named = << >>
  BY <1>1 DEF Answer, Collects
<1>3. r \in Seq(Nat)
  BY TakeType, CutType
<1>4. << >> \in Seq({TRUE}) /\ Len(<< >>) <= Len(r)
  BY <1>3
<1>5. Collects(m)
  BY <1>1, <1>2, <1>4 DEF Collects, Is
<1>6. Outputs(m)
  BY DEF Outputs, Is
<1>. QED
  BY <1>5, <1>6 DEF Answer

(* One that has more to collect.                                           *)
LEMMA StayAnswers ==
  ASSUME Course, Answer(mem), mem.todo # << >>, Head(mem.todo) \in Gathering,
         mem.got < Len(Groups), NEW m, NEW r, NEW o,
         Is(m, mem.todo, "running", r, mem.named, o, mem.got + 1, mem.whole),
         r = Cut(Take(mem.got + 1)), ~Reached(Len(Take(mem.got + 1))),
         \/ o = << >> \/ inv.cmd = "api"
         \/ inv.cmd \in Queries /\ Format = "csv" /\ o = r
  PROVE  Answer(m)
<1>1. /\ inv.cmd \notin Private /\ Ahead(mem.todo, Gathering)
      /\ inv.cmd \in DetailCommands => Ahead(mem.todo, {"details"})
  <2>1. "details" \notin Gathering
    BY DEF Gathering
  <2>. QED
    BY <2>1, CourseHead DEF Fits
<1>2. /\ mem.named = << >> /\ ~mem.whole /\ ~Reached(Len(Take(mem.got)))
      /\ mem.got \in Nat /\ mem.got + 1 \in 0..Len(Groups) /\ mem.whole \in BOOLEAN
  BY <1>1, GroupsLen DEF Answer, Collects
<1>3. r \in Seq(Nat)
  BY <1>2, TakeType, CutType
<1>4. << >> \in Seq({TRUE}) /\ Len(<< >>) <= Len(r)
  BY <1>3
<1>5. m.got = mem.got + 1 /\ m.got - 1 = mem.got
  BY <1>2 DEF Is
<1>6. Collects(m)
  <2>1. ~Reached(Len(Take(m.got - 1)))
    BY <1>2, <1>5
  <2>2. m.whole = mem.whole /\ m.todo = mem.todo /\ m.named = mem.named /\ m.rows = r
    BY DEF Is
  <2>. QED
    BY <1>1, <1>2, <1>4, <1>5, <2>1, <2>2 DEF Collects
<1>7. Outputs(m)
  BY DEF Outputs, Is
<1>. QED
  BY <1>6, <1>7 DEF Answer

(* One that adds what it has found out about a row.                        *)
LEMMA NamedAnswers ==
  ASSUME Course, Answer(mem), mem.status = "running",
         mem.todo # << >>, Head(mem.todo) \in {"details", "names"},
         Len(mem.named) < Len(mem.rows), NEW found, NEW m,
         Is(m, mem.todo, "running", mem.rows, Append(mem.named, found), mem.out, mem.got,
            mem.whole),
         Definitions => found = TRUE /\ Head(mem.todo) = "details"
  PROVE  Answer(m)
<1>1. Head(mem.todo) \in Late /\ Head(mem.todo) \notin Checks
  BY DEF Late, Checks
<1>2. inv.cmd \notin Private /\ ~Ahead(mem.todo, Gathering)
  BY <1>1, CourseHead DEF Fits
<1>3. Definitions => Ahead(mem.todo, {"details"})
  BY CourseHead
<1>4. mem.rows \in Seq(Nat)
  BY <1>2, TakeType, CutType DEF Answer, Collects
<1>5. ASSUME inv.cmd \in DetailCommands, Definitions
      PROVE  m.named \in Seq({TRUE}) /\ Len(m.named) <= Len(m.rows)
  <2>1. PICK n \in Seq({TRUE}) : n = mem.named
    BY <1>2, <1>5 DEF Answer, Collects
  <2>2. Append(n, TRUE) \in Seq({TRUE}) /\ Len(Append(n, TRUE)) = Len(n) + 1
    OBVIOUS
  <2>3. m.named = Append(n, TRUE) /\ m.rows = mem.rows
    BY <1>5, <2>1 DEF Is
  <2>. QED
    BY <1>4, <2>1, <2>2, <2>3
<1>6. Collects(m)
  BY <1>2, <1>3, <1>5 DEF Answer, Collects, Is
<1>7. Outputs(m)
  BY DEF Answer, Outputs, Is
<1>. QED
  BY <1>6, <1>7 DEF Answer

(* The details of every row are there.                                     *)
LEMMA DetailedAnswers ==
  ASSUME Course, Answer(mem), mem.status = "running", mem.todo # << >>, Head(mem.todo) = "details",
         Definitions => ~(Len(mem.named) < Len(mem.rows)), NEW m,
         Is(m, Tail(mem.todo), "running", mem.rows, mem.named, mem.out, mem.got, mem.whole)
  PROVE  Answer(m)
<1>1. "details" \in Late /\ "details" \notin Gathering
  BY DEF Late, Gathering
<1>2. inv.cmd \notin Private /\ ~Ahead(mem.todo, Gathering) /\ ~Ahead(m.todo, Gathering)
  BY <1>1, CourseHead DEF Fits, Is
<1>3. mem.rows \in Seq(Nat)
  BY <1>2, TakeType, CutType DEF Answer, Collects
<1>4. ASSUME inv.cmd \in DetailCommands, Definitions
      PROVE  /\ mem.named \in Seq({TRUE}) /\ Len(mem.named) <= Len(mem.rows)
             /\ Len(mem.named) = Len(mem.rows)
  <2>1. mem.named \in Seq({TRUE}) /\ Len(mem.named) <= Len(mem.rows)
    BY <1>2, <1>4 DEF Answer, Collects
  <2>. QED
    BY <1>3, <1>4, <2>1
<1>5. Collects(m)
  BY <1>2, <1>4 DEF Answer, Collects, Is
<1>6. Outputs(m)
  BY DEF Answer, Outputs, Is
<1>. QED
  BY <1>5, <1>6 DEF Answer

(* The last step, which prints.                                             *)
LEMMA RenderAnswers ==
  ASSUME Course, Answer(mem), mem.todo # << >>, Head(mem.todo) = "print", NEW m,
         Is(m, Tail(mem.todo), "ok", mem.rows, mem.named, mem.rows, mem.got, mem.whole)
  PROVE  Answer(m)
<1>1. "print" \in Late /\ "print" \notin Gathering /\ "print" # "details"
  BY DEF Late, Gathering
<1>2. /\ ~Ahead(m.todo, Gathering) /\ ~Ahead(m.todo, {"details"})
      /\ ~Ahead(mem.todo, {"details"})
      /\ inv.cmd \notin Private /\ ~Ahead(mem.todo, Gathering)
  BY <1>1, CourseHead DEF Fits, Is
<1>3. Collects(m)
  BY <1>2 DEF Answer, Collects, Is
<1>4. Outputs(m)
  BY <1>2 DEF Outputs, Is
<1>. QED
  BY <1>3, <1>4 DEF Answer

(* A command that ends well and prints no answer.                           *)
LEMMA OtherAnswers ==
  ASSUME Course, Answer(mem), mem.todo # << >>, inv.cmd \notin PrintCommands,
         Head(mem.todo) \notin Gathering \union {"details"}, NEW m, NEW o,
         Is(m, Tail(mem.todo), "ok", mem.rows, mem.named, o, mem.got, mem.whole)
  PROVE  Answer(m)
<1>1. /\ Ahead(m.todo, Gathering) <=> Ahead(mem.todo, Gathering)
      /\ Ahead(m.todo, {"details"}) <=> Ahead(mem.todo, {"details"})
  BY CourseHead DEF Is
<1>2. inv.cmd \notin Private => Collects(m)
  BY <1>1 DEF Answer, Collects, Is
<1>3. Outputs(m)
  BY DEF Outputs, Is
<1>. QED
  BY <1>2, <1>3 DEF Answer

(***************************************************************************)
(* The steps.                                                              *)
(***************************************************************************)

(* Going on, or failing, with nothing collected.                           *)
LEMMA IdleSteps ==
  ASSUME Course, Answer(mem), mem.status = "running"
  PROVE  /\ Answer(Failing(mem)) /\ Answer(Sent(mem))
         /\ mem.todo # << >> /\ Head(mem.todo) \notin Gathering \union {"details"} =>
              Answer(Done(mem)) /\ Answer(Sent(Done(mem)))
<1>1. Is(mem, mem.todo, "running", mem.rows, mem.named, mem.out, mem.got, mem.whole)
  BY MemIs DEF Course
<1>2. /\ Is(Failing(mem), mem.todo, "failing", mem.rows, mem.named, mem.out, mem.got, mem.whole)
      /\ Is(Sent(mem), mem.todo, "running", mem.rows, mem.named, mem.out, mem.got, mem.whole)
      /\ Is(Done(mem), Tail(mem.todo), "running", mem.rows, mem.named, mem.out, mem.got, mem.whole)
  BY <1>1, AfterIs
<1>3. Is(Sent(Done(mem)), Tail(mem.todo), "running", mem.rows, mem.named, mem.out, mem.got,
         mem.whole)
  BY <1>2, AfterIs
<1>. QED
  BY <1>2, <1>3, IdleAnswers

(* The steps that collect and print nothing.                                *)
Idle ==
    Check \/ Makers \/ ReadBody \/ RequestFails \/ ResolveMembers \/ ResolveToMemberIDs

(* They keep the invariant.                                                *)
LEMMA IdleStepAnswers == ASSUME Course, Answer(mem), Idle PROVE Answer(mem')
<1>. USE IdleSteps DEF At, AtSome, Gathering
<1>1. CASE Check
  BY <1>1 DEF Check, Proceed, Refuse, Checks
<1>2. CASE Makers
  <2>1. /\ mem.status = "running" /\ mem.todo # << >>
        /\ Head(mem.todo) \in {"client", "ingressClient", "rawClient"}
        /\ mem' = Failing(mem) \/ \E via, token : MakeClient(via, token)
    BY <1>2 DEF Makers, NewClientFromContext, NewOtlpClientFromContext, NewRawHTTPConfig, Refuse
  <2>2. ASSUME NEW via, NEW token, MakeClient(via, token) PROVE Answer(mem')
    <3>1. PICK m : m = [mem EXCEPT !.client = [via |-> via, token |-> token]]
      OBVIOUS
    <3>2. Is(m, mem.todo, "running", mem.rows, mem.named, mem.out, mem.got, mem.whole)
      BY <2>1, <3>1 DEF Is, Course, Whole, Fields
    <3>3. Is(Done(m), Tail(mem.todo), "running", mem.rows, mem.named, mem.out, mem.got, mem.whole)
      BY <3>2, AfterIs
    <3>4. Answer(Done(m))
      BY <2>1, <3>3, IdleAnswers
    <3>. QED
      BY <2>2, <3>1, <3>4 DEF MakeClient
  <2>. QED
    BY <2>1, <2>2
<1>3. CASE ReadBody
  BY <1>3 DEF ReadBody, Proceed, Refuse
<1>4. CASE RequestFails
  BY <1>4 DEF RequestFails, Requesting, Refuse
<1>5. CASE ResolveMembers \/ ResolveToMemberIDs
  BY <1>5 DEF ResolveMembers, ResolveToMemberIDs, Answered
<1>. QED
  BY <1>1, <1>2, <1>3, <1>4, <1>5 DEF Idle

(* What the command is, by what it collects at.                            *)
LEMMA GroupsOf ==
  ASSUME Course, mem.todo # << >>
  PROVE  /\ Head(mem.todo) \in {"request", "send", "read"} =>
              Groups = << << 1 >> >> /\ ~Limited /\ inv.cmd \notin Queries
         /\ Head(mem.todo) = "invite" =>
              /\ Groups = [i \in DOMAIN Items |-> <<Items[i]>>]
              /\ ~Limited /\ inv.cmd \notin Queries
         /\ Head(mem.todo) = "fetch" => inv.cmd \notin Queries
         /\ Head(mem.todo) \in {"pages", "stream"} =>
              (Head(mem.todo) = "stream" <=> inv.cmd \in Queries)
<1>1. Fits(inv.cmd, Head(mem.todo))
  BY CourseHead
<1>. QED
  BY <1>1 DEF Fits, Gathering, Listing, Groups, Limited, Queries, AssetLists

(* What has been printed before the answer is complete.                     *)
LEMMA PrintedBefore ==
  ASSUME Answer(mem), mem.status = "running"
  PROVE  \/ mem.out = << >> \/ inv.cmd = "api"
         \/ inv.cmd \in Queries /\ Format = "csv" /\ mem.out = mem.rows
BY DEF Answer, Outputs

(* A command that makes one request is offered one record.                 *)
LEMMA OnlyOne ==
  ASSUME Groups = << << 1 >> >>, ~Limited
  PROVE  /\ Len(Groups) = 1 /\ << 1 >> = Cut(Take(1))
         /\ \A n : ~Reached(n)
<1>1. Take(0) = << >> /\ Len(Groups) = 1 /\ Groups[1] = << 1 >>
  BY TakeNone
<1>2. Take(0 + 1) = Take(0) \o Groups[0 + 1]
  BY <1>1, TakeNext
<1>3. Take(1) = << 1 >>
  <2>1. 0 + 1 = 1 /\ << >> \o << 1 >> = << 1 >>
    OBVIOUS
  <2>. QED
    BY <1>1, <1>2, <2>1
<1>. QED
  BY <1>1, <1>3 DEF Cut, Reached

(* Another group: below the limit the command stays, at the limit it goes  *)
(* on.                                                                     *)
LEMMA YieldAnswers == ASSUME Course, Answer(mem), IteratorYields PROVE Answer(mem')
<1>. DEFINE h == Head(mem.todo)
            rows == mem.rows \o Emitted(Groups[mem.got + 1])
            out == IF StreamCSV THEN rows ELSE mem.out
            m == [mem EXCEPT !.got = @ + 1, !.rows = rows, !.out = out]
<1>1. /\ mem.status = "running" /\ mem.todo # << >> /\ h \in {"pages", "stream"}
      /\ h \in Gathering /\ mem.got < Len(Groups)
  BY DEF IteratorYields, AtSome, At, Gathering
<1>2. inv.cmd \notin Private /\ Ahead(mem.todo, Gathering)
  BY <1>1, CourseHead DEF Fits
<1>3. Collects(mem) /\ ~Reached(Len(Take(mem.got))) /\ mem.got \in 0..Len(Groups)
  BY <1>2 DEF Answer, Collects
<1>4. /\ rows = Cut(Take(mem.got + 1)) /\ rows \in Seq(Nat)
      /\ Reached(Len(rows)) <=> Reached(Len(Take(mem.got + 1)))
  <2>. HIDE DEF rows
  <2>1. rows = mem.rows \o Emitted(Groups[mem.got + 1])
    BY DEF rows
  <2>. QED
    BY <1>1, <1>3, <2>1, RowsNext
<1>5. \/ out = << >> \/ inv.cmd = "api"
      \/ inv.cmd \in Queries /\ Format = "csv" /\ out = rows
  <2>1. inv.cmd \in Queries /\ Format = "csv" => StreamCSV
    BY <1>1, GroupsOf DEF StreamCSV, At
  <2>2. StreamCSV => inv.cmd \in Queries /\ Format = "csv"
    BY <1>1, GroupsOf DEF StreamCSV, At
  <2>3. CASE StreamCSV
    BY <2>2, <2>3
  <2>4. CASE ~StreamCSV
    BY <1>1, <2>1, <2>4, PrintedBefore
  <2>. QED
    BY <2>3, <2>4
<1>6. /\ mem' = Sent(IF Reached(Len(rows)) THEN Done(m) ELSE m)
      /\ Is(m, mem.todo, "running", rows, mem.named, out, mem.got + 1, mem.whole)
  <2>1. mem' = Sent(IF Reached(Len(rows)) THEN Done(m) ELSE m)
    BY DEF IteratorYields, Answered
  <2>. HIDE DEF rows, out
  <2>2. Is(m, mem.todo, "running", rows, mem.named, out, mem.got + 1, mem.whole)
    BY <1>1 DEF Is, Course, Whole, Fields
  <2>. QED
    BY <2>1, <2>2
<1>. HIDE DEF rows, out, m
<1>7. CASE Reached(Len(rows))
  <2>1. Is(mem', Tail(mem.todo), "running", rows, mem.named, out, mem.got + 1, mem.whole)
    BY <1>6, <1>7, AfterIs
  <2>2. mem.got + 1 \in 0..Len(Groups) /\ mem.whole \in BOOLEAN
    BY <1>1, <1>3, GroupsLen DEF Collects
  <2>3. PICK g : g = mem.got + 1
    OBVIOUS
  <2>4. Is(mem', Tail(mem.todo), "running", rows, mem.named, out, g, mem.whole)
    BY <2>1, <2>3
  <2>5. g \in 0..Len(Groups) /\ rows = Cut(Take(g)) /\ Reached(Len(Take(g)))
    BY <1>4, <1>7, <2>2, <2>3
  <2>6. ~Reached(Len(Take(g - 1)))
    <3>1. g - 1 = mem.got
      BY <1>3, <2>3, GroupsLen
    <3>. QED
      BY <1>3, <3>1
  <2>. QED
    BY <1>1, <1>5, <2>2, <2>4, <2>5, <2>6, GatherAnswers
<1>8. CASE ~Reached(Len(rows))
  <2>1. Is(mem', mem.todo, "running", rows, mem.named, out, mem.got + 1, mem.whole)
    BY <1>6, <1>8, AfterIs
  <2>. QED
    BY <1>1, <1>4, <1>5, <1>8, <2>1, StayAnswers
<1>. QED
  BY <1>7, <1>8

(* No more groups, or no more invitations.                                 *)
LEMMA EndsAnswers == ASSUME Course, Answer(mem), IteratorEnds \/ Invited PROVE Answer(mem')
<1>. DEFINE m == [mem EXCEPT !.whole = TRUE]
<1>1. /\ mem.status = "running" /\ mem.todo # << >> /\ Head(mem.todo) \in Gathering
      /\ mem' \in {Done(m), Sent(Done(m))}
  BY DEF IteratorEnds, Invited, Answered, AtSome, At, Gathering
<1>2. Collects(mem)
  BY <1>1, CourseHead DEF Fits, Answer
<1>3. Is(m, mem.todo, "running", mem.rows, mem.named, mem.out, mem.got, TRUE)
  BY <1>1 DEF Is, Course, Whole, Fields
<1>. HIDE DEF m
<1>4. Is(mem', Tail(mem.todo), "running", mem.rows, mem.named, mem.out, mem.got, TRUE)
  BY <1>1, <1>3, AfterIs
<1>5. /\ mem.got \in 0..Len(Groups) /\ mem.rows = Cut(Take(mem.got))
      /\ inv.cmd \in PagedCommands /\ mem.got > 0 => ~Reached(Len(Take(mem.got - 1)))
  BY <1>2 DEF Collects
<1>6. \/ mem.out = << >> \/ inv.cmd = "api"
      \/ inv.cmd \in Queries /\ Format = "csv" /\ mem.out = mem.rows
  BY <1>1, PrintedBefore
<1>. QED
  BY <1>1, <1>4, <1>5, <1>6, GatherAnswers

(* One call that returns everything, cut afterwards.                       *)
LEMMA FetchAnswers == ASSUME Course, Answer(mem), Fetch PROVE Answer(mem')
<1>1. PICK g, r : /\ g = Len(Groups)
                  /\ r = IF Limited THEN Prefix(FlattenSeq(Groups), inv.limit)
                         ELSE FlattenSeq(Groups)
  OBVIOUS
<1>. DEFINE m == [mem EXCEPT !.rows = r, !.got = g, !.whole = TRUE]
<1>2. /\ mem.status = "running" /\ mem.todo # << >> /\ Head(mem.todo) = "fetch"
      /\ Head(mem.todo) \in Gathering /\ mem' = Sent(Done(m))
  BY <1>1 DEF Fetch, Answered, At, Gathering
<1>3. inv.cmd \notin Queries /\ inv.cmd \notin PagedCommands
  BY <1>2, GroupsOf, CourseHead
<1>4. Is(m, mem.todo, "running", r, mem.named, mem.out, g, TRUE)
  BY <1>2 DEF Is, Course, Whole, Fields
<1>. HIDE DEF m
<1>5. Is(mem', Tail(mem.todo), "running", r, mem.named, mem.out, g, TRUE)
  <2>1. Is(Done(m), Tail(mem.todo), "running", r, mem.named, mem.out, g, TRUE)
    BY <1>4, AfterIs
  <2>. QED
    BY <1>2, <2>1, AfterIs
<1>6. g \in 0..Len(Groups)
  BY <1>1, GroupsLen
<1>7. r = Cut(Take(g))
  BY <1>1, <1>3, TakeAll DEF Cut, CutsGroups
<1>8. mem.out = << >> \/ inv.cmd = "api"
  BY <1>2, <1>3, PrintedBefore
<1>. QED
  BY <1>2, <1>3, <1>5, <1>6, <1>7, <1>8, GatherAnswers

(* One invitation more.                                                    *)
LEMMA InviteAnswers == ASSUME Course, Answer(mem), InviteMember PROVE Answer(mem')
<1>0. PICK g \in Nat : g = mem.got
  <2>1. mem.todo # << >> /\ Head(mem.todo) \in Gathering
    BY DEF InviteMember, At, Gathering
  <2>2. Collects(mem)
    BY <2>1, CourseHead DEF Fits, Answer
  <2>3. mem.got \in Nat
    BY <2>2, GroupsLen DEF Collects
  <2>. QED
    BY <2>3
<1>1. PICK r : g = mem.got /\ r = Append(mem.rows, Items[g + 1])
  BY <1>0
<1>. DEFINE m == [mem EXCEPT !.got = g + 1, !.rows = r]
<1>2. /\ mem.status = "running" /\ mem.todo # << >> /\ Head(mem.todo) = "invite"
      /\ Head(mem.todo) \in Gathering /\ mem' = Sent(m) /\ g < Len(Items)
  BY <1>1 DEF InviteMember, Answered, At, Gathering
<1>3. Groups = [i \in DOMAIN Items |-> <<Items[i]>>] /\ ~Limited /\ inv.cmd \notin Queries
  BY <1>2, GroupsOf
<1>4. Is(m, mem.todo, "running", r, mem.named, mem.out, g + 1, mem.whole)
  BY <1>2 DEF Is, Course, Whole, Fields
<1>. HIDE DEF m
<1>5. Is(mem', mem.todo, "running", r, mem.named, mem.out, g + 1, mem.whole)
  BY <1>2, <1>4, AfterIs
<1>6. Len(Groups) = Len(Items) /\ Groups[g + 1] = <<Items[g + 1]>>
  <2>1. Items \in Seq(Nat) /\ DOMAIN Items = 1..Len(Items) /\ g + 1 \in 1..Len(Items)
    BY <1>2, GroupsType
  <2>2. PICK s, k : s \in Seq(Nat) /\ s = Items /\ k = g + 1 /\ k \in DOMAIN s
    BY <2>1
  <2>3. Len([i \in DOMAIN s |-> <<s[i]>>]) = Len(s) /\ [i \in DOMAIN s |-> <<s[i]>>][k] = <<s[k]>>
    BY <2>2
  <2>. QED
    BY <1>3, <2>2, <2>3
<1>7. g < Len(Groups)
  BY <1>2, <1>6
<1>8. Take(g + 1) = Take(g) \o <<Items[g + 1]>> /\ Take(g) \in Seq(Nat) /\ Items[g + 1] \in Nat
  <2>1. g + 1 \in 1..Len(Items)
    BY <1>2, GroupsType
  <2>2. Take(g + 1) = Take(g) \o Groups[g + 1] /\ Take(g) \in Seq(Nat)
    BY <1>7, TakeNext
  <2>3. Items[g + 1] \in Nat
    BY <2>1, GroupsType
  <2>. QED
    BY <1>6, <2>2, <2>3
<1>9. mem.rows = Take(g)
  BY <1>1, <1>2, <1>3, CourseHead DEF Fits, Answer, Collects, Cut
<1>10. r = Cut(Take(g + 1))
  BY <1>1, <1>3, <1>8, <1>9 DEF Cut
<1>11. ~Reached(Len(Take(g + 1)))
  BY <1>3 DEF Reached
<1>12. mem.out = << >> \/ inv.cmd = "api"
  BY <1>2, <1>3, PrintedBefore
<1>. QED
  BY <1>1, <1>2, <1>5, <1>7, <1>10, <1>11, <1>12, StayAnswers

(* A request that is answered at once, whatever it prints.                  *)
LEMMA SingleAnswers ==
  ASSUME Course, Answer(mem), mem.status = "running", mem.todo # << >>,
         Head(mem.todo) \in {"request", "send", "read"}, NEW m, NEW o,
         Is(m, Tail(mem.todo), "running", << 1 >>, mem.named, o, 1, TRUE),
         o = mem.out \/ inv.cmd = "api"
  PROVE  Answer(m)
<1>1. Head(mem.todo) \in Gathering
  BY DEF Gathering
<1>2. Groups = << << 1 >> >> /\ ~Limited /\ inv.cmd \notin Queries
  BY GroupsOf
<1>3. 1 \in 0..Len(Groups) /\ << 1 >> = Cut(Take(1)) /\ \A n : ~Reached(n)
  BY <1>2, OnlyOne
<1>4. o = << >> \/ inv.cmd = "api"
  BY <1>2, PrintedBefore
<1>. QED
  BY <1>1, <1>3, <1>4, GatherAnswers

(* The single requests, and the profiles on disk.                          *)
LEMMA SingleStepAnswers ==
  ASSUME Course, Answer(mem), RawAnswered \/ Send \/ Read PROVE Answer(mem')
<1>1. mem.status = "running" /\ mem.todo # << >> /\ Head(mem.todo) \in {"request", "send", "read"}
  BY DEF RawAnswered, Send, Read, At
<1>2. PICK m, o : /\ Is(m, mem.todo, "running", << 1 >>, mem.named, o, 1, TRUE)
                  /\ o = mem.out \/ inv.cmd = "api"
                  /\ mem' \in {Failing(mem), Done(m), Sent(Done(m))}
  <2>1. CASE RawAnswered
    <3>. DEFINE o == IF inv.cmd = "api" THEN << 1 >> ELSE mem.out
                m == [mem EXCEPT !.rows = << 1 >>, !.got = 1, !.whole = TRUE, !.out = o]
    <3>1. mem' = Sent(Done(m))
      BY <2>1 DEF RawAnswered, Answered
    <3>2. o = mem.out \/ inv.cmd = "api"
      OBVIOUS
    <3>. HIDE DEF o
    <3>3. Is(m, mem.todo, "running", << 1 >>, mem.named, o, 1, TRUE)
      BY <1>1 DEF Is, Course, Whole, Fields
    <3>. HIDE DEF m
    <3>. QED
      BY <3>1, <3>2, <3>3
  <2>2. CASE Send \/ Read
    <3>. DEFINE m == [mem EXCEPT !.rows = << 1 >>, !.got = 1, !.whole = TRUE]
    <3>1. mem' \in {Failing(mem), Done(m), Sent(Done(m))}
      BY <2>2 DEF Send, Read, Answered, Refuse
    <3>2. Is(m, mem.todo, "running", << 1 >>, mem.named, mem.out, 1, TRUE)
      BY <1>1 DEF Is, Course, Whole, Fields
    <3>. HIDE DEF m
    <3>. QED
      BY <3>1, <3>2
  <2>. QED
    BY <2>1, <2>2
<1>3. Is(Done(m), Tail(mem.todo), "running", << 1 >>, mem.named, o, 1, TRUE)
  BY <1>2, AfterIs
<1>4. Is(Sent(Done(m)), Tail(mem.todo), "running", << 1 >>, mem.named, o, 1, TRUE)
  BY <1>3, AfterIs
<1>5. Answer(Failing(mem))
  BY <1>1, IdleSteps
<1>. QED
  BY <1>1, <1>2, <1>3, <1>4, <1>5, SingleAnswers

(* The definitions and the names, one by one.                              *)
LEMMA DetailAnswers ==
  ASSUME Course, Answer(mem), DetailFound \/ DetailFails \/ DetailsDone PROVE Answer(mem')
<1>1. /\ mem.status = "running" /\ mem.todo # << >>
      /\ Head(mem.todo) \in {"details", "names", "resolve"}
  BY DEF DetailFound, DetailFails, DetailsDone, Detailing, AtSome, At
<1>2. ASSUME NEW found
      PROVE  /\ Is(Named(found), mem.todo, "running", mem.rows, Append(mem.named, found), mem.out,
                   mem.got, mem.whole)
             /\ Is(Sent(Named(found)), mem.todo, "running", mem.rows, Append(mem.named, found),
                   mem.out, mem.got, mem.whole)
  <2>1. Is(Named(found), mem.todo, "running", mem.rows, Append(mem.named, found), mem.out,
           mem.got, mem.whole)
    BY <1>1 DEF Is, Course, Whole, Fields, Named
  <2>. QED
    BY <2>1, AfterIs
<1>3. CASE DetailFound
  <2>1. /\ mem' = Sent(Named(TRUE)) /\ Len(mem.named) < Len(mem.rows)
        /\ Head(mem.todo) \in {"details", "names"}
        /\ Definitions => Head(mem.todo) = "details"
    BY <1>3 DEF DetailFound, Answered, Detailing, At
  <2>. QED
    BY <1>1, <1>2, <2>1, NamedAnswers
<1>4. CASE DetailFails
  <2>1. /\ mem' = Failing(mem) \/ (mem' = Named(FALSE) /\ ~Definitions)
        /\ Len(mem.named) < Len(mem.rows) /\ Head(mem.todo) \in {"details", "names"}
    BY <1>1, <1>4 DEF DetailFails, Refuse, Detailing, At
  <2>2. CASE mem' = Failing(mem)
    BY <1>1, <2>2, IdleSteps
  <2>3. CASE mem' = Named(FALSE) /\ ~Definitions
    BY <1>1, <1>2, <2>1, <2>3, NamedAnswers
  <2>. QED
    BY <2>1, <2>2, <2>3
<1>5. CASE DetailsDone
  <2>1. /\ mem' = Done(mem)
        /\ Head(mem.todo) = "details" /\ Definitions => ~(Len(mem.named) < Len(mem.rows))
    BY <1>1, <1>5 DEF DetailsDone, Proceed, Detailing, At
  <2>2. CASE Head(mem.todo) = "details"
    <3>1. Is(Done(mem), Tail(mem.todo), "running", mem.rows, mem.named, mem.out, mem.got, mem.whole)
      BY <1>1, MemIs, AfterIs DEF Course
    <3>. QED
      BY <1>1, <2>1, <2>2, <3>1, DetailedAnswers
  <2>3. CASE Head(mem.todo) # "details"
    BY <1>1, <2>1, <2>3, IdleSteps DEF Gathering
  <2>. QED
    BY <2>2, <2>3
<1>. QED
  BY <1>3, <1>4, <1>5

(* The last step: a status, or the answer.                                 *)
LEMMA LastAnswers == ASSUME Course, Answer(mem), Status \/ Render PROVE Answer(mem')
<1>1. mem.status = "running" /\ mem.todo # << >> /\ Head(mem.todo) \in {"status", "print"}
  BY DEF Status, Render, At
<1>2. Is(Done(mem), Tail(mem.todo), "running", mem.rows, mem.named, mem.out, mem.got, mem.whole)
  BY <1>1, MemIs, AfterIs DEF Course
<1>3. CASE Status
  <2>1. Head(mem.todo) = "status" /\ mem' \in {Failing(mem), [Done(mem) EXCEPT !.status = "ok"]}
    BY <1>3 DEF Status, Refuse, At
  <2>2. Is([Done(mem) EXCEPT !.status = "ok"], Tail(mem.todo), "ok", mem.rows, mem.named, mem.out,
           mem.got, mem.whole)
    BY <1>2 DEF Is, Whole, Fields
  <2>3. inv.cmd \notin PrintCommands
    BY <1>1, <2>1, CourseHead, CommandKinds DEF Fits
  <2>4. Answer([Done(mem) EXCEPT !.status = "ok"])
    BY <1>1, <2>1, <2>2, <2>3, OtherAnswers DEF Gathering
  <2>. QED
    BY <1>1, <2>1, <2>4, IdleSteps
<1>4. CASE Render
  <2>1. Head(mem.todo) = "print" /\ mem' = [Done(mem) EXCEPT !.out = mem.rows, !.status = "ok"]
    BY <1>4 DEF Render, At
  <2>2. Is(mem', Tail(mem.todo), "ok", mem.rows, mem.named, mem.rows, mem.got, mem.whole)
    BY <1>2, <2>1 DEF Is, Whole, Fields
  <2>. QED
    BY <1>1, <2>1, <2>2, RenderAnswers
<1>. QED
  BY <1>3, <1>4

(***************************************************************************)
(* The commands with steps of their own.                                   *)
(***************************************************************************)
(* Before their end they print nothing, and how they end is not stated     *)
(* here.                                                                   *)
LEMMA PrivateAnswers ==
  ASSUME Answer(mem), mem.status # "ok", inv.cmd \in Private, NEW m,
         m.status = "ok" \/ m.out = mem.out
  PROVE  Answer(m)
<1>1. inv.cmd \notin Queries /\ inv.cmd # "api" /\ inv.cmd \notin PrintCommands
  BY CommandKinds DEF Private, Queries
<1>2. mem.out = << >>
  BY <1>1 DEF Answer, Outputs
<1>. QED
  BY <1>1, <1>2 DEF Answer, Outputs

(* These changes of the memory print nothing.                              *)
LEMMA OutKept ==
  ASSUME Whole(mem)
  PROVE  /\ Done(mem).out = mem.out /\ Failing(mem).out = mem.out /\ Sent(mem).out = mem.out
         /\ Sent(Done(mem)).out = mem.out /\ [mem EXCEPT !.got = @ + 1].out = mem.out
         /\ \A s : [mem EXCEPT !.status = s].out = mem.out
         /\ \A m : Whole(m) => [m EXCEPT !.status = "ok"].status = "ok"
         /\ \A m : Whole(m) => Sent([m EXCEPT !.status = "ok"]).status = "ok"
         /\ \A m, o : Whole(m) => [m EXCEPT !.out = o, !.status = "ok"].status = "ok"
BY DEF Whole, Fields, Done, Failing, Sent

(* Only their last step prints.                                            *)
LEMMA OwnOut ==
  ASSUME Whole(mem), TraceStep \/ InstallStep \/ LoginStep \/ LoginRequest
  PROVE  mem'.status = "ok" \/ mem'.out = mem.out
<1>1. Whole(Done(mem))
  BY WholeDone
<1>. USE OutKept
<1>2. CASE TraceStep
  <2>1. CASE RenderTrace
    BY <1>1, <2>1 DEF RenderTrace
  <2>2. CASE FetchRoot \/ FetchLinked \/ FetchFails \/ FollowDone
    BY <2>2 DEF FetchRoot, FetchLinked, FetchFails, FollowDone, Answered, Refuse, Proceed
  <2>. QED
    BY <1>2, <2>1, <2>2 DEF TraceStep, TraceLocal, TraceRequest
<1>3. CASE InstallStep
  <2>1. CASE ReportInstall
    BY <1>1, <2>1 DEF ReportInstall
  <2>2. CASE WriteSkillMD \/ ClearReferences \/ WriteTopic \/ TopicsWritten
    <3>1. \/ mem' = Done(mem) \/ mem' = Failing(mem) \/ mem' = [mem EXCEPT !.status = "killed"]
          \/ mem' = [mem EXCEPT !.got = @ + 1]
      <4>. HIDE DEF Done, Failing
      <4>. QED
        BY <2>2, Zenon
           DEF WriteSkillMD, ClearReferences, WriteTopic, TopicsWritten, CutShort, Proceed
    <3>2. [mem EXCEPT !.status = "killed"].out = mem.out
      BY DEF Whole, Fields
    <3>. QED
      BY <3>1, <3>2
  <2>. QED
    BY <1>3, <2>1, <2>2 DEF InstallStep
<1>4. CASE LoginStep \/ LoginRequest
  <2>1. CASE Exchanged
    BY <1>1, <2>1 DEF Exchanged, Answered
  <2>2. CASE StartCallbackListener \/ UseCachedClient \/ Authorize \/ WaitResult \/ WaitServeErr
             \/ WaitDone
    BY <2>2 DEF StartCallbackListener, UseCachedClient, Authorize, WaitResult, WaitServeErr,
                WaitDone, Aborted, Proceed, Refuse
  <2>3. CASE Deliver
    BY <2>3 DEF Deliver, commandVars
  <2>4. CASE Discover \/ RegisterClient \/ InvalidClient \/ LoginRequestFails
    BY <2>4 DEF Discover, RegisterClient, InvalidClient, LoginRequestFails, Answered, Aborted,
                Refuse
  <2>. QED
    BY <1>4, <2>1, <2>2, <2>3, <2>4 DEF LoginStep, LoginRequest
<1>. QED
  BY <1>2, <1>3, <1>4

(* Their steps belong to them and print nothing before the end; nor does   *)
(* an error.                                                               *)
LEMMA OwnAnswers ==
  ASSUME Course, Answer(mem), TracesGetStep \/ SkillInstallStep \/ LoginCommandStep
  PROVE  Answer(mem')
<1>0. Whole(mem)
  BY DEF Course
<1>1. ASSUME NEW places \in {TracePlaces, InstallPlaces, LoginPlaces}, Acts(places)
      PROVE  inv.cmd \in Private /\ mem.status = "running"
  <2>1. mem.status = "running" /\ mem.todo # << >> /\ Head(mem.todo) \in places
    BY <1>1 DEF Acts
  <2>2. Head(mem.todo) \notin CommandPlaces
    BY <2>1 DEF TracePlaces, InstallPlaces, LoginPlaces, CommandPlaces, Checks
  <2>. QED
    BY <2>1, <2>2, CourseHead DEF Fits
<1>2. CASE TraceStep
  <2>1. Acts(TracePlaces)
    BY <1>0, <1>2, TraceActs
  <2>. QED
    BY <1>0, <1>1, <1>2, <2>1, OwnOut, PrivateAnswers
<1>3. CASE InstallStep
  <2>1. Acts(InstallPlaces)
    BY <1>0, <1>3, InstallActs
  <2>. QED
    BY <1>0, <1>1, <1>3, <2>1, OwnOut, PrivateAnswers
<1>4. CASE PrintError
  <2>1. PICK hint : mem' = [mem EXCEPT !.status = "failed", !.hint = hint] /\ mem.status = "failing"
    BY <1>4 DEF PrintError
  <2>2. Is(mem', mem.todo, "failed", mem.rows, mem.named, mem.out, mem.got, mem.whole)
    BY <1>0, <2>1 DEF Is, Whole, Fields
  <2>. QED
    BY <2>1, <2>2, IdleAnswers
<1>5. CASE LoginStep \/ LoginRequest \/ LoginEnvironment
  <2>1. CASE mem' = mem
    BY <2>1
  <2>2. CASE Acts(LoginPlaces) /\ (LoginStep \/ LoginRequest)
    BY <1>0, <1>1, <2>2, OwnOut, PrivateAnswers
  <2>3. LoginEnvironment => mem' = mem
    BY DEF LoginEnvironment, HandleCallback, ListenerDies, Tick, commandVars
  <2>. QED
    BY <1>0, <1>5, <2>1, <2>2, <2>3, LoginActs
<1>. QED
  BY <1>2, <1>3, <1>4, <1>5 DEF TracesGetStep, SkillInstallStep, LoginCommandStep

(***************************************************************************)
(* The invariant.                                                          *)
(***************************************************************************)
AnswerInv == Course /\ Answer(mem)

(* Every step within a process keeps the invariant.                        *)
LEMMA StepAnswers ==
  ASSUME AnswerInv, CommandLineNext, ~NewProcess PROVE Answer(mem')
<1>. USE DEF AnswerInv
<1>1. CASE CommandStep
  <2>1. LocalStep \/ RequestStep
    BY <1>1 DEF CommandStep
  <2>. QED
    BY <2>1, IdleStepAnswers, YieldAnswers, EndsAnswers, FetchAnswers, InviteAnswers,
       SingleStepAnswers, DetailAnswers, LastAnswers
       DEF LocalStep, RequestStep, Idle, Makers
<1>2. CASE TracesGetStep \/ SkillInstallStep \/ LoginCommandStep
  BY <1>2, OwnAnswers
<1>3. CASE Disturbance
  BY <1>3 DEF Disturbance, Interrupt, Expire
<1>. QED
  BY <1>1, <1>2, <1>3 DEF CommandLineNext

(* The command line stays, and with it all that the answer is measured by. *)
LEMMA AnswerKept == ASSUME inv' = inv, Answer(mem') PROVE (Answer(mem))'
<1>1. Groups' = Groups
  BY DEF Groups, Items
<1>2. Format' = Format
  BY DEF Format
<1>3. Limited' = Limited
  BY DEF Limited
<1>4. CutsGroups' = CutsGroups
  BY <1>2 DEF CutsGroups
<1>5. Definitions' = Definitions
  BY <1>2 DEF Definitions
<1>. QED
  BY <1>1, <1>2, <1>3, <1>4, <1>5
     DEF Answer, Collects, Outputs, Take, Cut, Reached, Prefix

(* A process that has just been started.                                   *)
StartState == inv \in Invocations /\ mem = Started(inv)

(* A process that has just been started has collected nothing.             *)
LEMMA StartAnswers == StartState => AnswerInv
<1>. SUFFICES ASSUME StartState PROVE AnswerInv
  OBVIOUS
<1>1. inv.cmd \in Commands /\ inv.limit \in Nat
  BY InvocationsAssumption DEF StartState, Invocation
<1>2. Course
  BY CourseStarts, WholeStarted DEF StartState, Course, Program
<1>3. PICK t : t = Program
  OBVIOUS
<1>4. Is(mem, t, "running", << >>, << >>, << >>, 0, FALSE)
  BY <1>3, WholeStarted DEF StartState, Is, Program, Started
<1>5. inv.cmd \notin Private => Ahead(t, Gathering)
  <2>1. Well(inv.cmd, t)
    BY <1>1, <1>3, ProgramsWell, ProgramsFilled, WellQuiet, QuietParts DEF Program
  <2>. QED
    BY <2>1 DEF Well, Gathers, Ahead
<1>6. Take(0) = << >> /\ ~Reached(0) /\ Cut(<< >>) = << >>
  <2>1. ~Reached(0)
    BY <1>1 DEF Reached, Limited
  <2>2. << >> \in Seq(Nat) /\ Len(<< >>) = 0
    OBVIOUS
  <2>3. Cut(<< >>) = << >>
    BY <1>2, <2>1, <2>2, CutType
  <2>. QED
    BY <2>1, <2>3, TakeNone
<1>7. 0 \in 0..Len(Groups) /\ << >> \in Seq({TRUE}) /\ Len(<< >>) = 0
  BY GroupsLen
<1>8. inv.cmd \notin Private => Collects(mem)
  <2>1. /\ mem.got = 0 /\ mem.whole = FALSE /\ mem.rows = << >> /\ mem.named = << >>
        /\ mem.todo = t
    BY <1>4 DEF Is
  <2>2. mem.rows = Cut(Take(mem.got)) /\ ~Reached(Len(Take(mem.got)))
    BY <1>6, <1>7, <2>1
  <2>3. mem.got \in 0..Len(Groups) /\ ~(mem.got > 0)
    BY <2>1, GroupsLen
  <2>5. mem.whole \in BOOLEAN
    BY <2>1
  <2>4. /\ mem.named \in Seq({TRUE}) /\ Len(mem.named) = Len(mem.rows)
        /\ Len(mem.named) <= Len(mem.rows)
    BY <1>7, <2>1
  <2>. QED
    BY <1>5, <2>1, <2>2, <2>3, <2>4, <2>5 DEF Collects
<1>9. Outputs(mem)
  BY <1>4 DEF Outputs, Is
<1>. QED
  BY <1>2, <1>8, <1>9 DEF AnswerInv, Answer

(* So has the next one.                                                    *)
LEMMA StartAnswersNext == StartState' => AnswerInv'
  BY StartAnswers, PTL

(* The first process is one.                                               *)
LEMMA AnswerInit == CommandLineInit => AnswerInv
  BY StartAnswers DEF CommandLineInit, StartState

(* The invariant is inductive.                                             *)
LEMMA AnswerNext == AnswerInv /\ [CommandLineNext]_allVars => AnswerInv'
<1>. SUFFICES ASSUME AnswerInv, [CommandLineNext]_allVars PROVE AnswerInv'
  OBVIOUS
<1>1. Course'
  BY CourseNext DEF AnswerInv
<1>2. CASE UNCHANGED allVars
  <2>1. inv' = inv /\ Answer(mem')
    BY <1>2 DEF AnswerInv, allVars
  <2>. QED
    BY <1>1, <2>1, AnswerKept DEF AnswerInv
<1>3. CASE NewProcess
  <2>1. StartState'
    BY <1>3, InvocationsAssumption DEF NewProcess, StartState, AnswerInv, Course
  <2>. QED
    BY <2>1, StartAnswersNext
<1>4. CASE CommandLineNext /\ ~NewProcess
  <2>1. inv' = inv /\ Answer(mem')
    BY <1>4, StepMoves, StepAnswers DEF AnswerInv, Course
  <2>. QED
    BY <1>1, <2>1, AnswerKept DEF AnswerInv
<1>. QED
  BY <1>2, <1>3, <1>4

(* It implies that answers are exact.                                      *)
LEMMA AnswerImplies == AnswerInv => AnswerExact
<1>. SUFFICES ASSUME AnswerInv PROVE AnswerExact
  OBVIOUS
<1>1. Offered = Take(mem.got) /\ Wanted = Cut(Take(mem.got))
  BY DEF Offered, Wanted, Take, Cut
<1>2. inv.cmd \in Commands
  BY InvocationsAssumption DEF AnswerInv, Course, Invocation
<1>3. ASSUME mem.status = "ok", inv.cmd \in PrintCommands
      PROVE  /\ mem.out = Wanted
             /\ mem.whole \/ Reached(Len(Offered))
             /\ inv.cmd \in DetailCommands /\ Definitions =>
                   mem.named = [i \in DOMAIN mem.out |-> TRUE]
  <2>1. Collects(mem) /\ mem.out = mem.rows
    BY <1>3, CommandKinds DEF AnswerInv, Answer, Outputs
  <2>2. ~Ahead(mem.todo, Gathering) /\ ~Ahead(mem.todo, {"details"})
    BY <1>3 DEF AnswerInv, Answer, Outputs
  <2>3. ASSUME inv.cmd \in DetailCommands, Definitions
        PROVE  mem.named = [i \in DOMAIN mem.out |-> TRUE]
    <3>1. mem.named \in Seq({TRUE}) /\ Len(mem.named) = Len(mem.rows)
      BY <2>1, <2>2, <2>3 DEF Collects
    <3>2. mem.rows \in Seq(Nat)
      BY <2>1, TakeType, CutType DEF AnswerInv, Collects
    <3>3. PICK n \in Seq({TRUE}), r \in Seq(Nat) : n = mem.named /\ r = mem.out
      BY <2>1, <3>1, <3>2
    <3>4. DOMAIN r = 1..Len(n)
      BY <2>1, <3>1, <3>3
    <3>5. n = [i \in 1..Len(n) |-> TRUE]
      <4>1. DOMAIN n = 1..Len(n) /\ n = [i \in DOMAIN n |-> n[i]] /\ \A i \in DOMAIN n : n[i] = TRUE
        <5>1. \A i \in 1..Len(n) : n[i] = TRUE
          <6>1. ASSUME NEW i \in 1..Len(n) PROVE n[i] \in {TRUE}
            BY ElementOfSeq, Zenon
          <6>. QED
            BY <6>1, Zenon
        <5>. QED
          BY <5>1, LenProperties
      <4>. QED
        BY <4>1, Zenon
    <3>. QED
      BY <3>3, <3>4, <3>5
  <2>. QED
    BY <1>1, <2>1, <2>2, <2>3 DEF Collects
<1>4. ASSUME mem.got > 0, inv.cmd \in PagedCommands
      PROVE  ~Reached(Len(FlattenSeq(SubSeq(Groups, 1, mem.got - 1))))
  <2>1. PICK s \in {"pages", "stream"} : s \in ToSet(Programs[inv.cmd])
    BY <1>4 DEF PagedCommands
  <2>2. inv.cmd \notin Private
    BY <1>2, <2>1, CommandHas DEF Fits, Gathering
  <2>. QED
    BY <1>4, <2>2 DEF AnswerInv, Answer, Collects, Take
<1>5. ASSUME mem.status \in {"failing", "failed"}, mem.out # << >>
      PROVE  \/ inv.cmd = "api"
             \/ inv.cmd \in Queries /\ Format = "csv" /\ mem.out = Wanted
  <2>1. inv.cmd \in Queries => inv.cmd \notin Private
    BY DEF Queries, Private
  <2>. QED
    BY <1>1, <1>5, <2>1 DEF AnswerInv, Answer, Outputs, Collects
<1>. QED
  BY <1>3, <1>4, <1>5 DEF AnswerExact

(* However the API groups and pages its records, answers late or fails,    *)
(* and wherever an interrupt comes: a command that exits with 0 has        *)
(* printed what was offered, in order, up to its limit, or with JSON up to *)
(* the end of the group in which the limit falls; it has stopped short of  *)
(* the end only at the limit and has left out no definition; it has asked  *)
(* for no group beyond the limit; one that fails has printed nothing but   *)
(* the records a CSV query had passed on and the body that `api` got       *)
(* (logging/query.go:303-422, dashboards/list.go:71-137,                   *)
(* rawapi/api_cmd.go:140-156).                                             *)
THEOREM AnswersExact == CommandLineSpec => []AnswerExact
<1>. QED
  BY AnswerInit, AnswerNext, AnswerImplies, PTL DEF CommandLineSpec

(***************************************************************************)
(* Types.  Where a step leaves the memory, it leaves it well-formed.       *)
(***************************************************************************)
Clients == [via : Vias, token : Tokens]
Credentials == [via : Vias, token : Tokens, fresh : BOOLEAN]

(* A memory but for its program and what it has collected and printed.     *)
Sorted(m) ==
    /\ Whole(m)
    /\ m.status \in Ended \union {"running", "failing"}
    /\ m.client \in Clients
    /\ m.named \in Seq(BOOLEAN)
    /\ m.got \in Nat /\ m.whole \in BOOLEAN
    /\ m.sent \subseteq Credentials
    /\ m.hint \in {"none", "own", "install", "consult"}

(* A memory that differs from a sorted one in what it has collected.       *)
Collected(m, n) ==
    /\ Whole(n) /\ n.status = m.status /\ n.client = m.client /\ n.named = m.named
    /\ n.got \in Nat /\ n.whole \in BOOLEAN /\ n.sent = m.sent /\ n.hint = m.hint

(* It is sorted, too.                                                      *)
LEMMA CollectedSorted == ASSUME NEW m, NEW n, Sorted(m), Collected(m, n) PROVE Sorted(n)
BY DEF Sorted, Collected

(* What a request carries.                                                 *)
LEMMA CredentialType ==
  ASSUME mem.client \in Clients, fresh \in BOOLEAN PROVE Credential \in Credentials
<1>1. PICK v \in Vias, t \in Tokens : mem.client = [via |-> v, token |-> t]
  BY DEF Clients
<1>. DEFINE session == t \in {"access", "provider"}
            f == session => fresh \/ t = "provider"
            c == IF session THEN "access" ELSE t
<1>2. Credential = [via |-> v, token |-> c, fresh |-> f]
  BY <1>1 DEF Credential
<1>3. f \in BOOLEAN
  OBVIOUS
<1>4. c \in Tokens
  BY DEF Tokens
<1>. HIDE DEF f, c
<1>. QED
  BY <1>2, <1>3, <1>4 DEF Credentials

(* The end of a step, of a command, and a request keep the types.          *)
LEMMA StepSorted ==
  ASSUME NEW m, Sorted(m), mem.client \in Clients, fresh \in BOOLEAN
  PROVE  /\ Sorted(Done(m)) /\ Sorted(Failing(m)) /\ Sorted(Sent(m)) /\ Sorted(Sent(Done(m)))
         /\ \A s \in Ended : Sorted([m EXCEPT !.status = s])
<1>1. Credential \in Credentials
  BY CredentialType
<1>2. Sorted(Done(m))
  BY DEF Sorted, Done, Whole, Fields
<1>3. Sorted(Failing(m))
  BY DEF Sorted, Failing, Whole, Fields
<1>4. ASSUME NEW n, Sorted(n) PROVE Sorted(Sent(n))
  <2>1. n.sent \union {Credential} \subseteq Credentials
    BY <1>1, <1>4 DEF Sorted
  <2>. HIDE DEF Credential, Credentials
  <2>. QED
    BY <1>4, <2>1 DEF Sorted, Sent, Whole, Fields
<1>5. ASSUME NEW s \in Ended PROVE Sorted([m EXCEPT !.status = s])
  BY <1>5 DEF Sorted, Whole, Fields
<1>. QED
  BY <1>2, <1>3, <1>4, <1>5

(* The details of another row.                                             *)
LEMMA NamedSorted ==
  ASSUME Sorted(mem), NEW found \in BOOLEAN PROVE Sorted(Named(found))
<1>1. Append(mem.named, found) \in Seq(BOOLEAN)
  BY Zenon, AppendProperties DEF Sorted
<1>2. /\ Whole(Named(found)) /\ Named(found).named = Append(mem.named, found)
      /\ Named(found).status = mem.status /\ Named(found).client = mem.client
      /\ Named(found).got = mem.got /\ Named(found).whole = mem.whole
      /\ Named(found).sent = mem.sent /\ Named(found).hint = mem.hint
  BY DEF Named, Sorted, Whole, Fields
<1>. HIDE DEF Named
<1>. QED
  BY <1>1, <1>2, Zenon DEF Sorted

(* Tokens that a client may be made with.                                  *)
LEMMA TokenTypes ==
    /\ AuthTokenOption \in Tokens /\ ResolvedToken \in Tokens /\ RawTokens \subseteq Tokens
BY DEF AuthTokenOption, ResolvedToken, ConfiguredToken, RawTokens, Tokens

(* The types of a process that is about to take a step.                    *)
ProcessTypes == Sorted(mem) /\ fresh \in BOOLEAN /\ mem.got \in Nat

(* Every step of a command that is not private keeps the types.            *)
LEMMA LocalSorted == ASSUME ProcessTypes, LocalStep PROVE Sorted(mem') /\ fresh' \in BOOLEAN
<1>. USE DEF ProcessTypes
<1>0. /\ Sorted(Done(mem)) /\ Sorted(Failing(mem)) /\ mem.client \in Clients
  BY StepSorted DEF Sorted
<1>1. ASSUME NEW via \in Vias, NEW token \in Tokens, MakeClient(via, token)
      PROVE  Sorted(mem')
  <2>. DEFINE m == [mem EXCEPT !.client = [via |-> via, token |-> token]]
  <2>1. Sorted(m)
    BY DEF Sorted, Clients, Whole, Fields
  <2>. HIDE DEF m
  <2>2. mem' = Done(m)
    BY <1>1 DEF MakeClient, m
  <2>. QED
    BY <1>0, <2>1, <2>2, StepSorted
<1>2. CASE Check
  BY <1>0, <1>2 DEF Check, Proceed, Refuse
<1>3. CASE NewClientFromContext \/ NewOtlpClientFromContext
  BY <1>0, <1>1, <1>3, TokenTypes
     DEF NewClientFromContext, NewOtlpClientFromContext, Refuse, Vias
<1>4. CASE NewRawHTTPConfig
  <2>1. ASSUME NEW token \in RawTokens, MakeClient("raw", token),
               fresh' = (fresh \/ token = "access")
        PROVE  Sorted(mem') /\ fresh' \in BOOLEAN
    BY <1>1, <2>1, TokenTypes DEF Vias
  <2>. QED
    BY <1>0, <1>4, <2>1 DEF NewRawHTTPConfig, Refuse
<1>5. CASE DetailsDone
  BY <1>0, <1>5 DEF DetailsDone, Proceed
<1>6. CASE Invited
  <2>. DEFINE m == [mem EXCEPT !.whole = TRUE]
  <2>1. Sorted(m)
    BY CollectedSorted DEF Sorted, Collected, Whole, Fields
  <2>. QED
    BY <1>0, <1>6, <2>1, StepSorted DEF Invited
<1>7. CASE Status
  <2>1. Sorted([Done(mem) EXCEPT !.status = "ok"])
    BY <1>0, StepSorted DEF Ended
  <2>. QED
    BY <1>0, <1>7, <2>1 DEF Status, Refuse
<1>8. CASE Read
  <2>. DEFINE m == [mem EXCEPT !.rows = << 1 >>, !.got = 1, !.whole = TRUE]
  <2>1. Sorted(m)
    BY CollectedSorted DEF Sorted, Collected, Whole, Fields
  <2>. QED
    BY <1>0, <1>8, <2>1, StepSorted DEF Read, Refuse
<1>9. CASE Render
  <2>1. Collected(mem, [mem EXCEPT !.out = mem.rows])
    BY DEF Sorted, Collected, Whole, Fields
  <2>. DEFINE m == [Done(mem) EXCEPT !.out = mem.rows, !.status = "ok"]
  <2>2. Sorted(m)
    BY <1>0 DEF Sorted, Whole, Fields, Ended
  <2>. QED
    BY <1>9, <2>2 DEF Render
<1>. QED
  BY <1>2, <1>3, <1>4, <1>5, <1>6, <1>7, <1>8, <1>9 DEF LocalStep

(* An answered request: its memory, and the token that was refreshed.      *)
LEMMA AnsweredSorted ==
  ASSUME ProcessTypes, NEW m, Sorted(m), Answered(m) \/ Answered(Done(m))
  PROVE  Sorted(mem') /\ fresh' \in BOOLEAN
<1>1. mem.client \in Clients
  BY DEF ProcessTypes, Sorted
<1>2. Sorted(Sent(m)) /\ Sorted(Sent(Done(m)))
  BY <1>1, StepSorted DEF ProcessTypes
<1>. QED
  BY <1>2 DEF ProcessTypes, Answered, Refreshed

(* So do those with a request.                                             *)
LEMMA RequestSorted == ASSUME ProcessTypes, RequestStep PROVE Sorted(mem') /\ fresh' \in BOOLEAN
<1>. USE DEF ProcessTypes
<1>0. /\ Sorted(Done(mem)) /\ Sorted(Failing(mem))
  BY StepSorted DEF Sorted
<1>1. CASE ReadBody \/ RequestFails
  BY <1>0, <1>1 DEF ReadBody, RequestFails, Proceed, Refuse
<1>2. CASE IteratorYields
  <2>. DEFINE rows == mem.rows \o Emitted(Groups[mem.got + 1])
              m == [mem EXCEPT !.got = @ + 1, !.rows = rows, !.out = IF StreamCSV THEN rows ELSE @]
  <2>0. PICK g \in Nat : g = mem.got
    BY DEF Sorted
  <2>3. Whole(m) /\ m.got = g + 1
    BY <2>0 DEF Sorted, Whole, Fields
  <2>4. Collected(mem, m)
    <3>1. m.got \in Nat
      BY <2>0, <2>3
    <3>. QED
      BY <2>3, <3>1 DEF Sorted, Collected, Whole, Fields
  <2>1. Sorted(m)
    BY <2>4, CollectedSorted
  <2>2. Answered(m) \/ Answered(Done(m))
    BY <1>2 DEF IteratorYields
  <2>. HIDE DEF m
  <2>. QED
    BY <2>1, <2>2, AnsweredSorted
<1>3. CASE IteratorEnds
  <2>. DEFINE m == [mem EXCEPT !.whole = TRUE]
  <2>1. Sorted(m)
    BY CollectedSorted DEF Sorted, Collected, Whole, Fields
  <2>. QED
    BY <1>3, <2>1, AnsweredSorted DEF IteratorEnds
<1>4. CASE Fetch
  <2>1. PICK rows : Answered(Done([mem EXCEPT !.rows = rows, !.got = Len(Groups), !.whole = TRUE]))
    BY <1>4 DEF Fetch
  <2>. DEFINE m == [mem EXCEPT !.rows = rows, !.got = Len(Groups), !.whole = TRUE]
  <2>2. Sorted(m)
    BY CollectedSorted, GroupsLen DEF Sorted, Collected, Whole, Fields
  <2>. QED
    BY <2>1, <2>2, AnsweredSorted
<1>5. CASE ResolveMembers \/ ResolveToMemberIDs
  BY <1>5, AnsweredSorted DEF ResolveMembers, ResolveToMemberIDs
<1>6. CASE InviteMember
  <2>. DEFINE m == [mem EXCEPT !.got = @ + 1, !.rows = Append(@, Items[mem.got + 1])]
  <2>0. PICK g \in Nat : g = mem.got
    BY DEF Sorted
  <2>3. Whole(m) /\ m.got = g + 1
    BY <2>0 DEF Sorted, Whole, Fields
  <2>4. Collected(mem, m)
    <3>1. m.got \in Nat
      BY <2>0, <2>3
    <3>. QED
      BY <2>3, <3>1 DEF Sorted, Collected, Whole, Fields
  <2>1. Sorted(m)
    BY <2>4, CollectedSorted
  <2>. QED
    BY <1>6, <2>1, AnsweredSorted DEF InviteMember
<1>7. CASE DetailFound
  BY <1>7, NamedSorted, AnsweredSorted DEF DetailFound
<1>8. CASE DetailFails
  BY <1>0, <1>8, NamedSorted DEF DetailFails, Refuse
<1>9. CASE RawAnswered
  <2>1. PICK out :
          Answered(Done([mem EXCEPT !.rows = << 1 >>, !.got = 1, !.whole = TRUE, !.out = out]))
    BY <1>9 DEF RawAnswered
  <2>. DEFINE m == [mem EXCEPT !.rows = << 1 >>, !.got = 1, !.whole = TRUE, !.out = out]
  <2>2. Sorted(m)
    BY CollectedSorted DEF Sorted, Collected, Whole, Fields
  <2>. QED
    BY <2>1, <2>2, AnsweredSorted
<1>10. CASE Send
  <2>. DEFINE m == [mem EXCEPT !.rows = << 1 >>, !.got = 1, !.whole = TRUE]
  <2>1. Sorted(m)
    BY CollectedSorted DEF Sorted, Collected, Whole, Fields
  <2>. QED
    BY <1>10, <2>1, AnsweredSorted DEF Send
<1>. QED
  BY <1>1, <1>2, <1>3, <1>4, <1>5, <1>6, <1>7, <1>8, <1>9, <1>10 DEF RequestStep

(* The steps of `traces get`, of an install, of a login, and of main.      *)
LEMMA PrivateSorted ==
  ASSUME ProcessTypes,
         TraceStep \/ InstallStep \/ PrintError \/ LoginStep \/ LoginRequest \/ LoginEnvironment
  PROVE  Sorted(mem') /\ fresh' \in BOOLEAN
<1>. USE DEF ProcessTypes
<1>0. /\ Sorted(Done(mem)) /\ Sorted(Failing(mem)) /\ mem.client \in Clients
      /\ Sorted([Done(mem) EXCEPT !.status = "ok"]) /\ Sorted([mem EXCEPT !.status = "killed"])
  <2>1. Sorted(Done(mem)) /\ Sorted(Failing(mem)) /\ mem.client \in Clients
    BY StepSorted DEF Sorted
  <2>. QED
    BY <2>1, StepSorted DEF Ended
<1>1. CASE FetchRoot \/ FetchLinked
  BY <1>1, AnsweredSorted DEF FetchRoot, FetchLinked
<1>2. CASE FetchFails \/ FollowDone
  BY <1>0, <1>2 DEF FetchFails, FollowDone, Refuse, Proceed
<1>3. CASE RenderTrace
  <2>. DEFINE out == FlattenSeq([i \in DOMAIN walk.results |-> Rows(walk.results[i])])
              m == [Done(mem) EXCEPT !.out = out, !.status = "ok"]
  <2>1. Sorted(m)
    <3>. HIDE DEF out
    <3>. QED
      BY <1>0 DEF Sorted, Whole, Fields, Ended
  <2>. QED
    BY <1>3, <2>1 DEF RenderTrace
<1>4. CASE InstallStep
  <2>. DEFINE m == [mem EXCEPT !.got = @ + 1]
  <2>0. PICK g \in Nat : g = mem.got
    BY DEF Sorted
  <2>4. Whole(m) /\ m.got = g + 1
    BY <2>0 DEF Sorted, Whole, Fields
  <2>5. Collected(mem, m)
    <3>1. m.got \in Nat
      BY <2>0, <2>4
    <3>. QED
      BY <2>4, <3>1 DEF Sorted, Collected, Whole, Fields
  <2>1. Sorted(m)
    BY <2>5, CollectedSorted
  <2>2. CutShort => Sorted(mem')
    BY <1>0 DEF CutShort
  <2>3. Proceed => Sorted(mem')
    BY <1>0 DEF Proceed
  <2>. QED
    BY <1>0, <1>4, <2>1, <2>2, <2>3
       DEF InstallStep, WriteSkillMD, ClearReferences, WriteTopic, TopicsWritten, ReportInstall
<1>5. CASE PrintError
  <2>1. PICK hint \in WithSkillHint : mem' = [mem EXCEPT !.status = "failed", !.hint = hint]
    BY <1>5 DEF PrintError
  <2>2. hint \in {"none", "own", "install", "consult"}
    BY DEF WithSkillHint
  <2>. HIDE DEF WithSkillHint
  <2>. QED
    BY <1>5, <2>1, <2>2 DEF PrintError, Sorted, Whole, Fields, Ended
<1>6. CASE \/ StartCallbackListener \/ UseCachedClient \/ Authorize
           \/ WaitResult \/ WaitServeErr \/ WaitDone
  BY <1>0, <1>6
     DEF StartCallbackListener, UseCachedClient, Authorize, WaitResult, WaitServeErr, WaitDone,
         Aborted, Refuse, Proceed
<1>7. CASE Deliver \/ LoginEnvironment
  BY <1>7 DEF Deliver, LoginEnvironment, HandleCallback, ListenerDies, Tick, commandVars
<1>8. CASE Discover \/ RegisterClient
  BY <1>8, AnsweredSorted DEF Discover, RegisterClient
<1>9. CASE Exchanged
  BY <1>0, <1>9, AnsweredSorted DEF Exchanged
<1>10. CASE InvalidClient \/ LoginRequestFails
  BY <1>0, <1>10 DEF InvalidClient, LoginRequestFails, Aborted, Refuse
<1>. QED
  BY <1>1, <1>2, <1>3, <1>4, <1>5, <1>6, <1>7, <1>8, <1>9, <1>10
     DEF TraceStep, TraceLocal, TraceRequest, LoginStep, LoginRequest

(* What a step may do to the walk along the links: one trace more, below   *)
(* the cap.                                                                *)
IsSequence(s) == \E T : s \in Seq(T)
WalkTypes(w) == IsSequence(w.results) /\ Len(w.results) <= MaxTraces

(* One element more makes a sequence one longer, whatever it is of.        *)
LEMMA AppendWalk ==
  ASSUME NEW s, NEW x, IsSequence(s)
  PROVE  IsSequence(Append(s, x)) /\ Len(s) \in Nat /\ Len(Append(s, x)) = Len(s) + 1
<1>1. PICK T : s \in Seq(T)
  BY DEF IsSequence
<1>. DEFINE U == T \union {x}
<1>2. s \in Seq(U) /\ x \in U
  <2>1. \A i \in 1..Len(s) : s[i] \in U
    BY <1>1
  <2>. QED
    BY <1>1, <2>1
<1>. HIDE DEF U
<1>. QED
  BY <1>2 DEF IsSequence

(* A fetch appends the trace; no other step changes what was fetched.      *)
LEMMA TraceWalks == ASSUME WalkTypes(walk), TraceStep PROVE WalkTypes(walk')
<1>1. CASE FetchRoot
  <2>1. PICK x : walk'.results = <<x>>
    BY <1>1 DEF FetchRoot
  <2>2. IsSequence(<<x>>) /\ Len(<<x>>) = 1
    <3>1. <<x>> \in Seq({x})
      OBVIOUS
    <3>. QED
      BY <3>1 DEF IsSequence
  <2>3. 1 <= MaxTraces
    BY TracesAssumption
  <2>. QED
    BY <2>1, <2>2, <2>3 DEF WalkTypes
<1>2. CASE FetchLinked
  <2>1. PICK x : walk'.results = Append(walk.results, x)
    BY <1>2 DEF FetchLinked
  <2>2. Len(walk.results) < MaxTraces
    BY <1>2 DEF FetchLinked, Following
  <2>. QED
    BY <2>1, <2>2, AppendWalk, TracesAssumption DEF WalkTypes
<1>3. CASE FetchFails \/ TraceLocal
  BY <1>3 DEF FetchFails, TraceLocal, FollowDone, RenderTrace
<1>. QED
  BY <1>1, <1>2, <1>3 DEF TraceStep, TraceRequest

(* The listener and the deadlines of a login; no more clients than the     *)
(* bound.                                                                  *)
LoginRecords ==
    [client : 0..MaxClients, clock : {"ample", "short", "over"},
     floor : {"none", "running", "over"}, won : {"none"} \union Genuine]

ListenerTypes ==
    /\ listener.up \in BOOLEAN /\ listener.dead \in BOOLEAN
    /\ login \in LoginRecords
    /\ Len(registry.known) <= MaxClients

(* Every step of a login keeps them.                                       *)
LEMMA LoginTypes ==
  ASSUME RegInv, ListenerTypes, LoginStep \/ LoginRequest \/ LoginEnvironment
  PROVE  ListenerTypes'
<1>. USE DEF ListenerTypes
<1>0. /\ DOMAIN listener = {"up", "port", "done", "dead", "result", "log"}
      /\ DOMAIN login = {"client", "clock", "floor", "won"}
      /\ DOMAIN registry = {"cached", "known", "disowned"}
      /\ Len(registry.known) \in Nat
  BY DEF RegInv, CallbackInv, LogInv, WonInv, RegistryInv
<1>1. ASSUME Aborted PROVE listener'.up = FALSE /\ listener'.dead = listener.dead
  BY <1>0, <1>1 DEF Aborted
<1>2. CASE StartCallbackListener
  <2>1. listener' = listener \/ (listener'.up = TRUE /\ listener'.dead = FALSE)
    BY <1>2 DEF StartCallbackListener, Closed
  <2>. QED
    BY <1>2, <2>1 DEF StartCallbackListener
<1>3. CASE UseCachedClient
  <2>1. login'.client \in 1..Len(registry.known)
    BY <1>0, <1>3 DEF UseCachedClient, CacheHit, RegInv, RegistryInv, Registered
  <2>2. login'.client \in 0..MaxClients
    BY <1>0, <2>1, LoginAssumption
  <2>3. login' \in LoginRecords
    BY <1>0, <1>3, <2>2 DEF UseCachedClient, LoginRecords
  <2>. QED
    BY <1>3, <2>3 DEF UseCachedClient
<1>4. CASE RegisterClient
  <2>1. PICK n \in Nat : n = Len(registry.known)
    BY <1>0
  <2>2. /\ login' = [login EXCEPT !.client = n + 1]
        /\ registry'.known = Append(registry.known, listener.port) /\ listener' = listener
    BY <1>0, <1>4, <2>1 DEF RegisterClient
  <2>3. n < MaxClients
    BY <1>4, <2>1 DEF RegisterClient
  <2>4. Len(registry'.known) = n + 1
    BY <2>1, <2>2 DEF RegInv, RegistryInv
  <2>5. n + 1 \in 0..MaxClients
    BY <2>1, <2>3, LoginAssumption
  <2>6. login' \in LoginRecords
    BY <2>2, <2>5 DEF LoginRecords
  <2>. QED
    BY <2>2, <2>4, <2>5, <2>6
<1>5. CASE Authorize \/ WaitServeErr \/ WaitDone \/ LoginRequestFails
  BY <1>1, <1>5 DEF Authorize, WaitServeErr, WaitDone, LoginRequestFails
<1>6. CASE WaitResult
  <2>1. /\ listener'.up \in {listener.up, FALSE} /\ listener'.dead = listener.dead
        /\ login' = [login EXCEPT !.won = Head(listener.result), !.floor = ExchangeFloor]
        /\ registry' = registry
    BY <1>0, <1>6 DEF WaitResult
  <2>2. Head(listener.result) \in Genuine
    BY <1>6 DEF WaitResult, RegInv, CallbackInv, LogInv, Decisive
  <2>3. ExchangeFloor \in {"none", "running", "over"}
    BY DEF ExchangeFloor
  <2>4. login' \in LoginRecords
    BY <2>1, <2>2, <2>3 DEF LoginRecords
  <2>. QED
    BY <2>1, <2>4
<1>7. CASE Exchanged
  BY <1>0, <1>7 DEF Exchanged
<1>8. CASE InvalidClient
  <2>1. registry'.known = registry.known
    BY <1>0, <1>8 DEF InvalidClient, InvalidateOAuthClient
  <2>. QED
    BY <1>1, <1>8, <2>1 DEF InvalidClient
<1>9. CASE Discover
  BY <1>9 DEF Discover
<1>10. CASE Deliver \/ LoginEnvironment
  <2>1. CASE Deliver
    BY <1>0, <2>1 DEF Deliver
  <2>2. CASE ListenerDies \/ \E kind \in Kinds : HandleCallback(kind)
    BY <1>0, <2>2 DEF ListenerDies, HandleCallback
  <2>3. CASE Tick
    BY <1>0, <2>3 DEF Tick, LoginRecords
  <2>. QED
    BY <1>10, <2>1, <2>2, <2>3 DEF LoginEnvironment
<1>. QED
  BY <1>2, <1>3, <1>4, <1>5, <1>6, <1>7, <1>8, <1>9, <1>10 DEF LoginStep, LoginRequest

(* All of it.                                                              *)
CliInv ==
    /\ RegInv /\ FilesInv
    /\ Sorted(mem) /\ fresh \in BOOLEAN /\ interrupts \in 0..Sigints
    /\ WalkTypes(walk) /\ ListenerTypes

(* At the start nothing has been collected, fetched or registered.         *)
LEMMA StartSorted == ASSUME NEW i PROVE Sorted(Started(i))
<1>1. << >> \in Seq(BOOLEAN)
  OBVIOUS
<1>2. NoClient \in Clients
  BY DEF NoClient, Clients, Vias, Tokens
<1>. QED
  BY <1>1, <1>2, WholeStarted DEF Sorted, Started, Whole, Fields

(* The values every process starts with have their types.                  *)
LEMMA StartTypes ==
  /\ WalkTypes(NoWalk)
  /\ Closed.up \in BOOLEAN /\ Closed.dead \in BOOLEAN
  /\ NoLogin \in LoginRecords
  /\ Len(NoRegistry.known) <= MaxClients
<1>1. << >> \in Seq({}) /\ Len(<< >>) = 0
  OBVIOUS
<1>. QED
  BY <1>1, TracesAssumption, LoginAssumption
     DEF WalkTypes, IsSequence, NoWalk, Closed, NoLogin, LoginRecords, NoRegistry

(* The first process starts with them.                                     *)
LEMMA CliInit == CommandLineInit => CliInv
<1>. SUFFICES ASSUME CommandLineInit PROVE CliInv
  OBVIOUS
<1>1. Sorted(mem)
  BY StartSorted DEF CommandLineInit
<1>2. fresh \in BOOLEAN
  BY DEF CommandLineInit
<1>3. interrupts \in 0..Sigints
  BY CommandsAssumption DEF CommandLineInit
<1>. QED
  BY <1>1, <1>2, <1>3, RegInit, FilesInit, StartTypes DEF CommandLineInit, CliInv, ListenerTypes

(* Every step keeps it.                                                    *)
LEMMA CliNext == CliInv /\ [CommandLineNext]_allVars => CliInv'
<1>. SUFFICES ASSUME CliInv, [CommandLineNext]_allVars PROVE CliInv'
  OBVIOUS
<1>1. RegInv' /\ FilesInv'
  BY RegNext, FilesNext DEF CliInv
<1>2. ProcessTypes
  BY DEF CliInv, ProcessTypes, Sorted
<1>3. CASE UNCHANGED allVars
  BY <1>1, <1>3 DEF allVars, CliInv, ListenerTypes
<1>4. CASE NewProcess
  <2>1. Sorted(mem')
    BY <1>4, StartSorted DEF NewProcess
  <2>2. fresh' \in BOOLEAN /\ interrupts' \in 0..Sigints /\ WalkTypes(walk')
    BY <1>4, StartTypes, CommandsAssumption DEF NewProcess, CliInv
  <2>3. ListenerTypes'
    BY <1>4, StartTypes DEF NewProcess, CliInv, ListenerTypes, diskVars
  <2>. QED
    BY <1>1, <2>1, <2>2, <2>3 DEF CliInv
<1>5. CASE CommandStep
  <2>1. Sorted(mem') /\ fresh' \in BOOLEAN
    BY <1>2, <1>5, LocalSorted, RequestSorted DEF CommandStep
  <2>2. interrupts' = interrupts /\ UNCHANGED <<walk, listener, login, registry>>
    BY <1>5 DEF CommandStep, loginOnly, LocalStep, RequestStep, Check, NewClientFromContext,
       NewOtlpClientFromContext, NewRawHTTPConfig, DetailsDone, Invited, Status, Read, Render,
       ReadBody, RequestFails, IteratorYields, IteratorEnds, Fetch, ResolveMembers,
       ResolveToMemberIDs, InviteMember, DetailFound, DetailFails, RawAnswered, Send, Answered
  <2>. QED
    BY <1>1, <2>1, <2>2 DEF CliInv, ListenerTypes
<1>6. CASE TracesGetStep
  <2>1. Sorted(mem') /\ fresh' \in BOOLEAN
    BY <1>2, <1>6, PrivateSorted DEF TracesGetStep
  <2>2. interrupts' = interrupts /\ UNCHANGED <<listener, login, registry>>
    BY <1>6 DEF TracesGetStep, loginOnly, TraceStep, TraceLocal, TraceRequest, FollowDone,
       RenderTrace, FetchRoot, FetchLinked, FetchFails, Answered
  <2>3. WalkTypes(walk')
    BY <1>6, TraceWalks DEF TracesGetStep, CliInv
  <2>. QED
    BY <1>1, <2>1, <2>2, <2>3 DEF CliInv, ListenerTypes
<1>7. CASE SkillInstallStep
  <2>1. Sorted(mem') /\ fresh' \in BOOLEAN
    BY <1>2, <1>7, PrivateSorted DEF SkillInstallStep
  <2>2. interrupts' = interrupts /\ UNCHANGED <<walk, listener, login, registry>>
    BY <1>7 DEF SkillInstallStep, loginOnly, InstallStep, PrintError, WriteSkillMD,
       ClearReferences, WriteTopic, TopicsWritten, ReportInstall
  <2>. QED
    BY <1>1, <2>1, <2>2 DEF CliInv, ListenerTypes
<1>8. CASE LoginCommandStep
  <2>1. Sorted(mem') /\ fresh' \in BOOLEAN
    BY <1>2, <1>8, PrivateSorted DEF LoginCommandStep
  <2>2. interrupts' = interrupts /\ walk' = walk
    BY <1>8 DEF LoginCommandStep, LoginStep, LoginRequest, LoginEnvironment, commandVars, Answered,
       StartCallbackListener, UseCachedClient, Authorize, WaitResult, WaitServeErr, WaitDone,
       Deliver, Discover, RegisterClient, Exchanged, InvalidClient, LoginRequestFails,
       HandleCallback, ListenerDies, Tick
  <2>3. ListenerTypes'
    BY <1>8, LoginTypes DEF LoginCommandStep, CliInv
  <2>. QED
    BY <1>1, <2>1, <2>2, <2>3 DEF CliInv
<1>9. CASE Disturbance
  <2>1. mem' = mem /\ fresh' \in BOOLEAN /\ UNCHANGED <<walk, listener, login, registry>>
    BY <1>2, <1>9 DEF Disturbance, Interrupt, Expire, loginOnly, ProcessTypes
  <2>2. interrupts' \in 0..Sigints
    BY <1>9, CommandsAssumption DEF Disturbance, Interrupt, Expire, CliInv
  <2>. QED
    BY <1>1, <2>1, <2>2 DEF CliInv, ListenerTypes
<1>. QED
  BY <1>3, <1>4, <1>5, <1>6, <1>7, <1>8, <1>9 DEF CommandLineNext

(* What is left of a program are steps.                                    *)
LEMMA ProgramSteps ==
  ASSUME Course PROVE mem.todo \in Seq(Steps)
<1>1. inv.cmd \in Commands
  BY InvocationsAssumption DEF Course, Invocation
<1>2. /\ Programs[inv.cmd] \in Seq(Places) /\ MainSteps \in Seq(Places)
  <2>1. MainSteps \in Seq(Places)
    BY LocalMain DEF Local, Places
  <2>2. CASE inv.cmd = "login"
    <3>1. LoginSteps \in Seq(Places)
      BY DEF LoginSteps, Places, LocalPlaces, CommandPlaces, Checks, LoginPlaces
    <3>. QED
      BY <2>1, <2>2, <3>1, ProgramsAre
  <2>3. CASE inv.cmd # "login"
    BY <1>1, <2>1, <2>3, ProgramsLocal DEF Local, Places
  <2>. QED
    BY <2>1, <2>2, <2>3
<1>3. PICK p \in Seq(Places), q \in Seq(Places) : p = MainSteps /\ q = Programs[inv.cmd]
  BY <1>2
<1>4. ASSUME NEW i \in 1..Len(p \o q) PROVE (p \o q)[i] \in Steps
  <2>1. \/ \E j \in 1..Len(p) : (p \o q)[i] = p[j]
        \/ \E j \in 1..Len(q) : (p \o q)[i] = q[j]
    BY <1>4
  <2>2. /\ \A j \in 1..Len(p) : p[j] \in ToSet(p)
        /\ \A j \in 1..Len(q) : q[j] \in ToSet(q)
    BY DEF ToSet
  <2>. QED
    BY <1>1, <1>3, <2>1, <2>2 DEF Steps
<1>5. Program = p \o q
  BY <1>3 DEF Program
<1>6. PICK t \in Seq(Places) : t = mem.todo
  BY DEF Course, Rest
<1>7. ASSUME NEW i \in 1..Len(t) PROVE t[i] \in Steps
  <2>1. PICK m \in Nat, n \in Nat : m = Len(p \o q) /\ n = Len(t)
    BY <1>6
  <2>2. n <= m /\ t[i] = (p \o q)[m - n + i]
    BY <1>5, <1>6, <2>1 DEF Course, Rest
  <2>3. m - n + i \in 1..m
    BY <2>1, <2>2
  <2>. QED
    BY <1>4, <2>1, <2>2, <2>3
<1>. HIDE DEF Steps, Places
<1>. QED
  BY <1>6, <1>7

(* It implies the types: what waits for Wait is a kind that echoed the     *)
(* state, and what is disowned is known.                                   *)
LEMMA CliImplies == CliInv => CliTypeOK
<1>. SUFFICES ASSUME CliInv PROVE CliTypeOK
  OBVIOUS
<1>. USE DEF CliInv
<1>1. Memory
  BY ProgramSteps DEF Memory, Sorted, Clients, Credentials, FilesInv
<1>2. listener.result \in {<< >>} \union {<<k>> : k \in Genuine}
  BY DEF RegInv, CallbackInv, LogInv, Decisive
<1>3. listener.log \in Seq([kind : Kinds, reply : Replies]) /\ listener.done \in BOOLEAN
  BY DEF RegInv, CallbackInv, LogInv
<1>4. login \in [client : 0..MaxClients, clock : {"ample", "short", "over"},
                 floor : {"none", "running", "over"}, won : {"none"} \union Genuine]
  BY DEF ListenerTypes, LoginRecords
<1>5. Listening
  BY <1>2, <1>3, <1>4 DEF Listening, ListenerTypes, RegInv, RegistryInv
<1>6. inv \in Invocation
  BY InvocationsAssumption DEF FilesInv, Course
<1>7. registry.disowned \subseteq DOMAIN registry.known /\ registry.known \in Seq(Nat)
  BY DEF RegInv, RegistryInv
<1>. QED
  BY <1>1, <1>5, <1>6, <1>7 DEF CliTypeOK, FilesInv, WalkTypes

(* Whatever commands follow each other, every variable keeps its type: no  *)
(* walk exceeds its cap, no program leaves its steps, the listener hands   *)
(* out no more than one result, and only known clients are disowned.       *)
THEOREM CliTypeCorrect == CommandLineSpec => []CliTypeOK
BY CliInit, CliNext, CliImplies, PTL DEF CommandLineSpec

(* What holds of no group and of one group more holds of all of them: J    *)
(* relates a number of groups to what they make.                           *)
LEMMA FlattenBy ==
  ASSUME NEW T, NEW s \in Seq(Seq(T)), NEW J, <<0, << >>>> \in J,
         \A n \in Nat, x \in Seq(T) : n < Len(s) /\ <<n, x>> \in J => <<n + 1, x \o s[n + 1]>> \in J
  PROVE  FlattenSeq(s) \in Seq(T) /\ <<Len(s), FlattenSeq(s)>> \in J
<1>1. FlattenSeq(s) \in Seq(T)
  BY FlattenType
<1>2. PICK X : X = Seq(T)
  OBVIOUS
<1>3. PICK k \in Nat : k = Len(s) /\ (k = 0 => s = << >>)
  BY EmptySeq
<1>4. << >> \in X /\ (\A i \in 1..k : s[i] \in X) /\ ClosedUnderConcat(X)
  <2>1. << >> \in Seq(T)
    OBVIOUS
  <2>. QED
    BY <1>2, <1>3, <2>1, ClosedSeq
<1>5. \A x \in X : << >> \o x = x
  BY <1>2
<1>6. ASSUME NEW n \in Nat, NEW x \in X, n < k, <<n, x>> \in J PROVE <<n + 1, x \o s[n + 1]>> \in J
  BY <1>2, <1>3, <1>6
<1>7. CASE k = 0
  BY <1>1, <1>3, <1>7, FlattenEmpty
<1>8. CASE k # 0
  <2>1. k \in Nat \ {0}
    BY <1>8
  <2>2. PICK f : Flattens(f, s, k) /\ FlattenSeq(s) = f[k]
    <3>1. Len(s) \in Nat \ {0} /\ \A i \in 1..Len(s) : s[i] \in X
      BY ONLY <1>3, <1>4, <2>1
    <3>2. \E f : Flattens(f, s, Len(s)) /\ FlattenSeq(s) = f[Len(s)] /\ f[Len(s)] \in X
      BY ONLY <3>1, <1>4, FlattenSolves
    <3>. QED
      BY ONLY <3>2, <1>3
  <2>3. \A i \in 1..k : f[i] \in X
    <3>1. k \in Nat /\ k <= k /\ \A i \in 1..k : s[i] = s[i] /\ s[i] \in X
      BY ONLY <1>4, <2>1
    <3>. QED
      BY ONLY <1>4, <3>1, <2>2, FlattensUnique
  <2>4. \A i \in 1..k : f[i] = IF i = 1 THEN s[i] ELSE f[i - 1] \o s[i]
    BY ONLY <2>1, <2>2, FlattensAt
  <2>. DEFINE P(i) == i \in 1..k => <<i, f[i]>> \in J
              M == {i \in Nat : P(i)}
  <2>5. P(0)
    OBVIOUS
  <2>6. ASSUME NEW i \in Nat, P(i) PROVE P(i + 1)
    <3>1. SUFFICES ASSUME i + 1 \in 1..k PROVE <<i + 1, f[i + 1]>> \in J
      OBVIOUS
    <3>2. CASE i = 0
      <4>1. f[1] = s[1] /\ s[1] \in X /\ 0 < k /\ 0 \in Nat
        BY ONLY <1>4, <2>1, <2>4
      <4>2. <<0 + 1, << >> \o s[0 + 1]>> \in J
        BY ONLY <1>4, <1>6, <4>1, <<0, << >>>> \in J
      <4>3. 0 + 1 = 1 /\ << >> \o s[1] = s[1]
        BY ONLY <1>5, <4>1
      <4>. QED
        BY ONLY <4>1, <4>2, <4>3, <3>2
    <3>3. CASE i # 0
      <4>1. i \in 1..k /\ i < k /\ i + 1 # 1 /\ i + 1 - 1 = i
        BY ONLY <3>1, <3>3, i \in Nat, k \in Nat
      <4>2. <<i, f[i]>> \in J /\ f[i] \in X
        BY ONLY <4>1, <2>3, <2>6
      <4>3. f[i + 1] = f[i] \o s[i + 1]
        <5>. DEFINE j == i + 1
        <5>1. j \in 1..k /\ j # 1 /\ j - 1 = i
          BY ONLY <3>1, <4>1
        <5>. HIDE DEF j
        <5>2. f[j] = f[j - 1] \o s[j]
          BY ONLY <2>4, <5>1
        <5>3. f[j] = f[i] \o s[j]
          BY ONLY <5>1, <5>2, Zenon
        <5>. QED
          BY ONLY <5>3 DEF j
      <4>. QED
        BY ONLY <1>6, <4>1, <4>2, <4>3, i \in Nat
    <3>. QED
      BY <3>2, <3>3
  <2>7. Nat \subseteq M
    <3>1. 0 \in M
      BY ONLY <2>5
    <3>2. ASSUME NEW i \in Nat, i \in M PROVE i + 1 \in M
      <4>. HIDE DEF P
      <4>. QED
        BY ONLY <3>2, <2>6
    <3>. HIDE DEF M
    <3>. QED
      BY ONLY <3>1, <3>2, SetInduction
  <2>8. <<k, f[k]>> \in J
    <3>1. k \in M
      BY ONLY <2>7, k \in Nat
    <3>. QED
      BY ONLY <3>1, <2>1
  <2>. QED
    BY <1>1, <1>3, <2>2, <2>8
<1>. QED
  BY <1>7, <1>8

(* No element comes twice. *)
Distinct(s) == \A i, j \in 1..Len(s) : s[i] = s[j] => i = j

(* Two sequences after each other.                                         *)
LEMMA ConcatElements ==
  ASSUME NEW T, NEW a \in Seq(T), NEW b \in Seq(T)
  PROVE  /\ ToSet(a \o b) = ToSet(a) \union ToSet(b)
         /\ Distinct(a) /\ Distinct(b) /\ ToSet(a) \cap ToSet(b) = {} => Distinct(a \o b)
<1>1. PICK m \in Nat, n \in Nat : m = Len(a) /\ n = Len(b)
  OBVIOUS
<1>2. PICK c : c = a \o b /\ c \in Seq(T)
  <2>1. a \o b \in Seq(T)
    OBVIOUS
  <2>. QED
    BY <2>1
<1>3. /\ Len(c) = m + n /\ DOMAIN a = 1..m /\ DOMAIN b = 1..n /\ DOMAIN c = 1..(m + n)
      /\ \A i \in 1..m : c[i] = a[i]
      /\ \A i \in 1..n : c[m + i] = b[i]
      /\ \A i \in 1..(m + n) : i > m => c[i] = b[i - m] /\ i - m \in 1..n
  BY <1>1, <1>2
<1>4. /\ ToSet(a) = {a[i] : i \in 1..m} /\ ToSet(b) = {b[i] : i \in 1..n}
      /\ ToSet(c) = {c[i] : i \in 1..(m + n)}
  BY <1>1, <1>3 DEF ToSet
<1>5. ToSet(c) = ToSet(a) \union ToSet(b)
  <2>1. ASSUME NEW i \in 1..(m + n) PROVE c[i] \in ToSet(a) \union ToSet(b)
    BY ONLY <1>3, <1>4, m \in Nat, n \in Nat
  <2>2. ASSUME NEW i \in 1..m PROVE a[i] \in ToSet(c)
    BY ONLY <1>3, <1>4, m \in Nat, n \in Nat
  <2>3. ASSUME NEW i \in 1..n PROVE b[i] \in ToSet(c)
    <3>1. m + i \in 1..(m + n) /\ c[m + i] = b[i]
      BY ONLY <1>3, m \in Nat, n \in Nat
    <3>. QED
      BY ONLY <1>4, <3>1
  <2>. QED
    BY ONLY <1>4, <2>1, <2>2, <2>3
<1>6. ASSUME Distinct(a), Distinct(b), ToSet(a) \cap ToSet(b) = {},
             NEW i \in 1..(m + n), NEW j \in 1..(m + n), c[i] = c[j]
      PROVE  i = j
  <2>1. CASE i <= m /\ j <= m
    BY ONLY <1>1, <1>3, <1>6, <2>1 DEF Distinct
  <2>2. CASE i > m /\ j > m
    <3>1. i - m \in 1..n /\ j - m \in 1..n /\ b[i - m] = b[j - m]
      BY ONLY <1>3, <1>6, <2>2
    <3>2. i - m = j - m
      BY ONLY <1>1, <1>6, <3>1 DEF Distinct
    <3>. QED
      BY ONLY <3>2, m \in Nat, n \in Nat
  <2>3. ASSUME i <= m, j > m PROVE FALSE
    <3>1. c[i] = a[i] /\ i \in 1..m /\ c[j] = b[j - m] /\ j - m \in 1..n
      BY ONLY <1>3, <1>6, <2>3, m \in Nat, n \in Nat
    <3>2. c[i] \in ToSet(a) /\ c[j] \in ToSet(b)
      BY ONLY <1>4, <3>1
    <3>. QED
      BY ONLY <1>6, <3>2
  <2>4. ASSUME i > m, j <= m PROVE FALSE
    <3>1. c[j] = a[j] /\ j \in 1..m /\ c[i] = b[i - m] /\ i - m \in 1..n
      BY ONLY <1>3, <1>6, <2>4, m \in Nat, n \in Nat
    <3>2. c[j] \in ToSet(a) /\ c[i] \in ToSet(b)
      BY ONLY <1>4, <3>1
    <3>. QED
      BY ONLY <1>6, <3>2
  <2>. QED
    BY <2>1, <2>2, <2>3, <2>4
<1>. QED
  BY <1>2, <1>3, <1>5, <1>6 DEF Distinct

(* What all groups make has the elements of the groups.                    *)
LEMMA FlattenElements ==
  ASSUME NEW T, NEW s \in Seq(Seq(T))
  PROVE  ToSet(FlattenSeq(s)) = UNION {ToSet(s[i]) : i \in 1..Len(s)}
<1>. DEFINE J == {p \in Nat \X Seq(T) :
                    ToSet(p[2]) = UNION {ToSet(s[i]) : i \in 1..p[1]}}
<1>1. <<0, << >>>> \in J
  <2>1. << >> \in Seq(T) /\ ToSet(<< >>) = {}
    BY DEF ToSet
  <2>2. UNION {ToSet(s[i]) : i \in 1..0} = {}
    OBVIOUS
  <2>3. <<0, << >>>> \in Nat \X Seq(T)
    BY <2>1
  <2>. QED
    BY ONLY <2>1, <2>2, <2>3, Zenon
<1>2. ASSUME NEW n \in Nat, NEW x \in Seq(T), n < Len(s), <<n, x>> \in J
      PROVE  <<n + 1, x \o s[n + 1]>> \in J
  <2>1. s[n + 1] \in Seq(T) /\ x \o s[n + 1] \in Seq(T)
    BY <1>2
  <2>2. ToSet(x \o s[n + 1]) = ToSet(x) \union ToSet(s[n + 1])
    BY <2>1, ConcatElements
  <2>3. ToSet(x) = UNION {ToSet(s[i]) : i \in 1..n}
    BY <1>2
  <2>4. 1..(n + 1) = 1..n \union {n + 1}
    OBVIOUS
  <2>5. UNION {ToSet(s[i]) : i \in 1..(n + 1)}
          = (UNION {ToSet(s[i]) : i \in 1..n}) \union ToSet(s[n + 1])
    BY ONLY <2>4, Zenon
  <2>6. n + 1 \in Nat
    OBVIOUS
  <2>. QED
    BY ONLY <2>1, <2>2, <2>3, <2>5, <2>6
<1>3. <<Len(s), FlattenSeq(s)>> \in J
  <2>. HIDE DEF J
  <2>. QED
    BY <1>1, <1>2, FlattenBy
<1>. QED
  BY <1>3

(* It has no element twice when no group has and no two groups share one.  *)
LEMMA FlattenDistinct ==
  ASSUME NEW T, NEW s \in Seq(Seq(T)), \A i \in 1..Len(s) : Distinct(s[i]),
         \A i, j \in 1..Len(s) : i < j => ToSet(s[i]) \cap ToSet(s[j]) = {}
  PROVE  Distinct(FlattenSeq(s))
<1>. DEFINE J == {p \in Nat \X Seq(T) :
                    Distinct(p[2]) /\ ToSet(p[2]) \subseteq UNION {ToSet(s[i]) : i \in 1..p[1]}}
<1>1. <<0, << >>>> \in J
  <2>1. << >> \in Seq(T) /\ ToSet(<< >>) = {} /\ Distinct(<< >>)
    BY DEF ToSet, Distinct
  <2>. QED
    BY <2>1
<1>2. ASSUME NEW n \in Nat, NEW x \in Seq(T), n < Len(s), <<n, x>> \in J
      PROVE  <<n + 1, x \o s[n + 1]>> \in J
  <2>1. s[n + 1] \in Seq(T) /\ x \o s[n + 1] \in Seq(T) /\ n + 1 \in 1..Len(s)
    BY <1>2
  <2>2. Distinct(x) /\ ToSet(x) \subseteq UNION {ToSet(s[i]) : i \in 1..n}
    BY <1>2
  <2>3. ToSet(x) \cap ToSet(s[n + 1]) = {}
    <3>1. ASSUME NEW e \in ToSet(x), e \in ToSet(s[n + 1]) PROVE FALSE
      <4>1. PICK i \in 1..n : e \in ToSet(s[i])
        BY <2>2
      <4>2. i \in 1..Len(s) /\ i < n + 1
        BY <1>2
      <4>3. ToSet(s[i]) \cap ToSet(s[n + 1]) = {}
        BY <2>1, <4>2
      <4>. QED
        BY ONLY <3>1, <4>1, <4>3
    <3>. QED
      BY ONLY <3>1
  <2>4. /\ ToSet(x \o s[n + 1]) = ToSet(x) \union ToSet(s[n + 1])
        /\ Distinct(x \o s[n + 1])
    BY <2>1, <2>2, <2>3, ConcatElements
  <2>5. 1..(n + 1) = 1..n \union {n + 1} /\ n + 1 \in Nat
    OBVIOUS
  <2>6. UNION {ToSet(s[i]) : i \in 1..(n + 1)}
          = (UNION {ToSet(s[i]) : i \in 1..n}) \union ToSet(s[n + 1])
    BY ONLY <2>5, Zenon
  <2>. QED
    BY ONLY <2>1, <2>2, <2>4, <2>5, <2>6
<1>3. <<Len(s), FlattenSeq(s)>> \in J
  <2>. HIDE DEF J
  <2>. QED
    BY <1>1, <1>2, FlattenBy
<1>. QED
  BY <1>3

(* Each group lies in it in one piece.                                     *)
LEMMA FlattenBlock ==
  ASSUME NEW T, NEW s \in Seq(Seq(T)), NEW i \in 1..Len(s)
  PROVE  \E o \in Nat : \A a \in 1..Len(s[i]) :
            o + a \in 1..Len(FlattenSeq(s)) /\ FlattenSeq(s)[o + a] = s[i][a]
<1>. DEFINE Within(x) == \E o \in Nat : \A a \in 1..Len(s[i]) :
                            o + a \in 1..Len(x) /\ x[o + a] = s[i][a]
            J == {p \in Nat \X Seq(T) : p[1] >= i => Within(p[2])}
<1>0. i \in Nat \ {0} /\ s[i] \in Seq(T)
  OBVIOUS
<1>1. <<0, << >>>> \in J
  <2>1. << >> \in Seq(T) /\ ~(0 >= i)
    BY <1>0
  <2>. QED
    BY <2>1
<1>2. ASSUME NEW n \in Nat, NEW x \in Seq(T), n < Len(s), <<n, x>> \in J
      PROVE  <<n + 1, x \o s[n + 1]>> \in J
  <2>1. s[n + 1] \in Seq(T)
    BY <1>2
  <2>2. PICK m \in Nat, k \in Nat, g \in Seq(T) : m = Len(x) /\ k = Len(s[n + 1]) /\ g = s[n + 1]
    BY <2>1
  <2>3. PICK y : y = x \o g /\ y \in Seq(T)
    <3>1. x \o g \in Seq(T)
      OBVIOUS
    <3>. QED
      BY <3>1
  <2>4. /\ Len(y) = m + k /\ \A a \in 1..m : y[a] = x[a]
        /\ \A a \in 1..k : y[m + a] = g[a]
    BY <2>2, <2>3
  <2>5. ASSUME n + 1 >= i PROVE Within(y)
    <3>1. CASE n >= i
      <4>1. Within(x)
        BY <1>2, <3>1
      <4>2. PICK o \in Nat : \A a \in 1..Len(s[i]) : o + a \in 1..m /\ x[o + a] = s[i][a]
        BY <2>2, <4>1
      <4>3. ASSUME NEW a \in 1..Len(s[i]) PROVE o + a \in 1..Len(y) /\ y[o + a] = s[i][a]
        <5>1. o + a \in 1..m /\ x[o + a] = s[i][a]
          BY ONLY <4>2
        <5>. QED
          BY ONLY <2>4, <5>1, m \in Nat, k \in Nat
      <4>. QED
        BY <4>3
    <3>2. CASE ~(n >= i)
      <4>1. n + 1 = i
        BY <1>0, <2>5, <3>2
      <4>2. \A a \in 1..Len(s[i]) : m + a \in 1..Len(y) /\ y[m + a] = s[i][a]
        BY <2>2, <2>4, <4>1
      <4>. QED
        BY <4>2
    <3>. QED
      BY <3>1, <3>2
  <2>6. <<n + 1, y>> \in J
    <3>. DEFINE p == <<n + 1, y>>
    <3>1. p \in Nat \X Seq(T) /\ p[1] = n + 1 /\ p[2] = y
      <4>1. n + 1 \in Nat /\ y \in Seq(T)
        BY ONLY <2>3, n \in Nat
      <4>. QED
        BY ONLY <4>1
    <3>. HIDE DEF p, Within
    <3>2. p[1] >= i => Within(p[2])
      BY ONLY <2>5, <3>1
    <3>3. p \in J
      BY ONLY <3>1, <3>2, Zenon
    <3>. QED
      BY ONLY <3>3 DEF p
  <2>. QED
    BY <2>2, <2>3, <2>6
<1>3. <<Len(s), FlattenSeq(s)>> \in J
  <2>. HIDE DEF J
  <2>. QED
    BY <1>1, <1>2, FlattenBy
<1>4. Len(s) \in Nat /\ Len(s) >= i
  BY <1>0
<1>5. Within(FlattenSeq(s))
  <2>. HIDE DEF Within
  <2>. QED
    BY <1>3, <1>4
<1>. QED
  BY <1>5

(* The elements of s at some positions.                                    *)
PickedAt(s, positions) ==
    FlattenSeq([i \in 1..Len(s) |-> IF i \in positions THEN <<s[i]>> ELSE << >>])

(* Some of the elements of s, each as often as it is at such a position,   *)
(* in the order of s.                                                      *)
LEMMA PickedType ==
  ASSUME NEW T, NEW s \in Seq(T), NEW P \in SUBSET (1..Len(s))
  PROVE  /\ PickedAt(s, P) \in Seq(T)
         /\ ToSet(PickedAt(s, P)) = {s[i] : i \in P}
         /\ Len(PickedAt(s, P)) = Cardinality(P)
         /\ (\A i, j \in P : s[i] = s[j] => i = j) => Distinct(PickedAt(s, P))
<1>1. PICK k \in Nat : k = Len(s)
  OBVIOUS
<1>2. PICK g : g = [i \in 1..k |-> IF i \in P THEN <<s[i]>> ELSE << >>]
  OBVIOUS
<1>3. ASSUME NEW i \in 1..k PROVE
        /\ s[i] \in T
        /\ i \in P => g[i] = <<s[i]>> /\ ToSet(g[i]) = {s[i]} /\ Len(g[i]) = 1
        /\ i \notin P => g[i] = << >> /\ ToSet(g[i]) = {} /\ Len(g[i]) = 0
        /\ g[i] \in Seq(T) /\ Distinct(g[i])
  <2>1. s[i] \in T
    BY <1>1
  <2>2. <<s[i]>> \in Seq(T) /\ << >> \in Seq(T)
    BY <2>1
  <2>. DEFINE e == s[i]
              one == <<e>>
  <2>3. Len(one) = 1 /\ one[1] = e /\ ToSet(one) = {e} /\ Distinct(one)
    BY DEF ToSet, Distinct
  <2>4. Len(<< >>) = 0 /\ ToSet(<< >>) = {} /\ Distinct(<< >>)
    BY DEF ToSet, Distinct
  <2>5. g[i] = IF i \in P THEN one ELSE << >>
    BY <1>2
  <2>. HIDE DEF one, e
  <2>. QED
    BY <2>1, <2>2, <2>3, <2>4, <2>5 DEF one, e
<1>4. PICK X : X = Seq(T)
  OBVIOUS
<1>5. g \in Seq(X) /\ Len(g) = k
  BY ONLY <1>1, <1>2, <1>3, <1>4
<1>6. g \in Seq(Seq(T))
  BY ONLY <1>4, <1>5
<1>7. FlattenSeq(g) = PickedAt(s, P)
  BY ONLY <1>1, <1>2 DEF PickedAt
<1>8. PickedAt(s, P) \in Seq(T)
  <2>1. FlattenSeq(g) \in Seq(T)
    BY ONLY <1>6, FlattenType
  <2>. QED
    BY ONLY <1>7, <2>1
<1>9. ToSet(PickedAt(s, P)) = {s[i] : i \in P}
  <2>1. ToSet(FlattenSeq(g)) = UNION {ToSet(g[i]) : i \in 1..k}
    BY ONLY <1>5, <1>6, FlattenElements
  <2>2. P \subseteq 1..k
    BY <1>1
  <2>3. ASSUME NEW i \in 1..k, NEW e \in ToSet(g[i]) PROVE e \in {s[j] : j \in P}
    BY ONLY <1>3, <2>3
  <2>4. ASSUME NEW i \in P PROVE s[i] \in UNION {ToSet(g[j]) : j \in 1..k}
    <3>1. i \in 1..k /\ s[i] \in ToSet(g[i])
      BY ONLY <1>3, <2>2, i \in P
    <3>. QED
      BY ONLY <3>1
  <2>. QED
    BY ONLY <1>7, <2>1, <2>3, <2>4
<1>10. ASSUME \A i, j \in P : s[i] = s[j] => i = j PROVE Distinct(PickedAt(s, P))
  <2>1. \A i \in 1..Len(g) : Distinct(g[i])
    BY ONLY <1>3, <1>5
  <2>2. \A i, j \in 1..Len(g) : i < j => ToSet(g[i]) \cap ToSet(g[j]) = {}
    BY ONLY <1>3, <1>5, <1>10
  <2>3. Distinct(FlattenSeq(g))
    BY ONLY <1>6, <2>1, <2>2, FlattenDistinct
  <2>. QED
    BY ONLY <1>7, <2>3
<1>11. Len(PickedAt(s, P)) = Cardinality(P)
  <2>. DEFINE U(n) == P \cap (1..n)
              J == {p \in Nat \X X : Len(p[2]) = Cardinality(U(p[1])) /\ IsFiniteSet(U(p[1]))}
  <2>1. <<0, << >>>> \in J
    <3>1. U(0) = {}
      OBVIOUS
    <3>2. Cardinality(U(0)) = 0 /\ IsFiniteSet(U(0))
      BY ONLY <3>1, FS_EmptySet
    <3>3. << >> \in X /\ Len(<< >>) = 0
      BY <1>4
    <3>. HIDE DEF U
    <3>. QED
      BY ONLY <3>2, <3>3
  <2>2. ASSUME NEW n \in Nat, NEW x \in X, n < Len(g), <<n, x>> \in J
        PROVE  <<n + 1, x \o g[n + 1]>> \in J
    <3>1. n + 1 \in 1..k /\ g[n + 1] \in X /\ n + 1 \in Nat
      BY ONLY <1>3, <1>4, <1>5, <2>2, k \in Nat
    <3>2. x \o g[n + 1] \in X /\ Len(x \o g[n + 1]) = Len(x) + Len(g[n + 1]) /\ Len(x) \in Nat
      BY ONLY <1>4, <3>1, x \in X
    <3>3. Len(x) = Cardinality(U(n)) /\ IsFiniteSet(U(n))
      BY ONLY <2>2
    <3>4. CASE n + 1 \in P
      <4>1. U(n + 1) = U(n) \union {n + 1} /\ n + 1 \notin U(n)
        BY ONLY <3>4, n \in Nat
      <4>2. IsFiniteSet(U(n + 1)) /\ Cardinality(U(n + 1)) = Cardinality(U(n)) + 1
        <5>. HIDE DEF U
        <5>1. /\ IsFiniteSet(U(n) \union {n + 1})
              /\ Cardinality(U(n) \union {n + 1}) = Cardinality(U(n)) + 1
          BY ONLY <3>3, <4>1, FS_AddElement
        <5>. QED
          BY ONLY <4>1, <5>1
      <4>3. Len(g[n + 1]) = 1
        BY ONLY <1>3, <3>1, <3>4
      <4>4. Len(x \o g[n + 1]) = Cardinality(U(n + 1))
        BY ONLY <3>2, <3>3, <4>2, <4>3
      <4>. HIDE DEF U
      <4>. QED
        BY ONLY <3>1, <3>2, <4>2, <4>4
    <3>5. CASE n + 1 \notin P
      <4>1. U(n + 1) = U(n)
        BY ONLY <3>5, n \in Nat
      <4>3. Len(g[n + 1]) = 0
        BY ONLY <1>3, <3>1, <3>5
      <4>4. Len(x \o g[n + 1]) = Cardinality(U(n + 1)) /\ IsFiniteSet(U(n + 1))
        <5>. HIDE DEF U
        <5>. QED
          BY ONLY <3>2, <3>3, <4>1, <4>3
      <4>. HIDE DEF U
      <4>. QED
        BY ONLY <3>1, <3>2, <4>4
    <3>. QED
      BY <3>4, <3>5
  <2>3. <<Len(g), FlattenSeq(g)>> \in J
    <3>. HIDE DEF J
    <3>. QED
      BY ONLY <1>4, <1>6, <2>1, <2>2, FlattenBy
  <2>4. U(k) = P
    BY <1>1
  <2>. HIDE DEF U
  <2>5. Len(FlattenSeq(g)) = Cardinality(U(k))
    BY ONLY <1>5, <2>3
  <2>. QED
    BY ONLY <1>7, <2>4, <2>5
<1>. QED
  BY <1>8, <1>9, <1>10, <1>11

(* A set of numbers has a least one.                                       *)
LEMMA LeastMember ==
  ASSUME NEW S \in SUBSET Nat, S # {}
  PROVE  \E n \in S : \A m \in S : n <= m
<1>. DEFINE M == {n \in Nat : \A m \in S : n <= m}
<1>. SUFFICES ASSUME ~\E n \in S : \A m \in S : n <= m PROVE FALSE
  OBVIOUS
<1>1. 0 \in M
  OBVIOUS
<1>2. ASSUME NEW n \in Nat, n \in M PROVE n + 1 \in M
  <2>1. n \notin S
    BY <1>2
  <2>. QED
    BY <1>2, <2>1
<1>3. Nat \subseteq M
  <2>. HIDE DEF M
  <2>. QED
    BY <1>1, <1>2, SetInduction
<1>4. PICK m \in S : m \in Nat
  OBVIOUS
<1>5. m + 1 \in M
  BY <1>3, <1>4
<1>. QED
  BY <1>4, <1>5

(* The first of a queue, and those behind it.                              *)
LEMMA HeadElements ==
  ASSUME NEW T, NEW q \in Seq(T), q # << >>
  PROVE  /\ Head(q) \in T /\ Tail(q) \in Seq(T) /\ Len(Tail(q)) = Len(q) - 1 /\ Len(q) \in Nat \ {0}
         /\ ToSet(q) = {Head(q)} \union ToSet(Tail(q))
         /\ Distinct(q) => Distinct(Tail(q)) /\ Head(q) \notin ToSet(Tail(q))
<1>1. /\ Len(q) \in Nat \ {0} /\ Head(q) \in T /\ Tail(q) \in Seq(T) /\ Len(Tail(q)) = Len(q) - 1
  BY EmptySeq
<1>2. PICK n \in Nat \ {0} : n = Len(q)
  BY ONLY <1>1
<1>20. PICK k \in Nat : n = k + 1
  <2>1. n - 1 \in Nat /\ n = (n - 1) + 1
    BY ONLY n \in Nat \ {0}
  <2>. QED
    BY ONLY <2>1
<1>3. PICK u \in Seq(T) : u = Tail(q) /\ Len(u) = k
  <2>1. Len(Tail(q)) = k
    BY ONLY <1>1, <1>2, <1>20, k \in Nat
  <2>. QED
    BY ONLY <1>1, <2>1
<1>4. DOMAIN q = 1..n
  <2>1. DOMAIN q = 1..Len(q)
    BY ONLY q \in Seq(T)
  <2>. QED
    BY ONLY <1>2, <2>1
<1>5. DOMAIN u = 1..k
  BY ONLY <1>3, u \in Seq(T)
<1>6. Head(q) = q[1] /\ \A i \in 1..k : u[i] = q[i + 1]
  BY ONLY <1>2, <1>20, <1>3, q \in Seq(T), q # << >>
<1>7. ToSet(q) = {q[i] : i \in 1..n} /\ ToSet(u) = {u[i] : i \in 1..k}
  BY ONLY <1>4, <1>5 DEF ToSet
<1>8. ASSUME NEW i \in 1..n PROVE q[i] \in {q[1]} \union ToSet(u)
  <2>1. CASE i = 1
    BY <2>1
  <2>2. CASE i # 1
    <3>1. i - 1 \in 1..k /\ i = (i - 1) + 1
      BY ONLY <1>20, <2>2, k \in Nat, i \in 1..n
    <3>2. PICK j \in 1..k : i = j + 1
      BY ONLY <3>1
    <3>3. q[i] = u[j]
      BY ONLY <1>6, <3>2, j \in 1..k
    <3>. QED
      BY ONLY <1>7, <3>3, j \in 1..k
  <2>. QED
    BY ONLY <2>1, <2>2
<1>9. ASSUME NEW i \in 1..k PROVE i + 1 \in 1..n /\ i + 1 # 1
  BY ONLY <1>20, k \in Nat, i \in 1..k
<1>10. 1 \in 1..n
  BY ONLY n \in Nat \ {0}
<1>11. ToSet(q) = {q[1]} \union ToSet(u)
  BY ONLY <1>6, <1>7, <1>8, <1>9, <1>10
<1>12. ASSUME Distinct(q) PROVE Distinct(u) /\ q[1] \notin ToSet(u)
  <2>1. \A i, j \in 1..n : q[i] = q[j] => i = j
    BY ONLY <1>2, <1>12 DEF Distinct
  <2>2. ASSUME NEW i \in 1..k, NEW j \in 1..k, u[i] = u[j] PROVE i = j
    <3>1. i + 1 = j + 1
      BY ONLY <1>6, <1>9, <2>1, <2>2, i \in 1..k, j \in 1..k
    <3>. QED
      BY ONLY <3>1, k \in Nat, i \in 1..k, j \in 1..k
  <2>3. ASSUME NEW i \in 1..k, u[i] = q[1] PROVE FALSE
    BY ONLY <1>6, <1>9, <1>10, <2>1, <2>3, i \in 1..k
  <2>. QED
    BY ONLY <1>3, <1>7, <2>2, <2>3 DEF Distinct
<1>. QED
  BY ONLY <1>1, <1>3, <1>6, <1>11, <1>12

(* What the API may answer: spans, no two with one identifier.             *)
Identified(spans) ==
    spans \in Seq(Spans) /\ \A i, j \in 1..Len(spans) : spans[i].id = spans[j].id => i = j

(* A span.                                                                 *)
LEMMA SpanAt ==
  ASSUME NEW spans \in Seq(Spans), NEW i \in 1..Len(spans)
  PROVE  /\ spans[i] \in Spans /\ spans[i].id \in Nat /\ spans[i].id # NoParent
         /\ spans[i].parent \in Nat /\ spans[i].links \in Seq(TraceIds)
<1>1. spans[i] \in Spans
  OBVIOUS
<1>. QED
  BY <1>1 DEF Spans

(* The links of some spans.                                                *)
LEMMA LinksType ==
  ASSUME NEW spans \in Seq(Spans)
  PROVE  Links(spans) \in Seq(TraceIds)
<1>. DEFINE g == [i \in DOMAIN spans |-> spans[i].links]
<1>1. PICK X : X = Seq(TraceIds)
  OBVIOUS
<1>2. PICK n \in Nat : n = Len(spans) /\ DOMAIN spans = 1..n
  OBVIOUS
<1>3. \A i \in 1..n : spans[i].links \in X
  BY ONLY <1>1, <1>2, SpanAt, spans \in Seq(Spans)
<1>4. g \in Seq(X)
  BY ONLY <1>2, <1>3
<1>5. FlattenSeq(g) \in Seq(TraceIds)
  <2>1. g \in Seq(Seq(TraceIds))
    BY ONLY <1>1, <1>4
  <2>. HIDE DEF g
  <2>. QED
    BY ONLY <2>1, FlattenType
<1>. QED
  BY ONLY <1>5 DEF Links

(* The links to follow: each of those not seen before, once.               *)
LEMMA ExtractType ==
  ASSUME NEW spans \in Seq(Spans), NEW seen
  PROVE  /\ ExtractLinkedTraceIDs(spans, seen) \in Seq(TraceIds)
         /\ Distinct(ExtractLinkedTraceIDs(spans, seen))
         /\ ToSet(ExtractLinkedTraceIDs(spans, seen)) = ToSet(Links(spans)) \ seen
<1>1. PICK s \in Seq(TraceIds) : s = Links(spans)
  BY LinksType
<1>2. PICK n \in Nat : n = Len(s) /\ DOMAIN s = 1..n
  OBVIOUS
<1>. DEFINE New(i) == s[i] \notin seen /\ \A j \in 1..(i - 1) : s[j] # s[i]
            P == {i \in 1..n : New(i)}
<1>3. ExtractLinkedTraceIDs(spans, seen) = PickedAt(s, P)
  <2>1. ExtractLinkedTraceIDs(spans, seen)
          = FlattenSeq([i \in 1..n |-> IF New(i) THEN <<s[i]>> ELSE << >>])
    BY ONLY <1>1, <1>2, Zenon DEF ExtractLinkedTraceIDs, Picked
  <2>. HIDE DEF New
  <2>2. [i \in 1..n |-> IF New(i) THEN <<s[i]>> ELSE << >>]
          = [i \in 1..Len(s) |-> IF i \in P THEN <<s[i]>> ELSE << >>]
    BY ONLY <1>2
  <2>. QED
    BY ONLY <2>1, <2>2, Zenon DEF PickedAt
<1>4. P \in SUBSET (1..Len(s))
  BY ONLY <1>2
<1>5. \A i, j \in P : s[i] = s[j] => i = j
  <2>1. SUFFICES ASSUME NEW i \in P, NEW j \in P, s[i] = s[j], i < j PROVE FALSE
    BY ONLY n \in Nat
  <2>2. i \in 1..(j - 1)
    BY ONLY <2>1, n \in Nat
  <2>. QED
    BY ONLY <2>1, <2>2
<1>6. {s[i] : i \in P} = {s[i] : i \in 1..n} \ seen
  <2>1. ASSUME NEW k \in 1..n, s[k] \notin seen PROVE \E i \in P : s[i] = s[k]
    <3>. DEFINE S == {i \in 1..n : s[i] = s[k]}
    <3>1. S \in SUBSET Nat /\ S # {}
      BY ONLY n \in Nat, k \in 1..n
    <3>2. PICK i \in S : \A m \in S : i <= m
      <4>. HIDE DEF S
      <4>. QED
        BY ONLY <3>1, LeastMember
    <3>3. ASSUME NEW j \in 1..(i - 1) PROVE s[j] # s[i]
      <4>1. j \in 1..n /\ ~(i <= j)
        BY ONLY n \in Nat, <3>2, <3>3
      <4>. QED
        BY ONLY <3>2, <4>1
    <3>. QED
      BY ONLY <2>1, <3>2, <3>3
  <2>2. ASSUME NEW i \in P PROVE i \in 1..n /\ s[i] \notin seen
    OBVIOUS
  <2>. HIDE DEF P
  <2>. QED
    BY ONLY <2>1, <2>2
<1>7. ToSet(s) = {s[i] : i \in 1..n}
  BY ONLY <1>2 DEF ToSet
<1>8. /\ PickedAt(s, P) \in Seq(TraceIds) /\ ToSet(PickedAt(s, P)) = {s[i] : i \in P}
      /\ Distinct(PickedAt(s, P))
  <2>. HIDE DEF P
  <2>. QED
    BY ONLY <1>4, <1>5, PickedType, s \in Seq(TraceIds)
<1>. HIDE DEF P
<1>. QED
  BY ONLY <1>1, <1>3, <1>6, <1>7, <1>8

(***************************************************************************)
(* A tree (traces_get.go:390-443).                                         *)
(***************************************************************************)
(* An identifier names one span.                                           *)
LEMMA ByIdIs ==
  ASSUME NEW spans, Identified(spans), NEW i \in 1..Len(spans)
  PROVE  ById(spans, spans[i].id) = spans[i]
<1>1. DOMAIN spans = 1..Len(spans)
  BY DEF Identified
<1>. DEFINE Latest(k) == /\ spans[k].id = spans[i].id
                         /\ \A j \in DOMAIN spans : spans[j].id = spans[i].id => j <= k
<1>2. \A k \in DOMAIN spans : Latest(k) <=> k = i
  <2>1. ASSUME NEW k \in DOMAIN spans, Latest(k) PROVE k = i
    BY <1>1, <2>1 DEF Identified
  <2>2. Latest(i)
    <3>1. ASSUME NEW j \in DOMAIN spans, spans[j].id = spans[i].id PROVE j <= i
      <4>1. j = i
        BY <1>1, <3>1 DEF Identified
      <4>. QED
        BY <4>1
    <3>. QED
      BY <3>1
  <2>. HIDE DEF Latest
  <2>. QED
    BY <2>1, <2>2
<1>3. i \in DOMAIN spans
  BY <1>1
<1>4. (CHOOSE k \in DOMAIN spans : Latest(k)) = i
  <2>. HIDE DEF Latest
  <2>. QED
    BY ONLY <1>2, <1>3
<1>. QED
  BY ONLY <1>4, Zenon DEF ById

(* The identifiers.                                                        *)
LEMMA IdSeqType ==
  ASSUME NEW spans \in Seq(Spans)
  PROVE  /\ IdSeq(spans) \in Seq(Nat) /\ Len(IdSeq(spans)) = Len(spans)
         /\ \A i \in 1..Len(spans) : IdSeq(spans)[i] = spans[i].id
         /\ Ids(spans) = {spans[i].id : i \in 1..Len(spans)}
         /\ Ids(spans) \in SUBSET Nat /\ NoParent \notin Ids(spans)
<1>1. PICK n \in Nat : n = Len(spans) /\ DOMAIN spans = 1..n
  OBVIOUS
<1>2. \A i \in 1..n : spans[i].id \in Nat /\ spans[i].id # NoParent
  BY <1>1, SpanAt
<1>. QED
  BY ONLY <1>1, <1>2 DEF IdSeq, Ids

(* The roots: some of the identifiers.                                     *)
LEMMA RootsType ==
  ASSUME NEW spans \in Seq(Spans)
  PROVE  /\ Roots(spans) \in Seq(Nat)
         /\ ToSet(Roots(spans)) =
              {spans[i].id : i \in {j \in 1..Len(spans) : IsRoot(spans, spans[j])}}
<1>1. PICK n \in Nat : n = Len(spans) /\ DOMAIN spans = 1..n
  OBVIOUS
<1>2. PICK s \in Seq(Nat) : /\ s = IdSeq(spans) /\ Len(s) = n /\ DOMAIN s = 1..n
                            /\ \A i \in 1..n : s[i] = spans[i].id
  BY <1>1, IdSeqType
<1>. DEFINE P == {i \in 1..n : IsRoot(spans, spans[i])}
<1>3. Roots(spans) = PickedAt(s, P)
  <2>1. Roots(spans)
          = FlattenSeq([i \in 1..n |-> IF IsRoot(spans, spans[i]) THEN <<s[i]>> ELSE << >>])
    BY ONLY <1>2, Zenon DEF Roots, Picked
  <2>2. [i \in 1..n |-> IF IsRoot(spans, spans[i]) THEN <<s[i]>> ELSE << >>]
          = [i \in 1..Len(s) |-> IF i \in P THEN <<s[i]>> ELSE << >>]
    BY ONLY <1>2
  <2>. QED
    BY ONLY <2>1, <2>2, Zenon DEF PickedAt
<1>4. P \in SUBSET (1..Len(s))
  BY ONLY <1>2
<1>5. PickedAt(s, P) \in Seq(Nat) /\ ToSet(PickedAt(s, P)) = {s[i] : i \in P}
  <2>. HIDE DEF P
  <2>. QED
    BY ONLY <1>4, PickedType, s \in Seq(Nat)
<1>6. {s[i] : i \in P} = {spans[i].id : i \in P}
  BY ONLY <1>2
<1>. QED
  BY ONLY <1>1, <1>3, <1>5, <1>6

(* The children of a span: some of the identifiers.                        *)
LEMMA ChildrenType ==
  ASSUME NEW spans \in Seq(Spans), NEW id
  PROVE  /\ Children(spans, id) \in Seq(Nat)
         /\ ToSet(Children(spans, id)) =
              {spans[i].id : i \in {j \in 1..Len(spans) : spans[j].parent = id}}
         /\ Len(Children(spans, id)) = Cardinality({j \in 1..Len(spans) : spans[j].parent = id})
<1>1. PICK n \in Nat : n = Len(spans) /\ DOMAIN spans = 1..n
  OBVIOUS
<1>2. PICK s \in Seq(Nat) : /\ s = IdSeq(spans) /\ Len(s) = n /\ DOMAIN s = 1..n
                            /\ \A i \in 1..n : s[i] = spans[i].id
  BY <1>1, IdSeqType
<1>. DEFINE P == {i \in 1..n : spans[i].parent = id}
<1>3. Children(spans, id) = PickedAt(s, P)
  <2>1. Children(spans, id)
          = FlattenSeq([i \in 1..n |-> IF spans[i].parent = id THEN <<s[i]>> ELSE << >>])
    BY ONLY <1>2, Zenon DEF Children, Picked
  <2>2. [i \in 1..n |-> IF spans[i].parent = id THEN <<s[i]>> ELSE << >>]
          = [i \in 1..Len(s) |-> IF i \in P THEN <<s[i]>> ELSE << >>]
    BY ONLY <1>2
  <2>. QED
    BY ONLY <2>1, <2>2, Zenon DEF PickedAt
<1>4. P \in SUBSET (1..Len(s))
  BY ONLY <1>2
<1>5. /\ PickedAt(s, P) \in Seq(Nat) /\ ToSet(PickedAt(s, P)) = {s[i] : i \in P}
      /\ Len(PickedAt(s, P)) = Cardinality(P)
  <2>. HIDE DEF P
  <2>. QED
    BY ONLY <1>4, PickedType, s \in Seq(Nat)
<1>6. {s[i] : i \in P} = {spans[i].id : i \in P}
  BY ONLY <1>2
<1>. QED
  BY ONLY <1>1, <1>3, <1>5, <1>6

(* The states of the walk down a tree, and how they follow each other.     *)
WalkStates == [stack : Seq(Nat), visited : Seq(Nat)]
Visits == {w \in WalkStates : w.stack = << >>}
VisitNext(spans) ==
    [w \in WalkStates |->
       IF w.stack = << >> THEN w
       ELSE LET id == Head(w.stack)
            IN IF id \in ToSet(w.visited) THEN [w EXCEPT !.stack = Tail(@)]
               ELSE [stack |-> Children(spans, id) \o Tail(w.stack),
                     visited |-> Append(w.visited, id)]]
VisitResult(spans) == [w \in WalkStates |-> Ordered(spans, w.visited)]
Unparented(spans, visited) == {i \in 1..Len(spans) : spans[i].parent \notin ToSet(visited)}
VisitMeasure(spans) ==
    [w \in WalkStates |-> Len(w.stack) + Cardinality(Unparented(spans, w.visited))]

(* One step that visits a span and one that does not.                      *)
LEMMA VisitStep ==
  ASSUME NEW spans \in Seq(Spans), NEW w \in WalkStates, w.stack # << >>
  PROVE  LET id == Head(w.stack) v == VisitNext(spans)[w] IN
         /\ id \in Nat /\ w.visited \in Seq(Nat)
         /\ w.stack \in Seq(Nat) /\ Tail(w.stack) \in Seq(Nat)
         /\ Len(Tail(w.stack)) = Len(w.stack) - 1 /\ Len(w.stack) \in Nat \ {0}
         /\ v \in WalkStates
         /\ ToSet(w.stack) = {id} \union ToSet(Tail(w.stack))
         /\ id \in ToSet(w.visited) => v = [w EXCEPT !.stack = Tail(@)]
         /\ id \notin ToSet(w.visited) =>
              v = [stack |-> Children(spans, id) \o Tail(w.stack),
                   visited |-> Append(w.visited, id)]
<1>1. PICK st \in Seq(Nat), vi \in Seq(Nat) : st = w.stack /\ vi = w.visited
  BY DEF WalkStates
<1>2. st # << >>
  BY <1>1
<1>3. /\ Len(st) \in Nat \ {0} /\ Head(st) \in Nat
      /\ Tail(st) \in Seq(Nat) /\ Len(Tail(st)) = Len(st) - 1
  BY ONLY <1>2, EmptySeq, st \in Seq(Nat)
<1>4. ToSet(st) = {Head(st)} \union ToSet(Tail(st))
  BY ONLY <1>2, HeadElements, st \in Seq(Nat)
<1>5. Children(spans, Head(st)) \o Tail(st) \in Seq(Nat) /\ Append(vi, Head(st)) \in Seq(Nat)
  <2>1. PICK c \in Seq(Nat) : c = Children(spans, Head(st))
    BY ChildrenType
  <2>. QED
    BY ONLY <1>3, <2>1, vi \in Seq(Nat)
<1>. DEFINE id == Head(st)
<1>6. /\ id \in ToSet(vi) => VisitNext(spans)[w] = [w EXCEPT !.stack = Tail(@)]
      /\ id \notin ToSet(vi) =>
           VisitNext(spans)[w] =
             [stack |-> Children(spans, id) \o Tail(st), visited |-> Append(vi, id)]
  BY <1>1, <1>2, Zenon DEF VisitNext
<1>7. VisitNext(spans)[w] \in WalkStates
  <2>1. [w EXCEPT !.stack = Tail(@)] \in WalkStates
    BY <1>1, <1>3 DEF WalkStates
  <2>2. [stack |-> Children(spans, id) \o Tail(st), visited |-> Append(vi, id)] \in WalkStates
    BY <1>5 DEF WalkStates
  <2>. QED
    BY ONLY <1>6, <2>1, <2>2
<1>. QED
  BY ONLY <1>1, <1>3, <1>4, <1>6, <1>7

(* An identifier appended to those visited.                                *)
LEMMA AppendElements ==
  ASSUME NEW T, NEW s \in Seq(T), NEW e \in T
  PROVE  /\ Append(s, e) \in Seq(T) /\ Len(Append(s, e)) = Len(s) + 1
         /\ \A i \in 1..Len(s) : Append(s, e)[i] = s[i]
         /\ Append(s, e)[Len(s) + 1] = e
         /\ ToSet(Append(s, e)) = ToSet(s) \union {e}
         /\ Distinct(s) /\ e \notin ToSet(s) => Distinct(Append(s, e))
<1>1. PICK n \in Nat, t \in Seq(T) : n = Len(s) /\ t = Append(s, e)
  <2>1. Append(s, e) \in Seq(T) /\ Len(s) \in Nat
    OBVIOUS
  <2>. QED
    BY ONLY <2>1
<1>2. /\ Len(t) = n + 1 /\ \A i \in 1..n : t[i] = s[i]
      /\ t[n + 1] = e /\ DOMAIN s = 1..n /\ DOMAIN t = 1..(n + 1)
  BY <1>1, AppendProperties
<1>3. 1..(n + 1) = 1..n \union {n + 1}
  OBVIOUS
<1>4. ToSet(s) = {s[i] : i \in 1..n} /\ ToSet(t) = {t[i] : i \in 1..(n + 1)}
  BY ONLY <1>2 DEF ToSet
<1>5. ToSet(t) = ToSet(s) \union {e}
  BY ONLY <1>2, <1>3, <1>4
<1>6. ASSUME Distinct(s), e \notin ToSet(s), NEW i \in 1..(n + 1), NEW j \in 1..(n + 1), t[i] = t[j]
      PROVE  i = j
  <2>1. CASE i \in 1..n /\ j \in 1..n
    BY ONLY <1>1, <1>2, <1>6, <2>1 DEF Distinct
  <2>2. CASE i = n + 1 /\ j = n + 1
    BY <2>2
  <2>3. ASSUME i \in 1..n, j = n + 1 PROVE FALSE
    BY ONLY <1>2, <1>4, <1>6, <2>3
  <2>4. ASSUME i = n + 1, j \in 1..n PROVE FALSE
    BY ONLY <1>2, <1>4, <1>6, <2>4
  <2>. QED
    BY ONLY <1>3, <1>6, <2>1, <2>2, <2>3, <2>4
<1>. QED
  BY ONLY <1>1, <1>2, <1>5, <1>6 DEF Distinct

(* Every step leaves less to do.                                           *)
LEMMA VisitFalls ==
  ASSUME NEW spans \in Seq(Spans)
  PROVE  /\ VisitMeasure(spans) \in [WalkStates -> Nat]
         /\ Falls(WalkStates, Visits, VisitNext(spans), VisitMeasure(spans))
<1>1. PICK n \in Nat : n = Len(spans)
  OBVIOUS
<1>2. ASSUME NEW visited PROVE
        IsFiniteSet(Unparented(spans, visited)) /\ Cardinality(Unparented(spans, visited)) \in Nat
  <2>1. IsFiniteSet(1..n)
    BY FS_Interval
  <2>2. Unparented(spans, visited) \subseteq 1..n
    BY <1>1 DEF Unparented
  <2>3. IsFiniteSet(Unparented(spans, visited))
    BY ONLY <2>1, <2>2, FS_Subset
  <2>. QED
    BY ONLY <2>3, FS_CardinalityType
<1>3. ASSUME NEW w \in WalkStates PROVE
        VisitMeasure(spans)[w] = Len(w.stack) + Cardinality(Unparented(spans, w.visited))
        /\ VisitMeasure(spans)[w] \in Nat
  <2>1. VisitMeasure(spans)[w] = Len(w.stack) + Cardinality(Unparented(spans, w.visited))
    BY DEF VisitMeasure
  <2>2. Len(w.stack) \in Nat
    BY DEF WalkStates
  <2>. QED
    BY ONLY <1>2, <2>1, <2>2
<1>4. VisitMeasure(spans) \in [WalkStates -> Nat]
  <2>. DEFINE M(w) == Len(w.stack) + Cardinality(Unparented(spans, w.visited))
  <2>1. VisitMeasure(spans) = [w \in WalkStates |-> M(w)]
    BY DEF VisitMeasure
  <2>2. \A w \in WalkStates : M(w) \in Nat
    BY ONLY <1>3
  <2>. HIDE DEF M
  <2>. QED
    BY ONLY <2>1, <2>2
<1>5. ASSUME NEW w \in WalkStates \ Visits
      PROVE  /\ VisitNext(spans)[w] \in WalkStates
             /\ VisitMeasure(spans)[VisitNext(spans)[w]] < VisitMeasure(spans)[w]
  <2>1. w \in WalkStates /\ w.stack # << >>
    BY DEF Visits
  <2>2. PICK id, v : id = Head(w.stack) /\ v = VisitNext(spans)[w]
    OBVIOUS
  <2>3. /\ id \in Nat /\ w.visited \in Seq(Nat) /\ Tail(w.stack) \in Seq(Nat)
        /\ Len(Tail(w.stack)) = Len(w.stack) - 1 /\ Len(w.stack) \in Nat \ {0} /\ v \in WalkStates
        /\ id \in ToSet(w.visited) => v = [w EXCEPT !.stack = Tail(@)]
        /\ id \notin ToSet(w.visited) =>
             v = [stack |-> Children(spans, id) \o Tail(w.stack), visited |-> Append(w.visited, id)]
    BY ONLY <2>1, <2>2, VisitStep, spans \in Seq(Spans)
  <2>4. CASE id \in ToSet(w.visited)
    <3>1. v.stack = Tail(w.stack) /\ v.visited = w.visited
      BY ONLY <2>1, <2>3, <2>4 DEF WalkStates
    <3>2. PICK c \in Nat : c = Cardinality(Unparented(spans, w.visited))
      BY ONLY <1>2
    <3>3. PICK l \in Nat : l = Len(w.stack)
      BY ONLY <2>3
    <3>4. VisitMeasure(spans)[w] = l + c /\ VisitMeasure(spans)[v] = l - 1 + c
      BY ONLY <1>3, <2>1, <2>3, <3>1, <3>2, <3>3
    <3>5. VisitMeasure(spans)[v] < VisitMeasure(spans)[w]
      BY ONLY <3>4, l \in Nat, c \in Nat
    <3>. QED
      BY ONLY <2>2, <2>3, <3>5
  <2>5. CASE id \notin ToSet(w.visited)
    <3>1. v.stack = Children(spans, id) \o Tail(w.stack) /\ v.visited = Append(w.visited, id)
      BY ONLY <2>3, <2>5
    <3>. DEFINE C == {j \in 1..Len(spans) : spans[j].parent = id}
                U == Unparented(spans, w.visited)
                V == Unparented(spans, v.visited)
    <3>2. /\ Children(spans, id) \in Seq(Nat) /\ Len(Children(spans, id)) = Cardinality(C)
      BY ONLY ChildrenType, spans \in Seq(Spans)
    <3>3. ToSet(v.visited) = ToSet(w.visited) \union {id}
      <4>1. PICK x \in Seq(Nat) : x = w.visited
        BY ONLY <2>3
      <4>2. ToSet(Append(x, id)) = ToSet(x) \union {id}
        <5>1. id \in Nat
          BY ONLY <2>3
        <5>. QED
          BY ONLY <5>1, AppendElements, x \in Seq(Nat)
      <4>. QED
        BY ONLY <3>1, <4>1, <4>2
    <3>4. U = V \union C /\ V \cap C = {}
      BY ONLY <2>5, <3>3 DEF Unparented
    <3>5. IsFiniteSet(V) /\ IsFiniteSet(U) /\ Cardinality(V) \in Nat
      BY ONLY <1>2
    <3>. HIDE DEF C, U, V
    <3>6. IsFiniteSet(C) /\ Cardinality(C) \in Nat
      BY ONLY <3>4, <3>5, FS_Subset, FS_CardinalityType
    <3>7. Cardinality(U) = Cardinality(V) + Cardinality(C)
      <4>1. Cardinality(V \union C) = Cardinality(V) + Cardinality(C) - Cardinality(V \cap C)
        BY ONLY <3>5, <3>6, FS_Union
      <4>2. Cardinality({}) = 0
        BY FS_EmptySet
      <4>. QED
        <5>1. Cardinality(U) = Cardinality(V) + Cardinality(C) - Cardinality(V \cap C)
          BY ONLY <3>4, <4>1
        <5>2. Cardinality(V \cap C) = 0
          BY ONLY <3>4, <4>2
        <5>. QED
          BY ONLY <3>5, <3>6, <5>1, <5>2
    <3>8. PICK a \in Nat, b \in Nat, l \in Nat :
            a = Cardinality(V) /\ b = Cardinality(C) /\ l = Len(w.stack)
      BY ONLY <2>3, <3>5, <3>6
    <3>9. Len(v.stack) = b + (l - 1)
      <4>1. PICK x \in Seq(Nat), y \in Seq(Nat) : x = Children(spans, id) /\ y = Tail(w.stack)
        BY ONLY <2>3, <3>2
      <4>2. v.stack = x \o y /\ Len(x) = b /\ Len(y) = l - 1
        BY ONLY <2>3, <3>1, <3>2, <3>8, <4>1
      <4>3. Len(x \o y) = Len(x) + Len(y)
        BY ONLY x \in Seq(Nat), y \in Seq(Nat)
      <4>. QED
        BY ONLY <4>2, <4>3
    <3>10. VisitMeasure(spans)[w] = l + (a + b) /\ VisitMeasure(spans)[v] = b + (l - 1) + a
      BY ONLY <1>3, <2>1, <2>3, <3>7, <3>8, <3>9 DEF U, V
    <3>11. VisitMeasure(spans)[v] < VisitMeasure(spans)[w]
      BY ONLY <3>10, l \in Nat, a \in Nat, b \in Nat
    <3>. QED
      BY ONLY <2>2, <2>3, <3>11
  <2>. QED
    BY <2>4, <2>5
<1>. QED
  BY ONLY <1>4, <1>5 DEF Falls

(* So the recursion of buildTree ends, in the order of those visited.      *)
LEMMA BuildTreeIs ==
  ASSUME NEW spans \in Seq(Spans)
  PROVE  \E f : /\ Loop(f, WalkStates, Visits, VisitResult(spans), VisitNext(spans))
                /\ BuildTree(spans) = f[[stack |-> Roots(spans), visited |-> << >>]]
<1>. DEFINE E(f, w) == IF w.stack = << >> THEN Ordered(spans, w.visited)
                       ELSE LET id == Head(w.stack) IN
                            IF id \in ToSet(w.visited) THEN f[[w EXCEPT !.stack = Tail(@)]]
                            ELSE f[[stack |-> Children(spans, id) \o Tail(w.stack),
                                    visited |-> Append(w.visited, id)]]
            Solves(f) == f = [w \in WalkStates |-> E(f, w)]
<1>1. BuildTree(spans) = (CHOOSE f : Solves(f))[[stack |-> Roots(spans), visited |-> << >>]]
  BY Zenon DEF BuildTree, WalkStates
<1>2. ASSUME NEW f, NEW w \in WalkStates
      PROVE  E(f, w) = IF w \in Visits THEN VisitResult(spans)[w] ELSE f[VisitNext(spans)[w]]
  <2>1. w \in Visits <=> w.stack = << >>
    BY DEF Visits
  <2>2. VisitResult(spans)[w] = Ordered(spans, w.visited)
    BY DEF VisitResult
  <2>3. VisitNext(spans)[w] = IF w.stack = << >> THEN w
          ELSE IF Head(w.stack) \in ToSet(w.visited) THEN [w EXCEPT !.stack = Tail(@)]
               ELSE [stack |-> Children(spans, Head(w.stack)) \o Tail(w.stack),
                     visited |-> Append(w.visited, Head(w.stack))]
    BY Zenon DEF VisitNext
  <2>4. CASE w.stack = << >>
    BY ONLY <2>1, <2>2, <2>4
  <2>5. CASE w.stack # << >> /\ Head(w.stack) \in ToSet(w.visited)
    BY ONLY <2>1, <2>3, <2>5, Zenon
  <2>6. CASE w.stack # << >> /\ Head(w.stack) \notin ToSet(w.visited)
    BY ONLY <2>1, <2>3, <2>6, Zenon
  <2>. QED
    BY ONLY <2>4, <2>5, <2>6
<1>3. \E f : Solves(f)
  <2>. DEFINE V == {VisitResult(spans)[w] : w \in WalkStates}
  <2>1. VisitResult(spans) \in [WalkStates -> V]
    BY DEF VisitResult
  <2>. HIDE DEF V
  <2>2. PICK f \in [WalkStates -> V] :
          Loop(f, WalkStates, Visits, VisitResult(spans), VisitNext(spans))
    BY ONLY <2>1, VisitFalls, LoopExists, spans \in Seq(Spans)
  <2>. HIDE DEF E
  <2>3. \A w \in WalkStates : f[w] = E(f, w)
    BY ONLY <1>2, <2>2 DEF Loop
  <2>4. f = [w \in WalkStates |-> E(f, w)]
    BY ONLY <2>3, f \in [WalkStates -> V]
  <2>. QED
    BY ONLY <2>4
<1>. HIDE DEF E
<1>4. PICK f : Solves(f) /\ BuildTree(spans) = f[[stack |-> Roots(spans), visited |-> << >>]]
  <2>. HIDE DEF Solves
  <2>. QED
    BY ONLY <1>1, <1>3
<1>5. \A w \in WalkStates : f[w] = E(f, w)
  <2>. DEFINE F(w) == E(f, w)
  <2>1. f = [w \in WalkStates |-> F(w)]
    BY ONLY <1>4
  <2>. HIDE DEF F
  <2>2. \A w \in WalkStates : f[w] = F(w)
    BY ONLY <2>1
  <2>. QED
    BY ONLY <2>2 DEF F
<1>. QED
  BY ONLY <1>2, <1>4, <1>5 DEF Loop

(* What is shown once the spans with the identifiers `visited` were.       *)
LEMMA OrderedType ==
  ASSUME NEW spans, Identified(spans), NEW visited \in Seq(Nat), Distinct(visited),
         ToSet(visited) \subseteq Ids(spans)
  PROVE  /\ Ordered(spans, visited) \in Seq(Spans)
         /\ Distinct(Ordered(spans, visited))
         /\ ToSet(Ordered(spans, visited)) = ToSet(spans)
         /\ Len(Ordered(spans, visited)) >= Len(visited)
         /\ \A p \in 1..Len(visited), i \in 1..Len(spans) :
              spans[i].id = visited[p] => Ordered(spans, visited)[p] = spans[i]
<1>0. spans \in Seq(Spans)
  BY DEF Identified
<1>1. PICK n \in Nat, m \in Nat : /\ n = Len(spans) /\ DOMAIN spans = 1..n
                                  /\ m = Len(visited) /\ DOMAIN visited = 1..m
  BY <1>0
<1>2. /\ ToSet(visited) = {visited[i] : i \in 1..m} /\ ToSet(spans) = {spans[i] : i \in 1..n}
      /\ Ids(spans) = {spans[i].id : i \in 1..n}
  BY ONLY <1>1 DEF ToSet, Ids
<1>3. ASSUME NEW i \in 1..n PROVE ById(spans, spans[i].id) = spans[i]
  BY ONLY <1>1, <1>3, ByIdIs, Identified(spans)
<1>. DEFINE A == [i \in 1..m |-> ById(spans, visited[i])]
            P == {i \in 1..n : spans[i].id \notin ToSet(visited)}
            B == PickedAt(spans, P)
<1>4. ASSUME NEW p \in 1..m PROVE \E i \in 1..n : spans[i].id = visited[p] /\ A[p] = spans[i]
  <2>1. PICK i \in 1..n : spans[i].id = visited[p]
    BY ONLY <1>2, p \in 1..m, ToSet(visited) \subseteq Ids(spans)
  <2>2. A[p] = ById(spans, spans[i].id)
    BY ONLY <2>1, p \in 1..m
  <2>. HIDE DEF A
  <2>. QED
    BY ONLY <1>3, <2>1, <2>2
<1>5. ASSUME NEW p \in 1..m, NEW i \in 1..n, spans[i].id = visited[p] PROVE A[p] = spans[i]
  BY ONLY <1>3, <1>5, p \in 1..m, i \in 1..n
<1>6. Ordered(spans, visited) = A \o B
  <2>1. Ordered(spans, visited)
          = A \o FlattenSeq([i \in 1..n |->
                              IF spans[i].id \notin ToSet(visited) THEN <<spans[i]>>
                              ELSE << >>])
    BY ONLY <1>1, Zenon DEF Ordered, Picked
  <2>2. [i \in 1..n |-> IF spans[i].id \notin ToSet(visited) THEN <<spans[i]>> ELSE << >>]
          = [i \in 1..Len(spans) |-> IF i \in P THEN <<spans[i]>> ELSE << >>]
    BY ONLY <1>1
  <2>. HIDE DEF A
  <2>. QED
    BY ONLY <2>1, <2>2, Zenon DEF PickedAt
<1>7. P \in SUBSET (1..Len(spans)) /\ P \subseteq 1..n
  BY ONLY <1>1
<1>8. ASSUME NEW i \in P, NEW j \in P, spans[i] = spans[j] PROVE i = j
  BY ONLY <1>1, <1>7, <1>8, Identified(spans), i \in P, j \in P DEF Identified
<1>9. B \in Seq(Spans) /\ ToSet(B) = {spans[i] : i \in P} /\ Distinct(B)
  <2>. HIDE DEF P
  <2>. QED
    BY ONLY <1>0, <1>7, <1>8, PickedType
<1>10. A \in Seq(Spans) /\ Len(A) = m
  <2>1. \A p \in 1..m : A[p] \in Spans
    BY ONLY <1>0, <1>1, <1>4
  <2>2. A = [p \in 1..m |-> A[p]]
    BY ONLY m \in Nat
  <2>3. Len(A) = m
    OBVIOUS
  <2>. HIDE DEF A
  <2>. QED
    BY ONLY <2>1, <2>2, <2>3, m \in Nat
<1>11. Distinct(A)
  <2>1. ASSUME NEW p \in 1..m, NEW q \in 1..m, A[p] = A[q] PROVE p = q
    <3>1. A[p].id = visited[p] /\ A[q].id = visited[q]
      <4>. HIDE DEF A
      <4>. QED
        BY ONLY <1>4, p \in 1..m, q \in 1..m
    <3>. HIDE DEF A
    <3>2. visited[p] = visited[q]
      BY ONLY <2>1, <3>1
    <3>. QED
      BY ONLY <1>1, <3>2, p \in 1..m, q \in 1..m, Distinct(visited) DEF Distinct
  <2>. HIDE DEF A
  <2>. QED
    BY ONLY <1>10, <2>1 DEF Distinct
<1>12. ToSet(A) = {A[p] : p \in 1..m}
  <2>1. DOMAIN A = 1..m
    OBVIOUS
  <2>. HIDE DEF A
  <2>. QED
    BY ONLY <2>1 DEF ToSet
<1>. HIDE DEF A, B
<1>13. ToSet(A) \cap ToSet(B) = {}
  <2>1. ASSUME NEW p \in 1..m, NEW i \in P, A[p] = spans[i] PROVE FALSE
    <3>1. A[p].id = visited[p]
      BY ONLY <1>4, p \in 1..m
    <3>. QED
      BY ONLY <1>2, <2>1, <3>1, p \in 1..m, i \in P
  <2>. HIDE DEF P
  <2>. QED
    BY ONLY <1>9, <1>12, <2>1
<1>14. ToSet(A) \union ToSet(B) = ToSet(spans)
  <2>1. ASSUME NEW p \in 1..m PROVE A[p] \in ToSet(spans)
    BY ONLY <1>2, <1>4, p \in 1..m
  <2>2. ASSUME NEW i \in P PROVE spans[i] \in ToSet(spans)
    BY ONLY <1>2, <1>7, i \in P
  <2>3. ASSUME NEW i \in 1..n PROVE spans[i] \in ToSet(A) \union ToSet(B)
    <3>1. CASE i \in P
      BY ONLY <1>9, <3>1
    <3>2. CASE i \notin P
      <4>1. PICK p \in 1..m : visited[p] = spans[i].id
        BY ONLY <1>2, <3>2, i \in 1..n
      <4>. QED
        BY ONLY <1>5, <1>12, <4>1, i \in 1..n
    <3>. QED
      BY ONLY <3>1, <3>2
  <2>. HIDE DEF P
  <2>. QED
    BY ONLY <1>2, <1>9, <1>12, <2>1, <2>2, <2>3
<1>15. /\ A \o B \in Seq(Spans) /\ Len(A \o B) >= m
       /\ \A p \in 1..m : (A \o B)[p] = A[p]
  <2>1. Len(B) \in Nat
    BY <1>9
  <2>. QED
    BY ONLY <1>9, <1>10, <2>1, m \in Nat
<1>16. ToSet(A \o B) = ToSet(spans) /\ Distinct(A \o B)
  <2>1. A \in Seq(Spans) /\ B \in Seq(Spans)
    BY ONLY <1>9, <1>10
  <2>2. /\ ToSet(A \o B) = ToSet(A) \union ToSet(B)
        /\ Distinct(A) /\ Distinct(B) /\ ToSet(A) \cap ToSet(B) = {} => Distinct(A \o B)
    BY ONLY <2>1, ConcatElements
  <2>. QED
    BY ONLY <1>9, <1>11, <1>13, <1>14, <2>2
<1>. QED
  BY ONLY <1>1, <1>5, <1>6, <1>15, <1>16

(* w has visited spans that the roots lead to, each behind its parent, and *)
(* has on its stack whatever they lead to next.                            *)
Leads(spans, w) ==
    LET visited == ToSet(w.visited) stack == ToSet(w.stack) IN
    /\ w \in WalkStates /\ Distinct(w.visited)
    /\ visited \subseteq Ids(spans) /\ stack \subseteq Ids(spans)
    /\ \A i \in 1..Len(spans) :
         IF IsRoot(spans, spans[i]) THEN spans[i].id \in visited \union stack
         ELSE /\ spans[i].parent \in visited => spans[i].id \in visited \union stack
              /\ spans[i].id \in stack => spans[i].parent \in visited
              /\ \A p \in 1..Len(w.visited) :
                   w.visited[p] = spans[i].id =>
                     \E q \in 1..Len(w.visited) : q < p /\ w.visited[q] = spans[i].parent

(* At first it has visited nothing.                                        *)
LEMMA LeadsInit ==
  ASSUME NEW spans, Identified(spans)
  PROVE  Leads(spans, [stack |-> Roots(spans), visited |-> << >>])
<1>0. spans \in Seq(Spans)
  BY DEF Identified
<1>. DEFINE w == [stack |-> Roots(spans), visited |-> << >>]
<1>1. PICK n \in Nat, st \in Seq(Nat) : n = Len(spans) /\ st = Roots(spans)
  BY <1>0, RootsType
<1>2. w.stack = st /\ w.visited = << >> /\ w \in WalkStates
  <2>1. << >> \in Seq(Nat)
    OBVIOUS
  <2>. QED
    BY <1>1, <2>1 DEF WalkStates
<1>3. Distinct(<< >>) /\ ToSet(<< >>) = {} /\ Len(<< >>) = 0
  BY DEF Distinct, ToSet
<1>4. ToSet(st) = {spans[i].id : i \in {j \in 1..n : IsRoot(spans, spans[j])}}
  BY <1>0, <1>1, RootsType
<1>5. Ids(spans) = {spans[i].id : i \in 1..n}
  BY <1>0, <1>1, IdSeqType
<1>6. ASSUME NEW i \in 1..n, ~IsRoot(spans, spans[i]) PROVE spans[i].id \notin ToSet(st)
  <2>1. ASSUME NEW j \in 1..n, IsRoot(spans, spans[j]), spans[j].id = spans[i].id PROVE FALSE
    <3>1. i = j
      BY ONLY <1>1, <2>1, i \in 1..n, j \in 1..n, Identified(spans) DEF Identified
    <3>. QED
      BY ONLY <1>6, <2>1, <3>1
  <2>. QED
    BY ONLY <1>4, <2>1
<1>7. ASSUME NEW i \in 1..n, IsRoot(spans, spans[i]) PROVE spans[i].id \in ToSet(st)
  BY ONLY <1>4, <1>7, i \in 1..n
<1>8. ToSet(st) \subseteq Ids(spans)
  BY ONLY <1>4, <1>5
<1>. HIDE DEF w
<1>9. 1..0 = {}
  OBVIOUS
<1>10. Leads(spans, w)
  BY ONLY <1>1, <1>2, <1>3, <1>6, <1>7, <1>8, <1>9 DEF Leads
<1>. QED
  BY ONLY <1>10 DEF w

(* Every step keeps it.                                                    *)
LEMMA LeadsNext ==
  ASSUME NEW spans, Identified(spans), NEW w, Leads(spans, w), w \notin Visits
  PROVE  Leads(spans, VisitNext(spans)[w])
<1>0. spans \in Seq(Spans) /\ w \in WalkStates /\ w.stack # << >>
  BY DEF Identified, Leads, Visits
<1>1. PICK id, v, rest, vi : /\ id = Head(w.stack) /\ v = VisitNext(spans)[w]
                             /\ rest = Tail(w.stack) /\ vi = w.visited
  OBVIOUS
<1>2. /\ id \in Nat /\ vi \in Seq(Nat) /\ rest \in Seq(Nat) /\ v \in WalkStates
      /\ ToSet(w.stack) = {id} \union ToSet(rest)
      /\ id \in ToSet(vi) => v = [w EXCEPT !.stack = rest]
      /\ id \notin ToSet(vi) =>
           v = [stack |-> Children(spans, id) \o rest, visited |-> Append(vi, id)]
  BY ONLY <1>0, <1>1, VisitStep
<1>3. PICK n \in Nat, m \in Nat : n = Len(spans) /\ m = Len(vi)
  <2>1. spans \in Seq(Spans) /\ vi \in Seq(Nat)
    BY ONLY <1>0, <1>2
  <2>2. Len(spans) \in Nat /\ Len(vi) \in Nat
    BY ONLY <2>1
  <2>. QED
    BY ONLY <2>2
<1>4. /\ Distinct(vi) /\ ToSet(vi) \subseteq Ids(spans)
      /\ {id} \union ToSet(rest) \subseteq Ids(spans)
      /\ \A i \in 1..n :
           IF IsRoot(spans, spans[i])
            THEN spans[i].id \in ToSet(vi) \union ({id} \union ToSet(rest))
           ELSE /\ spans[i].parent \in ToSet(vi) =>
                     spans[i].id \in ToSet(vi) \union ({id} \union ToSet(rest))
                /\ spans[i].id \in {id} \union ToSet(rest) => spans[i].parent \in ToSet(vi)
                /\ \A p \in 1..m :
                     vi[p] = spans[i].id => \E q \in 1..m : q < p /\ vi[q] = spans[i].parent
  BY ONLY <1>1, <1>2, <1>3, Leads(spans, w) DEF Leads
<1>5. CASE id \in ToSet(vi)
  <2>1. v.stack = rest /\ v.visited = vi
    BY ONLY <1>0, <1>1, <1>2, <1>5 DEF WalkStates
  <2>2. ToSet(vi) \union ({id} \union ToSet(rest)) = ToSet(vi) \union ToSet(rest)
    BY ONLY <1>5
  <2>3. Leads(spans, v)
    BY ONLY <1>2, <1>3, <1>4, <2>1, <2>2 DEF Leads
  <2>. QED
    BY ONLY <1>1, <2>3
<1>6. CASE id \notin ToSet(vi)
  <2>1. v.stack = Children(spans, id) \o rest /\ v.visited = Append(vi, id)
    BY ONLY <1>2, <1>6
  <2>2. PICK c \in Seq(Nat) : /\ c = Children(spans, id)
                              /\ ToSet(c) =
                                    {spans[i].id : i \in {j \in 1..n : spans[j].parent = id}}
    BY ONLY <1>0, <1>3, ChildrenType
  <2>3. ToSet(v.stack) = ToSet(c) \union ToSet(rest)
    <3>1. ToSet(c \o rest) = ToSet(c) \union ToSet(rest)
      <4>1. rest \in Seq(Nat)
        BY ONLY <1>2
      <4>. QED
        BY ONLY <4>1, ConcatElements, c \in Seq(Nat)
    <3>. QED
      BY ONLY <2>1, <2>2, <3>1
  <2>4. PICK u \in Seq(Nat) :
          /\ u = v.visited /\ Len(u) = m + 1 /\ u[m + 1] = id /\ (\A i \in 1..m : u[i] = vi[i])
          /\ ToSet(u) = ToSet(vi) \union {id} /\ Distinct(u)
    <3>1. id \in Nat /\ vi \in Seq(Nat)
      BY ONLY <1>2
    <3>2. /\ Append(vi, id) \in Seq(Nat) /\ Len(Append(vi, id)) = Len(vi) + 1
          /\ \A i \in 1..Len(vi) : Append(vi, id)[i] = vi[i]
          /\ Append(vi, id)[Len(vi) + 1] = id
          /\ ToSet(Append(vi, id)) = ToSet(vi) \union {id}
          /\ Distinct(vi) /\ id \notin ToSet(vi) => Distinct(Append(vi, id))
      BY ONLY <3>1, AppendElements
    <3>. QED
      BY ONLY <1>3, <1>4, <1>6, <2>1, <3>2
  <2>5. Ids(spans) = {spans[i].id : i \in 1..n}
    BY ONLY <1>0, <1>3, IdSeqType
  <2>6. ToSet(u) \subseteq Ids(spans) /\ ToSet(v.stack) \subseteq Ids(spans)
    <3>1. ToSet(c) \subseteq Ids(spans)
      BY ONLY <2>2, <2>5
    <3>. QED
      BY ONLY <1>4, <2>3, <2>4, <3>1
  <2>. DEFINE Led(i) ==
         IF IsRoot(spans, spans[i]) THEN spans[i].id \in ToSet(u) \union ToSet(v.stack)
         ELSE /\ spans[i].parent \in ToSet(u) => spans[i].id \in ToSet(u) \union ToSet(v.stack)
              /\ spans[i].id \in ToSet(v.stack) => spans[i].parent \in ToSet(u)
              /\ \A p \in 1..(m + 1) :
                   u[p] = spans[i].id => \E q \in 1..(m + 1) : q < p /\ u[q] = spans[i].parent
  <2>7. ASSUME NEW i \in 1..n PROVE Led(i)
    <3>1. spans[i].parent = id => spans[i].id \in ToSet(c)
      BY ONLY <2>2, i \in 1..n
    <3>2. spans[i].id \in ToSet(c) => spans[i].parent = id
      <4>1. ASSUME NEW j \in 1..n, spans[j].parent = id, spans[j].id = spans[i].id
            PROVE  spans[i].parent = id
        <5>1. j = i
          BY ONLY <1>3, <4>1, i \in 1..n, j \in 1..n, Identified(spans) DEF Identified
        <5>. QED
          BY ONLY <4>1, <5>1
      <4>. QED
        BY ONLY <2>2, <4>1
    <3>3. CASE IsRoot(spans, spans[i])
      <4>1. spans[i].id \in ToSet(vi) \union ({id} \union ToSet(rest))
        BY ONLY <1>4, <3>3, i \in 1..n
      <4>. QED
        BY ONLY <2>3, <2>4, <3>3, <4>1
    <3>4. CASE ~IsRoot(spans, spans[i])
      <4>1. /\ spans[i].parent \in ToSet(vi) =>
                 spans[i].id \in ToSet(vi) \union ({id} \union ToSet(rest))
            /\ spans[i].id \in {id} \union ToSet(rest) => spans[i].parent \in ToSet(vi)
            /\ \A p \in 1..m :
                 vi[p] = spans[i].id => \E q \in 1..m : q < p /\ vi[q] = spans[i].parent
        BY ONLY <1>4, <3>4, i \in 1..n
      <4>2. spans[i].parent \in ToSet(u) => spans[i].id \in ToSet(u) \union ToSet(v.stack)
        BY ONLY <2>3, <2>4, <3>1, <4>1
      <4>3. spans[i].id \in ToSet(v.stack) => spans[i].parent \in ToSet(u)
        BY ONLY <2>3, <2>4, <3>2, <4>1
      <4>4. ASSUME NEW p \in 1..(m + 1), u[p] = spans[i].id
            PROVE  \E q \in 1..(m + 1) : q < p /\ u[q] = spans[i].parent
        <5>1. CASE p \in 1..m
          <6>1. vi[p] = spans[i].id
            BY ONLY <2>4, <4>4, <5>1
          <6>2. PICK q \in 1..m : q < p /\ vi[q] = spans[i].parent
            BY ONLY <4>1, <5>1, <6>1
          <6>3. q \in 1..(m + 1) /\ u[q] = vi[q]
            BY ONLY <2>4, m \in Nat, q \in 1..m
          <6>. QED
            BY ONLY <6>2, <6>3
        <5>2. CASE p = m + 1
          <6>1. spans[i].parent \in ToSet(vi)
            BY ONLY <2>4, <4>1, <4>4, <5>2
          <6>2. PICK q \in 1..m : vi[q] = spans[i].parent
            <7>1. ToSet(vi) = {vi[q] : q \in 1..m}
              <8>1. DOMAIN vi = 1..m
                BY ONLY <1>2, <1>3
              <8>. QED
                BY ONLY <8>1 DEF ToSet
            <7>. QED
              BY ONLY <6>1, <7>1
          <6>3. q \in 1..(m + 1) /\ q < p /\ u[q] = vi[q]
            BY ONLY <2>4, <5>2, m \in Nat, q \in 1..m
          <6>. QED
            BY ONLY <6>2, <6>3
        <5>3. p \in 1..m \/ p = m + 1
          BY ONLY m \in Nat, p \in 1..(m + 1)
        <5>. QED
          BY ONLY <5>1, <5>2, <5>3
      <4>. QED
        BY ONLY <3>4, <4>2, <4>3, <4>4
    <3>. QED
      BY ONLY <3>3, <3>4
  <2>8. Leads(spans, v)
    BY ONLY <1>2, <1>3, <2>4, <2>6, <2>7 DEF Leads
  <2>. QED
    BY ONLY <1>1, <2>8
<1>. QED
  BY ONLY <1>5, <1>6

(* Whatever holds of the roots, and of a child when of its parent, holds   *)
(* of every span that a root leads to.                                     *)
LEMMA RootedLeast ==
  ASSUME NEW spans \in Seq(Spans), NEW R \in SUBSET Nat, ToSet(Roots(spans)) \subseteq R,
         \A s \in ToSet(spans) : s.parent \in R => s.id \in R
  PROVE  Rooted(spans) \subseteq R
<1>1. PICK n \in Nat : n = Len(spans) /\ DOMAIN spans = 1..n
  OBVIOUS
<1>2. /\ Ids(spans) = {spans[i].id : i \in 1..n} /\ Ids(spans) \in SUBSET Nat
      /\ ToSet(spans) = {spans[i] : i \in 1..n}
  BY <1>1, IdSeqType DEF ToSet
<1>. DEFINE D == SUBSET Nat
            more(ids) == {s.id : s \in {t \in ToSet(spans) : t.parent \in ids}}
            E(f, ids) == IF more(ids) \subseteq ids THEN ids ELSE f[ids \union more(ids)]
            Solves(f) == f = [ids \in SUBSET Nat |-> E(f, ids)]
            final == {ids \in D : more(ids) \subseteq ids}
            result == [ids \in D |-> ids]
            step == [ids \in D |-> ids \union more(ids)]
            measure == [ids \in D |-> Cardinality(Ids(spans) \ ids)]
<1>3. Rooted(spans) = (CHOOSE f : Solves(f))[ToSet(Roots(spans))]
  BY Zenon DEF Rooted
<1>4. ASSUME NEW ids PROVE more(ids) \subseteq Ids(spans) /\ more(ids) \subseteq Nat
  <2>1. \A s \in ToSet(spans) : s.id \in Ids(spans)
    BY ONLY <1>2
  <2>. QED
    BY ONLY <1>2, <2>1
<1>5. ASSUME NEW ids PROVE IsFiniteSet(Ids(spans) \ ids) /\ Cardinality(Ids(spans) \ ids) \in Nat
  <2>1. IsFiniteSet(Ids(spans))
    <3>1. IsFiniteSet(1..n)
      BY FS_Interval
    <3>2. IsFiniteSet({spans[i].id : i \in 1..n})
      <4>. DEFINE T == {spans[i].id : i \in 1..n}
                  g == [i \in 1..n |-> spans[i].id]
      <4>1. g \in Surjection(1..n, T)
        BY DEF Surjection
      <4>. HIDE DEF g, T
      <4>2. IsFiniteSet(T)
        BY ONLY <3>1, <4>1, FS_Surjection
      <4>. QED
        BY ONLY <4>2 DEF T
    <3>. QED
      BY ONLY <1>2, <3>2
  <2>2. IsFiniteSet(Ids(spans) \ ids)
    BY ONLY <2>1, FS_Subset
  <2>. QED
    BY ONLY <2>2, FS_CardinalityType
<1>6. measure \in [D -> Nat]
  BY ONLY <1>5
<1>7. Falls(D, final, step, measure)
  <2>1. ASSUME NEW ids \in D \ final PROVE step[ids] \in D /\ measure[step[ids]] < measure[ids]
    <3>. DEFINE S == Ids(spans) \ ids
                T == Ids(spans) \ (ids \union more(ids))
    <3>1. step[ids] = ids \union more(ids) /\ step[ids] \in D
      BY ONLY <1>4, ids \in D
    <3>2. measure[ids] = Cardinality(S) /\ measure[step[ids]] = Cardinality(T)
      BY ONLY <3>1, ids \in D
    <3>3. T \subseteq S /\ T # S
      <4>1. PICK e \in more(ids) : e \notin ids
        BY ONLY ids \in D, ids \notin final
      <4>2. e \in Ids(spans)
        BY ONLY <1>4, e \in more(ids)
      <4>. HIDE DEF more
      <4>. QED
        BY ONLY <4>1, <4>2
    <3>4. IsFiniteSet(S) /\ Cardinality(S) \in Nat /\ Cardinality(T) \in Nat
      BY ONLY <1>5
    <3>. HIDE DEF S, T
    <3>5. Cardinality(T) <= Cardinality(S) /\ (Cardinality(T) = Cardinality(S) => T = S)
      BY ONLY <3>3, <3>4, FS_Subset
    <3>6. Cardinality(T) < Cardinality(S)
      BY ONLY <3>3, <3>4, <3>5
    <3>. QED
      BY ONLY <3>1, <3>2, <3>6
  <2>. HIDE DEF D, final, step, measure
  <2>. QED
    BY ONLY <2>1 DEF Falls
<1>8. ASSUME NEW f, NEW ids \in D
      PROVE  E(f, ids) = IF ids \in final THEN result[ids] ELSE f[step[ids]]
  <2>1. /\ result[ids] = ids /\ step[ids] = ids \union more(ids)
        /\ ids \in final <=> more(ids) \subseteq ids
    <3>. HIDE DEF more
    <3>. QED
      BY ONLY ids \in D
  <2>. HIDE DEF final, result, step, more
  <2>. QED
    BY ONLY <2>1 DEF E
<1>9. \E f : Solves(f)
  <2>1. result \in [D -> D]
    OBVIOUS
  <2>. HIDE DEF final, result, step, measure
  <2>2. PICK f \in [D -> D] : Loop(f, D, final, result, step)
    BY ONLY <1>6, <1>7, <2>1, LoopExists
  <2>. HIDE DEF E
  <2>3. \A ids \in D : f[ids] = E(f, ids)
    BY ONLY <1>8, <2>2 DEF Loop
  <2>4. f = [ids \in D |-> E(f, ids)]
    <3>. HIDE DEF D
    <3>. QED
      BY ONLY <2>3, f \in [D -> D]
  <2>. QED
    BY ONLY <2>4
<1>. HIDE DEF E
<1>10. PICK f : Solves(f) /\ Rooted(spans) = f[ToSet(Roots(spans))]
  <2>. HIDE DEF Solves
  <2>. QED
    BY ONLY <1>3, <1>9
<1>11. \A ids \in D : f[ids] = E(f, ids)
  <2>. DEFINE F(ids) == E(f, ids)
  <2>1. f = [ids \in D |-> F(ids)]
    BY ONLY <1>10
  <2>. HIDE DEF F, D
  <2>2. \A ids \in D : f[ids] = F(ids)
    BY ONLY <2>1
  <2>. QED
    BY ONLY <2>2 DEF F
<1>12. Loop(f, D, final, result, step)
  <2>. HIDE DEF D, final, result, step
  <2>. QED
    BY ONLY <1>8, <1>11 DEF Loop
<1>13. SUBSET R \in SUBSET D
  OBVIOUS
<1>14. ASSUME NEW ids \in SUBSET R PROVE step[ids] \in SUBSET R
  <2>1. more(ids) \subseteq R
    OBVIOUS
  <2>. HIDE DEF more
  <2>2. step[ids] = ids \union more(ids)
    BY ONLY ids \in SUBSET R, R \in SUBSET Nat
  <2>. HIDE DEF step
  <2>. QED
    BY ONLY <2>1, <2>2, ids \in SUBSET R
<1>. DEFINE I == SUBSET R
<1>15. \E y \in I \cap final : f[ToSet(Roots(spans))] = result[y]
  <2>1. \A x \in I \ final : step[x] \in I
    BY ONLY <1>14
  <2>2. ToSet(Roots(spans)) \in I /\ I \in SUBSET D
    BY ONLY <1>13, ToSet(Roots(spans)) \subseteq R
  <2>. HIDE DEF D, I, final, result, step, measure
  <2>3. \A x \in I : \E y \in I \cap final : f[x] = result[y]
    BY ONLY <1>6, <1>7, <1>12, <2>1, <2>2, LoopKeeps
  <2>. QED
    BY ONLY <2>2, <2>3
<1>16. ASSUME NEW y \in I PROVE result[y] = y
  BY ONLY y \in I, R \in SUBSET Nat
<1>. HIDE DEF final, result
<1>. QED
  BY ONLY <1>10, <1>15, <1>16

(* buildTree shows every span once, and what a root leads to behind its    *)
(* parent.                                                                 *)
LEMMA TreeExact ==
  ASSUME NEW spans, Identified(spans)
  PROVE  /\ BuildTree(spans) \in Seq(Spans) /\ Distinct(BuildTree(spans))
         /\ ToSet(BuildTree(spans)) = ToSet(spans)
         /\ \A s \in ToSet(spans), t \in ToSet(spans) :
              s.id \in Rooted(spans) /\ t.parent = s.id =>
                \E p, q \in 1..Len(BuildTree(spans)) :
                  p < q /\ BuildTree(spans)[p] = s /\ BuildTree(spans)[q] = t
<1>0. spans \in Seq(Spans)
  BY DEF Identified
<1>1. PICK n \in Nat : n = Len(spans) /\ DOMAIN spans = 1..n
  BY ONLY <1>0
<1>2. PICK f : /\ Loop(f, WalkStates, Visits, VisitResult(spans), VisitNext(spans))
               /\ BuildTree(spans) = f[[stack |-> Roots(spans), visited |-> << >>]]
  BY ONLY <1>0, BuildTreeIs
<1>. DEFINE I == {w \in WalkStates : Leads(spans, w)}
            start == [stack |-> Roots(spans), visited |-> << >>]
<1>3. start \in I
  <2>1. Leads(spans, start)
    BY ONLY LeadsInit, Identified(spans)
  <2>. HIDE DEF start
  <2>. QED
    BY ONLY <2>1 DEF Leads
<1>4. ASSUME NEW w \in I \ Visits PROVE VisitNext(spans)[w] \in I
  <2>1. Leads(spans, VisitNext(spans)[w])
    BY ONLY LeadsNext, Identified(spans), w \in I \ Visits
  <2>. QED
    BY ONLY <2>1 DEF Leads
<1>5. PICK w \in I \cap Visits : f[start] = VisitResult(spans)[w]
  <2>1. I \in SUBSET WalkStates
    OBVIOUS
  <2>2. /\ VisitMeasure(spans) \in [WalkStates -> Nat]
        /\ Falls(WalkStates, Visits, VisitNext(spans), VisitMeasure(spans))
    BY ONLY <1>0, VisitFalls
  <2>. HIDE DEF I, start
  <2>3. \A x \in I : \E y \in I \cap Visits : f[x] = VisitResult(spans)[y]
    BY ONLY <1>2, <1>4, <2>1, <2>2, LoopKeeps
  <2>. QED
    BY ONLY <1>3, <2>3
<1>6. PICK vi \in Seq(Nat) : w.visited = vi /\ BuildTree(spans) = Ordered(spans, vi)
  <2>1. w \in WalkStates /\ w.visited \in Seq(Nat)
    BY ONLY w \in I \cap Visits DEF WalkStates
  <2>2. VisitResult(spans)[w] = Ordered(spans, w.visited)
    BY ONLY <2>1 DEF VisitResult
  <2>3. BuildTree(spans) = f[start]
    BY ONLY <1>2
  <2>. HIDE DEF I, start
  <2>. QED
    BY ONLY <1>5, <2>1, <2>2, <2>3
<1>7. PICK m \in Nat : m = Len(vi) /\ DOMAIN vi = 1..m
  BY ONLY vi \in Seq(Nat)
<1>8. /\ Distinct(vi) /\ ToSet(vi) \subseteq Ids(spans)
      /\ \A i \in 1..n :
           IF IsRoot(spans, spans[i]) THEN spans[i].id \in ToSet(vi)
           ELSE /\ spans[i].parent \in ToSet(vi) => spans[i].id \in ToSet(vi)
                /\ \A p \in 1..m :
                     vi[p] = spans[i].id => \E q \in 1..m : q < p /\ vi[q] = spans[i].parent
  <2>1. w.stack = << >> /\ Leads(spans, w)
    BY ONLY w \in I \cap Visits DEF Visits
  <2>2. ToSet(w.stack) = {}
    BY ONLY <2>1 DEF ToSet
  <2>. QED
    BY ONLY <1>1, <1>6, <1>7, <2>1, <2>2 DEF Leads
<1>9. PICK x : /\ x = BuildTree(spans) /\ x \in Seq(Spans) /\ Distinct(x) /\ ToSet(x) = ToSet(spans)
               /\ Len(x) >= m /\ Len(x) \in Nat
               /\ \A p \in 1..m, i \in 1..n : spans[i].id = vi[p] => x[p] = spans[i]
  <2>1. /\ Ordered(spans, vi) \in Seq(Spans)
        /\ Distinct(Ordered(spans, vi))
        /\ ToSet(Ordered(spans, vi)) = ToSet(spans)
        /\ Len(Ordered(spans, vi)) >= m
        /\ \A p \in 1..m, i \in 1..n :
             spans[i].id = vi[p] => Ordered(spans, vi)[p] = spans[i]
    BY ONLY <1>1, <1>7, <1>8, OrderedType, Identified(spans), vi \in Seq(Nat)
  <2>2. Len(Ordered(spans, vi)) \in Nat
    BY ONLY <2>1
  <2>. QED
    BY ONLY <1>6, <2>1, <2>2
<1>10. ToSet(spans) = {spans[i] : i \in 1..n} /\ ToSet(vi) = {vi[p] : p \in 1..m}
  BY ONLY <1>1, <1>7 DEF ToSet
<1>11. /\ Ids(spans) = {spans[i].id : i \in 1..n}
       /\ NoParent \notin Ids(spans) /\ Ids(spans) \in SUBSET Nat
  BY ONLY <1>0, <1>1, IdSeqType
<1>12. Rooted(spans) \subseteq ToSet(vi)
  <2>1. ToSet(Roots(spans)) \subseteq ToSet(vi)
    <3>1. ToSet(Roots(spans)) = {spans[i].id : i \in {j \in 1..n : IsRoot(spans, spans[j])}}
      BY ONLY <1>0, <1>1, RootsType
    <3>2. ASSUME NEW i \in {j \in 1..n : IsRoot(spans, spans[j])} PROVE spans[i].id \in ToSet(vi)
      BY ONLY <1>8, i \in {j \in 1..n : IsRoot(spans, spans[j])}
    <3>. QED
      BY ONLY <3>1, <3>2
  <2>2. \A s \in ToSet(spans) : s.parent \in ToSet(vi) => s.id \in ToSet(vi)
    BY ONLY <1>8, <1>10
  <2>3. ToSet(vi) \in SUBSET Nat
    BY ONLY <1>8, <1>11
  <2>. QED
    BY ONLY <1>0, <2>1, <2>2, <2>3, RootedLeast
<1>13. ASSUME NEW s \in ToSet(spans), NEW t \in ToSet(spans), s.id \in Rooted(spans),
              t.parent = s.id
       PROVE  \E p, q \in 1..Len(x) : p < q /\ x[p] = s /\ x[q] = t
  <2>1. PICK i \in 1..n, j \in 1..n : s = spans[i] /\ t = spans[j]
    BY ONLY <1>10, <1>13
  <2>2. s.id \in ToSet(vi) /\ s.id \in Ids(spans) /\ s.id # NoParent
    BY ONLY <1>11, <1>12, <1>13, <2>1
  <2>3. ~IsRoot(spans, spans[j])
    BY ONLY <1>13, <2>1, <2>2 DEF IsRoot
  <2>4. t.id \in ToSet(vi)
    BY ONLY <1>8, <1>13, <2>1, <2>2, <2>3
  <2>5. PICK q \in 1..m : vi[q] = t.id
    BY ONLY <1>10, <2>4
  <2>6. PICK p \in 1..m : p < q /\ vi[p] = t.parent
    BY ONLY <1>8, <2>1, <2>3, <2>5
  <2>7. x[p] = s /\ x[q] = t
    BY ONLY <1>9, <1>13, <2>1, <2>5, <2>6
  <2>8. p \in 1..Len(x) /\ q \in 1..Len(x)
    BY ONLY <1>9, m \in Nat, p \in 1..m, q \in 1..m
  <2>. QED
    BY ONLY <2>6, <2>7, <2>8
<1>. QED
  BY ONLY <1>9, <1>13

(***************************************************************************)
(* The traces fetched.                                                     *)
(***************************************************************************)
Results == [trace : TraceIds, spans : Seq(Spans)]

Traces(r) == {r[i].trace : i \in 1..Len(r)}

(* w has fetched the trace asked for and traces that those before link to, *)
(* and lines up others that those link to.                                 *)
Follows(w) ==
    LET r == w.results IN
    /\ r \in Seq(Results) /\ Len(r) \in 1..MaxTraces /\ r[1].trace = RootTrace
    /\ w.queue \in Seq(TraceIds)
    /\ \A i \in 1..Len(r) : Identified(r[i].spans)
    /\ \A i \in 1..Len(r) : i = 1 \/ \E j \in 1..Len(r) : j < i /\ r[i].trace \in Linked(r[j])
    /\ \A t \in ToSet(w.queue) : \E j \in 1..Len(r) : t \in Linked(r[j])

(* It has seen the links of what it has fetched, if they are followed, and *)
(* whatever it has seen is fetched or lined up.                            *)
Remembers(w, follow) ==
    LET r == w.results IN
    /\ follow => \A i \in 1..Len(r) : Linked(r[i]) \subseteq w.seen
    /\ w.seen \subseteq Traces(r) \union ToSet(w.queue)

(* No trace is fetched or lined up twice.                                  *)
Once(w) ==
    LET r == w.results IN
    /\ \A i, j \in 1..Len(r) : r[i].trace = r[j].trace => i = j
    /\ Distinct(w.queue) /\ Traces(r) \cap ToSet(w.queue) = {}
    /\ Traces(r) \union ToSet(w.queue) \subseteq w.seen

(* What Append does, by place.                                             *)
LEMMA AppendAt ==
  ASSUME NEW T, NEW s \in Seq(T), NEW e \in T
  PROVE  /\ Append(s, e) \in Seq(T) /\ Len(s) \in Nat /\ Len(Append(s, e)) = Len(s) + 1
         /\ \A i \in 1..Len(s) : Append(s, e)[i] = s[i]
         /\ Append(s, e)[Len(s) + 1] = e
  BY AppendElements

(* What the first fetch leaves.                                            *)
LEMMA WalkStarts ==
  ASSUME NEW spans, Identified(spans), NEW seen \in SUBSET {RootTrace}, NEW follow \in BOOLEAN,
         NEW links, links = IF follow THEN ExtractLinkedTraceIDs(spans, seen) ELSE << >>,
         NEW w, w = [results |-> <<Result(RootTrace, spans)>>, queue |-> links,
                     seen |-> seen \union ToSet(links)]
  PROVE  Follows(w) /\ Remembers(w, follow) /\ (seen = {RootTrace} => Once(w))
<1>0. spans \in Seq(Spans) /\ RootTrace \in TraceIds /\ 1 \in 1..MaxTraces
  BY TracesAssumption DEF Identified
<1>. DEFINE e == Result(RootTrace, spans)
            L == ToSet(Links(spans))
<1>1. e \in Results /\ e.trace = RootTrace /\ e.spans = spans /\ Linked(e) = L
  BY <1>0 DEF Result, Results, Linked
<1>2. PICK r \in Seq(Results) : r = <<e>> /\ r = w.results /\ Len(r) = 1 /\ r[1] = e
  <2>1. w.results = <<e>>
    BY DEF e
  <2>. QED
    <3>1. <<e>> \in Seq(Results) /\ Len(<<e>>) = 1 /\ <<e>>[1] = e
      <4>1. e \in Results
        BY ONLY <1>1
      <4>. HIDE DEF e
      <4>. QED
        BY ONLY <4>1
    <3>. QED
      BY ONLY <2>1, <3>1
<1>3. /\ ExtractLinkedTraceIDs(spans, seen) \in Seq(TraceIds)
      /\ Distinct(ExtractLinkedTraceIDs(spans, seen))
      /\ ToSet(ExtractLinkedTraceIDs(spans, seen)) = L \ seen
  BY <1>0, ExtractType
<1>4. << >> \in Seq(TraceIds) /\ Distinct(<< >>) /\ ToSet(<< >>) = {}
  BY DEF Distinct, ToSet
<1>5. /\ links \in Seq(TraceIds) /\ Distinct(links) /\ ToSet(links) \subseteq L \ seen
      /\ follow => ToSet(links) = L \ seen
  BY ONLY <1>3, <1>4, links = IF follow THEN ExtractLinkedTraceIDs(spans, seen) ELSE << >>
<1>. HIDE DEF e, L
<1>6. w.queue = links /\ w.seen = seen \union ToSet(links)
  OBVIOUS
<1>7. Traces(r) = {RootTrace}
  <2>1. 1..1 = {1}
    OBVIOUS
  <2>. QED
    BY ONLY <1>1, <1>2, <2>1 DEF Traces
<1>8. \A i \in 1..Len(r) : i = 1
  BY ONLY <1>2
<1>9. Follows(w)
  <2>1. ASSUME NEW t \in ToSet(links) PROVE t \in Linked(r[1])
    BY ONLY <1>1, <1>2, <1>5, t \in ToSet(links)
  <2>2. /\ 1 \in 1..Len(r) /\ Len(r) \in 1..MaxTraces
        /\ r[1].trace = RootTrace /\ Identified(r[1].spans)
    BY ONLY <1>0, <1>1, <1>2, Identified(spans)
  <2>. QED
    BY ONLY <1>2, <1>5, <1>6, <1>8, <2>1, <2>2, r \in Seq(Results) DEF Follows
<1>10. Remembers(w, follow)
  BY ONLY <1>1, <1>2, <1>5, <1>6, <1>7, <1>8, seen \in SUBSET {RootTrace} DEF Remembers
<1>11. ASSUME seen = {RootTrace} PROVE Once(w)
  BY ONLY <1>2, <1>5, <1>6, <1>7, <1>8, <1>11 DEF Once
<1>. QED
  BY ONLY <1>9, <1>10, <1>11

(* What the fetch of the first in line leaves.                             *)
LEMMA WalkExtends ==
  ASSUME NEW w, Follows(w), w.queue # << >>, Len(w.results) < MaxTraces,
         NEW spans, Identified(spans),
         NEW links, links = ExtractLinkedTraceIDs(spans, w.seen),
         NEW v, v = [results |-> Append(w.results, Result(Head(w.queue), spans)),
                     queue |-> Tail(w.queue) \o links, seen |-> w.seen \union ToSet(links)],
         NEW follow \in BOOLEAN, Remembers(w, follow)
  PROVE  Follows(v) /\ Remembers(v, follow) /\ (Once(w) => Once(v))
<1>0. spans \in Seq(Spans)
  BY DEF Identified
<1>1. PICK seen : seen = w.seen
  OBVIOUS
<1>20. PICK r \in Seq(Results), q \in Seq(TraceIds) : r = w.results /\ q = w.queue /\ q # << >>
  BY DEF Follows
<1>2. PICK n \in Nat : n = Len(r) /\ n < MaxTraces /\ n \in 1..MaxTraces
  BY <1>1, <1>20 DEF Follows
<1>3. PICK trace \in TraceIds, rest \in Seq(TraceIds) :
        /\ trace = Head(q) /\ rest = Tail(q) /\ ToSet(q) = {trace} \union ToSet(rest)
        /\ Distinct(q) => Distinct(rest) /\ trace \notin ToSet(rest)
  BY ONLY <1>1, <1>20, HeadElements, q \in Seq(TraceIds)
<1>. DEFINE e == Result(trace, spans)
            L == ToSet(Links(spans))
<1>4. e \in Results /\ e.trace = trace /\ e.spans = spans /\ Linked(e) = L
  BY <1>0 DEF Result, Results, Linked
<1>5. links \in Seq(TraceIds) /\ Distinct(links) /\ ToSet(links) = L \ seen
  BY ONLY <1>0, <1>1, <1>20, ExtractType, links = ExtractLinkedTraceIDs(spans, w.seen)
<1>. HIDE DEF e, L
<1>6. PICK s : /\ s = v.results /\ s \in Seq(Results) /\ Len(s) = n + 1
               /\ (\A i \in 1..n : s[i] = r[i]) /\ s[n + 1] = e
  <2>1. v.results = Append(r, e)
    BY <1>1, <1>20, <1>3 DEF e
  <2>. QED
    BY ONLY <1>2, <1>4, <2>1, AppendAt, r \in Seq(Results)
<1>7. PICK p : /\ p = v.queue /\ p \in Seq(TraceIds) /\ ToSet(p) = ToSet(rest) \union ToSet(links)
               /\ Distinct(rest) /\ ToSet(rest) \cap ToSet(links) = {} => Distinct(p)
  <2>1. v.queue = rest \o links
    BY <1>1, <1>20, <1>3
  <2>2. links \in Seq(TraceIds)
    BY ONLY <1>5
  <2>3. rest \o links \in Seq(TraceIds)
    BY ONLY <2>2, rest \in Seq(TraceIds)
  <2>4. /\ ToSet(rest \o links) = ToSet(rest) \union ToSet(links)
        /\ (Distinct(rest) /\ Distinct(links) /\ ToSet(rest) \cap ToSet(links) = {}
              => Distinct(rest \o links))
    BY ONLY <2>2, ConcatElements, rest \in Seq(TraceIds)
  <2>. QED
    BY ONLY <1>5, <2>1, <2>3, <2>4
<1>8. v.seen = seen \union ToSet(links)
  BY <1>1
<1>9. 1..(n + 1) = 1..n \union {n + 1} /\ n + 1 \in 1..MaxTraces
  BY ONLY <1>2, n \in Nat, TracesAssumption
<1>10. Traces(s) = Traces(r) \union {trace}
  <2>1. Traces(s) = {s[i].trace : i \in 1..n \union {n + 1}}
    BY ONLY <1>6, <1>9 DEF Traces
  <2>2. \A i \in 1..n : s[i].trace = r[i].trace
    BY ONLY <1>6
  <2>3. s[n + 1].trace = trace
    BY ONLY <1>4, <1>6
  <2>4. Traces(r) = {r[i].trace : i \in 1..n}
    BY ONLY <1>2 DEF Traces
  <2>. QED
    BY ONLY <2>1, <2>2, <2>3, <2>4
<1>11. /\ r[1].trace = RootTrace
       /\ \A i \in 1..n : Identified(r[i].spans)
       /\ \A i \in 1..n : i = 1 \/ \E j \in 1..n : j < i /\ r[i].trace \in Linked(r[j])
       /\ \A t \in {trace} \union ToSet(rest) : \E j \in 1..n : t \in Linked(r[j])
  BY ONLY <1>1, <1>20, <1>2, <1>3, Follows(w) DEF Follows
<1>12. Follows(v)
  <2>1. s[1].trace = RootTrace
    <3>1. 1 \in 1..n
      BY ONLY <1>2
    <3>. QED
      BY ONLY <1>6, <1>11, <3>1
  <2>2. ASSUME NEW i \in 1..(n + 1) PROVE Identified(s[i].spans)
    BY ONLY <1>4, <1>6, <1>9, <1>11, Identified(spans), i \in 1..(n + 1)
  <2>3. ASSUME NEW i \in 1..(n + 1)
        PROVE  i = 1 \/ \E j \in 1..(n + 1) : j < i /\ s[i].trace \in Linked(s[j])
    <3>1. CASE i \in 1..n
      <4>1. i = 1 \/ \E j \in 1..n : j < i /\ s[i].trace \in Linked(s[j])
        BY ONLY <1>6, <1>11, <3>1
      <4>. QED
        BY ONLY <1>9, <4>1
    <3>2. CASE i = n + 1
      <4>1. PICK j \in 1..n : trace \in Linked(r[j])
        BY ONLY <1>11
      <4>2. j < i /\ j \in 1..(n + 1) /\ s[i].trace = trace /\ s[j] = r[j]
        BY ONLY <1>4, <1>6, <3>2, n \in Nat, j \in 1..n
      <4>. QED
        BY ONLY <4>1, <4>2
    <3>. QED
      BY ONLY <1>9, <3>1, <3>2, i \in 1..(n + 1)
  <2>4. ASSUME NEW t \in ToSet(p) PROVE \E j \in 1..(n + 1) : t \in Linked(s[j])
    <3>1. CASE t \in ToSet(rest)
      <4>1. PICK j \in 1..n : t \in Linked(r[j])
        BY ONLY <1>11, <3>1
      <4>. QED
        BY ONLY <1>6, <1>9, <4>1, j \in 1..n
    <3>2. CASE t \in ToSet(links)
      BY ONLY <1>4, <1>5, <1>6, <1>9, <3>2
    <3>. QED
      BY ONLY <1>7, <3>1, <3>2, t \in ToSet(p)
  <2>. QED
    BY ONLY <1>6, <1>7, <1>9, <2>1, <2>2, <2>3, <2>4 DEF Follows
<1>13. Remembers(v, follow)
  <2>1. /\ follow => \A i \in 1..n : Linked(r[i]) \subseteq seen
        /\ seen \subseteq Traces(r) \union ({trace} \union ToSet(rest))
    BY ONLY <1>1, <1>20, <1>2, <1>3, Remembers(w, follow) DEF Remembers
  <2>2. ASSUME follow, NEW i \in 1..(n + 1) PROVE Linked(s[i]) \subseteq v.seen
    BY ONLY <1>4, <1>5, <1>6, <1>8, <1>9, <2>1, <2>2
  <2>3. v.seen \subseteq Traces(s) \union ToSet(p)
    BY ONLY <1>7, <1>8, <1>10, <2>1
  <2>. QED
    BY ONLY <1>6, <1>7, <2>2, <2>3 DEF Remembers
<1>14. ASSUME Once(w) PROVE Once(v)
  <2>1. /\ \A i, j \in 1..n : r[i].trace = r[j].trace => i = j
        /\ Distinct(rest) /\ trace \notin ToSet(rest)
        /\ Traces(r) \cap ({trace} \union ToSet(rest)) = {}
        /\ Traces(r) \union ({trace} \union ToSet(rest)) \subseteq seen
    BY ONLY <1>1, <1>20, <1>2, <1>3, <1>14 DEF Once
  <2>2. \A i \in 1..n : r[i].trace # trace
    BY ONLY <1>2, <2>1 DEF Traces
  <2>3. ASSUME NEW i \in 1..(n + 1), NEW j \in 1..(n + 1), s[i].trace = s[j].trace PROVE i = j
    BY ONLY <1>4, <1>6, <1>9, <2>1, <2>2, <2>3, i \in 1..(n + 1), j \in 1..(n + 1)
  <2>4. ToSet(rest) \cap ToSet(links) = {} /\ (Traces(r) \union {trace}) \cap ToSet(links) = {}
    BY ONLY <1>5, <2>1
  <2>5. Traces(s) \cap ToSet(p) = {} /\ Traces(s) \union ToSet(p) \subseteq v.seen
    BY ONLY <1>7, <1>8, <1>10, <2>1, <2>4
  <2>. QED
    BY ONLY <1>6, <1>7, <2>1, <2>3, <2>4, <2>5 DEF Once
<1>. QED
  BY ONLY <1>12, <1>13, <1>14

(***************************************************************************)
(* The walk of a process, by what it has left to do.                       *)
(***************************************************************************)
(* Nine checks, then the trace asked for, those it links to, the output.   *)
LEMMA TraceProgram ==
    LET p == MainSteps \o TraceGetSteps IN
      /\ p \in Seq(Places) /\ Len(p) = 12
      /\ \A i \in 1..9 : p[i] \in Checks \union {"client"}
      /\ p[10] = "root" /\ p[11] = "follow" /\ p[12] = "show"
<1>1. MainSteps \in Seq(Places) /\ TraceGetSteps \in Seq(Places)
  <2>1. Local(TraceGetSteps)
    BY LocalOthers
  <2>. QED
    BY <2>1, LocalMain DEF Local, Places
<1>2. QuerySteps \in Seq(Places)
  BY DEF QuerySteps, Places, LocalPlaces, CommandPlaces, Checks
<1>3. /\ Len(TraceGetSteps) = 9
      /\ TraceGetSteps[1] = "skipHeader" /\ TraceGetSteps[2] = "columnFormat"
      /\ TraceGetSteps[3] = "format" /\ TraceGetSteps[4] = "columns" /\ TraceGetSteps[5] = "traceId"
      /\ TraceGetSteps[6] = "client"
      /\ TraceGetSteps[7] = "root" /\ TraceGetSteps[8] = "follow" /\ TraceGetSteps[9] = "show"
  BY <1>2 DEF TraceGetSteps, QuerySteps
<1>4. /\ Len(MainSteps) = 3
      /\ MainSteps[1] = "color" /\ MainSteps[2] = "profile" /\ MainSteps[3] = "retries"
  BY DEF MainSteps
<1>. DEFINE p == MainSteps \o TraceGetSteps
<1>5. /\ p \in Seq(Places) /\ Len(p) = 12
      /\ p[1] = "color" /\ p[2] = "profile" /\ p[3] = "retries" /\ p[4] = "skipHeader"
      /\ p[5] = "columnFormat" /\ p[6] = "format" /\ p[7] = "columns" /\ p[8] = "traceId"
      /\ p[9] = "client" /\ p[10] = "root" /\ p[11] = "follow" /\ p[12] = "show"
  <2>1. PICK a \in Seq(Places), b \in Seq(Places) : a = MainSteps /\ b = TraceGetSteps
    BY ONLY <1>1
  <2>2. /\ a \o b \in Seq(Places) /\ Len(a \o b) = 12
        /\ (a \o b)[1] = a[1] /\ (a \o b)[2] = a[2] /\ (a \o b)[3] = a[3] /\ (a \o b)[4] = b[1]
        /\ (a \o b)[5] = b[2] /\ (a \o b)[6] = b[3] /\ (a \o b)[7] = b[4] /\ (a \o b)[8] = b[5]
        /\ (a \o b)[9] = b[6] /\ (a \o b)[10] = b[7] /\ (a \o b)[11] = b[8] /\ (a \o b)[12] = b[9]
    <3>1. Len(a) = 3 /\ Len(b) = 9
      BY ONLY <1>3, <1>4, <2>1
    <3>2. PICK c : c = a \o b
      OBVIOUS
    <3>3. /\ c \in Seq(Places) /\ Len(c) = 12
          /\ \A i \in 1..3 : c[i] = a[i]
          /\ \A i \in 1..9 : c[3 + i] = b[i]
      <4>1. /\ a \o b \in Seq(Places) /\ Len(a \o b) = Len(a) + Len(b)
            /\ \A i \in 1..(Len(a) + Len(b)) :
                 (a \o b)[i] = IF i <= Len(a) THEN a[i] ELSE b[i - Len(a)]
        BY ONLY ConcatProperties, a \in Seq(Places), b \in Seq(Places)
      <4>2. /\ c \in Seq(Places) /\ Len(c) = 3 + 9
            /\ \A i \in 1..(3 + 9) : c[i] = IF i <= 3 THEN a[i] ELSE b[i - 3]
        BY ONLY <3>1, <3>2, <4>1, Zenon
      <4>3. ASSUME NEW i \in 1..3 PROVE c[i] = a[i]
        <5>1. i \in 1..(3 + 9) /\ i <= 3
          OBVIOUS
        <5>. QED
          BY ONLY <4>2, <5>1
      <4>4. ASSUME NEW i \in 1..9 PROVE c[3 + i] = b[i]
        <5>1. 3 + i \in 1..(3 + 9) /\ ~(3 + i <= 3) /\ 3 + i - 3 = i
          OBVIOUS
        <5>. QED
          <6>. DEFINE j == 3 + i
          <6>1. c[j] = b[j - 3]
            BY ONLY <4>2, <5>1, Zenon
          <6>2. j - 3 = i
            BY ONLY <5>1
          <6>3. c[j] = b[i]
            BY ONLY <6>1, <6>2, Zenon
          <6>. QED
            BY ONLY <6>3
      <4>. QED
        <5>1. 3 + 9 = 12
          OBVIOUS
        <5>. QED
          BY ONLY <4>2, <4>3, <4>4, <5>1
    <3>4. \A i \in {1, 2, 3} : i \in 1..3
      OBVIOUS
    <3>5. \A i \in {1, 2, 3, 4, 5, 6, 7, 8, 9} : i \in 1..9
      OBVIOUS
    <3>6. c[1] = a[1] /\ c[2] = a[2] /\ c[3] = a[3]
      BY ONLY <3>3, <3>4
    <3>7. /\ c[3 + 1] = b[1] /\ c[3 + 2] = b[2] /\ c[3 + 3] = b[3]
          /\ c[3 + 4] = b[4] /\ c[3 + 5] = b[5]
          /\ c[3 + 6] = b[6] /\ c[3 + 7] = b[7] /\ c[3 + 8] = b[8] /\ c[3 + 9] = b[9]
      BY ONLY <3>3, <3>5
    <3>8. /\ 3 + 1 = 4 /\ 3 + 2 = 5 /\ 3 + 3 = 6 /\ 3 + 4 = 7 /\ 3 + 5 = 8
          /\ 3 + 6 = 9 /\ 3 + 7 = 10 /\ 3 + 8 = 11 /\ 3 + 9 = 12
      OBVIOUS
    <3>. QED
      BY ONLY <3>2, <3>3, <3>6, <3>7, <3>8
  <2>. QED
    BY ONLY <1>3, <1>4, <2>1, <2>2
<1>6. {"color", "profile", "retries", "skipHeader", "columnFormat", "format", "columns",
       "traceId", "client"} \subseteq Checks \union {"client"}
  BY DEF Checks
<1>. HIDE DEF p
<1>7. \A i \in 1..9 : p[i] \in Checks \union {"client"}
  <2>1. \A i \in 1..9 : i \in {1, 2, 3, 4, 5, 6, 7, 8, 9}
    OBVIOUS
  <2>. QED
    BY ONLY <1>5, <1>6, <2>1
<1>. QED
  BY ONLY <1>5, <1>7 DEF p

(* The program of `traces get`, among all programs.                        *)
LEMMA TraceProgramIs == Programs["tracesGet"] = TraceGetSteps
  BY DEF Programs

(* What a process that gets a trace has left to do.                        *)
LEMMA TraceCourse ==
  ASSUME Course, inv.cmd = "tracesGet", mem.todo # << >>
  PROVE  LET n == Left s == Head(mem.todo) IN
           /\ n \in 1..12 /\ (mem'.todo = Tail(mem.todo) => Left' = n - 1)
           /\ n > 3 => s \in Checks \union {"client"}
           /\ n = 3 <=> s = "root"
           /\ n = 2 <=> s = "follow"
           /\ n = 1 <=> s = "show"
<1>. DEFINE p == MainSteps \o TraceGetSteps
            n == Left
<1>1. Program = p
  BY TraceProgramIs DEF Program
<1>2. Rest(p, mem.todo) /\ Len(p) = 12
  BY <1>1, TraceProgram DEF Course
<1>3. /\ \A i \in 1..9 : p[i] \in Checks \union {"client"}
      /\ p[10] = "root" /\ p[11] = "follow" /\ p[12] = "show"
  BY TraceProgram
<1>. HIDE DEF p
<1>4. /\ n \in 1..12 /\ (mem'.todo = Tail(mem.todo) => Left' = n - 1)
      /\ Head(mem.todo) = p[12 - n + 1]
  BY <1>2, RestTail DEF Left
<1>5. PICK i \in 1..12 : n = 13 - i /\ Head(mem.todo) = p[i]
  <2>1. 13 - n \in 1..12 /\ n = 13 - (13 - n) /\ 12 - n + 1 = 13 - n
    BY <1>4
  <2>. QED BY <1>4, <2>1
<1>6. i \in 1..9 \/ i = 10 \/ i = 11 \/ i = 12
  OBVIOUS
<1>7. \A s \in Checks \union {"client"} : s \notin {"root", "follow", "show"}
  BY DEF Checks
<1>. QED
  BY <1>3, <1>4, <1>5, <1>6, <1>7

(* What is printed: the rows of the traces fetched, one trace after the    *)
(* other.                                                                  *)
AllRows == FlattenSeq([i \in DOMAIN walk.results |-> Rows(walk.results[i])])

WalkInv ==
    inv.cmd = "tracesGet" =>
      /\ Left <= 2 => Follows(walk) /\ Remembers(walk, inv.follow) /\ (~inv.upper => Once(walk))
      /\ Left <= 1 => ~Following
      /\ mem.status = "ok" => Left = 0 /\ mem.out = AllRows

(* What the API may answer.                                                *)
LEMMA AnswerOf == ASSUME NEW t \in TraceIds, NEW spans \in Answers(t) PROVE Identified(spans)
<1>1. spans \in Seq(Spans) /\ \A i, j \in DOMAIN spans : spans[i].id = spans[j].id => i = j
  BY AnswersAssumption
<1>2. DOMAIN spans = 1..Len(spans)
  BY <1>1
<1>. QED
  BY ONLY <1>1, <1>2 DEF Identified

(* The steps of `traces get`.                                              *)
LEMMA WalkTraces == ASSUME Course, WalkInv, TraceStep PROVE WalkInv'
<1>. SUFFICES ASSUME inv'.cmd = "tracesGet" PROVE WalkInv'
  BY DEF WalkInv
<1>0. /\ Whole(mem) /\ inv' = inv /\ inv.cmd = "tracesGet"
      /\ mem.status = "running" /\ mem.todo # << >>
      /\ inv.follow \in BOOLEAN /\ inv.upper \in BOOLEAN
  <2>1. inv' = inv /\ mem.status = "running" /\ mem.todo # << >>
    BY TraceActs DEF Course, Acts
  <2>. QED
    BY <2>1, InvocationsAssumption DEF Course, Invocation
<1>1. /\ Left \in 1..12 /\ (mem'.todo = Tail(mem.todo) => Left' = Left - 1)
      /\ (Left = 3 <=> At("root")) /\ (Left = 2 <=> At("follow")) /\ (Left = 1 <=> At("show"))
  BY <1>0, TraceCourse DEF At
<1>2. CASE FetchRoot
  <2>1. PICK spans \in Answers(RootTrace) :
          walk' = [results |-> <<Result(RootTrace, spans)>>,
                   queue |-> IF inv.follow THEN ExtractLinkedTraceIDs(spans, SeenAtFirst)
                             ELSE << >>,
                   seen |-> SeenAtFirst \union
                              ToSet(IF inv.follow THEN ExtractLinkedTraceIDs(spans, SeenAtFirst)
                                    ELSE << >>)]
    BY <1>2, Zenon DEF FetchRoot
  <2>2. At("root") /\ mem' = Sent(Done(mem))
    BY <1>2 DEF FetchRoot, Answered
  <2>3. mem'.status = "running" /\ Left' = 2
    BY <1>0, <1>1, <2>2, WholeDone, WholeSent
  <2>4. Identified(spans)
    BY TracesAssumption, AnswerOf
  <2>5. SeenAtFirst \in SUBSET {RootTrace} /\ (~inv.upper => SeenAtFirst = {RootTrace})
    BY DEF SeenAtFirst
  <2>6. /\ Follows(walk') /\ Remembers(walk', inv.follow)
        /\ (SeenAtFirst = {RootTrace} => Once(walk'))
    <3>1. \E links : /\ links = IF inv.follow THEN ExtractLinkedTraceIDs(spans, SeenAtFirst)
                               ELSE << >>
                     /\ walk' = [results |-> <<Result(RootTrace, spans)>>, queue |-> links,
                                 seen |-> SeenAtFirst \union ToSet(links)]
      BY ONLY <2>1, Zenon
    <3>2. inv.follow \in BOOLEAN
      BY <1>0
    <3>. QED
      BY ONLY <2>4, <2>5, <3>1, <3>2, WalkStarts
  <2>. QED
    BY <1>0, <2>3, <2>5, <2>6 DEF WalkInv
<1>3. CASE FetchLinked
  <2>1. PICK spans \in Answers(Head(walk.queue)) :
          walk' = [results |-> Append(walk.results, Result(Head(walk.queue), spans)),
                   queue |-> Tail(walk.queue) \o ExtractLinkedTraceIDs(spans, walk.seen),
                   seen |-> walk.seen \union ToSet(ExtractLinkedTraceIDs(spans, walk.seen))]
    BY <1>3, Zenon DEF FetchLinked
  <2>2. At("follow") /\ Following /\ mem' = Sent(mem)
    BY <1>3 DEF FetchLinked, Answered
  <2>3. mem'.status = "running" /\ Left' = 2 /\ Left = 2
    BY <1>0, <1>1, <2>2, WholeSent, LeftKept
  <2>4. Follows(walk) /\ Remembers(walk, inv.follow) /\ (~inv.upper => Once(walk))
    BY <1>0, <2>3 DEF WalkInv
  <2>5. walk.queue # << >> /\ Len(walk.results) < MaxTraces
    BY <2>2 DEF Following
  <2>6. Identified(spans)
    <3>1. walk.queue \in Seq(TraceIds)
      BY <2>4 DEF Follows
    <3>2. Head(walk.queue) \in TraceIds
      BY ONLY <2>5, <3>1, HeadElements
    <3>. QED
      BY <3>2, AnswerOf
  <2>7. Follows(walk') /\ Remembers(walk', inv.follow) /\ (Once(walk) => Once(walk'))
    <3>1. \E links : /\ links = ExtractLinkedTraceIDs(spans, walk.seen)
                     /\ walk' = [results |-> Append(walk.results, Result(Head(walk.queue), spans)),
                                 queue |-> Tail(walk.queue) \o links,
                                 seen |-> walk.seen \union ToSet(links)]
      BY ONLY <2>1, Zenon
    <3>2. inv.follow \in BOOLEAN
      BY <1>0
    <3>. QED
      BY ONLY <2>4, <2>5, <2>6, <3>1, <3>2, WalkExtends
  <2>. QED
    BY <1>0, <2>3, <2>4, <2>7 DEF WalkInv
<1>4. CASE FetchFails
  <2>1. mem' = Failing(mem) /\ walk' = walk
    BY <1>4 DEF FetchFails, Refuse
  <2>2. mem'.status = "failing" /\ Left' = Left
    BY <1>0, <2>1, WholeFailing, LeftKept
  <2>. QED
    BY <1>0, <2>1, <2>2 DEF WalkInv, Following
<1>5. CASE FollowDone
  <2>1. At("follow") /\ ~Following /\ mem' = Done(mem) /\ walk' = walk
    BY <1>5 DEF FollowDone, Proceed
  <2>2. mem'.status = "running" /\ Left = 2 /\ Left' = 1
    BY <1>0, <1>1, <2>1, WholeDone
  <2>. QED
    BY <1>0, <2>1, <2>2 DEF WalkInv, Following
<1>6. CASE RenderTrace
  <2>1. At("show") /\ mem' = [Done(mem) EXCEPT !.out = AllRows, !.status = "ok"] /\ walk' = walk
    BY <1>6 DEF RenderTrace, AllRows
  <2>2. mem'.todo = Tail(mem.todo) /\ mem'.out = AllRows
    <3>. HIDE DEF AllRows
    <3>. QED
      BY <1>0, <2>1, WholeDone DEF Whole, Fields
  <2>3. Left = 1 /\ Left' = 0
    BY <1>1, <2>1, <2>2
  <2>4. AllRows' = AllRows
    BY <1>0, <2>1 DEF AllRows, Rows, Format
  <2>. QED
    BY <1>0, <2>1, <2>2, <2>3, <2>4 DEF WalkInv, Following
<1>. QED
  BY <1>2, <1>3, <1>4, <1>5, <1>6 DEF TraceStep, TraceLocal, TraceRequest

(* The steps of other commands come before it fetches.                     *)
LEMMA WalkElsewhere ==
  ASSUME Course, WalkInv, walk' = walk,
         Acts(CommandPlaces \union InstallPlaces \union LoginPlaces)
  PROVE  WalkInv'
<1>. SUFFICES ASSUME inv'.cmd = "tracesGet" PROVE WalkInv'
  BY DEF WalkInv
<1>1. inv' = inv /\ inv.cmd = "tracesGet" /\ mem.todo # << >>
  BY DEF Acts
<1>2. Head(mem.todo) \notin {"root", "follow", "show"}
  BY DEF Acts, CommandPlaces, Checks, InstallPlaces, LoginPlaces
<1>3. /\ Left \in 1..12 /\ Left \notin {1, 2, 3} /\ (mem'.todo = Tail(mem.todo) => Left' = Left - 1)
      /\ (Left > 3 => Head(mem.todo) \in Checks \union {"client"})
  BY <1>1, <1>2, TraceCourse
<1>4. Left \in 4..12
  BY <1>3
<1>5. Left' \in {Left, Left - 1}
  BY <1>3, LeftKept DEF Acts, Moves
<1>6. Left' > 2
  BY <1>4, <1>5
<1>7. Head(mem.todo) \notin LastPlaces
  BY <1>3, <1>4 DEF Checks, LastPlaces
<1>8. mem'.status # "ok"
  BY <1>7 DEF Acts
<1>9. ~(Left' <= 2) /\ ~(Left' <= 1)
  BY <1>4, <1>5
<1>. QED
  BY <1>8, <1>9 DEF WalkInv

(* A process that stays where it is keeps its walk.                        *)
LEMMA WalkStays ==
  ASSUME WalkInv, walk' = walk, inv' = inv, mem'.todo = mem.todo,
         mem' = mem \/ mem'.status # "ok"
  PROVE  WalkInv'
<1>1. Left' = Left
  BY LeftKept
<1>2. AllRows' = AllRows
  BY DEF AllRows, Rows, Format
<1>. QED
  BY <1>1, <1>2 DEF WalkInv, Following

(* No process has fetched anything before the first.                       *)
LEMMA WalkInit == CommandLineInit => WalkInv
<1>. SUFFICES ASSUME CommandLineInit, inv.cmd = "tracesGet" PROVE WalkInv
  BY DEF WalkInv
<1>1. mem.todo = MainSteps \o TraceGetSteps /\ mem.status = "running"
  BY WholeStarted, TraceProgramIs DEF CommandLineInit
<1>2. Left = 12
  BY <1>1, TraceProgram DEF Left
<1>. QED
  BY <1>1, <1>2 DEF WalkInv

(* A step of the walk, another step of the process, or a step of anything  *)
(* else.                                                                   *)
LEMMA WalkNext == Course /\ WalkInv /\ [CommandLineNext]_allVars => WalkInv'
<1>. SUFFICES ASSUME Course, WalkInv, [CommandLineNext]_allVars PROVE WalkInv'
  OBVIOUS
<1>0. Whole(mem)
  BY DEF Course
<1>. DEFINE Other == CommandPlaces \union InstallPlaces \union LoginPlaces
<1>1. CASE UNCHANGED allVars
  BY <1>1, WalkStays DEF allVars
<1>2. CASE NewProcess
  <2>1. PICK next : inv' = next /\ mem' = Started(next)
    BY <1>2 DEF NewProcess
  <2>2. SUFFICES ASSUME next.cmd = "tracesGet" PROVE WalkInv'
    BY <2>1 DEF WalkInv
  <2>3. mem'.todo = MainSteps \o TraceGetSteps /\ mem'.status = "running"
    BY <2>1, <2>2, WholeStarted, TraceProgramIs
  <2>4. Left' = 12
    BY <2>3, TraceProgram DEF Left
  <2>. QED
    BY <2>3, <2>4 DEF WalkInv
<1>3. CASE CommandStep
  <2>1. Acts(CommandPlaces)
    BY <1>0, <1>3, LocalActs, MakersActs, RequestActs DEF CommandStep
  <2>2. Acts(Other)
    BY <2>1, ActsWiden
  <2>. QED
    BY <1>3, <2>2, WalkElsewhere DEF CommandStep
<1>4. CASE TracesGetStep
  BY <1>4, WalkTraces DEF TracesGetStep
<1>5. CASE SkillInstallStep
  <2>1. CASE InstallStep
    <3>1. Acts(Other)
      BY <1>0, <2>1, InstallActs, ActsWiden
    <3>. QED
      BY <1>5, <3>1, WalkElsewhere DEF SkillInstallStep
  <2>2. CASE PrintError
    <3>1. mem'.todo = mem.todo /\ mem'.status = "failed" /\ inv' = inv
      BY <1>0, <2>2 DEF PrintError, Whole, Fields
    <3>. QED
      BY <1>5, <3>1, WalkStays DEF SkillInstallStep
  <2>. QED
    BY <1>5, <2>1, <2>2 DEF SkillInstallStep
<1>6. CASE LoginCommandStep
  <2>1. Acts(LoginPlaces) \/ UNCHANGED <<inv, mem>>
    BY <1>0, <1>6, LoginActs DEF LoginCommandStep
  <2>2. CASE Acts(LoginPlaces)
    <3>1. Acts(Other)
      BY <2>2, ActsWiden
    <3>. QED
      BY <1>6, <3>1, WalkElsewhere DEF LoginCommandStep
  <2>3. CASE UNCHANGED <<inv, mem>>
    BY <1>6, <2>3, WalkStays DEF LoginCommandStep
  <2>. QED
    BY <2>1, <2>2, <2>3
<1>7. CASE Disturbance
  BY <1>7, WalkStays DEF Disturbance, Interrupt, Expire
<1>. QED
  BY <1>1, <1>2, <1>3, <1>4, <1>5, <1>6, <1>7 DEF CommandLineNext

(***************************************************************************)
(* What is printed.                                                        *)
(***************************************************************************)
Printed == [trace : TraceIds, span : Spans]

(* The rows of a trace: one for each span, a child behind its parent.      *)
LEMMA RowsExact ==
  ASSUME NEW result \in Results, Identified(result.spans)
  PROVE  /\ Rows(result) \in Seq(Printed) /\ Distinct(Rows(result))
         /\ ToSet(Rows(result)) = {Row(result.trace, s) : s \in ToSet(result.spans)}
         /\ Format # "json" =>
              \A s \in ToSet(result.spans), t \in ToSet(result.spans) :
                s.id \in Rooted(result.spans) /\ t.parent = s.id =>
                  \E p, q \in 1..Len(Rows(result)) :
                    /\ p < q /\ Rows(result)[p] = Row(result.trace, s)
                    /\ Rows(result)[q] = Row(result.trace, t)
<1>1. PICK trace \in TraceIds, spans \in Seq(Spans) : trace = result.trace /\ spans = result.spans
  BY DEF Results
<1>2. Identified(spans)
  BY <1>1
<1>3. PICK x : x = IF Format = "json" THEN spans ELSE BuildTree(spans)
  OBVIOUS
<1>4. x \in Seq(Spans) /\ Distinct(x) /\ ToSet(x) = ToSet(spans)
  <2>1. Distinct(spans)
    BY ONLY <1>2 DEF Identified, Distinct
  <2>. QED
    BY ONLY <1>2, <1>3, <2>1, TreeExact, spans \in Seq(Spans)
<1>5. PICK n \in Nat : n = Len(x) /\ DOMAIN x = 1..n
  BY ONLY <1>4
<1>6. PICK y : y = [i \in 1..n |-> Row(trace, x[i])]
  OBVIOUS
<1>7. Rows(result) = y
  BY ONLY <1>1, <1>3, <1>5, <1>6 DEF Rows
<1>8. ASSUME NEW i \in 1..n PROVE x[i] \in Spans /\ y[i] = Row(trace, x[i]) /\ y[i] \in Printed
  <2>1. x[i] \in Spans
    BY ONLY <1>4, <1>5, i \in 1..n
  <2>2. y[i] = Row(trace, x[i])
    BY ONLY <1>6, i \in 1..n
  <2>3. Row(trace, x[i]) \in Printed
    BY ONLY <2>1, trace \in TraceIds DEF Row, Printed
  <2>. QED
    BY ONLY <2>1, <2>2, <2>3
<1>9. y \in Seq(Printed) /\ Len(y) = n /\ DOMAIN y = 1..n
  BY ONLY <1>6, <1>8, n \in Nat
<1>10. ASSUME NEW s, NEW t, Row(trace, s) = Row(trace, t) PROVE s = t
  <2>1. Row(trace, s).span = s /\ Row(trace, t).span = t
    BY DEF Row
  <2>. QED
    BY ONLY <1>10, <2>1
<1>11. Distinct(y)
  <2>1. ASSUME NEW i \in 1..n, NEW j \in 1..n, y[i] = y[j] PROVE i = j
    <3>1. x[i] = x[j]
      BY ONLY <1>8, <1>10, <2>1, i \in 1..n, j \in 1..n
    <3>. QED
      BY ONLY <1>4, <1>5, <3>1, i \in 1..n, j \in 1..n DEF Distinct
  <2>. QED
    BY ONLY <1>9, <2>1 DEF Distinct
<1>12. ToSet(y) = {Row(trace, s) : s \in ToSet(spans)}
  <2>1. ToSet(x) = {x[i] : i \in 1..n} /\ ToSet(y) = {y[i] : i \in 1..n}
    BY ONLY <1>5, <1>9 DEF ToSet
  <2>2. ASSUME NEW i \in 1..n PROVE y[i] \in {Row(trace, s) : s \in ToSet(spans)}
    BY ONLY <1>4, <1>8, <2>1, i \in 1..n
  <2>3. ASSUME NEW s \in ToSet(spans) PROVE Row(trace, s) \in ToSet(y)
    <3>1. PICK i \in 1..n : s = x[i]
      BY ONLY <1>4, <2>1, s \in ToSet(spans)
    <3>. QED
      BY ONLY <1>8, <2>1, <3>1
  <2>. QED
    BY ONLY <2>1, <2>2, <2>3
<1>13. ASSUME Format # "json", NEW s \in ToSet(spans), NEW t \in ToSet(spans),
              s.id \in Rooted(spans), t.parent = s.id
       PROVE  \E p, q \in 1..n : p < q /\ y[p] = Row(trace, s) /\ y[q] = Row(trace, t)
  <2>1. x = BuildTree(spans)
    BY ONLY <1>3, <1>13
  <2>2. PICK p \in 1..n, q \in 1..n : p < q /\ x[p] = s /\ x[q] = t
    BY ONLY <1>2, <1>5, <1>13, <2>1, TreeExact, s \in ToSet(spans), t \in ToSet(spans)
  <2>. QED
    BY ONLY <1>8, <2>2, p \in 1..n, q \in 1..n
<1>. QED
  BY ONLY <1>1, <1>7, <1>9, <1>11, <1>12, <1>13

(* What the results r of a walk and the rows printed have to do with each  *)
(* other.                                                                  *)
Exact(r, out) ==
    LET place(i, s) == CHOOSE j \in DOMAIN out : out[j] = Row(r[i].trace, s)
    IN /\ Len(r) \in 1..MaxTraces /\ r[1].trace = RootTrace
       /\ \A i \in 2..Len(r) : \E j \in 1..(i - 1) : r[i].trace \in Linked(r[j])
       /\ inv.follow /\ Len(r) < MaxTraces =>
            \A i \in DOMAIN r : Linked(r[i]) \subseteq {r[j].trace : j \in DOMAIN r}
       /\ ~inv.upper =>
            /\ \A i, j \in DOMAIN r : r[i].trace = r[j].trace => i = j
            /\ \A j, k \in DOMAIN out : out[j] = out[k] => j = k
            /\ ToSet(out) =
                 UNION {{Row(r[i].trace, s) : s \in ToSet(r[i].spans)} : i \in DOMAIN r}
            /\ Format # "json" =>
                 \A i \in DOMAIN r :
                   LET spans == ToSet(r[i].spans) rooted == Rooted(r[i].spans) IN
                   \A s \in {t \in spans : t.id \in rooted}, t \in spans :
                     t.parent = s.id => place(i, s) < place(i, t)

(* A finished walk is what the user asked for.                             *)
LEMMA WalkImplies == Course /\ WalkInv => TraceAnswerExact
<1>. SUFFICES ASSUME Course, WalkInv, inv.cmd = "tracesGet", mem.status = "ok"
              PROVE  TraceAnswerExact
  BY DEF TraceAnswerExact
<1>1. /\ Follows(walk) /\ Remembers(walk, inv.follow) /\ (~inv.upper => Once(walk))
      /\ ~Following /\ mem.out = AllRows
  <2>1. Left = 0 /\ mem.out = AllRows
    BY DEF WalkInv
  <2>2. Left <= 2 /\ Left <= 1
    BY <2>1
  <2>. QED
    BY <2>1, <2>2 DEF WalkInv
<1>2. PICK r \in Seq(Results) : r = walk.results
  BY <1>1 DEF Follows
<1>3. PICK n \in Nat \ {0} : n = Len(r) /\ n \in 1..MaxTraces /\ DOMAIN r = 1..n
  <2>1. Len(r) \in 1..MaxTraces
    BY <1>1, <1>2 DEF Follows
  <2>2. Len(r) \in Nat \ {0} /\ DOMAIN r = 1..Len(r)
    BY ONLY <2>1, r \in Seq(Results)
  <2>. QED
    BY ONLY <2>1, <2>2
<1>4. /\ r[1].trace = RootTrace
      /\ \A i \in 1..n : Identified(r[i].spans)
      /\ \A i \in 1..n : i = 1 \/ \E j \in 1..n : j < i /\ r[i].trace \in Linked(r[j])
  BY ONLY <1>1, <1>2, <1>3 DEF Follows
<1>5. ASSUME NEW i \in 2..n PROVE \E j \in 1..(i - 1) : r[i].trace \in Linked(r[j])
  <2>1. i \in 1..n /\ i # 1
    BY ONLY n \in Nat, i \in 2..n
  <2>2. PICK j \in 1..n : j < i /\ r[i].trace \in Linked(r[j])
    BY ONLY <1>4, <2>1
  <2>3. j \in 1..(i - 1)
    BY ONLY <2>2, n \in Nat, i \in 2..n, j \in 1..n
  <2>. QED
    BY ONLY <2>2, <2>3
<1>6. ASSUME inv.follow, n < MaxTraces, NEW i \in 1..n
      PROVE  Linked(r[i]) \subseteq {r[j].trace : j \in 1..n}
  <2>1. walk.queue = << >>
    BY ONLY <1>1, <1>2, <1>3, <1>6 DEF Following
  <2>2. ToSet(walk.queue) = {}
    BY ONLY <2>1 DEF ToSet
  <2>3. Linked(r[i]) \subseteq walk.seen /\ walk.seen \subseteq Traces(r) \union ToSet(walk.queue)
    BY ONLY <1>1, <1>2, <1>3, <1>6, i \in 1..n DEF Remembers
  <2>. QED
    BY ONLY <1>3, <2>2, <2>3 DEF Traces
<1>7. ASSUME ~inv.upper, NEW i \in 1..n, NEW j \in 1..n, r[i].trace = r[j].trace PROVE i = j
  BY ONLY <1>1, <1>2, <1>3, <1>7 DEF Once
<1>8. PICK X : X = Seq(Printed)
  OBVIOUS
<1>9. PICK g : g = [i \in 1..n |-> Rows(r[i])]
  OBVIOUS
<1>10. ASSUME NEW i \in 1..n
       PROVE  /\ g[i] = Rows(r[i]) /\ r[i] \in Results /\ Identified(r[i].spans)
              /\ g[i] \in X /\ Distinct(g[i])
              /\ ToSet(g[i]) = {Row(r[i].trace, s) : s \in ToSet(r[i].spans)}
  <2>1. g[i] = Rows(r[i])
    BY ONLY <1>9, i \in 1..n
  <2>2. r[i] \in Results
    BY ONLY <1>3, r \in Seq(Results), i \in 1..n
  <2>3. Identified(r[i].spans)
    BY ONLY <1>4, i \in 1..n
  <2>. QED
    BY ONLY <1>8, <2>1, <2>2, <2>3, RowsExact
<1>11. g \in Seq(X) /\ Len(g) = n
  BY ONLY <1>9, <1>10, n \in Nat \ {0}
<1>12. g \in Seq(Seq(Printed))
  BY ONLY <1>8, <1>11
<1>13. PICK out \in Seq(Printed) : out = mem.out /\ out = FlattenSeq(g)
  <2>1. AllRows = FlattenSeq(g)
    BY ONLY <1>2, <1>3, <1>9 DEF AllRows
  <2>2. FlattenSeq(g) \in Seq(Printed)
    BY ONLY <1>12, FlattenType
  <2>. QED
    BY ONLY <1>1, <2>1, <2>2
<1>14. PICK l \in Nat : l = Len(out) /\ DOMAIN out = 1..l
  BY ONLY out \in Seq(Printed)
<1>15. ToSet(out) = UNION {{Row(r[i].trace, s) : s \in ToSet(r[i].spans)} : i \in 1..n}
  <2>1. ToSet(out) = UNION {ToSet(g[i]) : i \in 1..n}
    BY ONLY <1>11, <1>12, <1>13, FlattenElements
  <2>. DEFINE Q(i) == {Row(r[i].trace, s) : s \in ToSet(r[i].spans)}
  <2>2. \A i \in 1..n : ToSet(g[i]) = Q(i)
    BY ONLY <1>10
  <2>. HIDE DEF Q
  <2>3. UNION {ToSet(g[i]) : i \in 1..n} = UNION {Q(i) : i \in 1..n}
    BY ONLY <2>2
  <2>4. ToSet(out) = UNION {Q(i) : i \in 1..n}
    BY ONLY <2>1, <2>3
  <2>. QED
    BY ONLY <2>4 DEF Q
<1>16. ASSUME ~inv.upper PROVE \A j, k \in 1..l : out[j] = out[k] => j = k
  <2>1. ASSUME NEW i \in 1..n, NEW j \in 1..n, i < j PROVE ToSet(g[i]) \cap ToSet(g[j]) = {}
    <3>1. r[i].trace # r[j].trace
      BY ONLY <1>7, <1>16, <2>1, n \in Nat
    <3>2. ASSUME NEW s, NEW t PROVE Row(r[i].trace, s) # Row(r[j].trace, t)
      <4>1. Row(r[i].trace, s).trace = r[i].trace /\ Row(r[j].trace, t).trace = r[j].trace
        BY DEF Row
      <4>. QED
        BY ONLY <3>1, <4>1
    <3>. QED
      BY ONLY <1>10, <3>2, i \in 1..n, j \in 1..n
  <2>2. \A i \in 1..Len(g) : Distinct(g[i])
    BY ONLY <1>10, <1>11
  <2>3. \A i, j \in 1..Len(g) : i < j => ToSet(g[i]) \cap ToSet(g[j]) = {}
    BY ONLY <1>11, <2>1
  <2>4. Distinct(FlattenSeq(g))
    BY ONLY <1>12, <2>2, <2>3, FlattenDistinct
  <2>. QED
    BY ONLY <1>13, <1>14, <2>4 DEF Distinct
<1>. DEFINE place(i, s) == CHOOSE j \in DOMAIN out : out[j] = Row(r[i].trace, s)
<1>17. ASSUME ~inv.upper, Format # "json", NEW i \in 1..n,
              NEW s \in ToSet(r[i].spans), NEW t \in ToSet(r[i].spans),
              s.id \in Rooted(r[i].spans), t.parent = s.id
       PROVE  place(i, s) < place(i, t)
  <2>1. /\ r[i] \in Results /\ Identified(r[i].spans) /\ g[i] = Rows(r[i])
    BY ONLY <1>10, i \in 1..n
  <2>2. PICK p \in 1..Len(g[i]), q \in 1..Len(g[i]) :
          p < q /\ g[i][p] = Row(r[i].trace, s) /\ g[i][q] = Row(r[i].trace, t)
    BY ONLY <1>17, <2>1, RowsExact, s \in ToSet(r[i].spans), t \in ToSet(r[i].spans)
  <2>3. PICK o \in Nat : \A a \in 1..Len(g[i]) : o + a \in 1..l /\ out[o + a] = g[i][a]
    <3>1. i \in 1..Len(g)
      BY ONLY <1>11, i \in 1..n
    <3>2. \E o \in Nat : \A a \in 1..Len(g[i]) :
            o + a \in 1..Len(FlattenSeq(g)) /\ FlattenSeq(g)[o + a] = g[i][a]
      BY ONLY <1>12, <3>1, FlattenBlock
    <3>3. FlattenSeq(g) = out /\ Len(FlattenSeq(g)) = l
      BY ONLY <1>13, <1>14
    <3>. QED
      BY ONLY <3>2, <3>3
  <2>4. /\ o + p \in 1..l /\ out[o + p] = Row(r[i].trace, s)
        /\ o + q \in 1..l /\ out[o + q] = Row(r[i].trace, t)
    BY ONLY <2>2, <2>3, p \in 1..Len(g[i]), q \in 1..Len(g[i])
  <2>5. ASSUME NEW e, NEW k \in 1..l, out[k] = e PROVE (CHOOSE j \in DOMAIN out : out[j] = e) = k
    <3>1. \A j \in DOMAIN out : out[j] = e <=> j = k
      BY ONLY <1>14, <1>16, <1>17, <2>5, k \in 1..l
    <3>. QED
      BY ONLY <1>14, <3>1, k \in 1..l
  <2>6. place(i, s) = o + p
    BY ONLY <1>13, <2>4, <2>5
  <2>7. place(i, t) = o + q
    BY ONLY <1>13, <2>4, <2>5
  <2>8. o + p < o + q
    <3>1. p \in Nat /\ q \in Nat
      <4>1. Len(g[i]) \in Nat
        <5>1. g[i] \in Seq(Printed)
          BY ONLY <1>8, <1>10, i \in 1..n
        <5>. QED
          BY ONLY <5>1
      <4>. QED
        BY ONLY <4>1, p \in 1..Len(g[i]), q \in 1..Len(g[i])
    <3>. QED
      BY ONLY <2>2, <3>1, o \in Nat
  <2>. HIDE DEF place
  <2>. QED
    BY ONLY <2>6, <2>7, <2>8
<1>18. ASSUME ~inv.upper, Format # "json", NEW i \in 1..n
       PROVE  LET spans == ToSet(r[i].spans) rooted == Rooted(r[i].spans) IN
                \A s \in {t \in spans : t.id \in rooted}, t \in spans :
                  t.parent = s.id => place(i, s) < place(i, t)
  <2>. HIDE DEF place
  <2>. QED
    BY ONLY <1>17, <1>18, i \in 1..n
<1>19. ~inv.upper =>
         /\ \A i, j \in DOMAIN r : r[i].trace = r[j].trace => i = j
         /\ \A j, k \in DOMAIN out : out[j] = out[k] => j = k
         /\ ToSet(out) = UNION {{Row(r[i].trace, s) : s \in ToSet(r[i].spans)} : i \in DOMAIN r}
         /\ Format # "json" =>
              \A i \in DOMAIN r :
                LET spans == ToSet(r[i].spans) rooted == Rooted(r[i].spans) IN
                \A s \in {t \in spans : t.id \in rooted}, t \in spans :
                  t.parent = s.id => place(i, s) < place(i, t)
  <2>1. DOMAIN r = 1..n /\ DOMAIN out = 1..l
    BY ONLY <1>3, <1>14
  <2>. HIDE DEF place
  <2>. QED
    BY ONLY <1>7, <1>15, <1>16, <1>18, <2>1
<1>20. /\ Len(r) \in 1..MaxTraces /\ r[1].trace = RootTrace
       /\ \A i \in 2..Len(r) : \E j \in 1..(i - 1) : r[i].trace \in Linked(r[j])
       /\ inv.follow /\ Len(r) < MaxTraces =>
            \A i \in DOMAIN r : Linked(r[i]) \subseteq {r[j].trace : j \in DOMAIN r}
  BY ONLY <1>3, <1>4, <1>5, <1>6
<1>21. Exact(r, out)
  BY ONLY <1>19, <1>20, Zenon DEF Exact
<1>22. Exact(walk.results, mem.out)
  BY ONLY <1>2, <1>13, <1>21
<1>. QED
  BY ONLY <1>22, Zenon DEF Exact, TraceAnswerExact

(* `traces get` that exits with 0 has printed what it was asked for        *)
(* (traces_get.go:169-267, 390-443, 506-531): the trace asked for and,     *)
(* with links followed, the traces that its links lead to, up to their     *)
(* limit, each after one that links to it; no trace twice and, of each,    *)
(* every span once; and, but for JSON, a span that a root leads to after   *)
(* its parent.  An identifier typed in upper case is the exception.        *)
THEOREM TraceAnswersExact == CommandLineSpec => []TraceAnswerExact
<1>1. CommandLineInit => Course /\ WalkInv
  BY CourseInit, WalkInit
<1>2. Course /\ WalkInv /\ [CommandLineNext]_allVars => (Course /\ WalkInv)'
  BY CourseNext, WalkNext
<1>. QED
  BY <1>1, <1>2, WalkImplies, PTL DEF CommandLineSpec
==============================================================================
