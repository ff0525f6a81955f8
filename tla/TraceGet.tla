------------------------------ MODULE TraceGet ------------------------------
(***************************************************************************)
(* `dash0 traces get`: fetch a trace, follow the links of its spans to     *)
(* other traces breadth first, and show the spans of each as a tree.       *)
(*                                                                         *)
(* The API answers a fetch with a list of spans.  A span has an identifier *)
(* and names a parent, which may be absent, itself, or part of a cycle,    *)
(* and it may link to traces, the one it is in and earlier ones included.  *)
(* OTLP makes the identifiers of a trace's spans distinct and not empty.   *)
(***************************************************************************)
EXTENDS Commands

CONSTANTS
    TraceIds,    \* the traces there are, or that links name
    Answers(_),  \* the span lists the API may answer the fetch of a trace with
    RootTrace,   \* the trace the user asks for
    MaxTraces    \* maxFollowedTraces

NoParent == 0
Spans == [id : Nat \ {NoParent}, parent : Nat, links : Seq(TraceIds)]

ASSUME TracesAssumption == MaxTraces \in Nat \ {0} /\ RootTrace \in TraceIds
ASSUME AnswersAssumption ==
    \A t \in TraceIds : \A spans \in Answers(t) :
        /\ spans \in Seq(Spans)
        /\ \A i, j \in DOMAIN spans : spans[i].id = spans[j].id => i = j

VARIABLE walk    \* the traces fetched, those to fetch, and those ever linked

(* results: the traces fetched, in order, with their spans. *)
NoWalk == [results |-> << >>, queue |-> << >>, seen |-> {}]

traceVars == <<commandVars, walk>>

(* The elements of a sequence at the positions i with Test(i), in order. *)
Picked(s, Test(_)) == FlattenSeq([i \in DOMAIN s |-> IF Test(i) THEN <<s[i]>> ELSE << >>])

(***************************************************************************)
(* The links, in the order in which they are met, that lead to a trace not *)
(* seen before.                                                            *)
(***************************************************************************)
Links(spans) == FlattenSeq([i \in DOMAIN spans |-> spans[i].links])

ExtractLinkedTraceIDs(spans, seen) ==
    LET links == Links(spans)
    IN Picked(links, LAMBDA i :
                links[i] \notin seen /\ \A j \in 1..(i - 1) : links[j] # links[i])

(***************************************************************************)
(* buildTree: the roots in order, each followed by its descendants depth   *)
(* first, then the spans no root leads to.  Of spans with one identifier   *)
(* the last is shown.                                                      *)
(***************************************************************************)
Ids(spans) == {spans[i].id : i \in DOMAIN spans}
ById(spans, id) ==
    spans[CHOOSE i \in DOMAIN spans :
            spans[i].id = id /\ \A j \in DOMAIN spans : spans[j].id = id => j <= i]
IdSeq(spans) == [i \in DOMAIN spans |-> spans[i].id]

IsRoot(spans, s) == s.parent = NoParent \/ s.parent \notin Ids(spans)
Roots(spans) == Picked(IdSeq(spans), LAMBDA i : IsRoot(spans, spans[i]))
Children(spans, id) == Picked(IdSeq(spans), LAMBDA i : spans[i].parent = id)

\* Mutant: spans that no root leads to are left out.
OrderedRootsOnly(spans, visited) == [i \in DOMAIN visited |-> ById(spans, visited[i])]

Ordered(spans, visited) ==
    [i \in DOMAIN visited |-> ById(spans, visited[i])]
      \o Picked(spans, LAMBDA i : spans[i].id \notin ToSet(visited))

(* The closure `walk`: children are visited before siblings, and a span    *)
(* that was visited is not visited again.                                  *)
BuildTree(spans) ==
    LET visit[w \in [stack : Seq(Nat), visited : Seq(Nat)]] ==
          IF w.stack = << >> THEN Ordered(spans, w.visited)
          ELSE LET id == Head(w.stack) IN
               IF id \in ToSet(w.visited) THEN visit[[w EXCEPT !.stack = Tail(@)]]
               ELSE visit[[stack |-> Children(spans, id) \o Tail(w.stack),
                           visited |-> Append(w.visited, id)]]
    IN visit[[stack |-> Roots(spans), visited |-> << >>]]

(***************************************************************************)
(* Steps.                                                                  *)
(***************************************************************************)
Result(trace, spans) == [trace |-> trace, spans |-> spans]

(* An identifier typed in upper case is not the one that links spell, so   *)
(* the trace asked for is not among those seen.                            *)
SeenAtFirst == IF inv.upper THEN {} ELSE {RootTrace}

FetchRoot ==
    /\ At("root")
    /\ \E spans \in Answers(RootTrace) :
         LET links == IF inv.follow THEN ExtractLinkedTraceIDs(spans, SeenAtFirst) ELSE << >>
         IN walk' = [results |-> <<Result(RootTrace, spans)>>, queue |-> links,
                     seen |-> SeenAtFirst \union ToSet(links)]
    /\ Answered(Done(mem))

\* Mutant: the cap is forgotten.
FollowingAll == walk.queue # << >>

Following == walk.queue # << >> /\ Len(walk.results) < MaxTraces

FetchLinked ==
    /\ At("follow") /\ Following
    /\ LET trace == Head(walk.queue) IN
       \E spans \in Answers(trace) :
         LET links == ExtractLinkedTraceIDs(spans, walk.seen)
         IN walk' = [results |-> Append(walk.results, Result(trace, spans)),
                     queue |-> Tail(walk.queue) \o links,
                     seen |-> walk.seen \union ToSet(links)]
    /\ Answered(mem)

(* One trace that cannot be fetched fails the command. *)
FetchFails ==
    /\ At("root") \/ (At("follow") /\ Following)
    /\ Refuse
    /\ UNCHANGED <<inv, fresh, interrupts, walk>>

FollowDone ==
    /\ At("follow") /\ ~Following
    /\ Proceed
    /\ UNCHANGED <<inv, fresh, interrupts, walk>>

Row(trace, span) == [trace |-> trace, span |-> span]

(* Rows of the table and of the CSV; JSON has the spans as they came. *)
Rows(result) ==
    LET spans == IF Format = "json" THEN result.spans ELSE BuildTree(result.spans)
    IN [i \in DOMAIN spans |-> Row(result.trace, spans[i])]

RenderTrace ==
    /\ At("show")
    /\ mem' = [Done(mem) EXCEPT
                 !.out = FlattenSeq([i \in DOMAIN walk.results |-> Rows(walk.results[i])]),
                 !.status = "ok"]
    /\ UNCHANGED <<inv, fresh, interrupts, walk>>

TraceLocal == FollowDone \/ RenderTrace
TraceRequest == FetchRoot \/ FetchLinked
TraceStep == TraceLocal \/ TraceRequest \/ FetchFails

(***************************************************************************)
(* Properties.                                                             *)
(***************************************************************************)
Linked(result) == ToSet(Links(result.spans))

(* The spans that a root leads to. *)
Rooted(spans) ==
    LET down[ids \in SUBSET Nat] ==
          LET more == {s.id : s \in {t \in ToSet(spans) : t.parent \in ids}}
          IN IF more \subseteq ids THEN ids ELSE down[ids \union more]
    IN down[ToSet(Roots(spans))]

(* Whatever the parents and links of the spans are, `traces get` prints,   *)
(* if it succeeds, the trace asked for and the traces its links lead to,   *)
(* each once, none before a trace that links to it, and no more than       *)
(* MaxTraces; it stops for no other reason.  Of each trace it prints every *)
(* span once, and a span that a root leads to after its parent            *)
(* (traces_get.go:169-267, 390-443, 506-531).  An identifier typed in      *)
(* upper case is the exception: then the trace asked for can come twice.   *)
TraceAnswerExact ==
    inv.cmd = "tracesGet" /\ mem.status = "ok" =>
      LET r == walk.results
          place(i, s) == CHOOSE j \in DOMAIN mem.out : mem.out[j] = Row(r[i].trace, s)
      IN /\ Len(r) \in 1..MaxTraces /\ r[1].trace = RootTrace
         /\ \A i \in 2..Len(r) : \E j \in 1..(i - 1) : r[i].trace \in Linked(r[j])
         /\ inv.follow /\ Len(r) < MaxTraces =>
              \A i \in DOMAIN r : Linked(r[i]) \subseteq {r[j].trace : j \in DOMAIN r}
         /\ ~inv.upper =>
              /\ \A i, j \in DOMAIN r : r[i].trace = r[j].trace => i = j
              /\ \A j, k \in DOMAIN mem.out : mem.out[j] = mem.out[k] => j = k
              /\ ToSet(mem.out) =
                   UNION {{Row(r[i].trace, s) : s \in ToSet(r[i].spans)} : i \in DOMAIN r}
              /\ Format # "json" =>
                   \A i \in DOMAIN r :
                     LET spans == ToSet(r[i].spans) rooted == Rooted(r[i].spans) IN
                     \A s \in {t \in spans : t.id \in rooted}, t \in spans :
                       t.parent = s.id => place(i, s) < place(i, t)
=============================================================================
