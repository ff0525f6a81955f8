---------------------------- MODULE OrderedRelay ----------------------------
(***************************************************************************)
(* What `dash0 otlp proxy` promises about one batch it answered with       *)
(* success: per signal the proxy is a bounded first-in-first-out relay.    *)
(* It takes a batch at most once, it attempts batches upstream in the      *)
(* order it took them and each at most once, and it owes at most Capacity  *)
(* batches per signal.  It does not promise to attempt all of them.        *)
(***************************************************************************)
EXTENDS Integers, Sequences

CONSTANTS Signals, Batches, Capacity

VARIABLES taken, attempted      \* per signal, the batches in order

Init ==
    /\ taken = [s \in Signals |-> << >>]
    /\ attempted = [s \in Signals |-> << >>]

Take(s, b) ==
    /\ Len(taken[s]) - Len(attempted[s]) < Capacity
    /\ \A i \in DOMAIN taken[s] : taken[s][i] # b
    /\ taken' = [taken EXCEPT ![s] = Append(@, b)]
    /\ UNCHANGED attempted

Attempt(s) ==
    /\ Len(attempted[s]) < Len(taken[s])
    /\ attempted' = [attempted EXCEPT ![s] = Append(@, taken[s][Len(@) + 1])]
    /\ UNCHANGED taken

Next ==
    \E s \in Signals : Attempt(s) \/ \E b \in Batches : Take(s, b)

Spec == Init /\ [][Next]_<<taken, attempted>>
=============================================================================
