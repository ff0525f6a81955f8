----------------------------- MODULE MCOtlpProxy -----------------------------
(* Instances of OtlpProxy for TLC.                                         *)
EXTENDS OtlpProxy, TLC

CONSTANTS logs, b1, b2

MCSignals == {logs}
MCBatches == {b1, b2}
MCSignalOf == [b \in MCBatches |-> logs]
MCCountOf == (b1 :> 1) @@ (b2 :> 0)
MCStatuses == {401}

=============================================================================
