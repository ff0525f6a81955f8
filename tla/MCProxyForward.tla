--------------------------- MODULE MCProxyForward ---------------------------
(* Instances of ProxyForward for TLC.                                      *)
EXTENDS ProxyForward, TLC

CONSTANTS logs, spans, b1, b2, b3

DataStatuses == {503}
WarnStatuses == {NoAPIError, 403}

(* Data: three concurrent batches on one signal; b3 has no records. *)
DataSignals == {logs}
DataBatches == {b1, b2, b3}
DataSignalOf == [b \in DataBatches |-> logs]
DataCountOf == (b1 :> 2) @@ (b2 :> 1) @@ (b3 :> 0)

(* Warnings: the workers of two signals fail concurrently, as time passes. *)
WarnSignals == {logs, spans}
WarnBatches == {b1, b2, b3}
WarnSignalOf == (b1 :> logs) @@ (b2 :> logs) @@ (b3 :> spans)
WarnCountOf == [b \in WarnBatches |-> IF b = b1 THEN 1 ELSE 0]

=============================================================================
