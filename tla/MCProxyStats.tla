---------------------------- MODULE MCProxyStats ----------------------------
(* An instance of ProxyStats for TLC: two signals' loads tear like three's. *)
EXTENDS ProxyStats

CONSTANTS logs, spans

MCSignalOrder == <<logs, spans>>
MCIncrements == {1}
=============================================================================
