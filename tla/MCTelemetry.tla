---------------------------- MODULE MCTelemetry ----------------------------
(***************************************************************************)
(* Small instances of Telemetry for TLC: every exchange belongs to one     *)
(* conversation.                                                           *)
(***************************************************************************)
EXTENDS Telemetry

MCConversation == [x \in Exchanges |-> "s1"]
=============================================================================
