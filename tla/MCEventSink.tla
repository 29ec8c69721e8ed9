---------------------------- MODULE MCEventSink ----------------------------
(* Instances of EventSink for TLC.                                           *)
EXTENDS EventSink
=============================================================================
