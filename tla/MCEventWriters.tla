---------------------------- MODULE MCEventWriters ----------------------------
(* Two members; three rows, in one message or two, for two goroutines.      *)
EXTENDS EventWriters

MCSize == <<1, 2>>
=============================================================================
