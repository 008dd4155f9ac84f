------------------------------- MODULE MCTrace -------------------------------
(* Instances of the logger for TLC. *)
EXTENDS TraceLog

TaskNames == <<"AppLow", "AppHigh", "Supervisory">>

=============================================================================
