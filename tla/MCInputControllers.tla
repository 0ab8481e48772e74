-------------------------- MODULE MCInputControllers --------------------------
(***************************************************************************)
(* Small instances of InputControllers, and with it of                     *)
(* PythonApplicationManager, for TLC.                                      *)
(***************************************************************************)
EXTENDS InputControllers

CONSTANTS app1, app2, c1, c2

TwoApplications == {app1, app2}
TwoControllers  == {c1, c2}
=============================================================================
