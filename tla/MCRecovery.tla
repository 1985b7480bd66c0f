------------------------------ MODULE MCRecovery ------------------------------
(***************************************************************************)
(* Values of the constants of Recovery for TLC.                            *)
(***************************************************************************)
EXTENDS Recovery

MCWorks == {"bare", "ide"}
MCDetectable == {"ide"}
MCLosable == {"index", "marker", "contract", "state", "graph", "run"}
=============================================================================
