------------------------------ MODULE MCDashboard ------------------------------
(***************************************************************************)
(* Small instances of Dashboard.  Two clients let the set change with and  *)
(* without a change of its size while a broadcast is suspended.            *)
(***************************************************************************)
EXTENDS Dashboard
===============================================================================
