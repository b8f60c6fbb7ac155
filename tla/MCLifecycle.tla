------------------------------ MODULE MCLifecycle ------------------------------
(***************************************************************************)
(* Small instances of Lifecycle.  Two updates are enough for one to        *)
(* overtake the other, as a publication and as a copy.                     *)
(***************************************************************************)
EXTENDS Lifecycle
===============================================================================
