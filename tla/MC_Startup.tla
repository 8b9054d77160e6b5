----------------------------- MODULE MC_Startup -----------------------------
(* Bounds of the runs of Startup.                                           *)
EXTENDS Startup
=============================================================================
