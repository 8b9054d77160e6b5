---------------------------- MODULE MC_Resources ----------------------------
(* The instance of Resources that resources.cfg checks; the values of the    *)
(* constants are given there.                                                *)
EXTENDS Resources
=============================================================================
