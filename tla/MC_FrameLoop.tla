---------------------------- MODULE MC_FrameLoop ----------------------------
(* Bounds of the runs of FrameLoop.                                         *)
EXTENDS FrameLoop

=============================================================================
