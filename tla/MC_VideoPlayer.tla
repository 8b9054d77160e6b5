--------------------------- MODULE MC_VideoPlayer ---------------------------
(* Bounds of the run of VideoPlayer.                                        *)
EXTENDS VideoPlayer

=============================================================================
