---------------------------- MODULE WindowReady ----------------------------
(* The contract between the constructor and the frame loop: what Startup    *)
(* establishes of the window and FrameLoop starts from.                     *)
EXTENDS Naturals

CONSTANT Sizes              \* the window sizes a configure may suggest

None == 0                   \* no size, no object: 0x0 in a configure, nullptr

\* The round trips after the first configure may have dispatched a close, or
\* configures that differ from the size the images were built for.
WindowReady(closed, width, pending, resize_pending) ==
  /\ closed \in BOOLEAN
  /\ width \in Sizes
  /\ pending \in Sizes \cup {None}
  /\ resize_pending \in BOOLEAN
  /\ pending \notin {None, width} => resize_pending
  /\ pending = None => ~resize_pending

============================================================================
