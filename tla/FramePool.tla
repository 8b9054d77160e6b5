----------------------------- MODULE FramePool -----------------------------
(***************************************************************************)
(* What a wlvk::Window promises about its frames, without saying how: a    *)
(* fixed ring of slots that go round between the application, the display  *)
(* and the pool.  FrameLoop implements it.                                 *)
(***************************************************************************)
EXTENDS Naturals

CONSTANT BufferCount                    \* WindowConfig::buffer_count

Slots == 0 .. BufferCount - 1

Successor(i) == (i + 1) % BufferCount

VARIABLES
  owner,    \* who may touch the image of a slot: the pool, the application
            \* (it renders) or the display (it scans out)
  turn      \* the only slot the pool may lend next

vars == <<owner, turn>>

PoolTypeOK ==
  /\ owner \in [Slots -> {"free", "app", "display"}]
  /\ turn \in Slots

Init ==
  /\ owner = [i \in Slots |-> "free"]
  /\ turn = 0

\* wait_frame() returns true: a free slot is lent, and only in its turn.
Acquire(i) ==
  /\ i = turn
  /\ owner[i] = "free"
  /\ owner' = [owner EXCEPT ![i] = "app"]
  /\ UNCHANGED turn

\* present(): the lent slot goes on display and the turn passes on.
Present(i) ==
  /\ i = turn
  /\ owner[i] = "app"
  /\ owner' = [owner EXCEPT ![i] = "display"]
  /\ turn' = Successor(i)

\* A resize takes back a frame that was lent and not presented: its image is
\* dead, the slot keeps its turn.
Revoke(i) ==
  /\ owner[i] = "app"
  /\ owner' = [owner EXCEPT ![i] = "free"]
  /\ UNCHANGED turn

\* The display is done with a slot, in any order.
Release(i) ==
  /\ owner[i] = "display"
  /\ owner' = [owner EXCEPT ![i] = "free"]
  /\ UNCHANGED turn

Next == \E i \in Slots : Acquire(i) \/ Present(i) \/ Revoke(i) \/ Release(i)

Spec == Init /\ [][Next]_vars

============================================================================
