--------------------------- MODULE PresentTiming ---------------------------
(***************************************************************************)
(* wlvk::Stats: what presentation_presented and presentation_discarded     *)
(* make of their arguments, as operators on a StatsAccum.  FrameLoop       *)
(* applies them when it dispatches the events.                             *)
(***************************************************************************)
EXTENDS Naturals, Sequences, FiniteSets

CONSTANTS
  Times,      \* timestamps of the presentation clock
  Refreshes   \* refresh durations, 0 when unknown

ASSUME TimingAssumption ==
  /\ Times \subseteq Nat \ {0} /\ Times # {}
  /\ Refreshes \subseteq Nat /\ Refreshes # {}

\* The members of StatsAccum, less their _ns.  gaps is not one of them: it is
\* the history the properties compare the others with.
StatsAccum ==
  [presented : Nat, discarded : Nat, late : Nat,
   last_tv   : Nat,      \* the timestamp of the last presented frame, or 0
   min_gap   : Nat, max_gap : Nat,
   gaps      : Seq([gap : Nat, refresh : Nat])]

NoStats == [presented |-> 0, discarded |-> 0, late |-> 0, last_tv |-> 0,
            min_gap |-> 0, max_gap |-> 0, gaps |-> <<>>]

\* The new minimum.
ShorterKept(s, gap) == IF gap < s.min_gap THEN gap ELSE s.min_gap   \* mutant

Shorter(s, gap) == IF s.min_gap = 0 \/ gap < s.min_gap THEN gap ELSE s.min_gap

LateAtLimit(gap, refresh) ==                                        \* mutant
  refresh > 0 /\ gap >= (refresh * 3) \div 2

Late(gap, refresh) == refresh > 0 /\ gap > (refresh * 3) \div 2

Measured(s, gap, refresh) ==
  [s EXCEPT !.min_gap = Shorter(s, gap),
            !.max_gap = IF gap > s.max_gap THEN gap ELSE s.max_gap,
            !.late    = IF Late(gap, refresh) THEN s.late + 1 ELSE s.late,
            !.gaps    = Append(s.gaps, [gap |-> gap, refresh |-> refresh])]

\* presentation_presented: the first presented frame leaves no gap behind it.
Presented(s, tv, refresh) ==
  [(IF s.last_tv = 0 THEN s ELSE Measured(s, tv - s.last_tv, refresh))
     EXCEPT !.last_tv = tv, !.presented = s.presented + 1]

\* presentation_discarded.
Discarded(s) == [s EXCEPT !.discarded = s.discarded + 1]

----------------------------------------------------------------------------
(* What a StatsAccum ought to say of its history.                          *)

\* The gaps measured since two frames last had the same timestamp.
SinceTie(s) ==
  {k \in DOMAIN s.gaps : \A j \in k .. Len(s.gaps) : s.gaps[j].gap # 0}

\* min_gap is the least gap since two presented frames last shared a timestamp,
\* as 0 also stands for "not set", and max_gap the greatest of all.
GapsSummarised(s) ==
  /\ IF SinceTie(s) = {}
     THEN s.min_gap = 0
     ELSE /\ \A k \in SinceTie(s) : s.min_gap <= s.gaps[k].gap
          /\ \E k \in SinceTie(s) : s.min_gap = s.gaps[k].gap
  /\ \A k \in DOMAIN s.gaps : s.gaps[k].gap <= s.max_gap
  /\ s.max_gap # 0 => \E k \in DOMAIN s.gaps : s.max_gap = s.gaps[k].gap

\* Every presented frame but the first was measured, and late counts the ones
\* more than one and a half refresh durations after their predecessor, in exact
\* arithmetic; a frame whose refresh duration is unknown is never late.
LateCounted(s) ==
  LET Overdue == {k \in DOMAIN s.gaps : s.gaps[k].refresh > 0
                                          /\ 2 * s.gaps[k].gap > 3 * s.gaps[k].refresh}
  IN  /\ s.late = Cardinality(Overdue)
      /\ Len(s.gaps) = IF s.presented = 0 THEN 0 ELSE s.presented - 1

============================================================================
