-------------------------- MODULE ResourcesProofs --------------------------
(***************************************************************************)
(* For every number of buffers, of rebuilds and of feedback objects, and   *)
(* wherever rebuilds fail: each handle has one owner, and ~Impl releases   *)
(* every one once, what was made from a handle before it, except the       *)
(* decoration.                                                             *)
(***************************************************************************)
EXTENDS Resources, SequenceFacts

----------------------------------------------------------------------------
(* Lists of handles.                                                       *)

\* s lists each handle of a set once; all are of these kinds.
Lists(s, handles, kinds) ==
  /\ s \in Seq(Handles)
  /\ IsInjective(s)
  /\ ToSet(s) = handles
  /\ \A h \in handles : h[1] \in kinds

\* What a handle was made from and ~Impl releases after it: of its parents all but
\* the toplevel of the decoration.
Outliving(kind) == IF kind = "decoration" THEN Parents(kind) \ {"toplevel"} ELSE Parents(kind)

\* Nothing in s comes after what is to outlive it.
Orderly(s) ==
  \A j, k \in DOMAIN s : \A kind \in Outliving(s[j][1]) : s[k] = <<kind>> => j < k

LEMMA NoneListed == Lists(<<>>, {}, {})
<1>1. <<>> \in Seq(Handles) /\ DOMAIN <<>> = {}
  BY EmptySeq
<1> QED BY <1>1 DEF Lists, IsInjective, ToSet

LEMMA OneListed ==
  ASSUME NEW h \in Handles
  PROVE  Lists(<<h>>, {h}, {h[1]})
<1>1. <<h>> \in Seq(Handles) /\ DOMAIN <<h>> = {1} /\ <<h>>[1] = h
  OBVIOUS
<1> QED BY <1>1 DEF Lists, IsInjective, ToSet

LEMMA JoinApart ==
  ASSUME NEW s, NEW A, NEW J, NEW t, NEW B, NEW K,
         Lists(s, A, J), Lists(t, B, K), A \cap B = {}
  PROVE  Lists(s \o t, A \cup B, J \cup K)
BY ConcatFacts DEF Lists

LEMMA JoinLists ==
  ASSUME NEW s, NEW A, NEW J, NEW t, NEW B, NEW K,
         Lists(s, A, J), Lists(t, B, K), J \cap K = {}
  PROVE  Lists(s \o t, A \cup B, J \cup K)
<1>1. A \cap B = {}
  BY DEF Lists
<1> QED BY <1>1, JoinApart

\* Kinds that are not made from one another may come in any order.
LEMMA AnyOrder ==
  ASSUME NEW s, NEW A, NEW K, Lists(s, A, K),
         \A k \in K : Outliving(k) \cap K = {}
  PROVE  Orderly(s)
<1> SUFFICES ASSUME NEW j \in DOMAIN s, NEW k \in DOMAIN s,
                    NEW kind \in Outliving(s[j][1]), s[k] = <<kind>>
             PROVE  FALSE
  BY DEF Orderly
<1>1. s[j] \in A /\ s[k] \in A
  BY DEF Lists, ToSet
<1>2. s[j][1] \in K /\ s[k][1] \in K /\ s[k][1] = kind
  BY <1>1 DEF Lists
<1> QED BY <1>2

\* Two orderly lists are one, unless the first has what the second was made from.
LEMMA JoinOrderly ==
  ASSUME NEW s, NEW A, NEW J, NEW t, NEW B, NEW K,
         Lists(s, A, J), Lists(t, B, K), Orderly(s), Orderly(t),
         \A k \in K : Outliving(k) \cap J = {}
  PROVE  Orderly(s \o t)
<1>1. /\ s \in Seq(Handles) /\ t \in Seq(Handles)
      /\ Len(s) \in Nat /\ Len(t) \in Nat
      /\ DOMAIN s = 1 .. Len(s) /\ DOMAIN t = 1 .. Len(t)
  BY LenProperties DEF Lists
<1> DEFINE r == s \o t
<1>2. /\ r \in Seq(Handles) /\ Len(r) = Len(s) + Len(t)
      /\ \A i \in 1 .. Len(s) + Len(t) :
           r[i] = IF i <= Len(s) THEN s[i] ELSE t[i - Len(s)]
  BY <1>1, ConcatProperties
<1>3. DOMAIN r = 1 .. Len(s) + Len(t)
  BY <1>2, LenProperties
<1> HIDE DEF r
<1>4. ASSUME NEW i \in DOMAIN r
      PROVE  \/ i \in DOMAIN s /\ r[i] = s[i]
             \/ i - Len(s) \in DOMAIN t /\ r[i] = t[i - Len(s)]
  BY <1>1, <1>2, <1>3
<1> SUFFICES ASSUME NEW j \in DOMAIN r, NEW k \in DOMAIN r,
                    NEW kind \in Outliving(r[j][1]), r[k] = <<kind>>
             PROVE  j < k
  BY DEF Orderly, r
<1>5. j \in Int /\ k \in Int
  BY <1>1, <1>3
<1>6. CASE j \in DOMAIN s /\ r[j] = s[j] /\ k \in DOMAIN s /\ r[k] = s[k]
  BY <1>6 DEF Orderly
<1>7. CASE /\ j - Len(s) \in DOMAIN t /\ r[j] = t[j - Len(s)]
           /\ k - Len(s) \in DOMAIN t /\ r[k] = t[k - Len(s)]
  <2>1. j - Len(s) < k - Len(s)
    BY <1>7 DEF Orderly
  <2> QED BY <1>1, <1>5, <2>1
<1>8. CASE j \in DOMAIN s /\ k - Len(s) \in DOMAIN t
  BY <1>1, <1>5, <1>8
<1>9. CASE /\ j - Len(s) \in DOMAIN t /\ r[j] = t[j - Len(s)]
           /\ k \in DOMAIN s /\ r[k] = s[k]
  <2>1. t[j - Len(s)] \in B /\ s[k] \in A
    BY <1>9 DEF Lists, ToSet
  <2>2. r[j][1] \in K /\ r[k][1] \in J /\ r[k][1] = kind
    BY <1>9, <2>1 DEF Lists
  <2> QED BY <2>2
<1> QED BY <1>4, <1>6, <1>7, <1>8, <1>9


LEMMA SlotsType ==
  /\ BufferCount \in Nat \ {0} /\ MaxBuilds \in Nat \ {0} /\ MaxFeedback \in Nat
  /\ \A i \in Slots : i \in Nat /\ i + 1 \in 1 .. BufferCount /\ (i + 1) - 1 = i
  /\ \A k \in 1 .. BufferCount : k - 1 \in Slots /\ (k - 1) + 1 = k
BY ResourcesAssumption DEF Slots

\* PerSlot joins a sequence for each slot.
LEMMA PerSlotFacts ==
  ASSUME NEW f, \A i \in Slots : f[i] \in Seq(Handles)
  PROVE  /\ PerSlot(f) \in Seq(Handles)
         /\ ToSet(PerSlot(f)) = UNION {ToSet(f[i]) : i \in Slots}
         /\ /\ \A i \in Slots : IsInjective(f[i])
            /\ \A i, j \in Slots : i # j => ToSet(f[i]) \cap ToSet(f[j]) = {}
            => IsInjective(PerSlot(f))
<1> DEFINE seqs == [k \in 1 .. BufferCount |-> f[k - 1]]
<1>1. seqs \in Seq(Seq(Handles)) /\ Len(seqs) = BufferCount
  <2>1. \A k \in 1 .. BufferCount : seqs[k] \in Seq(Handles)
    BY SlotsType
  <2> QED BY <2>1, SlotsType, IsASeq
<1>2. \A k \in 1 .. BufferCount : k - 1 \in Slots /\ seqs[k] = f[k - 1]
  BY SlotsType
<1>3. PerSlot(f) = FlattenSeq(seqs)
  BY DEF PerSlot
<1> HIDE DEF seqs
<1>4. UNION {ToSet(seqs[k]) : k \in 1 .. BufferCount} = UNION {ToSet(f[i]) : i \in Slots}
  <2>1. ASSUME NEW k \in 1 .. BufferCount
        PROVE  \E i \in Slots : ToSet(seqs[k]) = ToSet(f[i])
    BY <1>2
  <2>2. ASSUME NEW i \in Slots
        PROVE  \E k \in 1 .. BufferCount : ToSet(seqs[k]) = ToSet(f[i])
    <3>1. i + 1 \in 1 .. BufferCount /\ (i + 1) - 1 = i
      BY SlotsType
    <3> QED BY <1>2, <3>1
  <2> QED BY <2>1, <2>2
<1>5. ASSUME \A i \in Slots : IsInjective(f[i]),
             \A i, j \in Slots : i # j => ToSet(f[i]) \cap ToSet(f[j]) = {}
      PROVE  IsInjective(FlattenSeq(seqs))
  <2>1. \A k \in 1 .. BufferCount : IsInjective(seqs[k])
    BY <1>2, <1>5
  <2>2. \A j, k \in 1 .. BufferCount : j # k => ToSet(seqs[j]) \cap ToSet(seqs[k]) = {}
    <3> SUFFICES ASSUME NEW j \in 1 .. BufferCount, NEW k \in 1 .. BufferCount, j # k
                 PROVE  ToSet(seqs[j]) \cap ToSet(seqs[k]) = {}
      OBVIOUS
    <3>1. j - 1 # k - 1
      BY SlotsType
    <3> QED BY <1>2, <1>5, <3>1
  <2> QED BY <1>1, <2>1, <2>2, FlattenFacts
<1> QED BY <1>1, <1>3, <1>4, <1>5, FlattenFacts

\* A list for each slot is a list for all of them, if they are apart.
LEMMA PerSlotLists ==
  ASSUME NEW f, NEW H, NEW K,
         \A i \in Slots : Lists(f[i], H[i], K),
         \A i, j \in Slots : i # j => H[i] \cap H[j] = {}
  PROVE  Lists(PerSlot(f), UNION {H[i] : i \in Slots}, K)
<1>1. \A i \in Slots : f[i] \in Seq(Handles) /\ IsInjective(f[i]) /\ ToSet(f[i]) = H[i]
  BY DEF Lists
<1>2. UNION {ToSet(f[i]) : i \in Slots} = UNION {H[i] : i \in Slots}
  BY <1>1
<1>3. \A h \in UNION {H[i] : i \in Slots} : h[1] \in K
  BY DEF Lists
<1>4. \A i, j \in Slots : i # j => ToSet(f[i]) \cap ToSet(f[j]) = {}
  BY <1>1
<1> QED BY <1>1, <1>2, <1>3, <1>4, PerSlotFacts DEF Lists

----------------------------------------------------------------------------
(* The handles of a slot and of a retired entry.                           *)

LEMMA HandleTypes ==
  /\ \A kind \in WindowKinds : <<kind>> \in Handles
  /\ \A kind \in SlotKinds, i \in Slots : <<kind, i>> \in Handles
  /\ \A p \in Parts, i \in Slots, b \in 1 .. MaxBuilds : <<p, i, b>> \in Handles
  /\ \A n \in 1 .. MaxFeedback : <<"feedback", n>> \in Handles
BY DEF Handles

\* The parts that refs, the members of slot i or of an entry for it, refer to.
PartsHeld(i, refs) == {<<p, i, refs[p]>> : p \in {q \in Parts : refs[q] # None}}

LEMMA OnePart ==
  ASSUME NEW p \in Parts, NEW i \in Slots, NEW b \in 0 .. MaxBuilds
  PROVE  Lists(IF b = None THEN <<>> ELSE << <<p, i, b>> >>,
               {<<p, i, c>> : c \in {b} \ {None}}, {p})
<1>1. CASE b = None
  <2>1. {<<p, i, c>> : c \in {b} \ {None}} = {}
    BY <1>1
  <2>2. Lists(<<>>, {}, {p})
    BY NoneListed DEF Lists
  <2> QED BY <1>1, <2>1, <2>2
<1>2. CASE b # None
  <2>1. {<<p, i, c>> : c \in {b} \ {None}} = {<<p, i, b>>}
    BY <1>2
  <2>2. <<p, i, b>> \in Handles
    BY <1>2, SlotsType, HandleTypes DEF None
  <2>3. <<p, i, b>>[1] = p
    OBVIOUS
  <2> QED BY <1>2, <2>1, <2>2, <2>3, OneListed
<1> QED BY <1>1, <1>2

LEMMA PartsHeldParts ==
  ASSUME NEW i, NEW refs
  PROVE  PartsHeld(i, refs) =
           {<<"buffer", i, c>> : c \in {refs["buffer"]} \ {None}}
           \cup {<<"image", i, c>> : c \in {refs["image"]} \ {None}}
           \cup {<<"dma_buf_fd", i, c>> : c \in {refs["dma_buf_fd"]} \ {None}}
BY DEF PartsHeld, Parts

LEMMA RetiredEntryLists ==
  ASSUME NEW entry, entry.slot \in Slots, entry.parts \in PartRefs
  PROVE  Lists(RetiredEntry(entry), PartsHeld(entry.slot, entry.parts), Parts)
<1> DEFINE Set(p) == {<<p, entry.slot, c>> : c \in {entry.parts[p]} \ {None}}
<1>1. ASSUME NEW p \in Parts
      PROVE  Lists(EntryPart(entry, p), Set(p), {p})
  <2>1. entry.parts[p] \in 0 .. MaxBuilds
    BY DEF PartRefs
  <2> QED BY <2>1, OnePart DEF EntryPart
<1> HIDE DEF Set
<1>2. /\ Lists(EntryPart(entry, "buffer"), Set("buffer"), {"buffer"})
      /\ Lists(EntryPart(entry, "image"), Set("image"), {"image"})
      /\ Lists(EntryPart(entry, "dma_buf_fd"), Set("dma_buf_fd"), {"dma_buf_fd"})
  BY <1>1 DEF Parts
<1>3. Lists(EntryPart(entry, "buffer") \o EntryPart(entry, "image"),
            Set("buffer") \cup Set("image"), {"buffer"} \cup {"image"})
  BY <1>2, JoinLists
<1>4. Lists(RetiredEntry(entry), (Set("buffer") \cup Set("image")) \cup Set("dma_buf_fd"),
            ({"buffer"} \cup {"image"}) \cup {"dma_buf_fd"})
  BY <1>2, <1>3, JoinLists DEF RetiredEntry
<1>5. ({"buffer"} \cup {"image"}) \cup {"dma_buf_fd"} = Parts
  BY DEF Parts
<1>6. (Set("buffer") \cup Set("image")) \cup Set("dma_buf_fd")
        = PartsHeld(entry.slot, entry.parts)
  BY PartsHeldParts DEF Set
<1> QED BY <1>4, <1>5, <1>6


Lasting == SlotKinds \ Transient

\* What ~Impl releases of a slot.
SlotHandles(i) ==
  {<<"feedback", n>> : n \in {feedback[i]} \ {None}}
  \cup PartsHeld(i, slots[i])
  \cup {<<kind, i>> : kind \in Lasting}

LEMMA OneOfSlot ==
  ASSUME NEW kind \in SlotKinds, NEW i \in Slots
  PROVE  Lists(<< <<kind, i>> >>, {<<kind, i>>}, {kind})
<1>1. <<kind, i>> \in Handles /\ <<kind, i>>[1] = kind
  BY HandleTypes
<1> QED BY <1>1, OneListed

LEMMA TwoOfSlot ==
  ASSUME NEW j \in SlotKinds, NEW k \in SlotKinds, j # k, NEW i \in Slots
  PROVE  Lists(<< <<j, i>>, <<k, i>> >>, {<<j, i>>, <<k, i>>}, {j, k})
<1>1. << <<j, i>>, <<k, i>> >> = << <<j, i>> >> \o << <<k, i>> >>
  OBVIOUS
<1>2. Lists(<< <<j, i>> >> \o << <<k, i>> >>, {<<j, i>>} \cup {<<k, i>>}, {j} \cup {k})
  <2>1. {j} \cap {k} = {}
    OBVIOUS
  <2> QED BY <2>1, OneOfSlot, JoinLists
<1>3. {<<j, i>>} \cup {<<k, i>>} = {<<j, i>>, <<k, i>>} /\ {j} \cup {k} = {j, k}
  OBVIOUS
<1> QED BY <1>1, <1>2, <1>3

LEMMA FeedbackLists ==
  ASSUME NEW n \in 0 .. MaxFeedback
  PROVE  Lists(IF n = None THEN <<>> ELSE << <<"feedback", n>> >>,
               {<<"feedback", m>> : m \in {n} \ {None}}, {"feedback"})
<1>1. CASE n = None
  <2>1. {<<"feedback", m>> : m \in {n} \ {None}} = {}
    BY <1>1
  <2>2. Lists(<<>>, {}, {"feedback"})
    BY NoneListed DEF Lists
  <2> QED BY <1>1, <2>1, <2>2
<1>2. CASE n # None
  <2>1. {<<"feedback", m>> : m \in {n} \ {None}} = {<<"feedback", n>>}
    BY <1>2
  <2>2. <<"feedback", n>> \in Handles
    BY <1>2, SlotsType, HandleTypes DEF None
  <2>3. <<"feedback", n>>[1] = "feedback"
    OBVIOUS
  <2> QED BY <1>2, <2>1, <2>2, <2>3, OneListed
<1> QED BY <1>1, <1>2

SlotOrderKinds == {"feedback"} \cup Parts \cup Lasting

LEMMA SlotOrderLists ==
  ASSUME NEW i \in Slots, feedback[i] \in 0 .. MaxFeedback, slots[i] \in PartRefs
  PROVE  Lists(SlotOrder(i), SlotHandles(i), SlotOrderKinds)
<1> DEFINE Set(p) == {<<p, i, c>> : c \in {slots[i][p]} \ {None}}
           F == {<<"feedback", n>> : n \in {feedback[i]} \ {None}}
           f == IF feedback[i] = None THEN <<>> ELSE << <<"feedback", feedback[i]>> >>
           At == "acquire_timeline"
           Rt == "release_timeline"
           As == "acquire_syncobj"
           Rs == "release_syncobj"
           T == {<<At, i>>, <<Rt, i>>}
           Y == {<<As, i>>, <<Rs, i>>}
           R == {<<"render_fence", i>>}
<1>1. Lists(f, F, {"feedback"})
  BY FeedbackLists
<1>2. ASSUME NEW p \in Parts
      PROVE  Lists(PartOf(i, p), Set(p), {p})
  <2>1. slots[i][p] \in 0 .. MaxBuilds
    BY DEF PartRefs
  <2> QED BY <2>1, OnePart DEF PartOf
<1>3. /\ Lists(PartOf(i, "buffer"), Set("buffer"), {"buffer"})
      /\ Lists(PartOf(i, "image"), Set("image"), {"image"})
      /\ Lists(PartOf(i, "dma_buf_fd"), Set("dma_buf_fd"), {"dma_buf_fd"})
  BY <1>2 DEF Parts
<1>4. Lists(<< <<At, i>>, <<Rt, i>> >>, T, {At, Rt})
  BY TwoOfSlot DEF SlotKinds
<1>5. Lists(<< <<As, i>>, <<Rs, i>> >>, Y, {As, Rs})
  BY TwoOfSlot DEF SlotKinds
<1>6. Lists(<< <<"render_fence", i>> >>, R, {"render_fence"})
  BY OneOfSlot DEF SlotKinds
<1> HIDE DEF f, F, Set, T, Y, R
<1>7. Lists(f \o PartOf(i, "buffer"), F \cup Set("buffer"), {"feedback", "buffer"})
  <2>1. Lists(f \o PartOf(i, "buffer"), F \cup Set("buffer"), {"feedback"} \cup {"buffer"})
    BY <1>1, <1>3, JoinLists
  <2>2. {"feedback"} \cup {"buffer"} = {"feedback", "buffer"}
    OBVIOUS
  <2> QED BY <2>1, <2>2
<1>8. Lists(f \o PartOf(i, "buffer") \o << <<At, i>>, <<Rt, i>> >>,
            F \cup Set("buffer") \cup T, {"feedback", "buffer", At, Rt})
  <2>1. {"feedback", "buffer"} \cap {At, Rt} = {}
    OBVIOUS
  <2>2. {"feedback", "buffer"} \cup {At, Rt} = {"feedback", "buffer", At, Rt}
    OBVIOUS
  <2>3. Lists(f \o PartOf(i, "buffer") \o << <<At, i>>, <<Rt, i>> >>,
              F \cup Set("buffer") \cup T, {"feedback", "buffer"} \cup {At, Rt})
    BY <1>4, <1>7, <2>1, JoinLists
  <2> QED BY <2>2, <2>3
<1>9. Lists(f \o PartOf(i, "buffer") \o << <<At, i>>, <<Rt, i>> >>
              \o << <<As, i>>, <<Rs, i>> >>,
            F \cup Set("buffer") \cup T \cup Y, {"feedback", "buffer", At, Rt, As, Rs})
  <2>1. {"feedback", "buffer", At, Rt} \cap {As, Rs} = {}
    OBVIOUS
  <2>2. {"feedback", "buffer", At, Rt} \cup {As, Rs} = {"feedback", "buffer", At, Rt, As, Rs}
    OBVIOUS
  <2>3. Lists(f \o PartOf(i, "buffer") \o << <<At, i>>, <<Rt, i>> >>
                \o << <<As, i>>, <<Rs, i>> >>,
              F \cup Set("buffer") \cup T \cup Y,
              {"feedback", "buffer", At, Rt} \cup {As, Rs})
    BY <1>5, <1>8, <2>1, JoinLists
  <2> QED BY <2>2, <2>3
<1> DEFINE early == f \o PartOf(i, "buffer") \o << <<At, i>>, <<Rt, i>> >>
                      \o << <<As, i>>, <<Rs, i>> >>
           E == F \cup Set("buffer") \cup T \cup Y
           K == {"feedback", "buffer", At, Rt, As, Rs}
<1>10. Lists(early \o PartOf(i, "dma_buf_fd"), E \cup Set("dma_buf_fd"),
             K \cup {"dma_buf_fd"})
  <2>1. K \cap {"dma_buf_fd"} = {}
    OBVIOUS
  <2> HIDE DEF early, E, K
  <2> QED BY <1>3, <1>9, <2>1, JoinLists DEF early, E, K
<1>11. Lists(early \o PartOf(i, "dma_buf_fd") \o << <<"render_fence", i>> >>,
             E \cup Set("dma_buf_fd") \cup R, K \cup {"dma_buf_fd"} \cup {"render_fence"})
  <2>1. (K \cup {"dma_buf_fd"}) \cap {"render_fence"} = {}
    OBVIOUS
  <2> HIDE DEF early, E, K
  <2> QED BY <1>6, <1>10, <2>1, JoinLists
<1>12. Lists(early \o PartOf(i, "dma_buf_fd") \o << <<"render_fence", i>> >>
               \o PartOf(i, "image"),
             E \cup Set("dma_buf_fd") \cup R \cup Set("image"),
             K \cup {"dma_buf_fd"} \cup {"render_fence"} \cup {"image"})
  <2>1. (K \cup {"dma_buf_fd"} \cup {"render_fence"}) \cap {"image"} = {}
    OBVIOUS
  <2> HIDE DEF early, E, K
  <2> QED BY <1>3, <1>11, <2>1, JoinLists
<1>13. SlotOrder(i) = early \o PartOf(i, "dma_buf_fd") \o << <<"render_fence", i>> >>
                        \o PartOf(i, "image")
  BY DEF SlotOrder, f
<1>14. Lasting = {At, Rt, As, Rs, "render_fence"}
  BY DEF Lasting, SlotKinds, Transient
<1>15. K \cup {"dma_buf_fd"} \cup {"render_fence"} \cup {"image"} = SlotOrderKinds
  BY <1>14 DEF SlotOrderKinds, Parts
<1>16. {<<kind, i>> : kind \in Lasting} = T \cup Y \cup R
  BY <1>14 DEF T, Y, R
<1>17. E \cup Set("dma_buf_fd") \cup R \cup Set("image") = SlotHandles(i)
  BY <1>16, PartsHeldParts DEF SlotHandles, F, Set
<1> QED BY <1>12, <1>13, <1>15, <1>17


----------------------------------------------------------------------------
(* What the constructor acquires.                                          *)

\* s is made of these handles.
Covers(s, handles) == s \in Seq(Handles) /\ ToSet(s) = handles

LEMMA JoinCovers ==
  ASSUME NEW s, NEW A, NEW t, NEW B, Covers(s, A), Covers(t, B)
  PROVE  Covers(s \o t, A \cup B)
BY ConcatFacts DEF Covers

PartHandles(build) == {<<p, i, build>> : p \in Parts, i \in Slots}

LEMMA PartsOfSlotCovers ==
  ASSUME NEW i \in Slots, NEW build \in 1 .. MaxBuilds
  PROVE  Covers(PartsOfSlot(i, build), {<<p, i, build>> : p \in Parts})
<1> DEFINE a == <<"image", i, build>>
           b == <<"dma_buf_fd", i, build>>
           c == <<"buffer", i, build>>
<1>1. a \in Handles /\ b \in Handles /\ c \in Handles
  BY HandleTypes DEF Parts
<1>2. {<<p, i, build>> : p \in Parts} = {a, b, c}
  BY DEF Parts
<1>3. PartsOfSlot(i, build) = <<a, b, c>>
  BY DEF PartsOfSlot
<1> HIDE DEF a, b, c
<1>4. Covers(<<a, b, c>>, {a, b, c})
  BY <1>1 DEF Covers, ToSet
<1> QED BY <1>2, <1>3, <1>4

LEMMA BuildOrderCovers ==
  ASSUME NEW build \in 1 .. MaxBuilds
  PROVE  Covers(BuildOrder(build), PartHandles(build))
<1> DEFINE f == [i \in Slots |-> PartsOfSlot(i, build)]
<1>1. \A i \in Slots : f[i] \in Seq(Handles) /\ ToSet(f[i]) = {<<p, i, build>> : p \in Parts}
  BY PartsOfSlotCovers DEF Covers
<1>2. BuildOrder(build) = PerSlot(f)
  BY DEF BuildOrder
<1> HIDE DEF f
<1>3. UNION {ToSet(f[i]) : i \in Slots} = PartHandles(build)
  <2>1. \A i \in Slots : \A h : h \in ToSet(f[i]) <=> \E p \in Parts : h = <<p, i, build>>
    BY <1>1
  <2> QED BY <2>1 DEF PartHandles
<1> QED BY <1>1, <1>2, <1>3, PerSlotFacts DEF Covers

LEMMA SetupOrderCovers ==
  ASSUME NEW i \in Slots
  PROVE  Covers(SetupOrder(i), {<<kind, i>> : kind \in SlotKinds})
<1> DEFINE a == <<"acquire_syncobj", i>>
           b == <<"acquire_fd", i>>
           c == <<"acquire_timeline", i>>
           d == <<"release_syncobj", i>>
           e == <<"release_fd", i>>
           f == <<"release_timeline", i>>
           g == <<"render_fence", i>>
<1>1. /\ a \in Handles /\ b \in Handles /\ c \in Handles /\ d \in Handles
      /\ e \in Handles /\ f \in Handles /\ g \in Handles
  BY HandleTypes DEF SlotKinds
<1>2. {<<kind, i>> : kind \in SlotKinds} = {a, b, c, d, e, f, g}
  BY DEF SlotKinds
<1>3. SetupOrder(i) = <<a, b, c, d, e, f, g>>
  BY DEF SetupOrder
<1> HIDE DEF a, b, c, d, e, f, g
<1>4. Covers(<<a, b, c, d, e, f, g>>, {a, b, c, d, e, f, g})
  BY <1>1 DEF Covers, ToSet
<1> QED BY <1>2, <1>3, <1>4

SetupHandles == {<<kind, i>> : kind \in SlotKinds, i \in Slots}

LEMMA SetupCovers == Covers(PerSlot([i \in Slots |-> SetupOrder(i)]), SetupHandles)
<1> DEFINE f == [i \in Slots |-> SetupOrder(i)]
<1>1. \A i \in Slots : f[i] \in Seq(Handles) /\ ToSet(f[i]) = {<<kind, i>> : kind \in SlotKinds}
  BY SetupOrderCovers DEF Covers
<1> HIDE DEF f
<1>2. UNION {ToSet(f[i]) : i \in Slots} = SetupHandles
  <2>1. \A i \in Slots : \A h : h \in ToSet(f[i]) <=> \E kind \in SlotKinds : h = <<kind, i>>
    BY <1>1
  <2> QED BY <2>1 DEF SetupHandles
<1>3. Covers(PerSlot(f), SetupHandles)
  BY <1>1, <1>2, PerSlotFacts DEF Covers
<1> QED BY <1>3 DEF f


\* The kinds this window is without, and those it has as long as it is open.
Lacking ==
  (IF "presentation" \in options THEN {} ELSE {"presentation"})
  \cup (IF "decoration" \in options THEN {} ELSE {"decoration_manager", "decoration"})
  \cup (IF "debug_messenger" \in options THEN {} ELSE {"debug_messenger"})

Had == WindowKinds \ (Lacking \cup {"frame_callback"})

Solo(kinds) == {<<kind>> : kind \in kinds}

Built == Solo(Had) \cup PartHandles(1) \cup SetupHandles

LEMMA IfCovers ==
  ASSUME NEW option, NEW s, NEW A, Covers(s, A)
  PROVE  Covers(If(option, s), IF option \in options THEN A ELSE {})
<1>1. Covers(<<>>, {})
  BY NoneListed DEF Covers, Lists
<1> QED BY <1>1 DEF If

\* The constructor acquires what Built says, and syncobj_surface last.
LEMMA ConstructionCovers ==
  /\ Covers(ConstructionOrder, Built)
  /\ ConstructionOrder # <<>>
  /\ ConstructionOrder[Len(ConstructionOrder)] = <<"syncobj_surface">>
  /\ \A k \in 1 .. Len(ConstructionOrder) - 1 :
       ConstructionOrder[k] # <<"syncobj_surface">>
<1> DEFINE A == << <<"display">>, <<"registry">>, <<"compositor">>, <<"wm_base">>,
                   <<"dmabuf">>, <<"syncobj_manager">> >>
           B == << <<"presentation">> >>
           C == << <<"decoration_manager">> >>
           D == << <<"surface">>, <<"xdg_surface">>, <<"toplevel">> >>
           E == << <<"decoration">> >>
           F == << <<"instance">> >>
           G == << <<"debug_messenger">> >>
           I == << <<"default_feedback">>, <<"device">>, <<"allocator">>, <<"drm_fd">>,
                   <<"dmabuf_pool">> >>
           S == PerSlot([i \in Slots |-> SetupOrder(i)])
           KA == {"display", "registry", "compositor", "wm_base", "dmabuf", "syncobj_manager"}
           KD == {"surface", "xdg_surface", "toplevel"}
           KI == {"default_feedback", "device", "allocator", "drm_fd", "dmabuf_pool"}
           When(option, kinds) == IF option \in options THEN Solo(kinds) ELSE {}
           last == << <<"syncobj_surface">> >>
<1>1. Covers(A, Solo(KA))
  <2>1. /\ <<"display">> \in Handles /\ <<"registry">> \in Handles
        /\ <<"compositor">> \in Handles /\ <<"wm_base">> \in Handles
        /\ <<"dmabuf">> \in Handles /\ <<"syncobj_manager">> \in Handles
    BY HandleTypes DEF WindowKinds
  <2> QED BY <2>1 DEF Covers, ToSet, Solo
<1>2. Covers(D, Solo(KD))
  <2>1. <<"surface">> \in Handles /\ <<"xdg_surface">> \in Handles /\ <<"toplevel">> \in Handles
    BY HandleTypes DEF WindowKinds
  <2> QED BY <2>1 DEF Covers, ToSet, Solo
<1>3. Covers(I, Solo(KI))
  <2>1. /\ <<"default_feedback">> \in Handles /\ <<"device">> \in Handles
        /\ <<"allocator">> \in Handles /\ <<"drm_fd">> \in Handles
        /\ <<"dmabuf_pool">> \in Handles
    BY HandleTypes DEF WindowKinds
  <2> QED BY <2>1 DEF Covers, ToSet, Solo
<1>4. ASSUME NEW kind \in WindowKinds
      PROVE  Covers(<< <<kind>> >>, Solo({kind}))
  <2>1. <<kind>> \in Handles
    BY HandleTypes
  <2> QED BY <2>1 DEF Covers, ToSet, Solo
<1>5. /\ Covers(B, Solo({"presentation"})) /\ Covers(C, Solo({"decoration_manager"}))
      /\ Covers(E, Solo({"decoration"})) /\ Covers(F, Solo({"instance"}))
      /\ Covers(G, Solo({"debug_messenger"})) /\ Covers(last, Solo({"syncobj_surface"}))
  BY <1>4 DEF WindowKinds
<1>6. Covers(BuildOrder(1), PartHandles(1))
  BY SlotsType, BuildOrderCovers
<1>7. Covers(S, SetupHandles)
  BY SetupCovers
<1> HIDE DEF A, B, C, D, E, F, G, I, S, KA, KD, KI, last
<1>8. /\ Covers(If("presentation", B), When("presentation", {"presentation"}))
      /\ Covers(If("decoration", C), When("decoration", {"decoration_manager"}))
      /\ Covers(If("decoration", E), When("decoration", {"decoration"}))
      /\ Covers(If("debug_messenger", G), When("debug_messenger", {"debug_messenger"}))
  BY <1>5, IfCovers
<1> HIDE DEF When
<1> DEFINE front == A \o If("presentation", B) \o If("decoration", C) \o D
                      \o If("decoration", E) \o F \o If("debug_messenger", G) \o I
                      \o BuildOrder(1) \o S
           H == Solo(KA) \cup When("presentation", {"presentation"})
                  \cup When("decoration", {"decoration_manager"}) \cup Solo(KD)
                  \cup When("decoration", {"decoration"}) \cup Solo({"instance"})
                  \cup When("debug_messenger", {"debug_messenger"}) \cup Solo(KI)
                  \cup PartHandles(1) \cup SetupHandles
<1>9. Covers(front, H)
  <2>1. Covers(A \o If("presentation", B),
               Solo(KA) \cup When("presentation", {"presentation"}))
    BY <1>1, <1>8, JoinCovers
  <2>2. Covers(A \o If("presentation", B) \o If("decoration", C),
               Solo(KA) \cup When("presentation", {"presentation"})
                 \cup When("decoration", {"decoration_manager"}))
    BY <1>8, <2>1, JoinCovers
  <2>3. Covers(A \o If("presentation", B) \o If("decoration", C) \o D,
               Solo(KA) \cup When("presentation", {"presentation"})
                 \cup When("decoration", {"decoration_manager"}) \cup Solo(KD))
    BY <1>2, <2>2, JoinCovers
  <2> DEFINE a == A \o If("presentation", B) \o If("decoration", C) \o D
             h == Solo(KA) \cup When("presentation", {"presentation"})
                    \cup When("decoration", {"decoration_manager"}) \cup Solo(KD)
  <2> HIDE DEF a, h
  <2>4. Covers(a, h)
    BY <2>3 DEF a, h
  <2>5. Covers(a \o If("decoration", E), h \cup When("decoration", {"decoration"}))
    BY <1>8, <2>4, JoinCovers
  <2>6. Covers(a \o If("decoration", E) \o F,
               h \cup When("decoration", {"decoration"}) \cup Solo({"instance"}))
    BY <1>5, <2>5, JoinCovers
  <2>7. Covers(a \o If("decoration", E) \o F \o If("debug_messenger", G),
               h \cup When("decoration", {"decoration"}) \cup Solo({"instance"})
                 \cup When("debug_messenger", {"debug_messenger"}))
    BY <1>8, <2>6, JoinCovers
  <2> DEFINE b == a \o If("decoration", E) \o F \o If("debug_messenger", G)
             j == h \cup When("decoration", {"decoration"}) \cup Solo({"instance"})
                    \cup When("debug_messenger", {"debug_messenger"})
  <2> HIDE DEF b, j
  <2>8. Covers(b, j)
    BY <2>7 DEF b, j
  <2>9. Covers(b \o I, j \cup Solo(KI))
    BY <1>3, <2>8, JoinCovers
  <2>10. Covers(b \o I \o BuildOrder(1), j \cup Solo(KI) \cup PartHandles(1))
    BY <1>6, <2>9, JoinCovers
  <2>11. Covers(b \o I \o BuildOrder(1) \o S,
                j \cup Solo(KI) \cup PartHandles(1) \cup SetupHandles)
    BY <1>7, <2>10, JoinCovers
  <2> QED BY <2>11 DEF a, b, h, j
<1>10. ConstructionOrder = front \o last
  BY DEF ConstructionOrder, A, B, C, D, E, F, G, I, S, last
<1>11. H \cup Solo({"syncobj_surface"}) = Built
  <2>1. Had = KA \cup (IF "presentation" \in options THEN {"presentation"} ELSE {})
              \cup (IF "decoration" \in options THEN {"decoration_manager"} ELSE {}) \cup KD
              \cup (IF "decoration" \in options THEN {"decoration"} ELSE {}) \cup {"instance"}
              \cup (IF "debug_messenger" \in options THEN {"debug_messenger"} ELSE {})
              \cup KI \cup {"syncobj_surface"}
    BY DEF Had, WindowKinds, Lacking, KA, KD, KI
  <2>2. Solo({}) = {}
    BY DEF Solo
  <2>3. ASSUME NEW option, NEW kinds
        PROVE  When(option, kinds) = Solo(IF option \in options THEN kinds ELSE {})
    BY <2>2 DEF When
  <2> DEFINE p == IF "presentation" \in options THEN {"presentation"} ELSE {}
             m == IF "decoration" \in options THEN {"decoration_manager"} ELSE {}
             d == IF "decoration" \in options THEN {"decoration"} ELSE {}
             g == IF "debug_messenger" \in options THEN {"debug_messenger"} ELSE {}
  <2>4. /\ Solo(p) = When("presentation", {"presentation"})
        /\ Solo(m) = When("decoration", {"decoration_manager"})
        /\ Solo(d) = When("decoration", {"decoration"})
        /\ Solo(g) = When("debug_messenger", {"debug_messenger"})
    BY <2>3
  <2> HIDE DEF p, m, d, g
  <2>5. Solo(KA \cup p \cup m \cup KD) = Solo(KA) \cup Solo(p) \cup Solo(m) \cup Solo(KD)
    BY DEF Solo
  <2>6. Solo((KA \cup p \cup m \cup KD) \cup d \cup {"instance"} \cup g)
          = Solo(KA \cup p \cup m \cup KD) \cup Solo(d) \cup Solo({"instance"}) \cup Solo(g)
    BY DEF Solo
  <2>7. Solo((KA \cup p \cup m \cup KD \cup d \cup {"instance"} \cup g)
               \cup KI \cup {"syncobj_surface"})
          = Solo(KA \cup p \cup m \cup KD \cup d \cup {"instance"} \cup g)
              \cup Solo(KI) \cup Solo({"syncobj_surface"})
    BY DEF Solo
  <2>8. Solo(Had) = Solo(KA) \cup Solo(p) \cup Solo(m) \cup Solo(KD)
                  \cup Solo(d) \cup Solo({"instance"}) \cup Solo(g)
                  \cup Solo(KI) \cup Solo({"syncobj_surface"})
    <3>1. Had = KA \cup p \cup m \cup KD \cup d \cup {"instance"} \cup g
                   \cup KI \cup {"syncobj_surface"}
      BY <2>1 DEF p, m, d, g
    <3> QED BY <2>5, <2>6, <2>7, <3>1
  <2> QED BY <2>4, <2>8 DEF Built
<1>12. <<"syncobj_surface">> \notin H
  <2> SUFFICES ASSUME <<"syncobj_surface">> \in H
               PROVE  FALSE
    OBVIOUS
  <2>1. <<"syncobj_surface">>[1] = "syncobj_surface"
    OBVIOUS
  <2>2. ASSUME NEW h \in H
        PROVE  h[1] # "syncobj_surface"
    <3>1. ASSUME NEW kinds, "syncobj_surface" \notin kinds, h \in Solo(kinds)
          PROVE  h[1] # "syncobj_surface"
      BY <3>1 DEF Solo
    <3>2. CASE h \in PartHandles(1) \cup SetupHandles
      BY <3>2 DEF PartHandles, SetupHandles, Parts, SlotKinds
    <3>3. CASE h \in Solo(KA) \cup Solo(KD) \cup Solo(KI) \cup Solo({"instance"})
      <4>1. /\ "syncobj_surface" \notin KA /\ "syncobj_surface" \notin KD
            /\ "syncobj_surface" \notin KI /\ "syncobj_surface" \notin {"instance"}
        BY DEF KA, KD, KI
      <4> QED BY <3>1, <3>3, <4>1
    <3>4. CASE \/ h \in When("presentation", {"presentation"})
               \/ h \in When("decoration", {"decoration_manager"})
               \/ h \in When("decoration", {"decoration"})
               \/ h \in When("debug_messenger", {"debug_messenger"})
      <4>1. \/ h \in Solo({"presentation"}) \/ h \in Solo({"decoration_manager"})
            \/ h \in Solo({"decoration"}) \/ h \in Solo({"debug_messenger"})
        BY <3>4 DEF When
      <4> QED BY <3>1, <4>1
    <3> QED BY <3>2, <3>3, <3>4
  <2> QED BY <2>1, <2>2
<1> HIDE DEF front, H
<1>13. Covers(ConstructionOrder, Built)
  BY <1>5, <1>9, <1>10, <1>11, JoinCovers
<1>14. /\ front \in Seq(Handles) /\ Len(front) \in Nat /\ DOMAIN front = 1 .. Len(front)
       /\ last \in Seq(Handles) /\ Len(last) = 1 /\ last[1] = <<"syncobj_surface">>
  BY <1>5, <1>9, LenProperties DEF Covers, last
<1>15. /\ Len(front \o last) = Len(front) + 1
       /\ \A k \in 1 .. Len(front) + 1 :
            (front \o last)[k] = IF k <= Len(front) THEN front[k] ELSE last[k - Len(front)]
  <2>1. /\ Len(front \o last) = Len(front) + Len(last)
        /\ \A k \in 1 .. Len(front) + Len(last) :
             (front \o last)[k] = IF k <= Len(front) THEN front[k] ELSE last[k - Len(front)]
    BY <1>14, ConcatProperties
  <2> QED BY <1>14, <2>1
<1> DEFINE order == front \o last
<1>16. order \in Seq(Handles) /\ Len(order) = Len(front) + 1 /\ order # <<>>
  <2>1. order \in Seq(Handles)
    BY <1>10, <1>13 DEF Covers
  <2>2. Len(order) # 0
    BY <1>14, <1>15
  <2> QED BY <1>15, <2>1, <2>2
<1>17. order[Len(front) + 1] = <<"syncobj_surface">>
  <2>1. /\ Len(front) + 1 \in 1 .. Len(front) + 1 /\ ~(Len(front) + 1 <= Len(front))
        /\ (Len(front) + 1) - Len(front) = 1
    BY <1>14
  <2> QED BY <1>14, <1>15, <2>1
<1>18. ASSUME NEW k \in 1 .. Len(front)
       PROVE  order[k] # <<"syncobj_surface">>
  <2>1. k \in 1 .. Len(front) + 1 /\ k <= Len(front)
    BY <1>14
  <2>2. order[k] = front[k]
    BY <1>15, <2>1
  <2>3. front[k] \in H
    BY <1>9, <1>14 DEF Covers, ToSet
  <2> QED BY <1>12, <2>2, <2>3
<1>19. (Len(front) + 1) - 1 = Len(front)
  BY <1>14
<1> HIDE DEF order
<1>20. /\ order # <<>> /\ order[Len(order)] = <<"syncobj_surface">>
       /\ \A k \in 1 .. Len(order) - 1 : order[k] # <<"syncobj_surface">>
  BY <1>16, <1>17, <1>18, <1>19
<1> QED BY <1>10, <1>13, <1>20 DEF order


----------------------------------------------------------------------------
(* The invariant.                                                          *)

\* What was acquired and what is still to acquire is what a window has; the
\* slots refer to what was acquired.
ConstructInv ==
  stage = "construct" =>
    /\ todo # <<>> /\ todo[Len(todo)] = <<"syncobj_surface">>
    /\ \A k \in 1 .. Len(todo) - 1 : todo[k] # <<"syncobj_surface">>
    /\ live \cup ToSet(todo) = Built
    /\ \A i \in Slots, p \in Parts : slots[i][p] = IF <<p, i, 1>> \in live THEN 1 ELSE None
    /\ retired = <<>> /\ builds = 1 /\ asked = 0
    /\ \A i \in Slots : feedback[i] = None

\* An open window has the handles it was built with.
FixedInv ==
  /\ \A kind \in Had : <<kind>> \in live
  /\ \A kind \in Lacking : <<kind>> \notin live
  /\ \A kind \in SlotKinds, i \in Slots : <<kind, i>> \in live <=> kind \notin Transient

\* Slots and retired entries refer to live parts, no two of them to the same
\* one, and no live part is without a reference.
PartInv ==
  /\ \A i \in Slots, p \in Parts :
       slots[i][p] <= builds /\ (slots[i][p] # None => <<p, i, slots[i][p]>> \in live)
  /\ \A k \in DOMAIN retired, p \in Parts :
       /\ retired[k].parts[p] <= builds
       /\ retired[k].parts[p] # None =>
            /\ <<p, retired[k].slot, retired[k].parts[p]>> \in live
            /\ slots[retired[k].slot][p] # retired[k].parts[p]
  /\ \A j, k \in DOMAIN retired, p \in Parts :
       /\ retired[j].slot = retired[k].slot
       /\ retired[j].parts[p] = retired[k].parts[p]
       /\ retired[j].parts[p] # None
       => j = k
  /\ \A p \in Parts, i \in Slots, b \in 1 .. MaxBuilds :
       <<p, i, b>> \in live =>
         \/ slots[i][p] = b
         \/ \E k \in DOMAIN retired : retired[k].slot = i /\ retired[k].parts[p] = b

\* Each slot refers to a live feedback object of its own, if to any.
FeedbackInv ==
  /\ \A i \in Slots :
       feedback[i] <= asked /\ (feedback[i] # None => <<"feedback", feedback[i]>> \in live)
  /\ \A i, j \in Slots : feedback[i] = feedback[j] /\ feedback[i] # None => i = j

OpenInv == stage = "open" => FixedInv /\ PartInv /\ FeedbackInv

\* What ~Impl leaves.
Leftover ==
  {"compositor", "dmabuf", "syncobj_manager", "presentation", "default_feedback", "feedback"}

\* What is still to release is live, listed once and in order; the rest stays.
TeardownInv ==
  stage = "teardown" =>
    /\ todo # <<>> /\ IsInjective(todo) /\ Orderly(todo)
    /\ ToSet(todo) \subseteq live
    /\ \A h \in ToSet(todo) : \A kind \in Outliving(h[1]) : <<kind>> \in live
    /\ \A h \in live \ ToSet(todo) : h[1] \in Leftover
    /\ \A i \in Slots : <<"feedback", feedback[i]>> \in live =>
                          <<"feedback", feedback[i]>> \in ToSet(todo)

OwnerInv == ConstructInv /\ OpenInv /\ TeardownInv /\ TeardownComplete


----------------------------------------------------------------------------
(* What ~Impl releases.                                                    *)

LEMMA EntryTypes ==
  ASSUME TypeOK
  PROVE  /\ Len(retired) \in Nat /\ DOMAIN retired = 1 .. Len(retired)
         /\ \A k \in DOMAIN retired :
              /\ retired[k].slot \in Slots /\ retired[k].parts \in PartRefs
              /\ \A p \in Parts : retired[k].parts[p] \in 0 .. MaxBuilds
<1>1. retired \in Seq([slot : Slots, parts : PartRefs])
  BY DEF TypeOK
<1>2. /\ Len(retired) \in Nat /\ DOMAIN retired = 1 .. Len(retired)
      /\ \A k \in 1 .. Len(retired) : retired[k] \in [slot : Slots, parts : PartRefs]
  BY <1>1, LenProperties, ElementOfSeq
<1> QED BY <1>2 DEF PartRefs

RetiredHandles ==
  UNION {PartsHeld(retired[k].slot, retired[k].parts) : k \in 1 .. Len(retired)}

LEMMA RetiredOrderLists ==
  ASSUME TypeOK, PartInv
  PROVE  Lists(RetiredOrder, RetiredHandles, Parts)
<1> DEFINE N == Len(retired)
           seqs == [k \in 1 .. N |-> RetiredEntry(retired[k])]
           H(k) == PartsHeld(retired[k].slot, retired[k].parts)
<1>1. N \in Nat /\ DOMAIN retired = 1 .. N
  BY EntryTypes
<1>2. ASSUME NEW k \in 1 .. N
      PROVE  Lists(RetiredEntry(retired[k]), H(k), Parts)
  BY <1>1, EntryTypes, RetiredEntryLists
<1>3. \A j, k \in 1 .. N : j # k => H(j) \cap H(k) = {}
  <2> SUFFICES ASSUME NEW j \in 1 .. N, NEW k \in 1 .. N, NEW h, h \in H(j), h \in H(k)
               PROVE  j = k
    OBVIOUS
  <2>1. PICK p \in Parts : h = <<p, retired[j].slot, retired[j].parts[p]>> /\ retired[j].parts[p] # None
    BY DEF PartsHeld
  <2>2. PICK q \in Parts : h = <<q, retired[k].slot, retired[k].parts[q]>>
    BY DEF PartsHeld
  <2>3. p = q /\ retired[j].slot = retired[k].slot /\ retired[j].parts[p] = retired[k].parts[p]
    BY <2>1, <2>2
  <2> QED BY <1>1, <2>1, <2>3 DEF PartInv
<1>4. RetiredOrder = FlattenSeq(seqs)
  BY <1>1 DEF RetiredOrder
<1>5. /\ seqs \in Seq(Seq(Handles)) /\ Len(seqs) = N
      /\ \A k \in 1 .. N : IsInjective(seqs[k]) /\ ToSet(seqs[k]) = H(k)
  <2>1. \A k \in 1 .. N : /\ seqs[k] \in Seq(Handles)
                          /\ IsInjective(seqs[k]) /\ ToSet(seqs[k]) = H(k)
    BY <1>2 DEF Lists
  <2>2. \A k \in 1 .. N : RetiredEntry(retired[k]) \in Seq(Handles)
    BY <1>2 DEF Lists
  <2>3. seqs \in Seq(Seq(Handles)) /\ Len(seqs) = N
    BY <1>1, <2>2, IsASeq
  <2> QED BY <2>1, <2>3
<1> HIDE DEF seqs
<1>6. \A j, k \in 1 .. N : j # k => ToSet(seqs[j]) \cap ToSet(seqs[k]) = {}
  BY <1>3, <1>5
<1>7. UNION {ToSet(seqs[k]) : k \in 1 .. N} = RetiredHandles
  BY <1>5 DEF RetiredHandles
<1>8. /\ FlattenSeq(seqs) \in Seq(Handles) /\ IsInjective(FlattenSeq(seqs))
      /\ ToSet(FlattenSeq(seqs)) = RetiredHandles
  BY <1>5, <1>6, <1>7, FlattenFacts
<1>9. \A h \in RetiredHandles : h[1] \in Parts
  BY DEF RetiredHandles, PartsHeld
<1> QED BY <1>4, <1>8, <1>9 DEF Lists

LEMMA SlotHandleFacts ==
  ASSUME NEW i, NEW h \in SlotHandles(i)
  PROVE  \/ h = <<"feedback", feedback[i]>> /\ feedback[i] # None
         \/ \E p \in Parts : h = <<p, i, slots[i][p]>> /\ slots[i][p] # None
         \/ \E kind \in Lasting : h = <<kind, i>>
BY DEF SlotHandles, PartsHeld

LEMMA SlotsLists ==
  ASSUME TypeOK, FeedbackInv
  PROVE  Lists(PerSlot([i \in Slots |-> SlotOrder(i)]),
               UNION {SlotHandles(i) : i \in Slots}, SlotOrderKinds)
<1> DEFINE f == [i \in Slots |-> SlotOrder(i)]
           H == [i \in Slots |-> SlotHandles(i)]
<1>1. \A i \in Slots : Lists(f[i], H[i], SlotOrderKinds)
  BY SlotOrderLists DEF TypeOK
<1>2. \A i, j \in Slots : i # j => H[i] \cap H[j] = {}
  <2> SUFFICES ASSUME NEW i \in Slots, NEW j \in Slots,
                      NEW h, h \in SlotHandles(i), h \in SlotHandles(j)
               PROVE  i = j
    OBVIOUS
  <2>1. \A x \in {i, j} : h \in SlotHandles(x) =>
          /\ h[1] = "feedback" => h[2] = feedback[x] /\ feedback[x] # None
          /\ h[1] # "feedback" => h[2] = x
    BY SlotHandleFacts DEF Parts, Lasting, SlotKinds
  <2> QED BY <2>1 DEF FeedbackInv
<1> HIDE DEF f, H
<1>3. Lists(PerSlot(f), UNION {H[i] : i \in Slots}, SlotOrderKinds)
  BY <1>1, <1>2, PerSlotLists
<1>4. UNION {H[i] : i \in Slots} = UNION {SlotHandles(i) : i \in Slots}
  BY DEF H
<1> QED BY <1>3, <1>4 DEF f

LEMMA HeldLists ==
  ASSUME NEW kind \in WindowKinds
  PROVE  Lists(Held(<<kind>>), {<<kind>>} \cap live, {kind})
<1>1. <<kind>> \in Handles /\ <<kind>>[1] = kind
  BY HandleTypes
<1>2. CASE <<kind>> \in live
  BY <1>1, <1>2, OneListed DEF Held
<1>3. CASE <<kind>> \notin live
  <2>1. Held(<<kind>>) = <<>> /\ {<<kind>>} \cap live = {}
    BY <1>3 DEF Held
  <2> QED BY <2>1, NoneListed DEF Lists
<1> QED BY <1>2, <1>3


LEMMA ParentKinds ==
  /\ Outliving("dmabuf_pool") = {"allocator"} /\ Outliving("allocator") = {"device"}
  /\ Outliving("device") = {"instance"} /\ Outliving("debug_messenger") = {"instance"}
  /\ Outliving("instance") = {} /\ Outliving("drm_fd") = {}
  /\ Outliving("frame_callback") = {"surface"} /\ Outliving("toplevel") = {"xdg_surface"}
  /\ Outliving("decoration") = {"decoration_manager"} /\ Outliving("decoration_manager") = {"display"}
  /\ Outliving("xdg_surface") = {"surface", "wm_base"} /\ Outliving("wm_base") = {"display"}
  /\ Outliving("surface") = {"display"} /\ Outliving("registry") = {"display"}
  /\ Outliving("display") = {} /\ Outliving("syncobj_surface") = {"surface"}
BY DEF Outliving, Parents

LEMMA SlotParents ==
  \A kind \in SlotOrderKinds :
    Outliving(kind) \subseteq {"display", "surface", "drm_fd", "device", "dmabuf_pool"}
BY DEF Outliving, Parents, SlotOrderKinds, Parts, Lasting, SlotKinds, Transient

VulkanKinds == {"dmabuf_pool", "allocator", "device", "debug_messenger", "instance", "drm_fd"}

LEMMA VulkanLists ==
  /\ Lists(VulkanOrder, Solo(VulkanKinds \ {"debug_messenger"})
                          \cup ({<<"debug_messenger">>} \cap live), VulkanKinds)
  /\ Orderly(VulkanOrder)
<1> DEFINE a == << <<"dmabuf_pool">>, <<"allocator">>, <<"device">> >>
           A == Solo({"dmabuf_pool", "allocator", "device"})
           J == {"dmabuf_pool", "allocator", "device"}
           b == Held(<<"debug_messenger">>)
           B == {<<"debug_messenger">>} \cap live
           c == << <<"instance">>, <<"drm_fd">> >>
           C == Solo({"instance", "drm_fd"})
           K == {"instance", "drm_fd"}
<1>1. Lists(a, A, J)
  <2>1. <<"dmabuf_pool">> \in Handles /\ <<"allocator">> \in Handles /\ <<"device">> \in Handles
    BY HandleTypes DEF WindowKinds
  <2> QED BY <2>1 DEF Lists, Solo, IsInjective, ToSet
<1>2. Orderly(a)
  BY ParentKinds DEF Orderly
<1>3. Lists(b, B, {"debug_messenger"})
  BY HeldLists DEF WindowKinds
<1>4. Orderly(b)
  BY <1>3, ParentKinds, AnyOrder
<1>5. Lists(c, C, K)
  <2>1. <<"instance">> \in Handles /\ <<"drm_fd">> \in Handles
    BY HandleTypes DEF WindowKinds
  <2> QED BY <2>1 DEF Lists, Solo, IsInjective, ToSet
<1>6. Orderly(c)
  BY ParentKinds DEF Orderly
<1> HIDE DEF a, A, b, B, c, C
<1>7. Lists(a \o b, A \cup B, J \cup {"debug_messenger"}) /\ Orderly(a \o b)
  <2>1. J \cap {"debug_messenger"} = {} /\ Outliving("debug_messenger") \cap J = {}
    BY ParentKinds
  <2> HIDE DEF J
  <2> QED BY <1>1, <1>2, <1>3, <1>4, <2>1, JoinLists, JoinOrderly
<1>8. Lists(a \o b \o c, A \cup B \cup C, J \cup {"debug_messenger"} \cup K) /\ Orderly(a \o b \o c)
  <2>1. /\ (J \cup {"debug_messenger"}) \cap K = {}
        /\ \A k \in K : Outliving(k) \cap (J \cup {"debug_messenger"}) = {}
    BY ParentKinds
  <2> HIDE DEF J, K
  <2> QED BY <1>5, <1>6, <1>7, <2>1, JoinLists, JoinOrderly
<1>9. VulkanOrder = a \o b \o c
  BY DEF VulkanOrder, a, b, c
<1>10. J \cup {"debug_messenger"} \cup K = VulkanKinds
  BY DEF VulkanKinds
<1>11. A \cup B \cup C = Solo(VulkanKinds \ {"debug_messenger"}) \cup ({<<"debug_messenger">>} \cap live)
  BY DEF A, B, C, Solo, VulkanKinds
<1> QED BY <1>8, <1>9, <1>10, <1>11

WaylandKinds ==
  {"frame_callback", "toplevel", "decoration", "decoration_manager", "xdg_surface",
   "wm_base", "surface", "registry", "display"}

Optional == {"frame_callback", "decoration", "decoration_manager"}

LEMMA WaylandLists ==
  /\ Lists(WaylandOrder, Solo(WaylandKinds \ Optional) \cup (Solo(Optional) \cap live),
           WaylandKinds)
  /\ Orderly(WaylandOrder)
<1> DEFINE Set(kind) == {<<kind>>} \cap live
           a == Held(<<"frame_callback">>)
           b == << <<"toplevel">> >>
           c == Held(<<"decoration">>)
           d == Held(<<"decoration_manager">>)
           e == << <<"xdg_surface">>, <<"wm_base">>, <<"surface">>, <<"registry">>, <<"display">> >>
           K == {"xdg_surface", "wm_base", "surface", "registry", "display"}
           E == Solo(K)
<1>1. /\ Lists(a, Set("frame_callback"), {"frame_callback"})
      /\ Lists(c, Set("decoration"), {"decoration"})
      /\ Lists(d, Set("decoration_manager"), {"decoration_manager"})
  BY HeldLists DEF WindowKinds
<1>2. Orderly(a) /\ Orderly(c) /\ Orderly(d)
  <2>1. /\ \A k \in {"frame_callback"} : Outliving(k) \cap {"frame_callback"} = {}
        /\ \A k \in {"decoration"} : Outliving(k) \cap {"decoration"} = {}
        /\ \A k \in {"decoration_manager"} : Outliving(k) \cap {"decoration_manager"} = {}
    BY ParentKinds
  <2> HIDE DEF a, c, d, Set
  <2> QED BY <1>1, <2>1, AnyOrder
<1>3. Lists(b, {<<"toplevel">>}, {"toplevel"}) /\ Orderly(b)
  <2>1. <<"toplevel">> \in Handles /\ <<"toplevel">>[1] = "toplevel"
    BY HandleTypes DEF WindowKinds
  <2>2. Lists(b, {<<"toplevel">>}, {"toplevel"})
    BY <2>1, OneListed
  <2>3. Orderly(b)
    BY ParentKinds DEF Orderly
  <2> QED BY <2>2, <2>3
<1>4. Lists(e, E, K)
  <2>1. /\ <<"xdg_surface">> \in Handles /\ <<"wm_base">> \in Handles /\ <<"surface">> \in Handles
        /\ <<"registry">> \in Handles /\ <<"display">> \in Handles
    BY HandleTypes DEF WindowKinds
  <2> QED BY <2>1 DEF Lists, Solo, IsInjective, ToSet
<1>5. Orderly(e)
  BY ParentKinds DEF Orderly
<1> HIDE DEF a, b, c, d, e, E, Set
<1>6. /\ Lists(a \o b, Set("frame_callback") \cup {<<"toplevel">>},
               {"frame_callback"} \cup {"toplevel"})
      /\ Orderly(a \o b)
  <2>1. /\ {"frame_callback"} \cap {"toplevel"} = {}
        /\ \A k \in {"toplevel"} : Outliving(k) \cap {"frame_callback"} = {}
    BY ParentKinds
  <2> QED BY <1>1, <1>2, <1>3, <2>1, JoinLists, JoinOrderly
<1>7. /\ Lists(c \o d, Set("decoration") \cup Set("decoration_manager"),
               {"decoration"} \cup {"decoration_manager"})
      /\ Orderly(c \o d)
  <2>1. /\ {"decoration"} \cap {"decoration_manager"} = {}
        /\ \A k \in {"decoration_manager"} : Outliving(k) \cap {"decoration"} = {}
    BY ParentKinds
  <2> QED BY <1>1, <1>2, <2>1, JoinLists, JoinOrderly
<1> DEFINE ab == a \o b
           AB == Set("frame_callback") \cup {<<"toplevel">>}
           I == {"frame_callback"} \cup {"toplevel"}
<1>8. /\ Lists(ab \o c, AB \cup Set("decoration"), I \cup {"decoration"})
      /\ Orderly(ab \o c)
  <2>1. /\ I \cap {"decoration"} = {}
        /\ \A k \in {"decoration"} : Outliving(k) \cap I = {}
    BY ParentKinds
  <2> HIDE DEF ab, AB, I
  <2> QED BY <1>1, <1>2, <1>6, <2>1, JoinLists, JoinOrderly DEF ab, AB, I
<1>9. /\ Lists(ab \o c \o d, AB \cup Set("decoration") \cup Set("decoration_manager"),
               I \cup {"decoration"} \cup {"decoration_manager"})
      /\ Orderly(ab \o c \o d)
  <2>1. /\ (I \cup {"decoration"}) \cap {"decoration_manager"} = {}
        /\ \A k \in {"decoration_manager"} : Outliving(k) \cap (I \cup {"decoration"}) = {}
    BY ParentKinds
  <2> HIDE DEF ab, AB, I
  <2> QED BY <1>1, <1>2, <1>8, <2>1, JoinLists, JoinOrderly
<1>10. /\ Lists(ab \o c \o d \o e,
                AB \cup Set("decoration") \cup Set("decoration_manager") \cup E,
                I \cup {"decoration"} \cup {"decoration_manager"} \cup K)
       /\ Orderly(ab \o c \o d \o e)
  <2>1. /\ (I \cup {"decoration"} \cup {"decoration_manager"}) \cap K = {}
        /\ \A k \in K : Outliving(k) \cap (I \cup {"decoration"} \cup {"decoration_manager"}) = {}
    BY ParentKinds
  <2> HIDE DEF ab, AB, I, K
  <2> QED BY <1>4, <1>5, <1>9, <2>1, JoinLists, JoinOrderly
<1>11. WaylandOrder = ab \o c \o d \o e
  BY DEF WaylandOrder, a, b, c, d, e
<1>12. I \cup {"decoration"} \cup {"decoration_manager"} \cup K = WaylandKinds
  BY DEF WaylandKinds
<1>13. AB \cup Set("decoration") \cup Set("decoration_manager") \cup E
         = Solo(WaylandKinds \ Optional) \cup (Solo(Optional) \cap live)
  <2>1. WaylandKinds \ Optional = {"toplevel"} \cup K
    BY DEF WaylandKinds, Optional
  <2>2. Solo({"toplevel"} \cup K) = {<<"toplevel">>} \cup E
    BY DEF Solo, E
  <2>3. Solo(Optional) \cap live =
          Set("frame_callback") \cup Set("decoration") \cup Set("decoration_manager")
    BY DEF Solo, Optional, Set
  <2> HIDE DEF K
  <2> QED BY <2>1, <2>2, <2>3
<1> QED BY <1>10, <1>11, <1>12, <1>13


----------------------------------------------------------------------------
(* The list of ~Impl.                                                      *)

SurfaceList == << <<"syncobj_surface">> >>
SlotsList   == PerSlot([i \in Slots |-> SlotOrder(i)])
ReleaseList == RetiredOrder \o SurfaceList \o SlotsList \o VulkanOrder \o WaylandOrder

SlotsHandles    == UNION {SlotHandles(i) : i \in Slots}
VulkanHandles   == Solo(VulkanKinds \ {"debug_messenger"}) \cup ({<<"debug_messenger">>} \cap live)
WaylandHandles  == Solo(WaylandKinds \ Optional) \cup (Solo(Optional) \cap live)
ReleasedHandles ==
  RetiredHandles \cup {<<"syncobj_surface">>} \cup SlotsHandles
    \cup VulkanHandles \cup WaylandHandles

ReleasedKinds ==
  Parts \cup {"syncobj_surface"} \cup SlotOrderKinds \cup VulkanKinds \cup WaylandKinds

LEMMA RetiredApart ==
  ASSUME TypeOK, PartInv
  PROVE  (RetiredHandles \cup {<<"syncobj_surface">>}) \cap SlotsHandles = {}
<1> SUFFICES ASSUME NEW h, h \in RetiredHandles \cup {<<"syncobj_surface">>},
                    NEW i \in Slots, h \in SlotHandles(i)
             PROVE  FALSE
  BY DEF SlotsHandles
<1>1. \/ h[1] = "feedback"
      \/ \E p \in Parts : h = <<p, i, slots[i][p]>>
      \/ h[1] \in Lasting
  BY SlotHandleFacts
<1>2. CASE h \in RetiredHandles
  <2>1. PICK k \in 1 .. Len(retired) : h \in PartsHeld(retired[k].slot, retired[k].parts)
    BY <1>2 DEF RetiredHandles
  <2>2. PICK p \in Parts : /\ h = <<p, retired[k].slot, retired[k].parts[p]>>
                           /\ retired[k].parts[p] # None
    BY <2>1 DEF PartsHeld
  <2>3. h[1] # "feedback" /\ h[1] \notin Lasting
    BY <2>2 DEF Parts, Lasting, SlotKinds
  <2>4. PICK q \in Parts : h = <<q, i, slots[i][q]>>
    BY <1>1, <2>3
  <2>5. p = q /\ retired[k].slot = i /\ retired[k].parts[p] = slots[i][p]
    BY <2>2, <2>4
  <2> QED BY <2>2, <2>5, EntryTypes DEF PartInv
<1>3. CASE h = <<"syncobj_surface">>
  <2>1. h[1] = "syncobj_surface"
    BY <1>3
  <2> QED BY <1>1, <2>1 DEF Lasting, SlotKinds, Parts
<1> QED BY <1>2, <1>3

\* Of two kinds that are both released, the later is never made from the
\* earlier.
LEMMA ReleaseKindOrder ==
  /\ \A k \in Parts : Outliving(k) \cap Parts = {}
  /\ \A k \in SlotOrderKinds : Outliving(k) \cap (Parts \cup {"syncobj_surface"} \cup SlotOrderKinds) = {}
  /\ \A k \in VulkanKinds :
       Outliving(k) \cap (Parts \cup {"syncobj_surface"} \cup SlotOrderKinds) = {}
  /\ \A k \in WaylandKinds :
       Outliving(k) \cap (Parts \cup {"syncobj_surface"} \cup SlotOrderKinds \cup VulkanKinds) = {}
<1>1. Parts \subseteq SlotOrderKinds
  BY DEF SlotOrderKinds
<1>2. {"display", "surface", "drm_fd", "device", "dmabuf_pool"} \cap
        (Parts \cup {"syncobj_surface"} \cup SlotOrderKinds) = {}
  BY DEF Parts, SlotOrderKinds, Lasting, SlotKinds
<1>3. \A k \in VulkanKinds : Outliving(k) \subseteq {"allocator", "device", "instance"}
  BY ParentKinds DEF VulkanKinds
<1>4. {"allocator", "device", "instance"} \cap
        (Parts \cup {"syncobj_surface"} \cup SlotOrderKinds) = {}
  BY DEF Parts, SlotOrderKinds, Lasting, SlotKinds
<1>5. \A k \in WaylandKinds :
        Outliving(k) \subseteq {"display", "xdg_surface", "surface", "wm_base",
                              "decoration_manager"}
  BY ParentKinds DEF WaylandKinds
<1>6. {"display", "xdg_surface", "surface", "wm_base", "decoration_manager"} \cap
        (Parts \cup {"syncobj_surface"} \cup SlotOrderKinds \cup VulkanKinds) = {}
  BY DEF Parts, SlotOrderKinds, Lasting, SlotKinds, VulkanKinds
<1>7. \A k \in SlotOrderKinds : Outliving(k) \cap (Parts \cup {"syncobj_surface"} \cup SlotOrderKinds) = {}
  BY <1>2, SlotParents
<1>8. \A k \in VulkanKinds :
        Outliving(k) \cap (Parts \cup {"syncobj_surface"} \cup SlotOrderKinds) = {}
  BY <1>3, <1>4
<1>9. \A k \in WaylandKinds :
        Outliving(k) \cap (Parts \cup {"syncobj_surface"} \cup SlotOrderKinds \cup VulkanKinds) = {}
  BY <1>5, <1>6
<1> QED BY <1>1, <1>7, <1>8, <1>9

\* The list is one, and in order.
LEMMA ReleaseListed ==
  ASSUME TypeOK, PartInv, FeedbackInv
  PROVE  Lists(ReleaseList, ReleasedHandles, ReleasedKinds) /\ Orderly(ReleaseList)
<1> DEFINE r == RetiredOrder
           y == SurfaceList
           s == SlotsList
           v == VulkanOrder
           w == WaylandOrder
           Y == {<<"syncobj_surface">>}
           J == {"syncobj_surface"}
<1>1. Lists(r, RetiredHandles, Parts) /\ Orderly(r)
  BY RetiredOrderLists, ReleaseKindOrder, AnyOrder
<1>2. Lists(y, Y, J) /\ Orderly(y)
  <2>1. <<"syncobj_surface">> \in Handles /\ <<"syncobj_surface">>[1] = "syncobj_surface"
    BY HandleTypes DEF WindowKinds
  <2>2. Lists(y, Y, J)
    BY <2>1, OneListed DEF SurfaceList
  <2>3. Orderly(y)
    BY ParentKinds DEF Orderly, SurfaceList
  <2> QED BY <2>2, <2>3
<1>3. Lists(s, SlotsHandles, SlotOrderKinds) /\ Orderly(s)
  <2>1. Lists(s, SlotsHandles, SlotOrderKinds)
    BY SlotsLists DEF SlotsList, SlotsHandles
  <2>2. \A k \in SlotOrderKinds : Outliving(k) \cap SlotOrderKinds = {}
    BY ReleaseKindOrder
  <2> HIDE DEF s
  <2> QED BY <2>1, <2>2, AnyOrder
<1>4. Lists(v, VulkanHandles, VulkanKinds) /\ Orderly(v)
  BY VulkanLists DEF VulkanHandles
<1>5. Lists(w, WaylandHandles, WaylandKinds) /\ Orderly(w)
  BY WaylandLists DEF WaylandHandles
<1>6. Lists(r \o y, RetiredHandles \cup Y, Parts \cup J) /\ Orderly(r \o y)
  <2>1. Parts \cap J = {} /\ \A k \in J : Outliving(k) \cap Parts = {}
    BY ParentKinds DEF Parts
  <2> HIDE DEF r, y, Y, J
  <2> QED BY <1>1, <1>2, <2>1, JoinLists, JoinOrderly
<1>7. /\ Lists(r \o y \o s, RetiredHandles \cup Y \cup SlotsHandles,
               Parts \cup J \cup SlotOrderKinds)
      /\ Orderly(r \o y \o s)
  <2>1. (RetiredHandles \cup Y) \cap SlotsHandles = {}
    BY RetiredApart
  <2>2. \A k \in SlotOrderKinds : Outliving(k) \cap (Parts \cup J) = {}
    BY ReleaseKindOrder
  <2> HIDE DEF r, y, s, Y, J
  <2> QED BY <1>3, <1>6, <2>1, <2>2, JoinApart, JoinOrderly
<1>8. /\ Lists(r \o y \o s \o v, RetiredHandles \cup Y \cup SlotsHandles \cup VulkanHandles,
               Parts \cup J \cup SlotOrderKinds \cup VulkanKinds)
      /\ Orderly(r \o y \o s \o v)
  <2>1. (Parts \cup J \cup SlotOrderKinds) \cap VulkanKinds = {}
    BY DEF Parts, SlotOrderKinds, Lasting, SlotKinds, VulkanKinds
  <2>2. \A k \in VulkanKinds : Outliving(k) \cap (Parts \cup J \cup SlotOrderKinds) = {}
    BY ReleaseKindOrder
  <2> HIDE DEF r, y, s, v, Y, J
  <2> QED BY <1>4, <1>7, <2>1, <2>2, JoinLists, JoinOrderly
<1>9. /\ Lists(r \o y \o s \o v \o w,
               RetiredHandles \cup Y \cup SlotsHandles \cup VulkanHandles \cup WaylandHandles,
               Parts \cup J \cup SlotOrderKinds \cup VulkanKinds \cup WaylandKinds)
      /\ Orderly(r \o y \o s \o v \o w)
  <2>1. (Parts \cup J \cup SlotOrderKinds \cup VulkanKinds) \cap WaylandKinds = {}
    BY DEF Parts, SlotOrderKinds, Lasting, SlotKinds, VulkanKinds, WaylandKinds
  <2>2. \A k \in WaylandKinds :
          Outliving(k) \cap (Parts \cup J \cup SlotOrderKinds \cup VulkanKinds) = {}
    BY ReleaseKindOrder
  <2> HIDE DEF r, y, s, v, w, Y, J
  <2> QED BY <1>5, <1>8, <2>1, <2>2, JoinLists, JoinOrderly
<1> QED BY <1>9 DEF ReleaseList, ReleasedHandles, ReleasedKinds

\* What is released is live, and so is what is to outlive a handle of a kind the
\* window has.
LEMMA ReleasedLive ==
  ASSUME TypeOK, FixedInv, PartInv, FeedbackInv
  PROVE  /\ ReleasedHandles \subseteq live
         /\ \A k \in ReleasedKinds \ Lacking :
              \A kind \in Outliving(k) : <<kind>> \in live
<1>1. RetiredHandles \subseteq live
  <2> SUFFICES ASSUME NEW k \in 1 .. Len(retired),
                      NEW h \in PartsHeld(retired[k].slot, retired[k].parts)
               PROVE  h \in live
    BY DEF RetiredHandles
  <2> QED BY EntryTypes DEF PartsHeld, PartInv
<1>2. SlotsHandles \subseteq live
  <2> SUFFICES ASSUME NEW i \in Slots, NEW h \in SlotHandles(i)
               PROVE  h \in live
    BY DEF SlotsHandles
  <2>1. ASSUME NEW kind \in Lasting
        PROVE  <<kind, i>> \in live
    BY DEF FixedInv, Lasting
  <2> QED BY <2>1, SlotHandleFacts DEF FeedbackInv, PartInv
<1>3. /\ {"syncobj_surface"} \cup (VulkanKinds \ {"debug_messenger"})
           \cup (WaylandKinds \ Optional) \subseteq Had
      /\ {"display", "drm_fd", "device", "dmabuf_pool", "allocator", "instance",
          "xdg_surface", "surface", "wm_base"} \subseteq Had
  BY DEF Had, WindowKinds, Lacking, VulkanKinds, WaylandKinds, Optional
<1>4. Solo(Had) \subseteq live
  BY DEF Solo, FixedInv
<1>5. VulkanHandles \cup WaylandHandles \cup {<<"syncobj_surface">>} \subseteq live
  <2>1. Solo(VulkanKinds \ {"debug_messenger"}) \subseteq Solo(Had)
    BY <1>3 DEF Solo
  <2>2. Solo(WaylandKinds \ Optional) \subseteq Solo(Had)
    BY <1>3 DEF Solo
  <2>3. <<"syncobj_surface">> \in Solo(Had)
    BY <1>3 DEF Solo
  <2> QED BY <1>4, <2>1, <2>2, <2>3 DEF VulkanHandles, WaylandHandles
<1>6. ASSUME NEW k \in ReleasedKinds \ Lacking
      PROVE  Outliving(k) \subseteq Had
  <2>1. CASE k \in SlotOrderKinds \cup Parts
    <3>1. k \in SlotOrderKinds
      BY <2>1 DEF SlotOrderKinds
    <3> QED BY <1>3, <3>1, SlotParents
  <2>2. CASE k \in {"syncobj_surface"} \cup VulkanKinds
    <3>1. Outliving(k) \subseteq {"surface", "allocator", "device", "instance"}
      BY <2>2, ParentKinds DEF VulkanKinds
    <3> QED BY <1>3, <3>1
  <2>3. CASE k \in WaylandKinds \ {"decoration"}
    <3>1. Outliving(k) \subseteq {"display", "xdg_surface", "surface", "wm_base"}
      BY <2>3, ParentKinds DEF WaylandKinds
    <3> QED BY <1>3, <3>1
  <2>4. CASE k = "decoration"
    <3>1. "decoration" \in options
      BY <2>4 DEF Lacking
    <3>2. "decoration_manager" \in Had
      BY <3>1 DEF Had, WindowKinds, Lacking
    <3> QED BY <2>4, <3>2, ParentKinds
  <2> QED BY <2>1, <2>2, <2>3, <2>4 DEF ReleasedKinds
<1> QED BY <1>1, <1>2, <1>5, <1>6 DEF ReleasedHandles, FixedInv

\* What is live and not released is left over.
LEMMA LiveReleased ==
  ASSUME TypeOK, FixedInv, PartInv, NEW h \in live
  PROVE  h \in ReleasedHandles \/ h[1] \in Leftover
<1>1. \/ \E kind \in WindowKinds : h = <<kind>>
      \/ \E kind \in SlotKinds, i \in Slots : h = <<kind, i>>
      \/ \E p \in Parts, i \in Slots, b \in 1 .. MaxBuilds : h = <<p, i, b>>
      \/ \E n \in 1 .. MaxFeedback : h = <<"feedback", n>>
  BY DEF TypeOK, Handles
<1>2. CASE \E kind \in WindowKinds : h = <<kind>>
  <2>1. PICK kind \in WindowKinds : h = <<kind>>
    BY <1>2
  <2>2. h[1] = kind
    BY <2>1
  <2>3. \/ kind \in Leftover \/ kind = "syncobj_surface"
        \/ kind \in VulkanKinds \/ kind \in WaylandKinds
    BY DEF WindowKinds, Leftover, VulkanKinds, WaylandKinds
  <2>4. CASE kind \in VulkanKinds
    <3>1. h \in VulkanHandles
      BY <2>1, <2>4 DEF VulkanHandles, Solo
    <3> QED BY <3>1 DEF ReleasedHandles
  <2>5. CASE kind \in WaylandKinds
    <3>1. h \in WaylandHandles
      BY <2>1, <2>5 DEF WaylandHandles, Solo
    <3> QED BY <3>1 DEF ReleasedHandles
  <2> QED BY <2>1, <2>2, <2>3, <2>4, <2>5 DEF ReleasedHandles
<1>3. CASE \E kind \in SlotKinds, i \in Slots : h = <<kind, i>>
  <2>1. PICK kind \in SlotKinds, i \in Slots : h = <<kind, i>>
    BY <1>3
  <2>2. kind \in Lasting
    BY <2>1 DEF FixedInv, Lasting
  <2>3. h \in SlotHandles(i)
    BY <2>1, <2>2 DEF SlotHandles
  <2> QED BY <2>3 DEF ReleasedHandles, SlotsHandles
<1>4. CASE \E p \in Parts, i \in Slots, b \in 1 .. MaxBuilds : h = <<p, i, b>>
  <2>1. PICK p \in Parts, i \in Slots, b \in 1 .. MaxBuilds : h = <<p, i, b>>
    BY <1>4
  <2>2. b # None
    BY SlotsType DEF None
  <2>3. CASE slots[i][p] = b
    <3>1. h \in SlotHandles(i)
      BY <2>1, <2>2, <2>3 DEF SlotHandles, PartsHeld
    <3> QED BY <3>1 DEF ReleasedHandles, SlotsHandles
  <2>4. CASE \E k \in DOMAIN retired : retired[k].slot = i /\ retired[k].parts[p] = b
    <3>1. PICK k \in DOMAIN retired : retired[k].slot = i /\ retired[k].parts[p] = b
      BY <2>4
    <3>2. h \in PartsHeld(retired[k].slot, retired[k].parts)
      BY <2>1, <2>2, <3>1 DEF PartsHeld
    <3>3. h \in RetiredHandles
      BY <3>2, EntryTypes DEF RetiredHandles
    <3> QED BY <3>3 DEF ReleasedHandles
  <2> QED BY <2>1, <2>3, <2>4 DEF PartInv
<1>5. CASE \E n \in 1 .. MaxFeedback : h = <<"feedback", n>>
  BY <1>5 DEF Leftover
<1> QED BY <1>1, <1>2, <1>3, <1>4, <1>5


----------------------------------------------------------------------------
(* The steps.                                                              *)

LEMMA DestroyStep ==
  ASSUME TypeOK, OwnerInv, Destroy
  PROVE  TypeOK' /\ OwnerInv'
<1>1. FixedInv /\ PartInv /\ FeedbackInv
  BY DEF OwnerInv, OpenInv, Destroy
<1>2. /\ stage' = "teardown" /\ todo' = ReleaseList /\ live' = live /\ slots' = slots
      /\ feedback' = feedback
      /\ UNCHANGED <<options, retired, builds, asked>>
  BY DEF Destroy, ReleaseList, SurfaceList, SlotsList
<1>3. Lists(todo', ReleasedHandles, ReleasedKinds) /\ Orderly(todo')
  BY <1>1, <1>2, ReleaseListed
<1>4. todo' \in Seq(Handles) /\ IsInjective(todo') /\ ToSet(todo') = ReleasedHandles
  BY <1>3 DEF Lists
<1>5. todo' # <<>>
  <2>1. <<"syncobj_surface">> \in ToSet(todo')
    BY <1>4 DEF ReleasedHandles
  <2>2. ToSet(<<>>) = {}
    BY NoneListed DEF Lists
  <2> QED BY <2>1, <2>2
<1>6. /\ ReleasedHandles \subseteq live
      /\ \A h \in ReleasedHandles : \A kind \in Outliving(h[1]) : <<kind>> \in live
  <2>1. ReleasedHandles \subseteq live
    BY <1>1, ReleasedLive
  <2>2. ASSUME NEW h \in ReleasedHandles
        PROVE  h[1] \in ReleasedKinds \ Lacking
    <3>1. h \in live /\ h \in Handles /\ h[1] \in ReleasedKinds
      BY <1>3, <2>1 DEF Lists, TypeOK
    <3>2. h[1] \in Lacking => h = <<h[1]>>
      <4>1. Lacking \cap (SlotKinds \cup Parts \cup {"feedback"}) = {}
        BY DEF Lacking, SlotKinds, Parts
      <4>2. \/ \E kind \in WindowKinds : h = <<kind>>
            \/ h[1] \in SlotKinds \cup Parts \cup {"feedback"}
        BY <3>1 DEF Handles
      <4> QED BY <4>1, <4>2
    <3> QED BY <1>1, <3>1, <3>2 DEF FixedInv
  <2> QED BY <1>1, <2>1, <2>2, ReleasedLive
<1>7. \A h \in live \ ReleasedHandles : h[1] \in Leftover
  BY <1>1, LiveReleased
<1>8. ASSUME NEW i \in Slots, <<"feedback", feedback[i]>> \in live
      PROVE  <<"feedback", feedback[i]>> \in ReleasedHandles
  <2>1. feedback[i] # None
    <3>1. <<"feedback", 0>> \notin Handles
      BY DEF Handles, Parts, SlotKinds
    <3> QED BY <1>8, <3>1 DEF TypeOK, None
  <2>2. <<"feedback", feedback[i]>> \in SlotHandles(i)
    BY <2>1 DEF SlotHandles
  <2> QED BY <2>2 DEF ReleasedHandles, SlotsHandles
<1>9. TypeOK'
  BY <1>2, <1>4 DEF TypeOK
<1>10. TeardownInv'
  BY <1>2, <1>3, <1>4, <1>5, <1>6, <1>7, <1>8 DEF TeardownInv
<1>11. ConstructInv' /\ OpenInv' /\ TeardownComplete'
  BY <1>2 DEF ConstructInv, OpenInv, TeardownComplete
<1> QED BY <1>9, <1>10, <1>11 DEF OwnerInv

LEMMA ReleaseStep ==
  ASSUME TypeOK, OwnerInv, Release
  PROVE  TypeOK' /\ OwnerInv'
<1> DEFINE h == Head(todo)
<1>1. /\ stage = "teardown" /\ live' = live \ {h} /\ todo' = Tail(todo)
      /\ stage' = IF Len(todo) = 1 THEN "destroyed" ELSE "teardown"
      /\ feedback' = feedback /\ slots' = slots
      /\ UNCHANGED <<options, retired, builds, asked>>
  BY DEF Release
<1>2. /\ todo # <<>> /\ IsInjective(todo) /\ Orderly(todo)
      /\ ToSet(todo) \subseteq live
      /\ \A x \in ToSet(todo) : \A kind \in Outliving(x[1]) : <<kind>> \in live
      /\ \A x \in live \ ToSet(todo) : x[1] \in Leftover
      /\ \A i \in Slots : <<"feedback", feedback[i]>> \in live =>
                            <<"feedback", feedback[i]>> \in ToSet(todo)
  BY <1>1 DEF OwnerInv, TeardownInv
<1>3. todo \in Seq(Handles)
  BY DEF TypeOK
<1>4. /\ Len(todo) \in Nat \ {0} /\ DOMAIN todo = 1 .. Len(todo)
      /\ h = todo[1] /\ h \in Handles
      /\ todo' \in Seq(Handles) /\ Len(todo') = Len(todo) - 1
      /\ DOMAIN todo' = 1 .. Len(todo) - 1
      /\ \A i \in 1 .. Len(todo) - 1 : todo'[i] = todo[i + 1]
      /\ ToSet(todo) = {h} \cup ToSet(todo')
      /\ IsInjective(todo') /\ h \notin ToSet(todo')
  BY <1>1, <1>2, <1>3, TailFacts
<1> HIDE DEF h
<1>5. TypeOK'
  BY <1>1, <1>4 DEF TypeOK
<1>6. ASSUME stage' = "teardown"
      PROVE  TeardownInv'
  <2>1. Len(todo) # 1
    BY <1>1, <1>6
  <2>2. todo' # <<>>
    <3>1. Len(todo') # 0
      BY <1>4, <2>1
    <3> QED BY <1>4, <3>1, EmptySeq
  <2>3. ASSUME NEW j \in 1 .. Len(todo) - 1
        PROVE  j + 1 \in DOMAIN todo /\ todo'[j] = todo[j + 1] /\ j \in Int
    BY <1>4
  <2>4. Orderly(todo')
    <3> SUFFICES ASSUME NEW j \in 1 .. Len(todo) - 1, NEW k \in 1 .. Len(todo) - 1,
                        NEW kind \in Outliving(todo'[j][1]), todo'[k] = <<kind>>
                 PROVE  j < k
      BY <1>4 DEF Orderly
    <3>1. /\ j + 1 \in DOMAIN todo /\ k + 1 \in DOMAIN todo
          /\ kind \in Outliving(todo[j + 1][1]) /\ todo[k + 1] = <<kind>>
      BY <2>3
    <3>2. j + 1 < k + 1
      BY <1>2, <3>1 DEF Orderly
    <3> QED BY <2>3, <3>2
  <2>5. ToSet(todo') \subseteq live'
    BY <1>1, <1>2, <1>4
  <2>6. ASSUME NEW x \in ToSet(todo'), NEW kind \in Outliving(x[1])
        PROVE  <<kind>> \in live'
    <3>1. PICK j \in 1 .. Len(todo) - 1 : x = todo'[j]
      BY <1>4 DEF ToSet
    <3>2. <<kind>> \in live
      BY <1>2, <1>4
    <3>3. <<kind>> # h
      <4> SUFFICES ASSUME <<kind>> = h
                   PROVE  FALSE
        OBVIOUS
      <4>1. 1 \in DOMAIN todo /\ todo[1] = <<kind>> /\ kind \in Outliving(todo[j + 1][1])
        BY <1>4, <2>3, <3>1
      <4>2. j + 1 < 1
        BY <1>2, <2>3, <4>1 DEF Orderly
      <4>3. j \in Nat
        BY <1>4
      <4> QED BY <4>2, <4>3
    <3> QED BY <1>1, <3>2, <3>3
  <2>7. \A x \in live' \ ToSet(todo') : x[1] \in Leftover
    BY <1>1, <1>2, <1>4
  <2>8. \A i \in Slots : <<"feedback", feedback'[i]>> \in live' =>
                           <<"feedback", feedback'[i]>> \in ToSet(todo')
    BY <1>1, <1>2, <1>4
  <2> QED BY <1>4, <2>2, <2>4, <2>5, <2>6, <2>7, <2>8 DEF TeardownInv
<1>7. ASSUME stage' = "destroyed"
      PROVE  TeardownComplete'
  <2>1. Len(todo) = 1
    BY <1>1, <1>7
  <2>2. ToSet(todo') = {}
    <3>1. DOMAIN todo' = {}
      BY <1>4, <2>1
    <3> QED BY <3>1 DEF ToSet
  <2>3. \A x \in live' : x[1] \in Leftover
    BY <1>1, <1>2, <1>4, <2>2
  <2>4. \A i \in Slots : <<"feedback", feedback'[i]>> \notin live'
    BY <1>1, <1>2, <1>4, <2>2
  <2> QED BY <2>3, <2>4 DEF TeardownComplete, Leftover
<1>8. stage' \in {"teardown", "destroyed"}
  BY <1>1
<1>9. ConstructInv' /\ OpenInv'
  BY <1>8 DEF ConstructInv, OpenInv
<1>10. TeardownInv' /\ TeardownComplete'
  BY <1>6, <1>7, <1>8 DEF TeardownInv, TeardownComplete
<1> QED BY <1>5, <1>9, <1>10 DEF OwnerInv

LEMMA BuiltFacts ==
  /\ \A kind \in Had : <<kind>> \in Built
  /\ \A kind \in Lacking : <<kind>> \notin Built
  /\ \A kind \in SlotKinds, i \in Slots : <<kind, i>> \in Built
  /\ \A p \in Parts, i \in Slots : <<p, i, 1>> \in Built
  /\ \A p \in Parts, i \in Slots, b \in Nat : <<p, i, b>> \in Built => b = 1
<1>1. ASSUME NEW kind \in Lacking
      PROVE  <<kind>> \notin Built
  <2>1. kind \in {"presentation", "decoration_manager", "decoration", "debug_messenger"}
    BY DEF Lacking
  <2>2. kind \notin Had /\ kind \notin Parts /\ kind \notin SlotKinds
    BY <2>1 DEF Had, Parts, SlotKinds
  <2>3. <<kind>>[1] = kind
    OBVIOUS
  <2>4. <<kind>> \notin Solo(Had)
    BY <2>2 DEF Solo
  <2>5. \A h \in PartHandles(1) \cup SetupHandles : h[1] \in Parts \cup SlotKinds
    BY DEF PartHandles, SetupHandles
  <2> QED BY <2>2, <2>3, <2>4, <2>5 DEF Built
<1>2. ASSUME NEW p \in Parts, NEW i \in Slots, NEW b \in Nat, <<p, i, b>> \in Built
      PROVE  b = 1
  <2>1. <<p, i, b>>[1] = p /\ p \notin Had /\ p \notin SlotKinds
    BY DEF Had, Parts, SlotKinds, WindowKinds
  <2>2. \A h \in Solo(Had) \cup SetupHandles : h[1] \in Had \cup SlotKinds
    BY DEF Solo, SetupHandles
  <2>3. <<p, i, b>> \in PartHandles(1)
    BY <1>2, <2>1, <2>2 DEF Built
  <2> QED BY <2>3 DEF PartHandles
<1> QED BY <1>1, <1>2 DEF Built, Solo, PartHandles, SetupHandles

\* The members of the slots, after handles of a build were acquired.
LEMMA RefersType ==
  ASSUME NEW s \in [Slots -> PartRefs], NEW handles, NEW build \in 1 .. MaxBuilds
  PROVE  Refers(s, handles, build) \in [Slots -> PartRefs]
<1>1. \A i \in Slots : s[i] \in PartRefs
  OBVIOUS
<1>2. build \in 0 .. MaxBuilds
  BY SlotsType
<1> QED BY <1>1, <1>2 DEF Refers, PartRefs

LEMMA AcquireStep ==
  ASSUME TypeOK, OwnerInv, Acquire
  PROVE  TypeOK' /\ OwnerInv'
<1> DEFINE h == Head(todo)
<1>1. /\ stage = "construct" /\ todo' = Tail(todo)
      /\ stage' = IF Len(todo) = 1 THEN "open" ELSE "construct"
      /\ live' = (IF h = <<"syncobj_surface">> THEN {x \in live : x[1] \notin Transient}
                  ELSE live) \cup {h}
      /\ slots' = Refers(slots, {h}, builds)
      /\ retired' = retired /\ feedback' = feedback /\ builds' = builds /\ asked' = asked
      /\ options' = options
  BY DEF Acquire
<1>2. /\ todo # <<>> /\ todo[Len(todo)] = <<"syncobj_surface">>
      /\ \A k \in 1 .. Len(todo) - 1 : todo[k] # <<"syncobj_surface">>
      /\ live \cup ToSet(todo) = Built
      /\ \A i \in Slots, p \in Parts : slots[i][p] = IF <<p, i, 1>> \in live THEN 1 ELSE None
      /\ retired = <<>> /\ builds = 1 /\ asked = 0
      /\ \A i \in Slots : feedback[i] = None
  BY <1>1 DEF OwnerInv, ConstructInv
<1>3. todo \in Seq(Handles)
  BY DEF TypeOK
<1>4. /\ Len(todo) \in Nat \ {0}
      /\ h = todo[1] /\ h \in Handles
      /\ todo' \in Seq(Handles) /\ Len(todo') = Len(todo) - 1
      /\ DOMAIN todo' = 1 .. Len(todo) - 1
      /\ \A i \in 1 .. Len(todo) - 1 : todo'[i] = todo[i + 1]
      /\ ToSet(todo) = {h} \cup ToSet(todo')
  BY <1>1, <1>2, <1>3, TailFacts
<1> HIDE DEF h
<1>5. TypeOK'
  <2>1. slots' \in [Slots -> PartRefs]
    BY <1>1, RefersType DEF TypeOK
  <2> QED BY <1>1, <1>4, <2>1 DEF TypeOK
<1>6. ASSUME NEW i \in Slots, NEW p \in Parts
      PROVE  slots'[i][p] = IF <<p, i, 1>> = h THEN 1 ELSE slots[i][p]
  BY <1>1, <1>2 DEF Refers
<1>7. CASE Len(todo) # 1
  <2>1. h # <<"syncobj_surface">> /\ live' = live \cup {h} /\ stage' = "construct"
    <3>1. 1 \in 1 .. Len(todo) - 1
      BY <1>4, <1>7
    <3> QED BY <1>1, <1>2, <1>4, <1>7, <3>1
  <2>2. todo' # <<>>
    <3>1. Len(todo') # 0
      BY <1>4, <1>7
    <3> QED BY <1>4, <3>1, EmptySeq
  <2>3. todo'[Len(todo')] = <<"syncobj_surface">>
    <3>1. Len(todo) - 1 \in 1 .. Len(todo) - 1 /\ (Len(todo) - 1) + 1 = Len(todo)
      BY <1>4, <1>7
    <3> QED BY <1>2, <1>4, <3>1
  <2>4. ASSUME NEW k \in 1 .. Len(todo') - 1
        PROVE  todo'[k] # <<"syncobj_surface">>
    <3>1. k \in 1 .. Len(todo) - 1 /\ k + 1 \in 1 .. Len(todo) - 1
      BY <1>4
    <3> QED BY <1>2, <1>4, <3>1
  <2>5. live' \cup ToSet(todo') = Built'
    <3>1. Built' = Built
      BY <1>1 DEF Built, Had, Lacking
    <3> QED BY <1>2, <1>4, <2>1, <3>1
  <2>6. \A i \in Slots, p \in Parts :
          slots'[i][p] = IF <<p, i, 1>> \in live' THEN 1 ELSE None
    BY <1>2, <1>6, <2>1
  <2>7. ConstructInv'
    BY <1>1, <1>2, <2>2, <2>3, <2>4, <2>5, <2>6 DEF ConstructInv
  <2>8. OpenInv' /\ TeardownInv' /\ TeardownComplete'
    BY <2>1 DEF OpenInv, TeardownInv, TeardownComplete
  <2> QED BY <1>5, <2>7, <2>8 DEF OwnerInv
<1>8. CASE Len(todo) = 1
  <2>1. /\ h = <<"syncobj_surface">> /\ stage' = "open"
        /\ live' = {x \in live : x[1] \notin Transient} \cup {h}
    BY <1>1, <1>2, <1>4, <1>8
  <2>2. live \cup {h} = Built
    <3>1. ToSet(todo') = {}
      <4>1. DOMAIN todo' = {}
        BY <1>4, <1>8
      <4> QED BY <4>1 DEF ToSet
    <3> QED BY <1>2, <1>4, <3>1
  <2>3. \A x : x \in live' <=> x \in Built /\ x[1] \notin Transient
    <3>1. h \in Built /\ h[1] \notin Transient
      BY <2>1, <2>2 DEF Transient
    <3> QED BY <2>1, <2>2, <3>1
  <2>4. Had' = Had /\ Lacking' = Lacking
    BY <1>1 DEF Had, Lacking
  <2>5. FixedInv'
    <3>1. ASSUME NEW kind \in Had
          PROVE  <<kind>> \in live'
      <4>1. kind \notin Transient
        BY DEF Had, WindowKinds, Transient
      <4> QED BY <2>3, <4>1, BuiltFacts
    <3>2. ASSUME NEW kind \in Lacking
          PROVE  <<kind>> \notin live'
      <4>1. <<kind>> \notin Built
        BY BuiltFacts
      <4> QED BY <2>3, <4>1
    <3>3. ASSUME NEW kind \in SlotKinds, NEW i \in Slots
          PROVE  <<kind, i>> \in live' <=> kind \notin Transient
      <4>1. <<kind, i>> \in Built /\ <<kind, i>>[1] = kind
        BY BuiltFacts
      <4> QED BY <2>3, <4>1
    <3> QED BY <2>4, <3>1, <3>2, <3>3 DEF FixedInv
  <2>6. ASSUME NEW i \in Slots, NEW p \in Parts
        PROVE  slots'[i][p] = 1 /\ <<p, i, 1>> \in live'
    <3>1. p \notin Transient /\ p # "syncobj_surface"
      BY DEF Parts, Transient
    <3>2. <<p, i, 1>> # h
      BY <2>1, <3>1
    <3>3. <<p, i, 1>> \in live
      BY <2>2, <3>2, BuiltFacts
    <3> QED BY <1>2, <1>6, <2>3, <3>1, <3>2, <3>3, BuiltFacts
  <2>7. PartInv'
    <3>1. builds' = 1 /\ DOMAIN retired' = {}
      BY <1>1, <1>2, EmptySeq
    <3>2. \A p \in Parts, i \in Slots, b \in 1 .. MaxBuilds :
            <<p, i, b>> \in live' => slots'[i][p] = b
      BY <2>3, <2>6, BuiltFacts, SlotsType
    <3>3. ASSUME NEW i \in Slots, NEW p \in Parts
          PROVE  /\ slots'[i][p] <= builds'
                 /\ slots'[i][p] # None => <<p, i, slots'[i][p]>> \in live'
      <4>1. slots'[i][p] = 1 /\ <<p, i, 1>> \in live'
        BY <2>6
      <4>2. slots'[i][p] <= builds'
        BY <3>1, <4>1
      <4> QED BY <4>1, <4>2
    <3> QED BY <3>1, <3>2, <3>3 DEF PartInv
  <2>8. FeedbackInv'
    BY <1>1, <1>2 DEF FeedbackInv, None
  <2>9. ConstructInv' /\ TeardownInv' /\ TeardownComplete'
    BY <2>1 DEF ConstructInv, TeardownInv, TeardownComplete
  <2> QED BY <1>5, <2>1, <2>5, <2>7, <2>8, <2>9 DEF OwnerInv, OpenInv
<1> QED BY <1>7, <1>8


\* The steps of an open window keep the handles of these kinds.
Kept(kinds) == \A h : h[1] \in kinds => (h \in live' <=> h \in live)

FixedKinds == (WindowKinds \ {"frame_callback"}) \cup SlotKinds

LEMMA FixedKept ==
  ASSUME FixedInv, options' = options, Kept(FixedKinds)
  PROVE  FixedInv'
<1>1. Had' = Had /\ Lacking' = Lacking
  BY DEF Had, Lacking
<1>2. ASSUME NEW kind \in Had \cup Lacking
      PROVE  <<kind>> \in live' <=> <<kind>> \in live
  <2>1. kind \in FixedKinds
    BY DEF Had, Lacking, FixedKinds, WindowKinds
  <2>2. <<kind>>[1] = kind
    OBVIOUS
  <2> QED BY <2>1, <2>2 DEF Kept
<1>3. ASSUME NEW kind \in SlotKinds, NEW i \in Slots
      PROVE  <<kind, i>> \in live' <=> <<kind, i>> \in live
  <2>1. kind \in FixedKinds
    BY DEF FixedKinds
  <2>2. <<kind, i>>[1] = kind
    OBVIOUS
  <2> QED BY <2>1, <2>2 DEF Kept
<1>4. \A kind \in Had : <<kind>> \in live'
  BY <1>2 DEF FixedInv
<1>5. \A kind \in Lacking : <<kind>> \notin live'
  BY <1>2 DEF FixedInv
<1>6. \A kind \in SlotKinds, i \in Slots : <<kind, i>> \in live' <=> kind \notin Transient
  BY <1>3 DEF FixedInv
<1> QED BY <1>1, <1>4, <1>5, <1>6 DEF FixedInv

LEMMA PartKept ==
  ASSUME PartInv, slots' = slots, retired' = retired, builds' = builds, Kept(Parts)
  PROVE  PartInv'
<1>1. ASSUME NEW p \in Parts, NEW i, NEW b
      PROVE  <<p, i, b>> \in live' <=> <<p, i, b>> \in live
  <2>1. <<p, i, b>>[1] = p
    OBVIOUS
  <2> QED BY <2>1 DEF Kept
<1> QED BY <1>1 DEF PartInv

LEMMA FeedbackKept ==
  ASSUME FeedbackInv, feedback' = feedback, asked' = asked, Kept({"feedback"})
  PROVE  FeedbackInv'
<1>1. ASSUME NEW n
      PROVE  <<"feedback", n>> \in live' <=> <<"feedback", n>> \in live
  <2>1. <<"feedback", n>>[1] = "feedback"
    OBVIOUS
  <2> QED BY <2>1 DEF Kept
<1> QED BY <1>1 DEF FeedbackInv

LEMMA StaysOpen ==
  ASSUME stage' = "open", FixedInv', PartInv', FeedbackInv'
  PROVE  OwnerInv'
BY DEF OwnerInv, ConstructInv, OpenInv, TeardownInv, TeardownComplete

LEMMA KindsApart ==
  /\ "frame_callback" \notin FixedKinds /\ "frame_callback" \notin Parts
  /\ "feedback" \notin FixedKinds /\ "feedback" \notin Parts
  /\ Parts \cap FixedKinds = {}
BY DEF FixedKinds, WindowKinds, SlotKinds, Parts

\* arm_frame and frame_done.
LEMMA FrameStep ==
  ASSUME TypeOK, OwnerInv, ArmFrame \/ FrameDone
  PROVE  TypeOK' /\ OwnerInv'
<1> DEFINE c == <<"frame_callback">>
<1>1. /\ stage = "open" /\ live' \in {live \cup {c}, live \ {c}}
      /\ stage' = stage /\ slots' = slots /\ feedback' = feedback /\ options' = options
      /\ retired' = retired /\ builds' = builds /\ asked' = asked /\ todo' = todo
  BY DEF ArmFrame, FrameDone
<1>2. c \in Handles /\ c[1] = "frame_callback"
  BY HandleTypes DEF WindowKinds
<1> HIDE DEF c
<1>3. TypeOK'
  BY <1>1, <1>2 DEF TypeOK
<1>4. Kept(FixedKinds) /\ Kept(Parts) /\ Kept({"feedback"})
  BY <1>1, <1>2, KindsApart DEF Kept
<1>5. FixedInv /\ PartInv /\ FeedbackInv
  BY <1>1 DEF OwnerInv, OpenInv
<1> QED BY <1>1, <1>3, <1>4, <1>5, FixedKept, PartKept, FeedbackKept, StaysOpen

LEMMA CommitFrameStep ==
  ASSUME TypeOK, OwnerInv, NEW i \in Slots, CommitFrame(i)
  PROVE  TypeOK' /\ OwnerInv'
<1> DEFINE n == asked + 1
           o == <<"feedback", n>>
<1>1. /\ stage = "open" /\ live' = live \cup {o} /\ asked' = n
      /\ feedback' = [feedback EXCEPT ![i] = n]
      /\ stage' = stage /\ slots' = slots /\ options' = options
      /\ retired' = retired /\ builds' = builds /\ todo' = todo
      /\ asked < MaxFeedback
  BY DEF CommitFrame
<1>2. asked \in Nat /\ n \in 1 .. MaxFeedback
  BY <1>1, SlotsType DEF TypeOK
<1>3. o \in Handles /\ o[1] = "feedback"
  BY <1>2, HandleTypes
<1>4. FixedInv /\ PartInv /\ FeedbackInv
  BY <1>1 DEF OwnerInv, OpenInv
<1>5. feedback \in [Slots -> 0 .. MaxFeedback]
  BY DEF TypeOK
<1>6. TypeOK'
  <2>1. n \in 0 .. MaxFeedback
    BY <1>2
  <2>2. feedback' \in [Slots -> 0 .. MaxFeedback]
    BY <1>1, <1>5, <2>1
  <2> QED BY <1>1, <1>3, <2>1, <2>2 DEF TypeOK
<1>7. Kept(FixedKinds) /\ Kept(Parts)
  BY <1>1, <1>3, KindsApart DEF Kept
<1>8. FeedbackInv'
  <2>1. \A j \in Slots : feedback'[j] = IF j = i THEN n ELSE feedback[j]
    BY <1>1, <1>5
  <2>2. ASSUME NEW j \in Slots
        PROVE  feedback[j] \in Nat /\ feedback[j] <= asked /\ feedback[j] # n
    <3>1. feedback[j] \in 0 .. MaxFeedback
      BY <1>5
    <3>2. feedback[j] <= asked
      BY <1>4 DEF FeedbackInv
    <3> QED BY <1>2, <3>1, <3>2, SlotsType
  <2>3. n <= n /\ \A j \in Slots : feedback[j] <= n
    BY <1>2, <2>2
  <2>4. o \in live' /\ \A x \in live : x \in live'
    BY <1>1
  <2> HIDE DEF n
  <2>5. ASSUME NEW j \in Slots
        PROVE  /\ feedback'[j] <= n
               /\ feedback'[j] # None => <<"feedback", feedback'[j]>> \in live'
    BY <1>4, <2>1, <2>3, <2>4 DEF FeedbackInv
  <2>6. ASSUME NEW j \in Slots, NEW k \in Slots,
               feedback'[j] = feedback'[k], feedback'[j] # None
        PROVE  j = k
    BY <1>4, <2>1, <2>2, <2>6 DEF FeedbackInv
  <2> QED BY <1>1, <2>5, <2>6 DEF FeedbackInv
<1> QED BY <1>1, <1>4, <1>6, <1>7, <1>8, FixedKept, PartKept, StaysOpen

LEMMA AnsweredStep ==
  ASSUME TypeOK, OwnerInv, PresentationAnswered
  PROVE  TypeOK' /\ OwnerInv'
<1>1. PICK n \in 1 .. asked :
        /\ live' = live \ {<<"feedback", n>>}
        /\ feedback' = [i \in Slots |-> IF feedback[i] = n THEN None ELSE feedback[i]]
  BY DEF PresentationAnswered
<1>2. /\ stage = "open" /\ stage' = stage /\ slots' = slots /\ options' = options
      /\ retired' = retired /\ builds' = builds /\ todo' = todo /\ asked' = asked
  BY DEF PresentationAnswered
<1>3. FixedInv /\ PartInv /\ FeedbackInv
  BY <1>2 DEF OwnerInv, OpenInv
<1>4. None \in 0 .. MaxFeedback /\ 0 <= asked
  BY SlotsType DEF TypeOK, None
<1>5. TypeOK'
  <2>1. feedback' \in [Slots -> 0 .. MaxFeedback]
    BY <1>1, <1>4 DEF TypeOK
  <2> QED BY <1>1, <1>2, <2>1 DEF TypeOK
<1>6. Kept(FixedKinds) /\ Kept(Parts)
  <2>1. <<"feedback", n>>[1] = "feedback"
    OBVIOUS
  <2> QED BY <1>1, <2>1, KindsApart DEF Kept
<1>7. FeedbackInv'
  <2>1. \A i \in Slots : feedback'[i] = IF feedback[i] = n THEN None ELSE feedback[i]
    BY <1>1
  <2>2. ASSUME NEW i \in Slots
        PROVE  /\ feedback'[i] <= asked
               /\ feedback'[i] # None => <<"feedback", feedback'[i]>> \in live'
    <3>1. feedback'[i] <= asked
      BY <1>3, <1>4, <2>1 DEF FeedbackInv, None
    <3>2. ASSUME feedback'[i] # None
          PROVE  <<"feedback", feedback'[i]>> \in live'
      <4>1. feedback'[i] = feedback[i] /\ feedback[i] # n
        BY <2>1, <3>2
      <4> QED BY <1>1, <1>3, <3>2, <4>1 DEF FeedbackInv
    <3> QED BY <3>1, <3>2
  <2>3. ASSUME NEW i \in Slots, NEW j \in Slots,
               feedback'[i] = feedback'[j], feedback'[i] # None
        PROVE  i = j
    BY <1>3, <2>1, <2>3 DEF FeedbackInv
  <2> QED BY <1>2, <2>2, <2>3 DEF FeedbackInv
<1> QED BY <1>2, <1>3, <1>5, <1>6, <1>7, FixedKept, PartKept, StaysOpen

\* reap_retired: the other entries keep their parts.
LEMMA ReapStep ==
  ASSUME TypeOK, OwnerInv, ReapEntry
  PROVE  TypeOK' /\ OwnerInv'
<1>1. PICK k \in DOMAIN retired : /\ live' = live \ ToSet(RetiredEntry(retired[k]))
                                  /\ retired' = RemoveAt(retired, k)
  BY DEF ReapEntry
<1>2. /\ stage = "open" /\ stage' = stage /\ slots' = slots /\ options' = options
      /\ feedback' = feedback /\ builds' = builds /\ todo' = todo /\ asked' = asked
  BY DEF ReapEntry
<1>3. FixedInv /\ PartInv /\ FeedbackInv
  BY <1>2 DEF OwnerInv, OpenInv
<1> DEFINE N == Len(retired)
           Gone == PartsHeld(retired[k].slot, retired[k].parts)
<1>4. N \in Nat /\ DOMAIN retired = 1 .. N /\ k \in 1 .. N
  BY EntryTypes
<1>5. live' = live \ Gone
  BY <1>1, EntryTypes, RetiredEntryLists DEF Lists
<1>6. /\ retired' \in Seq([slot : Slots, parts : PartRefs])
      /\ Len(retired') = N - 1
      /\ \A j \in 1 .. N - 1 : retired'[j] = IF j < k THEN retired[j] ELSE retired[j + 1]
  BY <1>1, <1>4, RemoveAtProperties DEF TypeOK
<1>7. DOMAIN retired' = 1 .. N - 1
  BY <1>6, LenProperties
<1>8. TypeOK'
  BY <1>2, <1>5, <1>6 DEF TypeOK
<1>9. ASSUME NEW h \in Gone
      PROVE  \E p \in Parts : h = <<p, retired[k].slot, retired[k].parts[p]>>
  BY DEF PartsHeld
<1>10. Kept(FixedKinds) /\ Kept({"feedback"})
  <2>1. \A h \in Gone : h[1] \in Parts
    BY <1>9
  <2> HIDE DEF Gone
  <2> QED BY <1>5, <2>1, KindsApart DEF Kept
<1> DEFINE Old(j) == IF j < k THEN j ELSE j + 1
<1>11. ASSUME NEW j \in DOMAIN retired'
       PROVE  Old(j) \in DOMAIN retired /\ Old(j) # k /\ retired'[j] = retired[Old(j)]
  BY <1>4, <1>6, <1>7
<1>12. ASSUME NEW j \in DOMAIN retired, j # k
       PROVE  \E l \in DOMAIN retired' : retired'[l] = retired[j]
  <2>1. CASE j < k
    <3>1. j \in 1 .. N - 1
      BY <1>4, <2>1
    <3> QED BY <1>6, <1>7, <2>1, <3>1
  <2>2. CASE ~(j < k)
    <3>1. j - 1 \in 1 .. N - 1 /\ ~(j - 1 < k) /\ (j - 1) + 1 = j
      BY <1>4, <1>12, <2>2
    <3> QED BY <1>6, <1>7, <3>1
  <2> QED BY <2>1, <2>2
<1>13. ASSUME NEW i \in DOMAIN retired', NEW j \in DOMAIN retired', Old(i) = Old(j)
       PROVE  i = j
  BY <1>4, <1>7, <1>13
<1> HIDE DEF Old, N
<1>14. ASSUME NEW j \in DOMAIN retired, j # k, NEW p \in Parts, retired[j].parts[p] # None
       PROVE  <<p, retired[j].slot, retired[j].parts[p]>> \in live'
  <2> DEFINE h == <<p, retired[j].slot, retired[j].parts[p]>>
  <2>1. h \in live
    BY <1>3, <1>14 DEF PartInv
  <2>2. h \notin Gone
    <3> SUFFICES ASSUME h \in Gone
                 PROVE  FALSE
      OBVIOUS
    <3>1. PICK q \in Parts : h = <<q, retired[k].slot, retired[k].parts[q]>>
      BY <1>9
    <3>2. q = p /\ retired[j].slot = retired[k].slot /\ retired[j].parts[p] = retired[k].parts[p]
      BY <3>1
    <3> QED BY <1>3, <1>14, <3>2 DEF PartInv
  <2> QED BY <1>5, <2>1, <2>2
<1>15. ASSUME NEW i \in Slots, NEW p \in Parts, slots[i][p] # None
       PROVE  <<p, i, slots[i][p]>> \in live'
  <2> DEFINE h == <<p, i, slots[i][p]>>
  <2>1. h \in live
    BY <1>3, <1>15 DEF PartInv
  <2>2. h \notin Gone
    <3> SUFFICES ASSUME h \in Gone
                 PROVE  FALSE
      OBVIOUS
    <3>1. PICK q \in Parts : /\ h = <<q, retired[k].slot, retired[k].parts[q]>>
      BY <1>9
    <3>2. q = p /\ i = retired[k].slot /\ slots[i][p] = retired[k].parts[p]
      BY <3>1
    <3> QED BY <1>3, <1>15, <3>2 DEF PartInv
  <2> QED BY <1>5, <2>1, <2>2
<1>16. PartInv'
  <2>1. \A i \in Slots, p \in Parts :
          slots[i][p] <= builds /\ (slots[i][p] # None => <<p, i, slots[i][p]>> \in live')
    BY <1>3, <1>15 DEF PartInv
  <2>2. ASSUME NEW j \in DOMAIN retired', NEW p \in Parts
        PROVE  /\ retired'[j].parts[p] <= builds
               /\ retired'[j].parts[p] # None =>
                    /\ <<p, retired'[j].slot, retired'[j].parts[p]>> \in live'
                    /\ slots[retired'[j].slot][p] # retired'[j].parts[p]
    BY <1>3, <1>11, <1>14 DEF PartInv
  <2>3. ASSUME NEW i \in DOMAIN retired', NEW j \in DOMAIN retired', NEW p \in Parts,
               retired'[i].slot = retired'[j].slot,
               retired'[i].parts[p] = retired'[j].parts[p], retired'[i].parts[p] # None
        PROVE  i = j
    <3>1. Old(i) = Old(j)
      BY <1>3, <1>11, <2>3 DEF PartInv
    <3> QED BY <1>13, <3>1
  <2>4. ASSUME NEW p \in Parts, NEW i \in Slots, NEW b \in 1 .. MaxBuilds, <<p, i, b>> \in live'
        PROVE  \/ slots[i][p] = b
               \/ \E j \in DOMAIN retired' : retired'[j].slot = i /\ retired'[j].parts[p] = b
    <3>1. <<p, i, b>> \in live /\ <<p, i, b>> \notin Gone
      BY <1>5, <2>4
    <3>2. CASE \E j \in DOMAIN retired : retired[j].slot = i /\ retired[j].parts[p] = b
      <4>1. PICK j \in DOMAIN retired : retired[j].slot = i /\ retired[j].parts[p] = b
        BY <3>2
      <4>2. j # k
        <5>1. b # None
          BY SlotsType DEF None
        <5> QED BY <3>1, <4>1, <5>1 DEF PartsHeld
      <4> QED BY <1>12, <4>1, <4>2
    <3> QED BY <1>3, <3>1, <3>2 DEF PartInv
  <2> QED BY <1>2, <2>1, <2>2, <2>3, <2>4 DEF PartInv
<1> QED BY <1>2, <1>3, <1>8, <1>10, <1>16, FixedKept, FeedbackKept, StaysOpen


\* handle_resize: every slot becomes an entry of retired_, and refers to what
\* was built of the next build.
LEMMA ResizeStep ==
  ASSUME TypeOK, OwnerInv, HandleResize
  PROVE  TypeOK' /\ OwnerInv'
<1> DEFINE b == builds + 1
           N == Len(retired)
           fresh == [k \in 1 .. BufferCount |-> [slot |-> k - 1, parts |-> slots[k - 1]]]
<1>1. /\ stage = "open" /\ stage' = stage /\ options' = options
      /\ todo' = todo /\ asked' = asked /\ builds' = b /\ builds < MaxBuilds
      /\ retired' = retired \o fresh /\ feedback' = [i \in Slots |-> None]
  BY DEF HandleResize
<1>2. FixedInv /\ PartInv /\ FeedbackInv
  BY <1>1 DEF OwnerInv, OpenInv
<1>3. builds \in Nat /\ b \in 1 .. MaxBuilds /\ b # None /\ 0 <= b /\ b <= b
  BY <1>1, SlotsType DEF TypeOK, None
<1>4. PICK acquired \in 0 .. Len(BuildOrder(b)) :
        /\ slots' = Refers(Emptied(slots), ToSet(SubSeq(BuildOrder(b), 1, acquired)), b)
        /\ live' = (live \ Dropped(feedback)) \cup ToSet(SubSeq(BuildOrder(b), 1, acquired))
  BY DEF HandleResize
<1> DEFINE new == ToSet(SubSeq(BuildOrder(b), 1, acquired))
<1>5. new \subseteq PartHandles(b) /\ new \subseteq Handles
  <2>1. /\ BuildOrder(b) \in Seq(Handles) /\ ToSet(BuildOrder(b)) = PartHandles(b)
        /\ Len(BuildOrder(b)) \in Nat /\ DOMAIN BuildOrder(b) = 1 .. Len(BuildOrder(b))
    BY <1>3, BuildOrderCovers, LenProperties DEF Covers
  <2>2. new \subseteq ToSet(BuildOrder(b))
    <3> DEFINE s == BuildOrder(b)
               t == SubSeq(s, 1, acquired)
    <3>1. /\ t \in Seq(Handles)
          /\ Len(t) = IF 1 <= acquired THEN acquired - 1 + 1 ELSE 0
          /\ \A j \in 1 .. acquired - 1 + 1 : t[j] = s[1 + j - 1]
      <4>1. 1 \in 1 .. Len(s) + 1 /\ acquired \in 1 - 1 .. Len(s)
        BY <2>1
      <4> HIDE DEF s
      <4> QED BY <2>1, <4>1, SubSeqProperties DEF s
    <3>2. DOMAIN t = 1 .. Len(t)
      BY <3>1, LenProperties
    <3> HIDE DEF s, t
    <3>3. ASSUME NEW j \in DOMAIN t
          PROVE  j \in DOMAIN s /\ t[j] = s[j]
      <4>1. acquired \in Nat /\ acquired <= Len(s) /\ Len(s) \in Nat /\ DOMAIN s = 1 .. Len(s)
        BY <2>1 DEF s
      <4>2. j \in 1 .. acquired /\ j \in 1 .. acquired - 1 + 1 /\ 1 + j - 1 = j
        BY <3>1, <3>2, <4>1
      <4> QED BY <3>1, <4>1, <4>2
    <3>4. ToSet(t) \subseteq ToSet(s)
      BY <3>3 DEF ToSet
    <3> QED BY <3>4 DEF s, t
  <2>3. PartHandles(b) \subseteq Handles
    BY <1>3, HandleTypes DEF PartHandles
  <2> QED BY <2>1, <2>2, <2>3
<1> HIDE DEF new
<1>6. /\ slots' = Refers(Emptied(slots), new, b)
      /\ live' = (live \ Dropped(feedback)) \cup new
  BY <1>4 DEF new
<1>7. \A h \in Dropped(feedback) : h[1] = "feedback"
  BY DEF Dropped
<1>8. \A h \in new : \E p \in Parts, i \in Slots : h = <<p, i, b>>
  BY <1>5 DEF PartHandles
<1>9. ASSUME NEW i \in Slots, NEW p \in Parts
      PROVE  slots'[i][p] = IF <<p, i, b>> \in new THEN b ELSE None
  BY <1>6 DEF Refers, Emptied
<1>10. /\ N \in Nat /\ DOMAIN retired = 1 .. N
       /\ \A k \in DOMAIN retired : retired[k].slot \in Slots /\ retired[k].parts \in PartRefs
  BY EntryTypes
<1>11. fresh \in Seq([slot : Slots, parts : PartRefs]) /\ Len(fresh) = BufferCount
  <2>1. \A k \in 1 .. BufferCount :
          [slot |-> k - 1, parts |-> slots[k - 1]] \in [slot : Slots, parts : PartRefs]
    BY SlotsType DEF TypeOK
  <2> QED BY <2>1, SlotsType, IsASeq
<1>12. \A k \in 1 .. BufferCount : fresh[k].slot = k - 1 /\ fresh[k].parts = slots[k - 1]
  OBVIOUS
<1> HIDE DEF fresh
<1>13. /\ retired' \in Seq([slot : Slots, parts : PartRefs])
       /\ Len(retired') = N + BufferCount
       /\ \A k \in 1 .. N + BufferCount :
            retired'[k] = IF k <= N THEN retired[k] ELSE fresh[k - N]
  <2>1. retired \in Seq([slot : Slots, parts : PartRefs])
    BY DEF TypeOK
  <2>2. /\ retired \o fresh \in Seq([slot : Slots, parts : PartRefs])
        /\ Len(retired \o fresh) = Len(retired) + Len(fresh)
        /\ \A k \in 1 .. Len(retired) + Len(fresh) :
             (retired \o fresh)[k] = IF k <= Len(retired) THEN retired[k]
                                     ELSE fresh[k - Len(retired)]
    BY <1>11, <2>1, ConcatProperties
  <2> QED BY <1>1, <1>11, <2>2
<1>14. DOMAIN retired' = 1 .. N + BufferCount
  BY <1>13, LenProperties
<1> HIDE DEF N, b
\* The entries: those there were, and one for each slot.
<1>15. ASSUME NEW k \in DOMAIN retired'
       PROVE  \/ k \in DOMAIN retired /\ retired'[k] = retired[k]
              \/ /\ (k - N) - 1 \in Slots /\ k \notin DOMAIN retired
                 /\ retired'[k].slot = (k - N) - 1
                 /\ retired'[k].parts = slots[(k - N) - 1]
  <2>1. CASE k <= N
    BY <1>10, <1>13, <1>14, <2>1
  <2>2. CASE ~(k <= N)
    <3>1. k - N \in 1 .. BufferCount /\ k \notin DOMAIN retired /\ k \in 1 .. N + BufferCount
      BY <1>10, <1>14, <2>2, SlotsType
    <3>2. retired'[k] = fresh[k - N]
      BY <1>13, <2>2, <3>1
    <3> QED BY <1>12, <3>1, <3>2, SlotsType
  <2> QED BY <2>1, <2>2
<1>16. ASSUME NEW k \in DOMAIN retired
       PROVE  k \in DOMAIN retired' /\ retired'[k] = retired[k]
  BY <1>10, <1>13, <1>14, SlotsType
<1>17. ASSUME NEW i \in Slots
       PROVE  \E k \in DOMAIN retired' : retired'[k].slot = i /\ retired'[k].parts = slots[i]
  <2>1. /\ i + 1 \in 1 .. BufferCount /\ (i + 1) - 1 = i
    BY SlotsType
  <2>2. /\ N + (i + 1) \in 1 .. N + BufferCount /\ ~(N + (i + 1) <= N)
        /\ (N + (i + 1)) - N = i + 1
    BY <1>10, <2>1, SlotsType
  <2>3. retired'[N + (i + 1)] = fresh[i + 1]
    BY <1>13, <2>2
  <2> QED BY <1>12, <1>14, <2>1, <2>2, <2>3
<1>18. ASSUME NEW j \in DOMAIN retired', NEW k \in DOMAIN retired', (j - N) - 1 = (k - N) - 1
       PROVE  j = k
  BY <1>10, <1>14, <1>18, SlotsType
<1>19. TypeOK'
  <2>1. slots' \in [Slots -> PartRefs]
    <3>1. None \in 0 .. MaxBuilds
      BY SlotsType DEF None
    <3>2. Emptied(slots) \in [Slots -> PartRefs]
      BY <3>1 DEF Emptied, PartRefs
    <3> QED BY <1>3, <1>6, <3>2, RefersType
  <2>2. feedback' \in [Slots -> 0 .. MaxFeedback]
    BY <1>1, SlotsType DEF None
  <2> QED BY <1>1, <1>3, <1>5, <1>6, <1>13, <2>1, <2>2 DEF TypeOK
<1>20. FixedInv'
  <2>1. \A h \in new : h[1] \in Parts
    BY <1>8
  <2>2. Kept(FixedKinds)
    BY <1>6, <1>7, <2>1, KindsApart DEF Kept
  <2> QED BY <1>1, <1>2, <2>2, FixedKept
<1>21. FeedbackInv'
  BY <1>1, <1>2 DEF FeedbackInv, TypeOK, None
<1>22. ASSUME NEW p \in Parts, NEW i, NEW c, <<p, i, c>> \in live
       PROVE  <<p, i, c>> \in live'
  <2>1. <<p, i, c>>[1] = p /\ p # "feedback"
    BY KindsApart
  <2> QED BY <1>6, <1>7, <1>22, <2>1
<1>23. \A c \in Nat : c <= builds => c <= b /\ c # b
  BY <1>3 DEF b
<1>24. ASSUME NEW k \in DOMAIN retired', NEW p \in Parts
       PROVE  /\ retired'[k].parts[p] <= builds
              /\ retired'[k].parts[p] \in Nat
              /\ retired'[k].parts[p] # None =>
                   <<p, retired'[k].slot, retired'[k].parts[p]>> \in live
              /\ retired'[k].slot \in Slots
  <2>1. CASE k \in DOMAIN retired /\ retired'[k] = retired[k]
    <3>1. retired[k].parts[p] \in Nat
      BY <2>1, EntryTypes, SlotsType
    <3> QED BY <1>2, <1>10, <2>1, <3>1 DEF PartInv
  <2>2. CASE /\ (k - N) - 1 \in Slots
             /\ retired'[k].slot = (k - N) - 1
             /\ retired'[k].parts = slots[(k - N) - 1]
    <3>1. PICK i \in Slots : i = (k - N) - 1
      BY <2>2
    <3>2. slots[i][p] \in 0 .. MaxBuilds
      BY DEF TypeOK, PartRefs
    <3>3. slots[i][p] \in Nat
      BY <3>2, SlotsType
    <3> QED BY <1>2, <2>2, <3>1, <3>3 DEF PartInv
  <2> QED BY <1>15, <2>1, <2>2
<1>25. PartInv'
  <2>1. ASSUME NEW i \in Slots, NEW p \in Parts
        PROVE  /\ slots'[i][p] <= builds'
               /\ slots'[i][p] # None => <<p, i, slots'[i][p]>> \in live'
    <3>1. slots'[i][p] <= builds'
      BY <1>1, <1>3, <1>9 DEF None
    <3>2. slots'[i][p] # None => <<p, i, slots'[i][p]>> \in live'
      BY <1>6, <1>9
    <3> QED BY <3>1, <3>2
  <2>2. ASSUME NEW k \in DOMAIN retired', NEW p \in Parts
        PROVE  /\ retired'[k].parts[p] <= builds'
               /\ retired'[k].parts[p] # None =>
                    /\ <<p, retired'[k].slot, retired'[k].parts[p]>> \in live'
                    /\ slots'[retired'[k].slot][p] # retired'[k].parts[p]
    <3>1. retired'[k].parts[p] <= b /\ retired'[k].parts[p] # b
      BY <1>23, <1>24
    <3>2. slots'[retired'[k].slot][p] \in {b, None}
      BY <1>9, <1>24
    <3> QED BY <1>1, <1>22, <1>24, <3>1, <3>2
  <2>3. ASSUME NEW j \in DOMAIN retired', NEW k \in DOMAIN retired', NEW p \in Parts,
               retired'[j].slot = retired'[k].slot,
               retired'[j].parts[p] = retired'[k].parts[p], retired'[j].parts[p] # None
        PROVE  j = k
    <3> DEFINE Of(x) == (x - N) - 1
               IsOld(x) == x \in DOMAIN retired /\ retired'[x] = retired[x]
               IsNew(x) == /\ Of(x) \in Slots /\ retired'[x].slot = Of(x)
                           /\ retired'[x].parts = slots[Of(x)]
    <3>1. (IsOld(j) \/ IsNew(j)) /\ (IsOld(k) \/ IsNew(k))
      BY <1>15
    <3>2. Of(j) = Of(k) => j = k
      BY <1>18
    <3> HIDE DEF Of
    <3>3. CASE IsOld(j) /\ IsOld(k)
      BY <1>2, <2>3, <3>3 DEF PartInv
    <3>4. CASE IsNew(j) /\ IsNew(k)
      BY <2>3, <3>2, <3>4
    <3>5. CASE IsOld(j) /\ IsNew(k)
      <4>1. slots[retired[j].slot][p] # retired[j].parts[p]
        BY <1>2, <2>3, <3>5 DEF PartInv
      <4> QED BY <2>3, <3>5, <4>1
    <3>6. CASE IsNew(j) /\ IsOld(k)
      <4>1. slots[retired[k].slot][p] # retired[k].parts[p]
        BY <1>2, <2>3, <3>6 DEF PartInv
      <4> QED BY <2>3, <3>6, <4>1
    <3> QED BY <3>1, <3>3, <3>4, <3>5, <3>6
  <2>4. ASSUME NEW p \in Parts, NEW i \in Slots, NEW c \in 1 .. MaxBuilds, <<p, i, c>> \in live'
        PROVE  \/ slots'[i][p] = c
               \/ \E k \in DOMAIN retired' : retired'[k].slot = i /\ retired'[k].parts[p] = c
    <3>1. CASE <<p, i, c>> \in new
      <4>1. c = b
        BY <1>8, <3>1
      <4> QED BY <1>9, <3>1, <4>1
    <3>2. CASE <<p, i, c>> \in live
      <4>1. CASE slots[i][p] = c
        BY <1>17, <4>1
      <4>2. CASE \E k \in DOMAIN retired : retired[k].slot = i /\ retired[k].parts[p] = c
        BY <1>16, <4>2
      <4> QED BY <1>2, <3>2, <4>1, <4>2 DEF PartInv
    <3> QED BY <1>6, <2>4, <3>1, <3>2
  <2> QED BY <2>1, <2>2, <2>3, <2>4 DEF PartInv
<1> QED BY <1>1, <1>19, <1>20, <1>21, <1>25, StaysOpen

----------------------------------------------------------------------------
(* The theorems.                                                           *)

LEMMA OwnerInit == Init => TypeOK /\ OwnerInv
<1> SUFFICES ASSUME Init
             PROVE  TypeOK /\ OwnerInv
  OBVIOUS
<1>1. /\ options \in SUBSET Options /\ live = {} /\ stage = "construct"
      /\ slots = [i \in Slots |-> [p \in Parts |-> None]]
      /\ retired = <<>> /\ feedback = [i \in Slots |-> None]
      /\ builds = 1 /\ asked = 0 /\ todo = ConstructionOrder
  BY DEF Init
<1>2. /\ todo \in Seq(Handles) /\ ToSet(todo) = Built /\ todo # <<>>
      /\ todo[Len(todo)] = <<"syncobj_surface">>
      /\ \A k \in 1 .. Len(todo) - 1 : todo[k] # <<"syncobj_surface">>
  BY <1>1, ConstructionCovers DEF Covers
<1>3. TypeOK
  <2>1. slots \in [Slots -> PartRefs] /\ feedback \in [Slots -> 0 .. MaxFeedback]
    BY <1>1, SlotsType DEF PartRefs, None
  <2>2. builds \in 1 .. MaxBuilds /\ asked \in 0 .. MaxFeedback
    BY <1>1, SlotsType
  <2>3. retired \in Seq([slot : Slots, parts : PartRefs])
    BY <1>1, EmptySeq
  <2> QED BY <1>1, <1>2, <2>1, <2>2, <2>3 DEF TypeOK
<1>4. ConstructInv
  BY <1>1, <1>2 DEF ConstructInv
<1> QED BY <1>1, <1>3, <1>4 DEF OwnerInv, OpenInv, TeardownInv, TeardownComplete

LEMMA OwnerNext == TypeOK /\ OwnerInv /\ [Next]_vars => TypeOK' /\ OwnerInv'
<1> SUFFICES ASSUME TypeOK, OwnerInv, [Next]_vars
             PROVE  TypeOK' /\ OwnerInv'
  OBVIOUS
<1>1. CASE Acquire
  BY <1>1, AcquireStep
<1>2. CASE Throw
  BY <1>2 DEF Throw, TypeOK, OwnerInv, ConstructInv, OpenInv, TeardownInv, TeardownComplete
<1>3. CASE HandleResize
  BY <1>3, ResizeStep
<1>4. CASE ReapEntry
  BY <1>4, ReapStep
<1>5. CASE ArmFrame \/ FrameDone
  BY <1>5, FrameStep
<1>6. CASE \E i \in Slots : CommitFrame(i)
  BY <1>6, CommitFrameStep
<1>7. CASE PresentationAnswered
  BY <1>7, AnsweredStep
<1>8. CASE Destroy
  BY <1>8, DestroyStep
<1>9. CASE Release
  BY <1>9, ReleaseStep
<1>10. CASE UNCHANGED vars
  <2>1. /\ options' = options /\ live' = live /\ stage' = stage /\ slots' = slots
        /\ retired' = retired /\ feedback' = feedback /\ builds' = builds
        /\ asked' = asked /\ todo' = todo
    BY <1>10 DEF vars
  <2>2. TypeOK'
    BY <2>1 DEF TypeOK
  <2>3. Had' = Had /\ Lacking' = Lacking /\ Built' = Built
    BY <2>1 DEF Had, Lacking, Built
  <2>4. ConstructInv'
    BY <2>1, <2>3 DEF OwnerInv, ConstructInv
  <2>5. OpenInv'
    BY <2>1, <2>3 DEF OwnerInv, OpenInv, FixedInv, PartInv, FeedbackInv
  <2>6. TeardownInv' /\ TeardownComplete'
    BY <2>1 DEF OwnerInv, TeardownInv, Orderly, TeardownComplete
  <2> QED BY <2>2, <2>4, <2>5, <2>6 DEF OwnerInv
<1> QED BY <1>1, <1>2, <1>3, <1>4, <1>5, <1>6, <1>7, <1>8, <1>9, <1>10 DEF Next, Ended

LEMMA OwnerInvariant == Spec => [](TypeOK /\ OwnerInv)
BY OwnerInit, OwnerNext, PTL DEF Spec

\* Handles stay handles of this window, and references to parts and feedback
\* objects name builds and objects there were.
THEOREM ResourceTypes == Spec => []TypeOK
BY OwnerInvariant, PTL

\* Every live image, descriptor and wl_buffer of an open window has exactly one
\* owner, whatever calls of create_dmabuf_resources failed; nothing is referred
\* to that is gone.
THEOREM OwnedSafety == Spec => []OwnedOnce
<1>1. TypeOK /\ OwnerInv => OwnedOnce
  <2> SUFFICES ASSUME TypeOK, FixedInv, PartInv, FeedbackInv
               PROVE  OwnedOnce
    BY DEF OwnerInv, OpenInv, OwnedOnce
  <2>1. ASSUME NEW p \in Parts, NEW i \in Slots, NEW b \in 1 .. builds
        PROVE  Cardinality(Owners(p, i, b)) = IF <<p, i, b>> \in live THEN 1 ELSE 0
    <3>1. b \in 1 .. MaxBuilds /\ b # None
      BY SlotsType DEF TypeOK, None
    <3> DEFINE AtSlot == slots[i][p] = b
               At(k) == k \in DOMAIN retired /\ retired[k].slot = i /\ retired[k].parts[p] = b
    <3>2. \A x : x \in Owners(p, i, b) <=> \/ x = <<"slot", i>> /\ AtSlot
                                           \/ \E k \in DOMAIN retired : x = <<"retired", k>> /\ At(k)
      BY DEF Owners
    <3>3. /\ ~(\E k \in DOMAIN retired : At(k) /\ AtSlot)
          /\ \A j, k \in DOMAIN retired : At(j) /\ At(k) => j = k
          /\ AtSlot => <<p, i, b>> \in live
          /\ \A k \in DOMAIN retired : At(k) => <<p, i, b>> \in live
          /\ <<p, i, b>> \in live => AtSlot \/ \E k \in DOMAIN retired : At(k)
      BY <3>1 DEF PartInv
    <3> HIDE DEF AtSlot, At
    <3>4. CASE AtSlot
      <4>1. Owners(p, i, b) = {<<"slot", i>>}
        BY <3>2, <3>3, <3>4
      <4> QED BY <3>3, <3>4, <4>1, FS_Singleton
    <3>5. CASE \E k \in DOMAIN retired : At(k)
      <4>1. PICK k \in DOMAIN retired : At(k)
        BY <3>5
      <4>2. Owners(p, i, b) = {<<"retired", k>>}
        BY <3>2, <3>3, <4>1
      <4> QED BY <3>3, <4>1, <4>2, FS_Singleton
    <3>6. CASE ~AtSlot /\ ~(\E k \in DOMAIN retired : At(k))
      <4>1. Owners(p, i, b) = {}
        BY <3>2, <3>6
      <4> QED BY <3>3, <3>6, <4>1, FS_EmptySet
    <3> QED BY <3>4, <3>5, <3>6
  <2>2. \A i \in Slots : feedback[i] # None => <<"feedback", feedback[i]>> \in live
    BY DEF FeedbackInv
  <2> QED BY <2>1, <2>2 DEF OwnedOnce
<1> QED BY <1>1, OwnerInvariant, PTL

\* Each handle ~Impl releases is still live: none is released twice.
THEOREM ReleaseSafety == Spec => []ReleasedOnce
<1>1. TypeOK /\ OwnerInv => ReleasedOnce
  <2> SUFFICES ASSUME TypeOK, OwnerInv, stage = "teardown"
               PROVE  Head(todo) \in live
    BY DEF ReleasedOnce
  <2>1. todo \in Seq(Handles) /\ todo # <<>> /\ ToSet(todo) \subseteq live
    BY DEF TypeOK, OwnerInv, TeardownInv
  <2>2. Head(todo) \in ToSet(todo)
    BY <2>1, TailFacts
  <2> QED BY <2>1, <2>2
<1> QED BY <1>1, OwnerInvariant, PTL

\* What a handle was made from outlives it, but for the toplevel, which ~Impl
\* destroys before its decoration.
THEOREM ParentSafety == Spec => []ParentsOutlive
<1>1. TypeOK /\ OwnerInv => ParentsOutlive
  <2> SUFFICES ASSUME TypeOK, OwnerInv, stage = "teardown", NEW kind \in Parents(Head(todo)[1])
               PROVE  <<kind>> \in live \/ (Head(todo) = <<"decoration">> /\ kind = "toplevel")
    BY DEF ParentsOutlive
  <2>1. /\ todo \in Seq(Handles) /\ todo # <<>>
        /\ \A h \in ToSet(todo) : \A k \in Outliving(h[1]) : <<k>> \in live
    BY DEF TypeOK, OwnerInv, TeardownInv
  <2>2. Head(todo) \in ToSet(todo)
    BY <2>1, TailFacts
  <2>3. CASE kind \in Outliving(Head(todo)[1])
    BY <2>1, <2>2, <2>3
  <2>4. CASE kind \notin Outliving(Head(todo)[1])
    <3>1. Head(todo)[1] = "decoration" /\ kind = "toplevel"
      BY <2>4 DEF Outliving
    <3>2. Head(todo) \in Handles
      BY <2>1, <2>2, LenProperties, ElementOfSeq DEF ToSet
    <3>3. Head(todo) = <<"decoration">>
      <4>1. \/ \E k \in WindowKinds : Head(todo) = <<k>>
            \/ Head(todo)[1] \in SlotKinds \cup Parts \cup {"feedback"}
        BY <3>2 DEF Handles
      <4> QED BY <3>1, <4>1 DEF SlotKinds, Parts
    <3> QED BY <3>1, <3>3
  <2> QED BY <2>3, <2>4
<1> QED BY <1>1, OwnerInvariant, PTL

\* ~Impl leaves proxies of globals and unreferenced feedback objects, nothing
\* else.
THEOREM TeardownSafety == Spec => []TeardownComplete
<1>1. TypeOK /\ OwnerInv => TeardownComplete
  BY DEF OwnerInv
<1> QED BY <1>1, OwnerInvariant, PTL

============================================================================
