----------------------- MODULE FormatNegotiationProofs -----------------------
(***************************************************************************)
(* For every set of entries, index lists and drivers, and every            *)
(* choose_format.                                                          *)
(***************************************************************************)
EXTENDS FormatNegotiation, SequenceFacts, TLAPS

----------------------------------------------------------------------------
(* The entries a tranche lists.                                            *)

\* The loop of feedback_tranche_formats builds a sequence of the table's entries,
\* for any list of indices and any size up to the table's.
LEMMA ListedType ==
  ASSUME NEW S, NEW indices \in Seq(Nat), NEW entries \in Seq(S),
         NEW size \in 0 .. Len(entries)
  PROVE  Listed(indices, entries, size) \in Seq(S)
<1> DEFINE N == Len(indices)
           T == Seq(S)
           Next1(n, s) == IF indices[n] < size THEN Append(s, entries[indices[n] + 1]) ELSE s
           Equation(f) ==
             f = [n \in 0 .. N |-> IF n = 0 THEN <<>>
                                   ELSE IF indices[n] < size
                                        THEN Append(f[n - 1], entries[indices[n] + 1])
                                        ELSE f[n - 1]]
           step == [p \in (1 .. N) \X T |-> Next1(p[1], p[2])]
<1>1. N \in Nat /\ \A n \in 1 .. N : indices[n] \in Nat
  BY LenProperties, ElementOfSeq
<1>2. Len(entries) \in Nat /\ \A n \in 1 .. Len(entries) : entries[n] \in S
  BY LenProperties, ElementOfSeq
<1>3. ASSUME NEW n \in 1 .. N, NEW s \in T
      PROVE  Next1(n, s) \in T
  <2>1. CASE indices[n] < size
    <3>1. indices[n] + 1 \in 1 .. Len(entries)
      BY <1>1, <1>2, <2>1
    <3>2. entries[indices[n] + 1] \in S
      BY <1>2, <3>1
    <3> QED BY <2>1, <3>2, AppendProperties
  <2>2. CASE ~(indices[n] < size)
    BY <2>2
  <2> QED BY <2>1, <2>2
<1>4. <<>> \in T
  BY EmptySeq
<1>5. PICK f \in [0 .. N -> T] :
        f[0] = <<>> /\ \A n \in 1 .. N : f[n] = step[<<n, f[n - 1]>>]
  <2>1. step \in [(1 .. N) \X T -> T]
    BY <1>3
  <2>2. StepsIn(T, <<>>, N, step)
    BY <1>1, <1>4, <2>1 DEF StepsIn
  <2> HIDE DEF step, N, T
  <2>3. PICK base, g : base = <<>> /\ g = step
    OBVIOUS
  <2>4. StepsIn(T, base, N, g)
    BY <2>2, <2>3
  <2>5. PICK f : Recurses(f, T, base, N, g)
    BY <2>4, RecursionExists
  <2> QED BY <2>3, <2>5 DEF Recurses
<1>6. Equation(f)
  <2>1. ASSUME NEW n \in 1 .. N
        PROVE  f[n] = IF indices[n] < size
                      THEN Append(f[n - 1], entries[indices[n] + 1]) ELSE f[n - 1]
    <3>1. n - 1 \in 0 .. N
      BY <1>1
    <3>2. f[n - 1] \in T
      BY <1>5, <3>1
    <3>3. f[n] = step[<<n, f[n - 1]>>]
      BY <1>5
    <3> QED BY <3>2, <3>3
  <2> DEFINE g == [n \in 0 .. N |-> IF n = 0 THEN <<>>
                                    ELSE IF indices[n] < size
                                         THEN Append(f[n - 1], entries[indices[n] + 1])
                                         ELSE f[n - 1]]
  <2>2. ASSUME NEW n \in 0 .. N
        PROVE  f[n] = g[n]
    <3>1. CASE n = 0
      BY <1>1, <1>5, <3>1
    <3>2. CASE n # 0
      <4>1. n \in 1 .. N
        BY <1>1, <3>2
      <4> QED BY <2>1, <3>2, <4>1
    <3> QED BY <3>1, <3>2
  <2> HIDE DEF g
  <2>3. f = [n \in 0 .. N |-> f[n]]
    BY <1>5
  <2>4. g = [n \in 0 .. N |-> g[n]]
    BY DEF g
  <2>5. f = g
    BY <2>2, <2>3, <2>4
  <2> QED BY <2>5 DEF g
<1> DEFINE upTo == CHOOSE h : Equation(h)
<1>7. Equation(upTo)
  <2> HIDE DEF Equation
  <2> QED BY <1>6
<1>8. Listed(indices, entries, size) = upTo[N]
  BY DEF Listed
<1> HIDE DEF upTo, step
<1>9. /\ upTo[0] = <<>>
      /\ \A n \in 1 .. N : upTo[n] = Next1(n, upTo[n - 1])
  <2>1. ASSUME NEW n \in 0 .. N
        PROVE  upTo[n] = IF n = 0 THEN <<>>
                         ELSE IF indices[n] < size
                              THEN Append(upTo[n - 1], entries[indices[n] + 1])
                              ELSE upTo[n - 1]
    BY <1>7
  <2>2. 0 \in 0 .. N /\ \A n \in 1 .. N : n \in 0 .. N /\ n # 0
    BY <1>1
  <2> HIDE DEF N
  <2> QED BY <2>1, <2>2
<1> DEFINE Bad == {n \in 0 .. N : upTo[n] \notin T}
<1>10. Bad = {}
  <2>1. SUFFICES ASSUME Bad # {}
                 PROVE  FALSE
    OBVIOUS
  <2>2. PICK k \in Bad : \A j \in Bad : k <= j
    <3>1. Bad \in SUBSET Nat
      OBVIOUS
    <3> HIDE DEF Bad
    <3> QED BY <2>1, <3>1, LeastNatural
  <2>3. k \in 0 .. N /\ upTo[k] \notin T
    BY <2>2
  <2>4. k # 0
    BY <1>4, <1>9, <2>3
  <2>5. k \in 1 .. N /\ k - 1 \in 0 .. N /\ ~(k <= k - 1)
    BY <1>1, <2>3, <2>4
  <2>6. upTo[k - 1] \in T
    BY <2>2, <2>5
  <2> QED BY <1>3, <1>9, <2>3, <2>5, <2>6
<1>11. N \in 0 .. N
  BY <1>1
<1> QED BY <1>8, <1>10, <1>11

----------------------------------------------------------------------------
(* Types.                                                                  *)

\* The buffer has the size of the compositor's table, and nothing is resolved
\* while feedback comes in.
StartInv ==
  /\ Len(table) = Len(sent)
  /\ batches \in Nat
  /\ short \in BOOLEAN /\ complete \in BOOLEAN
  /\ stage = "feedback" => it = 1 /\ driver_ok = <<>> /\ chosen = NoOffer

Typed == TypeOK /\ StartInv

Offer == [fourcc : {e.fourcc : e \in Readable}, vk_format : Formats \cup {Undefined},
          modifier : {e.modifier : e \in Readable}]

OffersOf(s) == [k \in DOMAIN s |-> OfferOf(s[k])]

LEMMA EntriesReadable == Entries \subseteq Readable /\ Blank \in Readable
<1>1. \A e \in Entries : e \in [fourcc : STRING, modifier : Nat]
  BY NegotiationAssumption
<1>2. \A e \in Entries : e \in Readable
  <2> TAKE e \in Entries
  <2>1. e = [fourcc |-> e.fourcc, modifier |-> e.modifier]
    BY <1>1
  <2>2. e.fourcc \in {x.fourcc : x \in Entries} /\ e.modifier \in Modifiers
    BY DEF Modifiers
  <2> QED BY <2>1, <2>2 DEF Readable
<1> QED BY <1>2 DEF Readable, Blank

LEMMA OfferType ==
  ASSUME NEW e \in Readable
  PROVE  OfferOf(e) \in Offer
<1>1. e.fourcc \in {x.fourcc : x \in Readable} /\ e.modifier \in {x.modifier : x \in Readable}
  OBVIOUS
<1>2. VkFormat(e.fourcc) \in Formats \cup {Undefined}
  <2>1. e.fourcc \in {x.fourcc : x \in Entries} \/ e.fourcc = Blank.fourcc
    BY DEF Readable
  <2>2. CASE e.fourcc = Blank.fourcc
    <3>1. VkFormat("0") = Undefined
      BY DEF VkFormat
    <3>2. Blank.fourcc = "0"
      BY DEF Blank
    <3> QED BY <2>2, <3>1, <3>2
  <2>3. CASE e.fourcc \in {x.fourcc : x \in Entries}
    BY <2>3 DEF Formats
  <2> QED BY <2>1, <2>2, <2>3
<1> QED BY <1>1, <1>2 DEF OfferOf, Offer

LEMMA OffersType ==
  ASSUME NEW s \in Seq(Readable)
  PROVE  /\ OffersOf(s) \in Seq(Offer)
         /\ Len(OffersOf(s)) = Len(s) /\ DOMAIN OffersOf(s) = DOMAIN s
         /\ \A k \in DOMAIN s : OffersOf(s)[k] = OfferOf(s[k])
<1>1. Len(s) \in Nat /\ DOMAIN s = 1 .. Len(s) /\ \A k \in 1 .. Len(s) : s[k] \in Readable
  BY LenProperties, ElementOfSeq
<1>2. \A k \in 1 .. Len(s) : OfferOf(s[k]) \in Offer
  BY <1>1, OfferType
<1>3. OffersOf(s) \in [1 .. Len(s) -> Offer]
  BY <1>1, <1>2 DEF OffersOf
<1>4. OffersOf(s) \in Seq(Offer)
  BY <1>1, <1>3, SeqDef
<1>5. DOMAIN OffersOf(s) = 1 .. Len(s) /\ Len(OffersOf(s)) \in Nat
      /\ DOMAIN OffersOf(s) = 1 .. Len(OffersOf(s))
  BY <1>3, <1>4, LenProperties
<1>6. Len(OffersOf(s)) = Len(s)
  BY <1>1, <1>5
<1> QED BY <1>1, <1>4, <1>5, <1>6 DEF OffersOf

LEMMA OffersConcat ==
  ASSUME NEW s \in Seq(Readable), NEW t \in Seq(Readable)
  PROVE  OffersOf(s) \o OffersOf(t) = OffersOf(s \o t)
<1>1. /\ OffersOf(s) \in Seq(Offer) /\ OffersOf(t) \in Seq(Offer)
      /\ Len(OffersOf(s)) = Len(s) /\ Len(OffersOf(t)) = Len(t)
      /\ \A k \in DOMAIN s : OffersOf(s)[k] = OfferOf(s[k])
      /\ \A k \in DOMAIN t : OffersOf(t)[k] = OfferOf(t[k])
  BY OffersType
<1>2. Len(s) \in Nat /\ Len(t) \in Nat /\ DOMAIN s = 1 .. Len(s) /\ DOMAIN t = 1 .. Len(t)
  BY LenProperties
<1>3. /\ s \o t \in Seq(Readable) /\ Len(s \o t) = Len(s) + Len(t)
      /\ \A k \in 1 .. Len(s) + Len(t) :
           (s \o t)[k] = IF k <= Len(s) THEN s[k] ELSE t[k - Len(s)]
  BY ConcatProperties
<1> DEFINE u == OffersOf(s) \o OffersOf(t)
           v == OffersOf(s \o t)
<1>4. /\ u \in Seq(Offer) /\ Len(u) = Len(s) + Len(t)
      /\ \A k \in 1 .. Len(s) + Len(t) :
           u[k] = IF k <= Len(s) THEN OffersOf(s)[k] ELSE OffersOf(t)[k - Len(s)]
  <2>1. PICK a, b : a = OffersOf(s) /\ b = OffersOf(t)
    OBVIOUS
  <2>2. a \in Seq(Offer) /\ b \in Seq(Offer) /\ Len(a) = Len(s) /\ Len(b) = Len(t)
    BY <1>1, <2>1
  <2>3. /\ a \o b \in Seq(Offer) /\ Len(a \o b) = Len(s) + Len(t)
        /\ \A k \in 1 .. Len(s) + Len(t) :
             (a \o b)[k] = IF k <= Len(s) THEN a[k] ELSE b[k - Len(s)]
    <3>1. /\ a \o b \in Seq(Offer) /\ Len(a \o b) = Len(a) + Len(b)
          /\ \A k \in 1 .. Len(a) + Len(b) :
               (a \o b)[k] = IF k <= Len(a) THEN a[k] ELSE b[k - Len(a)]
      BY <2>2, ConcatProperties
    <3> QED BY <2>2, <3>1
  <2>4. u = a \o b
    BY <2>1
  <2> HIDE DEF u
  <2> QED BY <2>1, <2>3, <2>4
<1>5. /\ v \in Seq(Offer) /\ Len(v) = Len(s) + Len(t)
      /\ \A k \in DOMAIN (s \o t) : v[k] = OfferOf((s \o t)[k])
  BY <1>3, OffersType
<1>6. DOMAIN (s \o t) = 1 .. Len(s) + Len(t)
  BY <1>3, LenProperties
<1> HIDE DEF u, v
<1>7. ASSUME NEW k \in 1 .. Len(s) + Len(t)
      PROVE  u[k] = v[k]
  <2>1. CASE k <= Len(s)
    <3>1. k \in DOMAIN s
      BY <1>2, <2>1
    <3> QED BY <1>1, <1>3, <1>4, <1>5, <1>6, <2>1, <3>1
  <2>2. CASE ~(k <= Len(s))
    <3>1. k - Len(s) \in DOMAIN t
      BY <1>2, <2>2
    <3> QED BY <1>1, <1>3, <1>4, <1>5, <1>6, <2>2, <3>1
  <2> QED BY <2>1, <2>2
<1>8. u = v
  BY <1>4, <1>5, <1>7, SeqEqual
<1> QED BY <1>8 DEF u, v

LEMMA TypeInit == Init => Typed
<1> SUFFICES ASSUME Init
             PROVE  Typed
  OBVIOUS
<1>1. \A S : <<>> \in Seq(S)
  BY EmptySeq
<1>2. driver \in [Formats -> Reports]
  BY DEF Init
<1>3. /\ DOMAIN cache = Formats
      /\ \A f \in Formats : cache[f] \in {Unasked, Support(driver[f])}
  BY DEF Init
<1>4. table = <<>> /\ candidates = <<>> /\ offers = <<>> /\ sent = <<>> /\ tranche = <<>>
      /\ announced = <<>> /\ driver_ok = <<>> /\ stage = "feedback" /\ it = 1
      /\ batches = 0 /\ short = FALSE /\ complete = TRUE /\ chosen = NoOffer
  BY DEF Init
<1>5. it \in 1 .. Len(offers) + 1 /\ Len(table) = Len(sent)
  <2>1. Len(offers) \in Nat
    BY <1>1, <1>4, LenProperties
  <2> QED BY <1>4, <2>1
<1>6. TypeOK
  BY <1>1, <1>2, <1>3, <1>4, <1>5 DEF TypeOK
<1>7. StartInv
  BY <1>4, <1>5 DEF StartInv
<1> QED BY <1>6, <1>7 DEF Typed

\* The buffer after a format_table event is a table of readable entries.
LEMMA TableType ==
  ASSUME Typed, FormatTable
  PROVE  /\ table' \in Seq(Readable) /\ sent' \in Seq(Entries)
         /\ Len(table') = Len(sent') /\ short' \in BOOLEAN
         /\ ~short' => table' = sent' /\ ~short
<1> DEFINE Read(new, read) ==
             /\ table' = [k \in 1 .. Len(new) |->
                            IF k <= read THEN new[k]
                            ELSE IF k <= Len(table) THEN table[k]
                            ELSE Blank]
             /\ sent' = new
             /\ short' = (short \/ read < Len(new))
<1>a. PICK new \in BoundedSeq(Entries, MaxTable) : \E read \in 0 .. Len(new) : Read(new, read)
  BY DEF FormatTable
<1>1. PICK read \in 0 .. Len(new) : Read(new, read)
  BY <1>a
<1>2. new \in Seq(Entries) /\ table \in Seq(Readable)
  BY BoundedSeqType, NegotiationAssumption DEF Typed, TypeOK
<1>3. /\ Len(new) \in Nat /\ DOMAIN new = 1 .. Len(new)
      /\ new = [k \in 1 .. Len(new) |-> new[k]]
      /\ \A k \in 1 .. Len(new) : new[k] \in Entries
  BY <1>2, LenProperties, ElementOfSeq
<1>4. Len(table) \in Nat /\ \A k \in 1 .. Len(table) : table[k] \in Readable
  BY <1>2, LenProperties, ElementOfSeq
<1>5. \A k \in 1 .. Len(new) : (IF k <= read THEN new[k]
                                ELSE IF k <= Len(table) THEN table[k]
                                ELSE Blank) \in Readable
  BY <1>3, <1>4, EntriesReadable
<1>6. table' \in [1 .. Len(new) -> Readable]
  BY <1>1, <1>5
<1>7. table' \in Seq(Readable) /\ Len(table') = Len(new)
  <2>1. table' \in Seq(Readable)
    BY <1>3, <1>6, SeqDef
  <2>2. DOMAIN table' = 1 .. Len(table') /\ Len(table') \in Nat
    BY <2>1, LenProperties
  <2>3. DOMAIN table' = 1 .. Len(new)
    BY <1>6
  <2>4. PICK n, m : n = Len(new) /\ m = Len(table')
    OBVIOUS
  <2>5. n \in Nat /\ m \in Nat /\ 1 .. n = 1 .. m
    BY <1>3, <2>2, <2>3, <2>4
  <2>6. n = m
    BY <2>5
  <2> QED BY <2>1, <2>4, <2>6
<1>8. ASSUME ~short'
      PROVE  table' = sent' /\ ~short
  <2>1. ~short /\ read = Len(new)
    <3>1. ~(short \/ read < Len(new))
      BY <1>1, <1>8, Zenon
    <3>2. ~short /\ ~(read < Len(new))
      BY <3>1, Zenon
    <3>3. read \in 0 .. Len(new) /\ Len(new) \in Nat
      BY <1>3
    <3> QED BY <3>2, <3>3
  <2>2. table' = [k \in 1 .. Len(new) |-> new[k]]
    BY <1>1, <2>1
  <2> QED BY <1>1, <1>3, <2>1, <2>2
<1> QED BY <1>1, <1>2, <1>7, <1>8 DEF Typed, StartInv

\* Every state the events and the resolution reach is well typed.
LEMMA TypeStep == Typed /\ [Next]_vars => Typed'
<1> SUFFICES ASSUME Typed, [Next]_vars
             PROVE  Typed'
  OBVIOUS
<1>0. /\ TypeOK /\ StartInv
      /\ offers \in Seq(Offer) /\ Len(offers) \in Nat
  BY LenProperties DEF Typed, TypeOK, Offer
<1>1. Sending => batches' \in Nat /\ complete' \in BOOLEAN /\ announced' \in Seq(Entries)
  <2> SUFFICES ASSUME Sending
               PROVE  batches' \in Nat /\ complete' \in BOOLEAN /\ announced' \in Seq(Entries)
    OBVIOUS
  <2>1. <<>> \in Seq(Entries) /\ announced \in Seq(Entries)
    BY <1>0, EmptySeq DEF TypeOK
  <2>2. announced' \in Seq(Entries)
    BY <2>1, Zenon DEF Sending
  <2>3. batches' \in {batches, batches + 1} /\ complete' \in BOOLEAN
    BY DEF Sending
  <2> QED BY <1>0, <2>2, <2>3 DEF StartInv
<1>2. CASE FormatTable
  <2>1. /\ UNCHANGED <<candidates, offers, tranche, cache, driver, driver_ok, chosen, it, stage>>
        /\ Sending
    BY <1>2 DEF FormatTable, resolution, fixed
  <2>2. /\ table' \in Seq(Readable) /\ sent' \in Seq(Entries)
        /\ Len(table') = Len(sent') /\ short' \in BOOLEAN
    BY <1>2, TableType
  <2>3. TypeOK'
    BY <1>0, <1>1, <2>1, <2>2 DEF TypeOK
  <2>4. StartInv'
    BY <1>0, <1>1, <2>1, <2>2 DEF StartInv
  <2> QED BY <2>3, <2>4 DEF Typed
<1>3. CASE TrancheFormats
  <2>1. /\ UNCHANGED <<table, offers, sent, short, cache, driver, driver_ok, chosen, it, stage>>
        /\ Sending
    BY <1>3 DEF TrancheFormats, resolution, fixed
  <2>2. PICK indices \in Indices :
          /\ tranche' = tranche \o Listed(indices, sent, Len(sent))
          /\ candidates' = candidates \o Listed(indices, table, TableSize)
    BY <1>3 DEF TrancheFormats
  <2>3. indices \in Seq(Nat)
    BY NegotiationAssumption
  <2>4. /\ sent \in Seq(Entries) /\ Len(sent) \in 0 .. Len(sent)
        /\ table \in Seq(Readable) /\ TableSize \in 0 .. Len(table)
    BY <1>0, LenProperties DEF TypeOK, TableSize
  <2>5. /\ Listed(indices, sent, Len(sent)) \in Seq(Entries)
        /\ Listed(indices, table, TableSize) \in Seq(Readable)
    BY <2>3, <2>4, ListedType
  <2>6. tranche' \in Seq(Entries) /\ candidates' \in Seq(Readable)
    BY <1>0, <2>2, <2>5, ConcatProperties DEF TypeOK
  <2>7. TypeOK'
    BY <1>0, <1>1, <2>1, <2>6 DEF TypeOK
  <2>8. StartInv'
    BY <1>0, <1>1, <2>1 DEF StartInv
  <2> QED BY <2>7, <2>8 DEF Typed
<1>4. CASE TrancheDone
  <2>1. /\ UNCHANGED <<table, sent, short, complete, batches, cache, driver, driver_ok, chosen, it,
                       stage>>
        /\ stage = "feedback" /\ candidates' = <<>> /\ tranche' = <<>>
        /\ offers' = offers \o OffersOf(candidates)
        /\ announced' = announced \o tranche
    BY <1>4 DEF TrancheDone, resolution, fixed, CandidatesLeft, OffersOf
  <2>2. offers' \in Seq(Offer) /\ Len(offers') \in Nat
    <3>1. OffersOf(candidates) \in Seq(Offer)
      BY <1>0, OffersType DEF TypeOK
    <3> QED BY <1>0, <2>1, <3>1, ConcatProperties, LenProperties
  <2>3. announced' \in Seq(Entries)
    BY <1>0, <2>1, ConcatProperties DEF TypeOK
  <2>4. candidates' \in Seq(Readable) /\ tranche' \in Seq(Entries)
    BY <2>1, EmptySeq
  <2>5. driver_ok' \in Seq(ToSet(offers')) /\ it' \in 1 .. Len(offers') + 1
    <3>1. driver_ok' = <<>> /\ it' = 1
      BY <1>0, <2>1 DEF StartInv
    <3> QED BY <2>2, <3>1, EmptySeq
  <2>6. TypeOK'
    BY <1>0, <2>1, <2>2, <2>3, <2>4, <2>5 DEF TypeOK, Offer
  <2>7. StartInv'
    BY <1>0, <2>1 DEF StartInv
  <2> QED BY <2>6, <2>7 DEF Typed
<1>5. CASE FeedbackDone \/ RoundTripsDone \/ CheckChoice \/ Ended \/ UNCHANGED vars
  <2>1. UNCHANGED <<table, candidates, offers, sent, tranche, announced, short, batches,
                    cache, driver, driver_ok, chosen, it>>
    BY <1>5 DEF FeedbackDone, RoundTripsDone, CheckChoice, Ended, vars, impl, compositor,
       resolution, fixed
  <2>2. complete' \in BOOLEAN
    BY <1>0, <1>5 DEF FeedbackDone, RoundTripsDone, CheckChoice, Ended, vars, impl, compositor,
       resolution, StartInv
  <2>3. stage' \in {"feedback", "filter", "check", "chosen", "failed"}
        /\ (stage' = "feedback" => stage = "feedback")
    BY <1>0, <1>5 DEF FeedbackDone, RoundTripsDone, CheckChoice, Ended, vars, TypeOK
  <2>4. TypeOK'
    BY <1>0, <2>1, <2>3 DEF TypeOK
  <2>5. StartInv'
    BY <1>0, <2>1, <2>2, <2>3 DEF StartInv
  <2> QED BY <2>4, <2>5 DEF Typed
<1>6. CASE ModifierSupport
  <2>1. UNCHANGED <<table, candidates, offers, sent, tranche, announced, short, batches,
                    complete, driver, driver_ok, chosen, it, stage>> /\ stage = "filter"
    BY <1>6 DEF ModifierSupport, impl, compositor, fixed
  <2> DEFINE f == offers[it].vk_format
  <2>2. cache' = [cache EXCEPT ![f] = Support(driver[f])]
    BY <1>6 DEF ModifierSupport
  <2> HIDE DEF f
  <2>3. DOMAIN cache' = Formats
    BY <1>0, <2>2 DEF TypeOK
  <2>4. ASSUME NEW g \in Formats
        PROVE  cache'[g] \in {Unasked, Support(driver[g])}
    <3>1. CASE g = f
      BY <1>0, <2>2, <3>1 DEF TypeOK
    <3>2. CASE g # f
      BY <1>0, <2>2, <3>2 DEF TypeOK
    <3> QED BY <3>1, <3>2
  <2>5. \A g \in Formats : cache'[g] \in {Unasked, Support(driver'[g])}
    BY <2>1, <2>4
  <2>6. TypeOK'
    BY <1>0, <2>1, <2>3, <2>5 DEF TypeOK
  <2>7. StartInv'
    BY <1>0, <2>1 DEF StartInv
  <2> QED BY <2>6, <2>7 DEF Typed
<1>7. CASE FilterOffer
  <2>1. UNCHANGED <<table, candidates, offers, sent, tranche, announced, short, batches,
                    complete, cache, driver, chosen, stage>> /\ stage = "filter"
        /\ it <= Len(offers) /\ it' = it + 1
        /\ driver_ok' \in {driver_ok, Append(driver_ok, offers[it])}
    BY <1>7 DEF FilterOffer, impl, compositor, fixed
  <2>2. it' \in 1 .. Len(offers) + 1 /\ it \in 1 .. Len(offers)
    BY <1>0, <2>1 DEF TypeOK
  <2>3. driver_ok' \in Seq(ToSet(offers))
    <3>1. offers[it] \in ToSet(offers)
      BY <1>0, <2>2, LenProperties DEF ToSet
    <3>2. driver_ok \in Seq(ToSet(offers))
      BY <1>0 DEF TypeOK
    <3>3. Append(driver_ok, offers[it]) \in Seq(ToSet(offers))
      BY <3>1, <3>2, AppendProperties
    <3> QED BY <2>1, <3>2, <3>3
  <2>4. TypeOK'
    BY <1>0, <2>1, <2>2, <2>3 DEF TypeOK
  <2>5. StartInv'
    BY <1>0, <2>1 DEF StartInv
  <2> QED BY <2>4, <2>5 DEF Typed
<1>8. CASE ChooseFormat
  <2>1. UNCHANGED <<table, candidates, offers, sent, tranche, announced, short, batches,
                    complete, cache, driver, driver_ok, it>> /\ stage' = "check"
    BY <1>8 DEF ChooseFormat, impl, compositor, fixed
  <2>2. TypeOK'
    BY <1>0, <2>1 DEF TypeOK
  <2>3. StartInv'
    BY <1>0, <2>1 DEF StartInv
  <2> QED BY <2>2, <2>3 DEF Typed
<1> QED BY <1>2, <1>3, <1>4, <1>5, <1>6, <1>7, <1>8 DEF Next

\* Every reachable state is well typed; with it the cache holds, of a format the
\* driver was asked for, what the driver says of that format.
THEOREM FormatTypes == Spec => []TypeOK
<1>1. Typed => TypeOK
  BY DEF Typed
<1> QED BY <1>1, TypeInit, TypeStep, PTL DEF Spec

----------------------------------------------------------------------------
(* What the offers are.                                                    *)

\* Before any feedback nothing was collected.
EmptyInv ==
  batches = 0 =>
    complete /\ offers = <<>> /\ candidates = <<>> /\ tranche = <<>>

\* An offer carries the format of its fourcc, whatever the tables held.
FormatInv == \A k \in DOMAIN offers : offers[k].vk_format = VkFormat(offers[k].fourcc)

\* While the feedback was sent once and read in full, the window holds what the
\* compositor sent: its table, the tranche under way and the tranches before.
HeldInv ==
  batches <= 1 /\ ~short =>
    /\ table = sent
    /\ candidates = tranche
    /\ offers = OffersOf(announced)

ListInv == EmptyInv /\ FormatInv /\ HeldInv

LEMMA ListInit == Init => ListInv
<1> SUFFICES ASSUME Init
             PROVE  ListInv
  OBVIOUS
<1>1. table = <<>> /\ sent = <<>> /\ candidates = <<>> /\ tranche = <<>> /\ offers = <<>>
      /\ announced = <<>> /\ complete = TRUE
  BY DEF Init
<1>2. EmptyInv
  BY <1>1 DEF EmptyInv
<1>3. FormatInv
  <2>1. DOMAIN offers = {}
    BY <1>1
  <2> QED BY <2>1 DEF FormatInv
<1>4. OffersOf(announced) = <<>>
  <2>1. announced \in Seq(Readable) /\ Len(announced) = 0
    BY <1>1, EmptySeq
  <2>2. OffersOf(announced) \in Seq(Offer) /\ Len(OffersOf(announced)) = 0
    BY <2>1, OffersType
  <2> QED BY <2>2, EmptySeq
<1>5. HeldInv
  BY <1>1, <1>4 DEF HeldInv
<1> QED BY <1>2, <1>3, <1>5 DEF ListInv

LEMMA ListStep == Typed /\ ListInv /\ [Next]_vars => ListInv'
<1> SUFFICES ASSUME Typed, ListInv, [Next]_vars
             PROVE  ListInv'
  OBVIOUS
<1>0. /\ TypeOK /\ StartInv /\ EmptyInv /\ FormatInv /\ HeldInv
      /\ batches \in Nat /\ complete \in BOOLEAN
  BY DEF Typed, ListInv, StartInv
<1>1. ASSUME Sending
      PROVE  /\ batches' # 0
             /\ batches' <= 1 => batches <= 1 /\ (announced' = announced \/ batches = 0)
  <2>1. CASE complete
    <3>1. batches' = batches + 1
      BY <1>1, <2>1, Zenon DEF Sending
    <3> QED BY <1>0, <3>1
  <2>2. CASE ~complete
    <3>1. batches' = batches /\ announced' = announced
      BY <1>1, <2>2, Zenon DEF Sending
    <3> QED BY <1>0, <2>2, <3>1 DEF EmptyInv
  <2> QED BY <2>1, <2>2
\* An empty list of offers is the offers of an empty announcement.
<1>2. ASSUME Sending, offers' = offers, batches' <= 1, batches <= 1 => offers = OffersOf(announced)
      PROVE  offers' = OffersOf(announced')
  <2>1. CASE announced' = announced
    BY <1>1, <1>2, <2>1
  <2>2. CASE announced' # announced
    <3>1. batches = 0 /\ complete /\ offers = <<>>
      BY <1>0, <1>1, <1>2, <2>2 DEF EmptyInv
    <3>2. announced' = <<>>
      BY <1>2, <3>1, Zenon DEF Sending
    <3>3. announced' \in Seq(Readable) /\ Len(announced') = 0
      BY <3>2, EmptySeq
    <3>4. OffersOf(announced') \in Seq(Offer) /\ Len(OffersOf(announced')) = 0
      BY <3>3, OffersType
    <3>5. OffersOf(announced') = <<>>
      BY <3>4, EmptySeq
    <3> QED BY <1>2, <3>1, <3>5
  <2> QED BY <2>1, <2>2
<1>3. CASE FormatTable
  <2>1. UNCHANGED <<offers, candidates, tranche>> /\ Sending /\ complete
    BY <1>3 DEF FormatTable
  <2>2. ~short' => table' = sent' /\ ~short
    BY <1>0, <1>3, TableType DEF Typed
  <2>3. HeldInv'
    <3> SUFFICES ASSUME batches' <= 1, ~short'
                 PROVE  table' = sent' /\ candidates' = tranche' /\ offers' = OffersOf(announced')
      BY DEF HeldInv
    <3>1. batches <= 1 /\ ~short
      BY <1>1, <2>1, <2>2
    <3>2. candidates = tranche /\ offers = OffersOf(announced)
      BY <1>0, <3>1 DEF HeldInv
    <3> QED BY <1>2, <2>1, <2>2, <3>2
  <2>4. EmptyInv' /\ FormatInv'
    BY <1>0, <1>1, <2>1 DEF EmptyInv, FormatInv
  <2> QED BY <2>3, <2>4 DEF ListInv
<1>4. CASE TrancheFormats
  <2>1. UNCHANGED <<table, sent, short, offers>> /\ Sending
    BY <1>4 DEF TrancheFormats
  <2>2. PICK indices \in Indices :
          /\ tranche' = tranche \o Listed(indices, sent, Len(sent))
          /\ candidates' = candidates \o Listed(indices, table, TableSize)
    BY <1>4 DEF TrancheFormats
  <2>3. HeldInv'
    <3> SUFFICES ASSUME batches' <= 1, ~short'
                 PROVE  table' = sent' /\ candidates' = tranche' /\ offers' = OffersOf(announced')
      BY DEF HeldInv
    <3>1. batches <= 1 /\ ~short
      BY <1>1, <2>1
    <3>2. table = sent /\ candidates = tranche /\ offers = OffersOf(announced)
      BY <1>0, <3>1 DEF HeldInv
    <3>3. candidates' = tranche'
      BY <2>2, <3>2 DEF TableSize
    <3> QED BY <1>2, <2>1, <3>2, <3>3
  <2>4. EmptyInv' /\ FormatInv'
    BY <1>0, <1>1, <2>1 DEF EmptyInv, FormatInv
  <2> QED BY <2>3, <2>4 DEF ListInv
<1>5. CASE TrancheDone
  <2>1. /\ UNCHANGED <<table, sent, short, complete, batches>>
        /\ candidates' = <<>> /\ tranche' = <<>> /\ tranche # <<>>
        /\ offers' = offers \o OffersOf(candidates)
        /\ announced' = announced \o tranche
    BY <1>5 DEF TrancheDone, CandidatesLeft, OffersOf
  <2>2. HeldInv'
    <3> SUFFICES ASSUME batches' <= 1, ~short'
                 PROVE  table' = sent' /\ candidates' = tranche' /\ offers' = OffersOf(announced')
      BY DEF HeldInv
    <3>1. table = sent /\ candidates = tranche /\ offers = OffersOf(announced)
      BY <1>0, <2>1 DEF HeldInv
    <3>2. tranche \in Seq(Readable) /\ announced \in Seq(Readable)
      BY <1>0, EntriesReadable, SequenceOfSubset DEF TypeOK
    <3>3. OffersOf(announced) \o OffersOf(tranche) = OffersOf(announced \o tranche)
      BY <3>2, OffersConcat
    <3> QED BY <2>1, <3>1, <3>3
  <2>3. FormatInv'
    <3>1. offers \in Seq(Offer) /\ candidates \in Seq(Readable)
      BY <1>0 DEF TypeOK, Offer
    <3>2. PICK o : o = OffersOf(candidates)
      OBVIOUS
    <3>3. /\ o \in Seq(Offer) /\ Len(o) = Len(candidates)
          /\ \A k \in DOMAIN candidates : o[k] = OfferOf(candidates[k])
      BY <3>1, <3>2, OffersType
    <3>4. /\ Len(offers) \in Nat /\ DOMAIN offers = 1 .. Len(offers)
          /\ Len(o) \in Nat /\ DOMAIN candidates = 1 .. Len(o)
      BY <3>1, <3>3, LenProperties
    <3>5. \A k \in 1 .. Len(o) : o[k].vk_format = VkFormat(o[k].fourcc)
      <4>1. \A e : OfferOf(e).vk_format = VkFormat(OfferOf(e).fourcc)
        BY DEF OfferOf
      <4> QED BY <3>3, <3>4, <4>1
    <3>6. /\ offers \o o \in Seq(Offer) /\ Len(offers \o o) = Len(offers) + Len(o)
          /\ \A k \in 1 .. Len(offers) + Len(o) :
               (offers \o o)[k] = IF k <= Len(offers) THEN offers[k] ELSE o[k - Len(offers)]
      BY <3>1, <3>3, ConcatProperties
    <3>7. DOMAIN (offers \o o) = 1 .. Len(offers) + Len(o)
      BY <3>6, LenProperties
    <3>8. ASSUME NEW k \in 1 .. Len(offers) + Len(o)
          PROVE  (offers \o o)[k].vk_format = VkFormat((offers \o o)[k].fourcc)
      <4>1. CASE k <= Len(offers)
        <5>1. k \in DOMAIN offers /\ (offers \o o)[k] = offers[k]
          BY <3>4, <3>6, <4>1
        <5> QED BY <1>0, <5>1 DEF FormatInv
      <4>2. CASE ~(k <= Len(offers))
        <5>1. k - Len(offers) \in 1 .. Len(o) /\ (offers \o o)[k] = o[k - Len(offers)]
          BY <3>4, <3>6, <4>2
        <5> QED BY <3>5, <5>1
      <4> QED BY <4>1, <4>2
    <3>9. offers' = offers \o o
      BY <2>1, <3>2
    <3> QED BY <3>7, <3>8, <3>9 DEF FormatInv
  <2>4. EmptyInv'
    BY <1>0, <2>1 DEF EmptyInv
  <2> QED BY <2>2, <2>3, <2>4 DEF ListInv
<1>6. CASE FeedbackDone
  <2>1. UNCHANGED <<table, sent, short, offers, candidates, tranche, announced, batches>>
        /\ ~complete
    BY <1>6 DEF FeedbackDone, impl
  <2> QED BY <1>0, <2>1 DEF ListInv, EmptyInv, FormatInv, HeldInv
<1>7. CASE \/ RoundTripsDone \/ ModifierSupport \/ FilterOffer \/ ChooseFormat \/ CheckChoice
           \/ Ended \/ UNCHANGED vars
  <2>1. UNCHANGED <<table, sent, short, offers, candidates, tranche, announced, batches, complete>>
    BY <1>7 DEF RoundTripsDone, ModifierSupport, FilterOffer, ChooseFormat, CheckChoice, Ended,
       vars, impl, compositor
  <2> QED BY <1>0, <2>1 DEF ListInv, EmptyInv, FormatInv, HeldInv
<1> QED BY <1>3, <1>4, <1>5, <1>6, <1>7 DEF Next

LEMMA EntryOfOffer ==
  ASSUME NEW e \in Entries
  PROVE  EntryOf(OfferOf(e)) = e
<1>1. e \in [fourcc : STRING, modifier : Nat]
  BY NegotiationAssumption
<1> QED BY <1>1 DEF EntryOf, OfferOf

\* The offers are the compositor's listings one by one.
LEMMA HeldOffers ==
  ASSUME Typed, ListInv, batches <= 1, ~short
  PROVE  /\ DOMAIN offers = DOMAIN announced /\ DOMAIN announced = 1 .. Len(offers)
         /\ Len(offers) \in Nat
         /\ \A k \in DOMAIN announced :
              /\ announced[k] \in Entries
              /\ offers[k] = OfferOf(announced[k])
              /\ EntryOf(offers[k]) = announced[k]
<1>1. offers = OffersOf(announced)
  BY DEF ListInv, HeldInv
<1>2. announced \in Seq(Entries) /\ offers \in Seq(Offer)
  BY DEF Typed, TypeOK, Offer
<1>3. DOMAIN announced = 1 .. Len(announced) /\ DOMAIN offers = 1 .. Len(offers)
      /\ Len(offers) \in Nat
      /\ \A k \in DOMAIN announced : announced[k] \in Entries
  BY <1>2, LenProperties, ElementOfSeq
<1>4. DOMAIN offers = DOMAIN announced
      /\ \A k \in DOMAIN announced : offers[k] = OfferOf(announced[k])
  BY <1>1 DEF OffersOf
<1> QED BY <1>3, <1>4, EntryOfOffer

\* Feedback that is sent once and can be read reaches choose_format as it was
\* sent, in the compositor's order of preference.  (Sent again, it is appended:
\* the run feedback_sent_again.)
THEOREM OfferOrder == Spec => [](batches <= 1 => OffersInPriorityOrder)
<1>1. Typed /\ ListInv => (batches <= 1 => OffersInPriorityOrder)
  <2> SUFFICES ASSUME Typed, ListInv, batches <= 1, ~short
               PROVE  [k \in DOMAIN offers |-> EntryOf(offers[k])] = announced
    BY DEF OffersInPriorityOrder
  <2>1. DOMAIN offers = DOMAIN announced
        /\ \A k \in DOMAIN announced : EntryOf(offers[k]) = announced[k]
    BY HeldOffers
  <2>2. announced = [k \in DOMAIN announced |-> announced[k]]
    <3>1. announced \in Seq(Entries)
      BY DEF Typed, TypeOK
    <3>2. announced \in [1 .. Len(announced) -> Entries]
      BY <3>1, LenProperties
    <3> QED BY <3>2
  <2> QED BY <2>1, <2>2
<1> QED BY <1>1, TypeInit, TypeStep, ListInit, ListStep, PTL DEF Spec

----------------------------------------------------------------------------
(* The choice.                                                             *)

\* What the filter loop lets pass.
Fits(offer) ==
  /\ offer.vk_format # Undefined
  /\ cache[offer.vk_format] # Unasked
  /\ Supported(offer)

\* The driver was asked about every format the loop has passed, and the list of
\* supported offers starts with the first of them that fits.
FilterInv ==
  /\ \A k \in 1 .. it - 1 :
       offers[k].vk_format # Undefined => cache[offers[k].vk_format] # Unasked
  /\ driver_ok = <<>> => \A k \in 1 .. it - 1 : ~Fits(offers[k])
  /\ driver_ok # <<>> =>
       \E k \in 1 .. it - 1 :
         /\ driver_ok[1] = offers[k] /\ Fits(offers[k])
         /\ \A j \in 1 .. k - 1 : ~Fits(offers[j])

\* Nothing is chosen before the loop has seen every offer.
ChoiceInv ==
  /\ stage = "filter" => chosen = NoOffer
  /\ stage \in {"check", "chosen", "failed"} =>
       /\ it = Len(offers) + 1
       /\ ~chooses => chosen = IF driver_ok = <<>> THEN NoOffer ELSE Head(driver_ok)
  /\ stage = "chosen" => Known
  /\ stage = "failed" => ~Known

PickInv == FilterInv /\ ChoiceInv

LEMMA NoOfferIsNone ==
  ASSUME Typed
  PROVE  NoOffer \notin ToSet(offers)
<1>1. offers \in Seq(Offer)
  BY DEF Typed, TypeOK, Offer
<1>2. \A k \in DOMAIN offers : offers[k] \in Offer
  BY <1>1, LenProperties, ElementOfSeq
<1>3. NoOffer \notin Offer
  <2>1. \A o \in Offer : DOMAIN o = {"fourcc", "vk_format", "modifier"}
    BY DEF Offer
  <2>2. DOMAIN NoOffer = {}
    BY DEF NoOffer
  <2> QED BY <2>1, <2>2
<1> QED BY <1>2, <1>3 DEF ToSet

LEMMA PickInit == Init => PickInv
<1> SUFFICES ASSUME Init
             PROVE  PickInv
  OBVIOUS
<1>1. it = 1 /\ driver_ok = <<>> /\ stage = "feedback" /\ 1 .. it - 1 = {}
  BY DEF Init
<1> QED BY <1>1 DEF PickInv, FilterInv, ChoiceInv

LEMMA PickStep == Typed /\ PickInv /\ [Next]_vars => PickInv'
<1> SUFFICES ASSUME Typed, PickInv, [Next]_vars
             PROVE  PickInv'
  OBVIOUS
<1>0. /\ TypeOK /\ StartInv /\ FilterInv /\ ChoiceInv
      /\ offers \in Seq(Offer) /\ Len(offers) \in Nat /\ DOMAIN offers = 1 .. Len(offers)
      /\ it \in 1 .. Len(offers) + 1
  BY LenProperties DEF Typed, PickInv, TypeOK, Offer
<1>1. CASE FormatTable \/ TrancheFormats \/ TrancheDone \/ FeedbackDone
  <2>1. UNCHANGED <<cache, driver_ok, it, stage>> /\ stage = "feedback"
    BY <1>1 DEF FormatTable, TrancheFormats, TrancheDone, FeedbackDone, resolution
  <2>2. it' = 1 /\ 1 .. it' - 1 = {} /\ driver_ok' = <<>>
    BY <1>0, <2>1 DEF StartInv
  <2> QED BY <2>1, <2>2 DEF PickInv, FilterInv, ChoiceInv
<1>2. CASE RoundTripsDone
  <2>1. /\ UNCHANGED <<offers, cache, driver_ok, it, chosen, chooses>> /\ stage = "feedback"
        /\ stage' = IF offers = <<>> THEN "failed" ELSE "filter"
    BY <1>2 DEF RoundTripsDone, resolution, fixed, impl
  <2>2. it = 1 /\ it' = 1 /\ 1 .. it' - 1 = {} /\ driver_ok' = <<>> /\ chosen = NoOffer
    BY <1>0, <2>1 DEF StartInv
  <2>3. FilterInv'
    BY <2>1, <2>2 DEF FilterInv
  <2>4. CASE offers = <<>>
    <3>1. Len(offers) = 0 /\ it' = Len(offers') + 1
      BY <2>1, <2>2, <2>4
    <3>2. ~Known'
      BY <2>1, NoOfferIsNone, <2>2 DEF Known
    <3> QED BY <2>1, <2>2, <2>3, <2>4, <3>1, <3>2 DEF PickInv, ChoiceInv
  <2>5. CASE offers # <<>>
    BY <2>1, <2>2, <2>3, <2>5 DEF PickInv, ChoiceInv
  <2> QED BY <2>4, <2>5
<1>3. CASE ModifierSupport
  <2>1. /\ UNCHANGED <<offers, driver_ok, it, chosen, stage>> /\ stage = "filter"
        /\ it <= Len(offers)
    BY <1>3 DEF ModifierSupport, impl, fixed
  <2> DEFINE f == offers[it].vk_format
  <2> DEFINE report == driver[f]
  <2>2. cache' = [cache EXCEPT ![f] = Support(report)]
    BY <1>3 DEF ModifierSupport
  <2>3. cache[f] = Unasked
    BY <1>3 DEF ModifierSupport
  <2> HIDE DEF f, report
  <2>4. Support(report) # Unasked
    <3>1. DOMAIN Support(report) = {"blind", "modifiers"}
      BY DEF Support
    <3>2. DOMAIN Unasked = {}
      BY DEF Unasked
    <3> QED BY <3>1, <3>2
  \* A format that was asked for is not asked for again.
  <2>5. \A g : cache[g] # Unasked => cache'[g] = cache[g]
    BY <2>2, <2>3
  <2>6. \A k \in 1 .. it - 1 : Fits(offers[k])' <=> Fits(offers[k])
    <3> TAKE k \in 1 .. it - 1
    <3>1. CASE offers[k].vk_format = Undefined
      BY <2>1, <3>1 DEF Fits
    <3>2. CASE offers[k].vk_format # Undefined
      <4>1. cache[offers[k].vk_format] # Unasked
        BY <1>0, <3>2 DEF FilterInv
      <4>2. cache'[offers[k].vk_format] = cache[offers[k].vk_format]
        BY <2>5, <4>1
      <4> QED BY <2>1, <4>2 DEF Fits, Supported
    <3> QED BY <3>1, <3>2
  <2>7. FilterInv'
    <3>1. \A k \in 1 .. it' - 1 :
            offers'[k].vk_format # Undefined => cache'[offers'[k].vk_format] # Unasked
      BY <1>0, <2>1, <2>5 DEF FilterInv
    <3>2. driver_ok' = <<>> => \A k \in 1 .. it' - 1 : ~Fits(offers[k])'
      BY <1>0, <2>1, <2>6 DEF FilterInv
    <3>3. ASSUME driver_ok # <<>>
          PROVE  \E k \in 1 .. it - 1 :
                   /\ driver_ok[1] = offers[k] /\ Fits(offers[k])'
                   /\ \A j \in 1 .. k - 1 : ~Fits(offers[j])'
      <4>1. PICK k \in 1 .. it - 1 :
              /\ driver_ok[1] = offers[k] /\ Fits(offers[k])
              /\ \A j \in 1 .. k - 1 : ~Fits(offers[j])
        BY <1>0, <3>3 DEF FilterInv
      <4>2. \A j \in 1 .. k - 1 : j \in 1 .. it - 1
        BY <1>0
      <4> QED BY <2>6, <4>1, <4>2
    <3> QED BY <2>1, <3>1, <3>2, <3>3 DEF FilterInv
  <2> QED BY <1>0, <2>1, <2>7 DEF PickInv, ChoiceInv
<1>4. CASE FilterOffer
  <2>1. /\ UNCHANGED <<offers, cache, chosen, stage>> /\ stage = "filter"
        /\ it <= Len(offers) /\ it' = it + 1
        /\ offers[it].vk_format # Undefined => cache[offers[it].vk_format] # Unasked
        /\ driver_ok' = IF Fits(offers[it]) THEN Append(driver_ok, offers[it]) ELSE driver_ok
    BY <1>4 DEF FilterOffer, impl, Fits
  <2>2. /\ it \in 1 .. Len(offers) /\ it' - 1 = it /\ it \in 1 .. it
        /\ \A k \in 1 .. it : (k \in 1 .. it - 1) \/ (k = it)
        /\ \A k \in 1 .. it - 1 : k \in 1 .. it
    BY <1>0, <2>1
  <2>3. \A k : Fits(offers[k])' <=> Fits(offers[k])
    BY <2>1 DEF Fits, Supported
  <2>4. \A k \in 1 .. it' - 1 :
          offers'[k].vk_format # Undefined => cache'[offers'[k].vk_format] # Unasked
    BY <1>0, <2>1, <2>2 DEF FilterInv
  <2>5. driver_ok \in Seq(ToSet(offers)) /\ offers[it] \in ToSet(offers)
    BY <1>0, <2>2 DEF TypeOK, ToSet
  <2>6. CASE driver_ok # <<>>
    <3>1. driver_ok' # <<>> /\ driver_ok'[1] = driver_ok[1]
      <4>1. 1 \in 1 .. Len(driver_ok)
        BY <2>5, <2>6, EmptySeq, LenProperties
      <4>2. Append(driver_ok, offers[it])[1] = driver_ok[1] /\ Append(driver_ok, offers[it]) # <<>>
        BY <2>5, <4>1, AppendProperties
      <4> QED BY <2>1, <2>6, <4>2
    <3>2. PICK k \in 1 .. it - 1 :
              /\ driver_ok[1] = offers[k] /\ Fits(offers[k])
              /\ \A j \in 1 .. k - 1 : ~Fits(offers[j])
      BY <1>0, <2>6 DEF FilterInv
    <3>3. k \in 1 .. it' - 1
      BY <2>2
    <3>4. FilterInv'
      BY <2>1, <2>3, <2>4, <3>1, <3>2, <3>3 DEF FilterInv
    <3> QED BY <1>0, <2>1, <3>4 DEF PickInv, ChoiceInv
  <2>7. CASE driver_ok = <<>> /\ Fits(offers[it])
    <3>1. driver_ok' # <<>> /\ driver_ok'[1] = offers[it]
      <4>1. Len(driver_ok) = 0
        BY <2>7
      <4> QED BY <2>1, <2>5, <2>7, <4>1, AppendProperties
    <3>2. \A j \in 1 .. it - 1 : ~Fits(offers[j])
      BY <1>0, <2>7 DEF FilterInv
    <3>3. FilterInv'
      BY <2>1, <2>2, <2>3, <2>4, <2>7, <3>1, <3>2 DEF FilterInv
    <3> QED BY <1>0, <2>1, <3>3 DEF PickInv, ChoiceInv
  <2>8. CASE driver_ok = <<>> /\ ~Fits(offers[it])
    <3>1. driver_ok' = <<>>
      BY <2>1, <2>8
    <3>2. \A j \in 1 .. it' - 1 : ~Fits(offers[j])
      BY <1>0, <2>2, <2>8 DEF FilterInv
    <3>3. FilterInv'
      BY <2>1, <2>3, <2>4, <3>1, <3>2 DEF FilterInv
    <3> QED BY <1>0, <2>1, <3>3 DEF PickInv, ChoiceInv
  <2> QED BY <2>6, <2>7, <2>8
<1>5. CASE ChooseFormat
  <2>1. /\ UNCHANGED <<offers, cache, driver_ok, it, chooses>> /\ stage' = "check"
        /\ it > Len(offers)
        /\ ~chooses => chosen' = IF driver_ok = <<>> THEN NoOffer ELSE Head(driver_ok)
    BY <1>5 DEF ChooseFormat, impl, fixed
  <2>2. it = Len(offers) + 1
    BY <1>0, <2>1
  <2>3. FilterInv'
    BY <1>0, <2>1 DEF FilterInv, Fits, Supported
  <2> QED BY <2>1, <2>2, <2>3 DEF PickInv, ChoiceInv
<1>6. CASE CheckChoice
  <2>1. /\ UNCHANGED <<offers, cache, driver_ok, it, chooses, chosen>> /\ stage = "check"
        /\ stage' = IF Known THEN "chosen" ELSE "failed"
    BY <1>6 DEF CheckChoice, impl, resolution, fixed
  <2>2. FilterInv'
    BY <1>0, <2>1 DEF FilterInv, Fits, Supported
  <2>3. Known' = Known
    BY <2>1 DEF Known
  <2> QED BY <1>0, <2>1, <2>2, <2>3 DEF PickInv, ChoiceInv
<1>7. CASE Ended \/ UNCHANGED vars
  <2>1. UNCHANGED <<offers, cache, driver_ok, it, chooses, chosen, stage>>
    BY <1>7 DEF Ended, vars, impl, resolution, fixed
  <2> QED BY <1>0, <2>1 DEF PickInv, ChoiceInv, FilterInv, Fits, Supported, Known
<1> QED BY <1>1, <1>2, <1>3, <1>4, <1>5, <1>6, <1>7 DEF Next

\* What the loop lets pass, once it has asked, is what the driver can back.
LEMMA FitsUsable ==
  ASSUME Typed, NEW e \in Entries,
         OfferOf(e).vk_format # Undefined => cache[OfferOf(e).vk_format] # Unasked
  PROVE  Fits(OfferOf(e)) <=> Usable(e)
<1> DEFINE f == VkFormat(e.fourcc)
<1>1. OfferOf(e).vk_format = f /\ OfferOf(e).modifier = e.modifier
  BY DEF OfferOf
<1>2. CASE f = Undefined
  BY <1>1, <1>2 DEF Fits, Usable
<1>3. CASE f # Undefined
  <2>1. f \in Formats
    BY <1>3 DEF Formats
  <2>2. cache[f] # Unasked /\ cache[f] = Support(driver[f])
    BY <1>1, <1>3, <2>1 DEF Typed, TypeOK
  <2>3. cache[f] = [blind |-> driver[f].reported = {}, modifiers |-> driver[f].capable]
    BY <2>2 DEF Support
  <2>4. cache[f].blind = (driver[f].reported = {}) /\ cache[f].modifiers = driver[f].capable
    BY <2>3
  <2> HIDE DEF f
  <2>5. Fits(OfferOf(e)) <=> cache[f].blind \/ e.modifier \in cache[f].modifiers
    BY <1>1, <1>3, <2>2 DEF Fits, Supported
  <2>6. Usable(e) <=> driver[f].reported = {} \/ e.modifier \in driver[f].capable
    BY <1>3 DEF Usable, f
  <2> QED BY <2>4, <2>5, <2>6
<1> QED BY <1>2, <1>3

\* Left to itself the window takes the first listing the driver can back.
THEOREM ChoiceSafety == Spec => [](batches <= 1 => DefaultChoice)
<1>1. Typed /\ ListInv /\ PickInv => (batches <= 1 => DefaultChoice)
  <2> SUFFICES ASSUME Typed, ListInv, PickInv, batches <= 1, stage = "chosen", ~chooses, ~short
               PROVE  \E k \in DOMAIN announced :
                        /\ announced[k] = EntryOf(chosen)
                        /\ Usable(announced[k])
                        /\ \A j \in 1 .. k - 1 : ~Usable(announced[j])
    BY DEF DefaultChoice
  <2>1. /\ it - 1 = Len(offers) /\ Known
        /\ chosen = IF driver_ok = <<>> THEN NoOffer ELSE Head(driver_ok)
    BY HeldOffers DEF PickInv, ChoiceInv
  <2>2. driver_ok # <<>>
    BY <2>1, NoOfferIsNone DEF Known
  <2>3. chosen = driver_ok[1]
    BY <2>1, <2>2
  <2>4. PICK k \in 1 .. Len(offers) :
          /\ chosen = offers[k] /\ Fits(offers[k])
          /\ \A j \in 1 .. k - 1 : ~Fits(offers[j])
    BY <2>1, <2>2, <2>3 DEF PickInv, FilterInv
  <2>5. \A j \in 1 .. Len(offers) : /\ announced[j] \in Entries
                                    /\ EntryOf(offers[j]) = announced[j]
                                    /\ Fits(offers[j]) <=> Usable(announced[j])
    BY <2>1, HeldOffers, FitsUsable DEF PickInv, FilterInv
  <2>6. \A j \in 1 .. k - 1 : j \in 1 .. Len(offers)
    BY HeldOffers
  <2> QED BY <2>4, <2>5, <2>6, HeldOffers
<1> QED BY <1>1, TypeInit, TypeStep, ListInit, ListStep, PickInit, PickStep, PTL DEF Spec

\* It gives up only if the driver can back nothing of what was listed.
THEOREM FailureSafety == Spec => [](batches <= 1 => FailsOnlyIfNone)
<1>1. Typed /\ ListInv /\ PickInv => (batches <= 1 => FailsOnlyIfNone)
  <2> SUFFICES ASSUME Typed, ListInv, PickInv, batches <= 1, stage = "failed", ~chooses, ~short
               PROVE  \A k \in DOMAIN announced : ~Usable(announced[k])
    BY DEF FailsOnlyIfNone
  <2>1. /\ it - 1 = Len(offers) /\ ~Known
        /\ chosen = IF driver_ok = <<>> THEN NoOffer ELSE Head(driver_ok)
    BY HeldOffers DEF PickInv, ChoiceInv
  <2>2. driver_ok = <<>>
    <3> SUFFICES ASSUME driver_ok # <<>>
                 PROVE  FALSE
      OBVIOUS
    <3>1. chosen = driver_ok[1]
      BY <2>1
    <3>2. PICK k \in 1 .. Len(offers) : chosen = offers[k]
      BY <2>1, <3>1 DEF PickInv, FilterInv
    <3>3. chosen \in ToSet(offers)
      BY <3>2, HeldOffers DEF ToSet
    <3> QED BY <2>1, <3>3 DEF Known
  <2>3. \A k \in 1 .. Len(offers) : ~Fits(offers[k])
    BY <2>1, <2>2 DEF PickInv, FilterInv
  <2>4. \A k \in 1 .. Len(offers) :
          offers[k].vk_format # Undefined => cache[offers[k].vk_format] # Unasked
    BY <2>1 DEF PickInv, FilterInv
  <2> QED BY <2>3, <2>4, HeldOffers, FitsUsable
<1> QED BY <1>1, TypeInit, TypeStep, ListInit, ListStep, PickInit, PickStep, PTL DEF Spec

\* Whatever choose_format returns, the format the window takes was announced.
THEOREM AnnouncedSafety == Spec => [](batches <= 1 => ChosenAnnounced)
<1>1. Typed /\ ListInv /\ PickInv => (batches <= 1 => ChosenAnnounced)
  <2> SUFFICES ASSUME Typed, ListInv, PickInv, batches <= 1, stage = "chosen", ~short
               PROVE  /\ \E k \in DOMAIN announced : announced[k] = EntryOf(chosen)
                      /\ chosen.vk_format = VkFormat(chosen.fourcc)
    BY DEF ChosenAnnounced
  <2>1. chosen \in ToSet(offers)
    BY DEF PickInv, ChoiceInv, Known
  <2>2. PICK k \in DOMAIN offers : chosen = offers[k]
    BY <2>1 DEF ToSet
  <2> QED BY <2>2, HeldOffers DEF ListInv, FormatInv
<1> QED BY <1>1, TypeInit, TypeStep, ListInit, ListStep, PickInit, PickStep, PTL DEF Spec

==============================================================================
