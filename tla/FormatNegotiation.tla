------------------------- MODULE FormatNegotiation -------------------------
(***************************************************************************)
(* How a wlvk::Window comes to the format and modifier of its images: the  *)
(* listeners that collect the compositor's dmabuf feedback, the driver's   *)
(* modifier support, and resolve_format.  An entry of the format table is  *)
(* a DRM format and a modifier; modifier 0 is linear.                      *)
(***************************************************************************)
EXTENDS Naturals, Sequences, SequencesExt

CONSTANTS
  Entries,          \* the [fourcc, modifier] pairs the compositor may list
  Unlisted,         \* an offer no compositor makes
  MaxTable,         \* bound: entries of a format table
  Indices,          \* bound: the index lists of tranche_formats events
  MaxBatches,       \* bound: times the feedback is sent
  MaxTranches       \* bound: tranches sent

ASSUME NegotiationAssumption ==
  /\ Entries \subseteq [fourcc : STRING, modifier : Nat]
  /\ Indices \subseteq Seq(Nat)
  /\ MaxTable \in Nat \ {0}
  /\ MaxBatches \in Nat
  /\ MaxTranches \in Nat

Undefined == "UNDEFINED"
NoOffer   == <<>>
Unasked   == <<>>

\* vk_format_for_fourcc.
VkFormat(fourcc) ==
  CASE fourcc \in {"XRGB8888", "ARGB8888"} -> "B8G8R8A8"
    [] fourcc \in {"XBGR8888", "ABGR8888"} -> "R8G8B8A8"
    [] fourcc = "NV12" -> "G8_B8R8"
    [] fourcc = "P010" -> "G10X6_B10X6R10X6"
    [] OTHER -> Undefined

Formats   == {VkFormat(e.fourcc) : e \in Entries} \ {Undefined}
Modifiers == {e.modifier : e \in Entries}
Blank     == [fourcc |-> "0", modifier |-> 0]       \* bytes never read

\* What a driver says of a format: the modifiers it reports, and the ones among
\* them with the features image_usage needs.
Reports == {r \in [reported : SUBSET Modifiers, capable : SUBSET Modifiers] :
              r.capable \subseteq r.reported}

VARIABLES
  \* ---- Impl
  table,        \* format_table_
  candidates,   \* tranche_candidates_
  offers,       \* offers_: [fourcc, vk_format, modifier]
  cache,        \* modifier_cache_, Unasked where it has no entry
  driver_ok,
  chosen,       \* the offer resolve_format settles on, or NoOffer
  chooses,      \* config_.choose_format is set
  \* ---- control
  stage, it,
  \* ---- the compositor and the driver
  sent,         \* the format table in force
  tranche,      \* the entries listed for the tranche under way
  announced,    \* the entries of its tranches, by falling preference
  short,        \* a table could not be read to its end
  complete,     \* no feedback is being sent: done was the last event, if any
  driver,       \* what the driver reports of each format
  batches, tranches

impl       == <<table, candidates, offers>>
compositor == <<sent, tranche, announced, short, complete, batches,
                tranches>>
resolution == <<cache, driver_ok, chosen, it>>
fixed      == <<driver, chooses>>
vars       == <<impl, compositor, resolution, fixed, stage>>

Init ==
  /\ table = <<>>
  /\ candidates = <<>>
  /\ offers = <<>>
  /\ cache = [f \in Formats |-> Unasked]
  /\ driver_ok = <<>>
  /\ chosen = NoOffer
  /\ chooses \in BOOLEAN
  /\ stage = "feedback"
  /\ it = 1
  /\ sent = <<>>
  /\ tranche = <<>>
  /\ announced = <<>>
  /\ short = FALSE
  /\ driver \in [Formats -> Reports]
  /\ complete = TRUE
  /\ batches = 0
  /\ tranches = 0

----------------------------------------------------------------------------
(* The feedback listeners, during the round trips of query_default_feedback. *)

\* The compositor sends the feedback, from its table or, if that is unchanged,
\* from its first tranche to done, and may send all of it again.
Sending ==
  /\ complete => batches < MaxBatches
  /\ batches' = IF complete THEN batches + 1 ELSE batches
  /\ complete' = FALSE
  /\ announced' = IF complete THEN <<>> ELSE announced

\* feedback_format_table.  The buffer is resized, then read as far as the
\* descriptor allows; behind that it keeps what it held, or zeroes.
FormatTable ==
  /\ stage = "feedback"
  /\ complete
  /\ Sending
  /\ \E new \in BoundedSeq(Entries, MaxTable) : \E read \in 0 .. Len(new) :
       /\ new # <<>>
       /\ table' = [k \in 1 .. Len(new) |->
                      IF k <= read THEN new[k]
                      ELSE IF k <= Len(table) THEN table[k]
                      ELSE Blank]
       /\ sent' = new
       /\ short' = (short \/ read < Len(new))
  /\ UNCHANGED <<candidates, offers, tranche, tranches, resolution, fixed, stage>>

TableBelowLast == Len(table) - 1                                    \* mutant

TableSize == Len(table)

\* The entries that indices name, one after the other; an index outside the
\* table is skipped.
Listed(indices, entries, size) ==
  LET upTo[n \in 0 .. Len(indices)] ==
        IF n = 0 THEN <<>>
        ELSE IF indices[n] < size THEN Append(upTo[n - 1], entries[indices[n] + 1])
        ELSE upTo[n - 1]
  IN  upTo[Len(indices)]

\* feedback_tranche_formats.
TrancheFormats ==
  /\ stage = "feedback"
  /\ sent # <<>>
  /\ tranches < MaxTranches
  /\ Sending
  /\ \E indices \in Indices :
       /\ tranche' = tranche \o Listed(indices, sent, Len(sent))
       /\ candidates' = candidates \o Listed(indices, table, TableSize)
  /\ tranches' = tranches + 1
  /\ UNCHANGED <<table, offers, sent, short, resolution, fixed, stage>>

OfferUnconverted(entry) ==                                          \* mutant
  [fourcc |-> entry.fourcc, vk_format |-> entry.fourcc,
   modifier |-> entry.modifier]

OfferOf(entry) ==
  [fourcc |-> entry.fourcc, vk_format |-> VkFormat(entry.fourcc),
   modifier |-> entry.modifier]

EntryOf(offer) == [fourcc |-> offer.fourcc, modifier |-> offer.modifier]

CandidatesKept == candidates                                        \* mutant

CandidatesLeft == <<>>

\* feedback_tranche_done.
TrancheDone ==
  /\ stage = "feedback"
  /\ tranche # <<>>
  /\ offers' = offers \o [k \in DOMAIN candidates |-> OfferOf(candidates[k])]
  /\ candidates' = CandidatesLeft
  /\ announced' = announced \o tranche
  /\ tranche' = <<>>
  /\ UNCHANGED <<table, sent, short, complete, batches, tranches, resolution, fixed,
                 stage>>

\* feedback_done does nothing.
FeedbackDone ==
  /\ stage = "feedback"
  /\ ~complete
  /\ announced # <<>> /\ tranche = <<>>
  /\ complete' = TRUE
  /\ UNCHANGED <<impl, sent, tranche, announced, short, batches, tranches,
                 resolution, fixed, stage>>

\* The round trips end, with as much feedback as was sent by then.
RoundTripsDone ==
  /\ stage = "feedback"
  /\ stage' = IF offers = <<>> THEN "failed" ELSE "filter"
  /\ UNCHANGED <<impl, compositor, resolution, fixed>>

----------------------------------------------------------------------------
(* resolve_format.                                                         *)

BlindIfNoneCapable(report) ==                                       \* mutant
  [blind |-> report.capable = {}, modifiers |-> report.capable]

\* Without any reported modifier the compositor's choice is taken blindly.
Support(report) ==
  [blind |-> report.reported = {}, modifiers |-> report.capable]

\* modifier_support of a format that is not cached.
ModifierSupport ==
  /\ stage = "filter"
  /\ it <= Len(offers)
  /\ LET f == offers[it].vk_format
     IN  /\ f # Undefined
         /\ cache[f] = Unasked
         /\ cache' = [cache EXCEPT ![f] = Support(driver[f])]
  /\ UNCHANGED <<impl, compositor, driver_ok, chosen, it, fixed, stage>>

Supported(offer) ==
  LET support == cache[offer.vk_format]
  IN  support.blind \/ offer.modifier \in support.modifiers

\* One turn of the filter loop.
FilterOffer ==
  /\ stage = "filter"
  /\ it <= Len(offers)
  /\ LET offer == offers[it]
     IN  \/ /\ offer.vk_format = Undefined
            /\ UNCHANGED driver_ok
         \/ /\ offer.vk_format # Undefined
            /\ cache[offer.vk_format] # Unasked
            /\ driver_ok' = IF Supported(offer) THEN Append(driver_ok, offer)
                            ELSE driver_ok
  /\ it' = it + 1
  /\ UNCHANGED <<impl, compositor, cache, chosen, fixed, stage>>

\* choose_format may return anything; the default is the first supported offer.
ChooseFormat ==
  /\ stage = "filter"
  /\ it > Len(offers)
  /\ \/ chooses /\ chosen' \in ToSet(offers) \cup {Unlisted, NoOffer}
     \/ ~chooses /\ chosen' = IF driver_ok = <<>> THEN NoOffer ELSE Head(driver_ok)
  /\ stage' = "check"
  /\ UNCHANGED <<impl, compositor, cache, driver_ok, it, fixed>>

AnyOffer == chosen # NoOffer                                        \* mutant

Known == chosen \in ToSet(offers)

CheckChoice ==
  /\ stage = "check"
  /\ stage' = IF Known THEN "chosen" ELSE "failed"
  /\ UNCHANGED <<impl, compositor, resolution, fixed>>

Ended == stage \in {"chosen", "failed"} /\ UNCHANGED vars

----------------------------------------------------------------------------
(* The specification.                                                      *)

Next ==
  \/ FormatTable \/ TrancheFormats \/ TrancheDone \/ FeedbackDone \/ RoundTripsDone
  \/ ModifierSupport \/ FilterOffer \/ ChooseFormat \/ CheckChoice \/ Ended

Spec == Init /\ [][Next]_vars

----------------------------------------------------------------------------
(* Properties.                                                             *)

\* The driver can back images of this entry with the configured usage, or does
\* not say.
Usable(entry) ==
  LET f == VkFormat(entry.fourcc)
  IN  /\ f # Undefined
      /\ driver[f].reported = {} \/ entry.modifier \in driver[f].capable

Readable == [fourcc : {e.fourcc : e \in Entries} \cup {Blank.fourcc},
             modifier : Modifiers \cup {Blank.modifier}]

\* Tables hold entries, offers carry the format of their fourcc, the cache what
\* the driver said.
TypeOK ==
  /\ table \in Seq(Readable) /\ candidates \in Seq(Readable)
  /\ sent \in Seq(Entries) /\ tranche \in Seq(Entries) /\ announced \in Seq(Entries)
  /\ offers \in Seq([fourcc : {e.fourcc : e \in Readable},
                     vk_format : Formats \cup {Undefined},
                     modifier : {e.modifier : e \in Readable}])
  /\ driver_ok \in Seq(ToSet(offers))
  /\ driver \in [Formats -> Reports]
  /\ DOMAIN cache = Formats
  /\ \A f \in Formats : cache[f] \in {Unasked, Support(driver[f])}
  /\ stage \in {"feedback", "filter", "check", "chosen", "failed"}
  /\ it \in 1 .. Len(offers) + 1

\* What choose_format is given is the compositor's feedback as last sent: in its
\* order of preference, once per listing, nothing left over from another
\* tranche; provided the tables can be read and the feedback is complete.
OffersInPriorityOrder ==
  stage = "check" /\ complete /\ ~short =>
    [k \in DOMAIN offers |-> EntryOf(offers[k])] = announced

\* Left to itself the window takes what the compositor prefers most among what
\* the driver can do: no supported entry that ranks higher is passed over.
DefaultChoice ==
  stage = "chosen" /\ ~chooses /\ ~short =>
    \E k \in DOMAIN announced :
      /\ announced[k] = EntryOf(chosen)
      /\ Usable(announced[k])
      /\ \A j \in 1 .. k - 1 : ~Usable(announced[j])

\* It gives up only if nothing the compositor announced can be used.
FailsOnlyIfNone ==
  stage = "failed" /\ ~chooses /\ ~short =>
    \A k \in DOMAIN announced : ~Usable(announced[k])

\* Whatever choose_format returns, the window's format is one the compositor
\* announced, and its Vulkan format is the one its images are built with, though
\* several DRM formats share a Vulkan format.
ChosenAnnounced ==
  stage = "chosen" /\ ~short =>
    /\ \E k \in DOMAIN announced : announced[k] = EntryOf(chosen)
    /\ chosen.vk_format = VkFormat(chosen.fourcc)

============================================================================
