------------------------ MODULE MC_FormatNegotiation ------------------------
(* Two formats of the same Vulkan format, one of another, and one without an *)
(* equivalent; index lists in and out of order, one of them past the table.  *)
EXTENDS FormatNegotiation

MCEntries ==
  {[fourcc |-> "XRGB8888", modifier |-> 0], [fourcc |-> "ARGB8888", modifier |-> 1],
   [fourcc |-> "XBGR8888", modifier |-> 1], [fourcc |-> "RGB565", modifier |-> 0]}

\* Enough for the order of the offers.
MCFewEntries ==
  {[fourcc |-> "XRGB8888", modifier |-> 0], [fourcc |-> "RGB565", modifier |-> 0]}

MCUnlisted == [fourcc |-> "XRGB8888", vk_format |-> "R8G8B8A8", modifier |-> 0]

MCIndices == {<<0>>, <<1, 0>>, <<0, 2>>}
=============================================================================
