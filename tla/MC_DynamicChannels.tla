------------------------- MODULE MC_DynamicChannels -------------------------
(* An instance of DynamicChannels for TLC. *)
EXTENDS DynamicChannels

\* One message that fits into a PDU and one that takes two.
TwoLengths == {1, 3}
TwoWriters == {"w1", "w2"}
=============================================================================
