------------------------- MODULE MC_RdpConnection -------------------------
(* Instances of RdpConnection for TLC. *)
EXTENDS RdpConnection

TwoChannels == <<"cliprdr", "drdynvc">>
NoChannels == <<>>
=============================================================================
