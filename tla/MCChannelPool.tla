---------------------------- MODULE MCChannelPool ----------------------------
(* Small instances of ChannelPool for TLC. *)
EXTENDS ChannelPool, TLC

CONSTANTS p1, p2, p3, x1, x2, x3

=============================================================================
