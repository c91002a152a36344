--------------------------- MODULE MCChannelData ----------------------------
(* An instance of ChannelData for TLC.                                     *)
EXTENDS ChannelData

(* Bytes written to each of the streams 0, 1 and 2.                        *)
Three == [s \in {0, 1, 2} |-> 2]

=============================================================================
