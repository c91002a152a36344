----------------------------- MODULE MCChannels -----------------------------
(* An instance of Channels for TLC.                                        *)
EXTENDS Channels

Each(client, server) == [p \in Peers |-> IF p = "client" THEN client ELSE server]

(* The client opens two channels.                                          *)
TwoClient == Each(2, 0)

(* Two goroutines of the client send requests on the first of them.        *)
OnFirst == Each([c \in Names |-> IF c = <<"client", 1>> THEN {"a", "b"} ELSE {}], [c \in Names |-> {}])

=============================================================================
