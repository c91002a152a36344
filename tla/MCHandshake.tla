---------------------------- MODULE MCHandshake -----------------------------
(* An instance of Handshake for TLC.                                      *)
EXTENDS Handshake

Some(app, mux) == [g \in Goroutines |-> IF g = "app" THEN app ELSE mux]
Of(client, server) == [p \in Peers |-> IF p = "client" THEN client ELSE server]

(* The numbers of packets written by the application and in answer.        *)
ServerWrites == Of(Some(1, 0), Some(1, 1))

=============================================================================
