------------------------------ MODULE MCServe -------------------------------
(* Instances of Serve for TLC.                                             *)
EXTENDS Serve

(* A key without issues, and one that makes the report longer.             *)
GoodKey == [algo |-> KeyAlgoRSA, bits |-> 2048, mat |-> "m1"]
WeakKey == [algo |-> KeyAlgoRSA, bits |-> 1024, mat |-> "m2"]
GoodKeys == <<GoodKey>>
WeakKeys == <<GoodKey, WeakKey>>
NoBlacklist == {}

Form(type, win, validSize) == [type |-> type, win |-> win, validSize |-> validSize]
Req(type, wantReply) == [type |-> type, wantReply |-> wantReply]

(* Enough window for the report and both warnings: the client never        *)
(* makes the server wait.                                                  *)
WideSessions == {Form("session", 5, TRUE)}

(* All the ways to open a channel.                                         *)
AnyOpens == {Form("session", 5, TRUE), Form("direct-tcpip", 5, TRUE),
             Form("session", 5, FALSE)}

(* Too little window for the report, unless the client adjusts it.         *)
NarrowSessions == {Form("session", 1, TRUE)}

ForwardRequests == {Req("pty-req", TRUE), Req("auth-agent-req", TRUE), Req("x11-req", FALSE)}
OpeningRequests == {Req("shell", TRUE)}

=============================================================================
