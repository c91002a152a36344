-------------------------------- MODULE Mux ---------------------------------
(***************************************************************************)
(* The connection protocol of one authenticated SSH connection, as the     *)
(* vendored golang.org/x/crypto/ssh implements it (mux.go, channel.go):    *)
(* the mux.loop goroutine reads the client's packets in order and hands    *)
(* them to bounded Go channels; the operations of ssh.Channel write to the *)
(* client.  The client is the environment.  Module Serve composes this     *)
(* with the goroutines of server.go.                                       *)
(*                                                                         *)
(* A send on a full Go channel blocks mux.loop: the handler is enabled     *)
(* only when there is room, and the packet stays at the head of inbox.     *)
(* A packet names its channel object: a client that obeys RFC 4254 never   *)
(* uses a channel number after it closed that channel.                     *)
(***************************************************************************)
EXTENDS Naturals, Sequences, SequencesExt

CONSTANTS
    MaxChannels,  \* bound: channels the client opens on this connection
    ChanCap,      \* capacity of mux.incomingChannels (16)
    ReqCap,       \* capacity of channel.incomingRequests (16)
    GlobalCap,    \* capacity of mux.incomingRequests (16)
    OpenForms,    \* the forms of channel open the client may send
    Requests,     \* the channel requests the client may send
    MaxRequests,  \* bound: requests the client sends on one channel
    MaxGlobals,   \* bound: global requests the client sends
    MaxAdjusts    \* bound: window adjustments the client sends

Chan == 1..MaxChannels   \* named in the order the client opens them

ChanTypes == {"session", "direct-tcpip"}

RequestTypes == {"shell", "pty-req", "auth-agent-req", "x11-req", "other"}

Request == [type : RequestTypes, wantReply : BOOLEAN]

(* win: the initial window, in Writes; validSize: the MaxPacketSize is in  *)
(* the range that handleChannelOpen accepts.                               *)
OpenForm == [type : ChanTypes, win : Nat, validSize : BOOLEAN]

ASSUME CapAssumption == ChanCap \in Nat \ {0} /\ ReqCap \in Nat \ {0} /\ GlobalCap \in Nat \ {0}
ASSUME ClientAssumption == OpenForms \subseteq OpenForm /\ Requests \subseteq Request
ASSUME BoundAssumption == /\ MaxChannels \in Nat \ {0} /\ MaxRequests \in Nat
                          /\ MaxGlobals \in Nat /\ MaxAdjusts \in Nat

VARIABLES
    (* the client *)
    asked,        \* per channel, the requests the client has sent, in order
    opened,       \* number of channels the client has asked to open
    clientClosed, \* channels the client has closed
    globals,      \* the global requests the client has sent: wantReply of each
    adjusts,      \* number of window adjustments the client has sent
    gone,         \* the TCP connection is down
    inbox,        \* packets sent by the client and not yet read by mux.loop
    out,          \* per channel, the packets written to the client
    refusals,     \* number of refusals of global requests written to the client
    (* the mux *)
    loop,         \* mux.loop: "reading", "failed" (onePacket erred), "exited"
    dropping,     \* channels on which mux.loop has still to finish close()
    chanList,     \* the registered channels
    incomingChannels, globalReqs,
    (* per channel *)
    chanType, remoteWin, winClosed, decided, sentClose, reqs, reqsClosed

clientVars == <<asked, opened, clientClosed, globals, adjusts>>
chanVars == <<chanType, remoteWin, winClosed, decided, sentClose, reqs, reqsClosed>>
loopVars == <<clientVars, gone, inbox, loop, dropping, chanList>>  \* the client and mux.loop only
muxVars == <<loopVars, out, refusals, incomingChannels, globalReqs, chanVars>>

OpenPacket == [t : {"open"}, ch : Chan, form : OpenForm]
RequestPacket == [t : {"request"}, ch : Chan, req : Request]
ChannelPacket == [t : {"close", "adjust"}, ch : Chan]
GlobalPacket == [t : {"global"}, wantReply : BOOLEAN]
FatalPacket == [t : {"fatal"}]
Packet == OpenPacket \cup RequestPacket \cup ChannelPacket \cup GlobalPacket \cup FatalPacket

(* What is written on a channel.                                           *)
Message == {"confirm", "reject", "openfail", "success", "failure", "close",
            "welcomeMsg", "table", "blacklistMsg", "dsaMsg", "weakMsg",
            "agentMsg", "x11Msg"}

MuxTypeOK ==
    /\ asked \in [Chan -> Seq(Request)]
    /\ opened \in Nat /\ clientClosed \subseteq Chan
    /\ globals \in Seq(BOOLEAN) /\ adjusts \in Nat /\ refusals \in Nat
    /\ gone \in BOOLEAN
    /\ inbox \in Seq(Packet)
    /\ out \in [Chan -> Seq(Message)]
    /\ loop \in {"reading", "failed", "exited"}
    /\ dropping \subseteq Chan /\ chanList \subseteq Chan
    /\ incomingChannels \in Seq(Chan) /\ globalReqs \in Seq(BOOLEAN)
    /\ chanType \in [Chan -> ChanTypes]
    /\ remoteWin \in [Chan -> Nat]
    /\ winClosed \in [Chan -> BOOLEAN] /\ decided \in [Chan -> BOOLEAN]
    /\ sentClose \in [Chan -> BOOLEAN] /\ reqsClosed \in [Chan -> BOOLEAN]
    /\ reqs \in [Chan -> Seq(Request)]

MuxInit ==
    /\ asked = [c \in Chan |-> <<>>]
    /\ opened = 0 /\ clientClosed = {}
    /\ globals = <<>> /\ adjusts = 0 /\ refusals = 0
    /\ gone = FALSE
    /\ inbox = <<>>
    /\ out = [c \in Chan |-> <<>>]
    /\ loop = "reading" /\ dropping = {} /\ chanList = {}
    /\ incomingChannels = <<>> /\ globalReqs = <<>>
    /\ chanType = [c \in Chan |-> "session"]
    /\ remoteWin = [c \in Chan |-> 0]
    /\ winClosed = [c \in Chan |-> FALSE]
    /\ decided = [c \in Chan |-> FALSE]
    /\ sentClose = [c \in Chan |-> FALSE]
    /\ reqs = [c \in Chan |-> <<>>]
    /\ reqsClosed = [c \in Chan |-> FALSE]

-----------------------------------------------------------------------------
(* The client.  It uses a channel once it has the confirmation and until   *)
(* it closes it; it may send any request in any order.                     *)

Confirmed(c) == Contains(out[c], "confirm")

(* Nothing is read after a fatal packet, so nothing more is sent.          *)
ClientSends(p) == /\ ~gone /\ loop = "reading"
                  /\ ~Contains(inbox, [t |-> "fatal"])
                  /\ inbox' = Append(inbox, p)

ClientOpen(form) ==
    /\ opened < MaxChannels
    /\ opened' = opened + 1
    /\ ClientSends([t |-> "open", ch |-> opened + 1, form |-> form])
    /\ UNCHANGED <<asked, clientClosed, globals, adjusts, gone, out, refusals, loop, dropping,
                   chanList, incomingChannels, globalReqs, chanVars>>

ClientRequest(c, req) ==
    /\ Confirmed(c) /\ c \notin clientClosed
    /\ Len(asked[c]) < MaxRequests
    /\ asked' = [asked EXCEPT ![c] = Append(@, req)]
    /\ ClientSends([t |-> "request", ch |-> c, req |-> req])
    /\ UNCHANGED <<opened, clientClosed, globals, adjusts, gone, out, refusals, loop, dropping,
                   chanList, incomingChannels, globalReqs, chanVars>>

ClientAdjust(c) ==
    /\ Confirmed(c) /\ c \notin clientClosed
    /\ adjusts < MaxAdjusts
    /\ adjusts' = adjusts + 1
    /\ ClientSends([t |-> "adjust", ch |-> c])
    /\ UNCHANGED <<asked, opened, clientClosed, globals, gone, out, refusals, loop, dropping,
                   chanList, incomingChannels, globalReqs, chanVars>>

ClientClose(c) ==
    /\ Confirmed(c) /\ c \notin clientClosed
    /\ clientClosed' = clientClosed \cup {c}
    /\ ClientSends([t |-> "close", ch |-> c])
    /\ UNCHANGED <<asked, opened, globals, adjusts, gone, out, refusals, loop, dropping,
                   chanList, incomingChannels, globalReqs, chanVars>>

ClientGlobal(wantReply) ==
    /\ Len(globals) < MaxGlobals
    /\ globals' = Append(globals, wantReply)
    /\ ClientSends([t |-> "global", wantReply |-> wantReply])
    /\ UNCHANGED <<asked, opened, clientClosed, adjusts, gone, out, refusals, loop, dropping,
                   chanList, incomingChannels, globalReqs, chanVars>>

(* The end of the client: it drops the TCP connection (down), or sends a   *)
(* disconnect message, a packet that does not parse or one that names no   *)
(* registered channel, and keeps listening.                                *)
ClientQuit(down) ==
    /\ ClientSends([t |-> "fatal"])
    /\ gone' = down
    /\ UNCHANGED <<clientVars, out, refusals, loop, dropping, chanList, incomingChannels,
                   globalReqs, chanVars>>

Client ==
    \/ \E form \in OpenForms : ClientOpen(form)
    \/ \E c \in Chan, req \in Requests : ClientRequest(c, req)
    \/ \E c \in Chan : ClientAdjust(c)
    \/ \E c \in Chan : ClientClose(c)
    \/ \E w \in BOOLEAN : ClientGlobal(w)
    \/ \E down \in BOOLEAN : ClientQuit(down)

-----------------------------------------------------------------------------
(* Operations of ssh.Channel, used by the goroutines of server.go.         *)

(* channel.writePacket: nothing follows a close.  What is written to a     *)
(* connection that is down reaches nobody.                                 *)
Send(c, m) ==
    out' = IF sentClose[c] \/ gone THEN out ELSE [out EXCEPT ![c] = Append(@, m)]

(* Mutant: that the close was sent is not recorded.                        *)
SendClose_NotRecorded(c) == Send(c, "close") /\ UNCHANGED sentClose

(* A channelCloseMsg: sent once.                                           *)
SendClose(c) ==
    /\ Send(c, "close")
    /\ sentClose' = [sentClose EXCEPT ![c] = TRUE]

(* Mutant: the reservation is subtracted from an exhausted window.         *)
reserve_Underflow(c) ==
    /\ remoteWin[c] > 0 \/ winClosed[c]
    /\ remoteWin' = [remoteWin EXCEPT ![c] = @ - 1]

(* window.reserve: waits until there is window or it is closed, and takes  *)
(* what there is.                                                          *)
reserve(c) ==
    /\ remoteWin[c] > 0 \/ winClosed[c]
    /\ remoteWin' = [remoteWin EXCEPT ![c] = IF @ > 0 THEN @ - 1 ELSE @]

(* channel.Write of one message.                                           *)
Write(c, m) == reserve(c) /\ Send(c, m)

(* NewChannel.Accept and Reject.  Accept fails when the channel is closed  *)
(* already, and may fail when the connection is down.                      *)
AcceptOutcomes(c) ==
    IF sentClose[c] THEN {FALSE} ELSE IF gone THEN BOOLEAN ELSE {TRUE}

Accept(c) ==
    /\ decided' = [decided EXCEPT ![c] = TRUE]
    /\ Send(c, "confirm")

Reject(c) ==
    /\ decided' = [decided EXCEPT ![c] = TRUE]
    /\ Send(c, "reject")

(* Request.Reply on a channel.                                             *)
Reply(c, ok) == Send(c, IF ok THEN "success" ELSE "failure")

(* Mutant: no answer to a global request.                                  *)
Refuse_Silent == UNCHANGED refusals

(* Request.Reply(false) to a global request.                               *)
Refuse == refusals' = IF gone THEN refusals ELSE refusals + 1

-----------------------------------------------------------------------------
(* mux.loop: one packet at a time.                                         *)

Reading(t) ==
    /\ loop = "reading" /\ dropping = {}
    /\ inbox # <<>> /\ Head(inbox).t = t
    /\ inbox' = Tail(inbox)

(* Mutant: the channels are not closed when the connection fails.          *)
Fail_NoDrop ==
    /\ loop' = "failed"
    /\ UNCHANGED <<dropping, chanList>>

(* dropAll, then close() of every channel.                                 *)
Fail ==
    /\ loop' = "failed"
    /\ dropping' = chanList
    /\ chanList' = {}

(* Mutant: the queue of channels is unbounded.                             *)
QueueHasRoom_Always == TRUE

(* The send on incomingChannels does not block.                            *)
QueueHasRoom == Len(incomingChannels) < ChanCap

(* A channel is registered and queued; an open with a bad packet size is   *)
(* refused, which ends the loop if the refusal cannot be written.          *)
handleChannelOpen ==
    LET p == Head(inbox) IN
    /\ Reading("open")
    /\ \/ /\ ~p.form.validSize
          /\ Send(p.ch, "openfail")
          /\ \/ UNCHANGED <<loop, dropping, chanList>>
             \/ gone /\ Fail
          /\ UNCHANGED <<chanType, remoteWin, incomingChannels>>
       \/ /\ p.form.validSize
          /\ QueueHasRoom
          /\ chanList' = chanList \cup {p.ch}
          /\ chanType' = [chanType EXCEPT ![p.ch] = p.form.type]
          /\ remoteWin' = [remoteWin EXCEPT ![p.ch] = @ + p.form.win]
          /\ incomingChannels' = Append(incomingChannels, p.ch)
          /\ UNCHANGED <<out, loop, dropping>>
    /\ UNCHANGED <<clientVars, gone, refusals, globalReqs,
                   winClosed, decided, sentClose, reqs, reqsClosed>>

handleGlobalPacket ==
    /\ Reading("global")
    /\ Len(globalReqs) < GlobalCap
    /\ globalReqs' = Append(globalReqs, Head(inbox).wantReply)
    /\ UNCHANGED <<clientVars, gone, out, refusals, loop, dropping, chanList,
                   incomingChannels, chanVars>>

handleRequest ==
    LET p == Head(inbox) IN
    /\ Reading("request") /\ p.ch \in chanList
    /\ Len(reqs[p.ch]) < ReqCap
    /\ reqs' = [reqs EXCEPT ![p.ch] = Append(@, p.req)]
    /\ UNCHANGED <<clientVars, gone, out, refusals, loop, dropping, chanList, incomingChannels,
                   globalReqs, chanType, remoteWin, winClosed, decided, sentClose, reqsClosed>>

handleAdjust ==
    LET p == Head(inbox) IN
    /\ Reading("adjust") /\ p.ch \in chanList
    /\ remoteWin' = [remoteWin EXCEPT ![p.ch] = @ + 1]
    /\ UNCHANGED <<clientVars, gone, out, refusals, loop, dropping, chanList, incomingChannels,
                   globalReqs, chanType, winClosed, decided, sentClose, reqs, reqsClosed>>

(* The client closed the channel: answer, forget it, then close() it.      *)
handleClose ==
    LET p == Head(inbox) IN
    /\ Reading("close") /\ p.ch \in chanList
    /\ SendClose(p.ch)
    /\ chanList' = chanList \ {p.ch}
    /\ dropping' = {p.ch}
    /\ UNCHANGED <<clientVars, gone, refusals, loop, incomingChannels, globalReqs,
                   chanType, remoteWin, winClosed, decided, reqs, reqsClosed>>

(* onePacket returns an error.                                             *)
loopFails ==
    /\ Reading("fatal")
    /\ Fail
    /\ UNCHANGED <<clientVars, gone, out, refusals, incomingChannels, globalReqs, chanVars>>

(* channel.close, first half: the request goroutine's range will end.      *)
closeRequests(c) ==
    /\ c \in dropping /\ \A d \in dropping : ~reqsClosed[d]
    /\ reqsClosed' = [reqsClosed EXCEPT ![c] = TRUE]
    /\ UNCHANGED <<clientVars, gone, inbox, out, refusals, loop, dropping, chanList, incomingChannels,
                   globalReqs, chanType, remoteWin, winClosed, decided, sentClose, reqs>>

(* Mutant: remoteWin.close() does not wake the writers.                    *)
WakeWriters_Not(c) == UNCHANGED winClosed

(* remoteWin.close()                                                       *)
WakeWriters(c) == winClosed' = [winClosed EXCEPT ![c] = TRUE]

(* channel.close, second half: no more writes, and writers are unblocked.  *)
closeWindow(c) ==
    /\ c \in dropping /\ reqsClosed[c]
    /\ sentClose' = [sentClose EXCEPT ![c] = TRUE]
    /\ WakeWriters(c)
    /\ dropping' = dropping \ {c}
    /\ UNCHANGED <<clientVars, gone, inbox, out, refusals, loop, chanList, incomingChannels,
                   globalReqs, chanType, remoteWin, decided, reqs, reqsClosed>>

(* close(incomingChannels), close(incomingRequests), conn.Close().         *)
loopExits ==
    /\ loop = "failed" /\ dropping = {}
    /\ loop' = "exited"
    /\ gone' = TRUE
    /\ UNCHANGED <<clientVars, inbox, out, refusals, dropping, chanList, incomingChannels,
                   globalReqs, chanVars>>

Loop ==
    \/ handleChannelOpen \/ handleGlobalPacket \/ handleRequest \/ handleAdjust
    \/ handleClose \/ loopFails \/ loopExits
    \/ \E c \in Chan : closeRequests(c) \/ closeWindow(c)

=============================================================================
