------------------------------ MODULE Channels ------------------------------
(***************************************************************************)
(* Opening, using and closing channels between two ends that both use the  *)
(* library (mux.go, channel.go): channel numbers and their reuse, answers  *)
(* to requests, and the end of the connection.  A channel is named by who  *)
(* opened it and a count; this name is in no packet the code looks at: the *)
(* packets carry it so that properties can speak of it.                    *)
(***************************************************************************)
EXTENDS Naturals, Sequences, SequencesExt, FiniteSetsExt

CONSTANTS
    MaxOpens,     \* bound: MaxOpens[p] channels are opened by p
    Requesters,   \* Requesters[p][c]: goroutines of p that each send one request, with a reply, on c
    CanClose,     \* Close is called on channels
    CanDrop       \* the TCP connection may break

Peers == {"client", "server"}
Other(p) == IF p = "client" THEN "server" ELSE "client"

ASSUME ChannelsAssumption ==
    CanClose \in BOOLEAN /\ CanDrop \in BOOLEAN /\ \A p \in Peers : MaxOpens[p] \in Nat

Names == {<<p, k>> : p \in Peers, k \in 1..Max({MaxOpens[p] : p \in Peers})}
Free == <<"free", 0>>     \* a nil entry of chanList.chans
Nobody == "nobody"        \* sent no request: the sender of any other packet

(* An answer is told from the states of a call and from what openChannel   *)
(* waits for.                                                              *)
ASSUME RequestersAssumption ==
    \A p \in Peers, c \in Names :
        Requesters[p][c] \cap {Nobody, "free", "idle", "lock", "wait", "error", "confirm", "failure"} = {}

VARIABLES
    chanList,   \* chanList[p]: the channel of each number; the first number is 1
    ch,         \* ch[p][c]: p's channel object for c
    rq,         \* rq[p][c][g]: the SendRequest of goroutine g on c
    reqMu,      \* reqMu[p][c]: who holds sentRequestMu
    asked,      \* asked[p][c]: incomingRequests: the requests p has not answered yet
    link,       \* link[p]: packets from p to the other end
    broken,     \* the TCP connection is broken
    loop        \* mux.loop of p: "run", "dropped" (dropAll and the closes are done), "end"

vars == <<chanList, ch, rq, reqMu, asked, link, broken, loop>>

(* state: "none", "opening" (openChannel waits), "offered" (in             *)
(* incomingChannels), "ready" (the user has it), "refused".                *)
NoChannel == [state |-> "none", remoteId |-> 0, sentClose |-> FALSE, closed |-> FALSE,
              msg |-> <<>>, late |-> FALSE]

Init ==
    /\ chanList = [p \in Peers |-> <<>>]
    /\ ch = [p \in Peers |-> [c \in Names |-> NoChannel]]
    /\ rq = [p \in Peers |-> [c \in Names |-> [g \in Requesters[p][c] |-> "idle"]]]
    /\ reqMu = [p \in Peers |-> [c \in Names |-> "free"]]
    /\ asked = [p \in Peers |-> [c \in Names |-> <<>>]]
    /\ link = [p \in Peers |-> <<>>]
    /\ broken = FALSE
    /\ loop = [p \in Peers |-> "run"]

-----------------------------------------------------------------------------
(* chanList.add: the first free number, or a new one.                      *)
Slot(list) == IF \E i \in DOMAIN list : list[i] = Free
              THEN Min({i \in DOMAIN list : list[i] = Free}) ELSE Len(list) + 1
List(list, c) == [i \in 1..Max({Len(list), Slot(list)}) |-> IF i = Slot(list) THEN c ELSE list[i]]

Unlist(list, id) == [i \in DOMAIN list |-> IF i = id THEN Free ELSE list[i]]

(* to: the number at the receiver; from: at the sender; who: the request.  *)
Packet(t, to, from, c, who) == [t |-> t, to |-> to, from |-> from, c |-> c, who |-> who]

(* A write to the connection: lost when it is broken, and an error once    *)
(* this end is closed.                                                     *)
Sends(p, pkt) == link' = IF broken THEN link ELSE [link EXCEPT ![p] = Append(@, pkt)]
CanWrite(p) == loop[p] # "end"

(* channel.sendMessage for channel c of p.                                 *)
ToPeer(p, c, t, who) == Packet(t, ch[p][c].remoteId, 0, c, who)

-----------------------------------------------------------------------------
(* openChannel: the channel is listed and the open sent.                   *)
OpenChannel(p, k) ==
    LET c == <<p, k>> IN
    /\ k <= MaxOpens[p] /\ ch[p][c].state = "none"
    /\ \A j \in 1..(k - 1) : ch[p][<<p, j>>].state # "none"
    /\ chanList' = [chanList EXCEPT ![p] = List(@, c)]
    /\ ch' = [ch EXCEPT ![p][c].state = IF CanWrite(p) THEN "opening" ELSE "refused",
                        ![p][c].late = loop[p] # "run"]
    /\ IF CanWrite(p) THEN Sends(p, Packet("open", 0, Slot(chanList[p]), c, Nobody)) ELSE UNCHANGED link
    /\ UNCHANGED <<rq, reqMu, asked, broken, loop>>

(* openChannel returns: a confirmation, a failure, or c.msg is closed.     *)
OpenReturns(p, c) ==
    /\ ch[p][c].state = "opening"
    /\ \/ /\ ch[p][c].msg # <<>>
          /\ ch' = [ch EXCEPT ![p][c].msg = Tail(@),
                              ![p][c].state = IF Head(ch[p][c].msg) = "confirm" THEN "ready" ELSE "refused"]
       \/ /\ ch[p][c].msg = <<>> /\ ch[p][c].closed
          /\ ch' = [ch EXCEPT ![p][c].state = "refused"]
    /\ UNCHANGED <<chanList, rq, reqMu, asked, link, broken, loop>>

(* Accept and Reject, by whoever serves incomingChannels.  A rejected      *)
(* channel keeps its number.                                               *)
Accept(p, c) ==
    /\ ch[p][c].state = "offered"
    /\ ch' = [ch EXCEPT ![p][c].state = IF ch[p][c].sentClose \/ ~CanWrite(p) THEN "refused" ELSE "ready"]
    /\ IF ch[p][c].sentClose \/ ~CanWrite(p) THEN UNCHANGED link
       ELSE \E id \in DOMAIN chanList[p] :
                chanList[p][id] = c /\ Sends(p, Packet("confirm", ch[p][c].remoteId, id, c, Nobody))
    /\ UNCHANGED <<chanList, rq, reqMu, asked, broken, loop>>

Reject(p, c) ==
    /\ ch[p][c].state = "offered"
    /\ ch' = [ch EXCEPT ![p][c].state = "refused"]
    /\ IF ch[p][c].sentClose \/ ~CanWrite(p) THEN UNCHANGED link ELSE Sends(p, ToPeer(p, c, "failure", Nobody))
    /\ UNCHANGED <<chanList, rq, reqMu, asked, broken, loop>>

(* Mutant: the number is given back at once.                               *)
Close_Remove(p, c) ==
    /\ CanClose /\ ch[p][c].state = "ready" /\ ~ch[p][c].sentClose /\ CanWrite(p)
    /\ ch' = [ch EXCEPT ![p][c].sentClose = TRUE]
    /\ chanList' = [chanList EXCEPT ![p] = [i \in DOMAIN @ |-> IF @[i] = c THEN Free ELSE @[i]]]
    /\ Sends(p, ToPeer(p, c, "close", Nobody))
    /\ UNCHANGED <<rq, reqMu, asked, broken, loop>>

(* Close by the user; the number is kept until the other end has closed.   *)
Close(p, c) ==
    /\ CanClose /\ ch[p][c].state = "ready" /\ ~ch[p][c].sentClose /\ CanWrite(p)
    /\ ch' = [ch EXCEPT ![p][c].sentClose = TRUE]
    /\ Sends(p, ToPeer(p, c, "close", Nobody))
    /\ UNCHANGED <<chanList, rq, reqMu, asked, broken, loop>>

-----------------------------------------------------------------------------
(* SendRequest with wantReply, by goroutine g.                             *)
Start(p, c, g) ==
    /\ ch[p][c].state = "ready" /\ rq[p][c][g] = "idle"
    /\ rq' = [rq EXCEPT ![p][c][g] = "lock"]
    /\ UNCHANGED <<chanList, ch, reqMu, asked, link, broken, loop>>

(* Mutant: sentRequestMu is not taken.                                     *)
MayLock_Always(p, c) == TRUE

MayLock(p, c) == reqMu[p][c] = "free"

SendRequest(p, c, g) ==
    /\ rq[p][c][g] = "lock" /\ MayLock(p, c)
    /\ IF ch[p][c].sentClose \/ ~CanWrite(p)
       THEN rq' = [rq EXCEPT ![p][c][g] = "error"] /\ UNCHANGED <<reqMu, link>>
       ELSE /\ rq' = [rq EXCEPT ![p][c][g] = "wait"]
            /\ reqMu' = [reqMu EXCEPT ![p][c] = g]
            /\ Sends(p, ToPeer(p, c, "request", g))
    /\ UNCHANGED <<chanList, ch, asked, broken, loop>>

(* The answer, or c.msg is closed.                                         *)
RequestReturns(p, c, g) ==
    /\ rq[p][c][g] = "wait"
    /\ \/ /\ ch[p][c].msg # <<>>
          /\ ch' = [ch EXCEPT ![p][c].msg = Tail(@)]
          /\ rq' = [rq EXCEPT ![p][c][g] = Head(ch[p][c].msg)]
       \/ /\ ch[p][c].msg = <<>> /\ ch[p][c].closed
          /\ rq' = [rq EXCEPT ![p][c][g] = "error"]
          /\ UNCHANGED ch
    /\ reqMu' = [reqMu EXCEPT ![p][c] = "free"]
    /\ UNCHANGED <<chanList, asked, link, broken, loop>>

(* Request.Reply, by whoever serves incomingRequests.                      *)
Reply(p, c) ==
    /\ ch[p][c].state = "ready" /\ asked[p][c] # <<>>
    /\ asked' = [asked EXCEPT ![p][c] = Tail(@)]
    /\ IF ch[p][c].sentClose \/ ~CanWrite(p) THEN UNCHANGED link
       ELSE Sends(p, ToPeer(p, c, "answer", Head(asked[p][c])))
    /\ UNCHANGED <<chanList, ch, rq, reqMu, broken, loop>>

-----------------------------------------------------------------------------
(* mux.loop of p reads a packet.                                           *)
Incoming(p) == link[Other(p)]
Receives(p, t) ==
    /\ loop[p] = "run" /\ Incoming(p) # <<>> /\ Head(Incoming(p)).t = t

(* onePacket: the channel that the number stands for, if any.              *)
Known(p) == Head(Incoming(p)).to \in DOMAIN chanList[p] /\ chanList[p][Head(Incoming(p)).to] # Free
Target(p) == chanList[p][Head(Incoming(p)).to]
Take(p) == link' = [link EXCEPT ![Other(p)] = Tail(@)]

HandleOpen(p) ==
    /\ Receives(p, "open")
    /\ LET pkt == Head(Incoming(p)) IN
           /\ chanList' = [chanList EXCEPT ![p] = List(@, pkt.c)]
           /\ ch' = [ch EXCEPT ![p][pkt.c].state = "offered", ![p][pkt.c].remoteId = pkt.from]
    /\ Take(p)
    /\ UNCHANGED <<rq, reqMu, asked, broken, loop>>

HandleConfirm(p) ==
    /\ Receives(p, "confirm") /\ Known(p)
    /\ ch' = [ch EXCEPT ![p][Target(p)].remoteId = Head(Incoming(p)).from,
                        ![p][Target(p)].msg = Append(@, "confirm")]
    /\ Take(p)
    /\ UNCHANGED <<chanList, rq, reqMu, asked, broken, loop>>

HandleFailure(p) ==
    /\ Receives(p, "failure") /\ Known(p)
    /\ chanList' = [chanList EXCEPT ![p] = Unlist(@, Head(Incoming(p)).to)]
    /\ ch' = [ch EXCEPT ![p][Target(p)].msg = Append(@, "failure")]
    /\ Take(p)
    /\ UNCHANGED <<rq, reqMu, asked, broken, loop>>

HandleRequest(p) ==
    /\ Receives(p, "request") /\ Known(p)
    /\ asked' = [asked EXCEPT ![p][Target(p)] = Append(@, Head(Incoming(p)).who)]
    /\ Take(p)
    /\ UNCHANGED <<chanList, ch, rq, reqMu, broken, loop>>

HandleAnswer(p) ==
    /\ Receives(p, "answer") /\ Known(p)
    /\ ch' = [ch EXCEPT ![p][Target(p)].msg = Append(@, Head(Incoming(p)).who)]
    /\ Take(p)
    /\ UNCHANGED <<chanList, rq, reqMu, asked, broken, loop>>

(* Mutant: c.msg stays open.                                               *)
Closed_Msg(obj) == [obj EXCEPT !.sentClose = TRUE]

(* channel.close: c.msg is closed, nothing more can be sent.               *)
Closed(obj) == [obj EXCEPT !.closed = TRUE, !.sentClose = TRUE]

(* msgChannelClose: our close, if not sent; the number is free again.      *)
HandleClose(p) ==
    /\ Receives(p, "close") /\ Known(p)
    /\ LET c == Target(p) IN
           /\ link' = [link EXCEPT ![Other(p)] = Tail(@),
                                   ![p] = IF ch[p][c].sentClose \/ broken THEN @ ELSE Append(@, ToPeer(p, c, "close", Nobody))]
           /\ ch' = [ch EXCEPT ![p][c] = Closed(@)]
           /\ chanList' = [chanList EXCEPT ![p] = Unlist(@, Head(Incoming(p)).to)]
    /\ UNCHANGED <<rq, reqMu, asked, broken, loop>>

(* The connection is lost (or a number is not known): dropAll, and all     *)
(* channels are closed; then the connection is.                            *)
LoopFails(p) ==
    /\ loop[p] = "run"
    /\ \/ Incoming(p) = <<>> /\ (broken \/ loop[Other(p)] = "end")
       \/ Incoming(p) # <<>> /\ Head(Incoming(p)).t # "open" /\ ~Known(p)
    /\ loop' = [loop EXCEPT ![p] = "dropped"]
    /\ ch' = [ch EXCEPT ![p] = [c \in Names |-> IF c \in ToSet(chanList[p]) THEN Closed(@[c]) ELSE @[c]]]
    /\ chanList' = [chanList EXCEPT ![p] = <<>>]
    /\ UNCHANGED <<rq, reqMu, asked, link, broken>>

LoopEnds(p) ==
    /\ loop[p] = "dropped"
    /\ loop' = [loop EXCEPT ![p] = "end"]
    /\ UNCHANGED <<chanList, ch, rq, reqMu, asked, link, broken>>

Drop ==
    /\ CanDrop /\ ~broken
    /\ broken' = TRUE
    /\ UNCHANGED <<chanList, ch, rq, reqMu, asked, link, loop>>

MuxLoop(p) ==
    \/ HandleOpen(p) \/ HandleConfirm(p) \/ HandleFailure(p) \/ HandleRequest(p) \/ HandleAnswer(p)
    \/ HandleClose(p) \/ LoopFails(p) \/ LoopEnds(p)
Serve(p, c) == Accept(p, c) \/ Reject(p, c)
Request(p, c, g) == SendRequest(p, c, g) \/ RequestReturns(p, c, g)

Next ==
    \/ \E p \in Peers : MuxLoop(p) \/ \E k \in 1..MaxOpens[p] : OpenChannel(p, k)
    \/ \E p \in Peers, c \in Names :
           \/ Serve(p, c) \/ OpenReturns(p, c) \/ Close(p, c) \/ Reply(p, c)
           \/ \E g \in Requesters[p][c] : Start(p, c, g) \/ Request(p, c, g)
    \/ Drop

Spec == Init /\ [][Next]_vars

(* Goroutines that can run do, and the channels returned by NewClientConn, *)
(* NewServerConn and Accept are served ("must be serviced").               *)
Fairness ==
    \A p \in Peers :
        /\ WF_vars(MuxLoop(p))
        /\ \A c \in Names : /\ WF_vars(Serve(p, c)) /\ WF_vars(OpenReturns(p, c)) /\ WF_vars(Reply(p, c))
                            /\ \A g \in Requesters[p][c] : WF_vars(Request(p, c, g))
FairSpec == Spec /\ Fairness

-----------------------------------------------------------------------------
(* A packet that arrives is for the channel its sender meant, although     *)
(* numbers are reused: none comes for a number that is free ("invalid      *)
(* channel" would end the connection) or has passed to another channel.    *)
RightChannel ==
    \A p \in Peers :
        loop[p] = "run" /\ Incoming(p) # <<>> /\ Head(Incoming(p)).t # "open"
            => Known(p) /\ Target(p) = Head(Incoming(p)).c

(* SendRequest returns the answer to its own request, not to that of       *)
(* another goroutine.                                                      *)
OwnAnswer == \A p \in Peers, c \in Names : \A g \in Requesters[p][c] :
                 rq[p][c][g] \in {"idle", "lock", "wait", "error", g}

(* openChannel returns, whatever the other end answers and whenever the    *)
(* connection is lost (but not when it put the channel on the list after   *)
(* mux.loop had closed all it found there), and so does SendRequest, with  *)
(* an answer or because the channel closed.                                *)
CallsReturn ==
    \A p \in Peers, c \in Names :
        /\ (ch[p][c].state = "opening" /\ ~ch[p][c].late) ~> (ch[p][c].state # "opening")
        /\ \A g \in Requesters[p][c] :
               (rq[p][c][g] \in {"lock", "wait"}) ~> (rq[p][c][g] \notin {"lock", "wait"})

=============================================================================
