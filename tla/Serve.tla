------------------------------- MODULE Serve --------------------------------
(***************************************************************************)
(* serve() of server.go after the handshake, on one connection: the serve  *)
(* goroutine that takes the channels one at a time, the request goroutine  *)
(* it starts for each accepted channel, the 30 second timer of each        *)
(* channel and the DiscardRequests goroutine, all over the mux of module   *)
(* Mux.                                                                    *)
(*                                                                         *)
(* reqLock makes serve wait, before it looks at agentFwd and x11, until    *)
(* either the client has asked for a shell or a pty or 30 seconds have     *)
(* passed.  A Go mutex may be unlocked by anyone, but unlocking one that   *)
(* is not locked kills the process.                                        *)
(***************************************************************************)
EXTENDS Mux, KeyCheck

CONSTANTS
    keys,       \* the keys collected for this connection, in order
    blacklist   \* the loaded blacklist: a set of trimmed lines

ASSUME KeysAssumption ==
    \A i \in DOMAIN keys : isAcceptableAlgo(keys[i].algo) /\ keys[i].bits \in Nat

VARIABLES
    (* the serve goroutine *)
    pc,         \* where it is
    cur,        \* the channel it is working on
    todo,       \* messages it has still to write before it waits on reqLock
    marked,     \* positions of the keys with blacklisted = true
    (* per channel *)
    reqLock,    \* "locked" or "unlocked"
    timer,      \* time.AfterFunc: "off", "armed", "expired", "ran", "stopped"
    agentFwd, x11,
    published,  \* the flags as the unlocking request goroutine left them
    gpc,        \* the request goroutine: "off", "recv", "unlock", "reply", "end"
    greq,       \* the request it is handling
    crashed     \* "unlock of unlocked mutex"

serveVars == <<pc, cur, todo, marked>>
lockVars == <<reqLock, timer, agentFwd, x11, published, gpc, greq, crashed>>
vars == <<muxVars, serveVars, lockVars>>

Flags == [agentFwd : BOOLEAN, x11 : BOOLEAN]

Opens == {"shell", "pty-req"}   \* the requests that end the wait

NoRequest == [type |-> "other", wantReply |-> FALSE]

(* The goroutine is started with the first channel not chosen yet; the     *)
(* entry in sessions.keys has been read (lines 43 to 45).                  *)
Init ==
    /\ MuxInit
    /\ pc = "recv" /\ cur = 1 /\ todo = <<>> /\ marked = {}
    /\ reqLock = [c \in Chan |-> "unlocked"]
    /\ timer = [c \in Chan |-> "off"]
    /\ agentFwd = [c \in Chan |-> FALSE] /\ x11 = [c \in Chan |-> FALSE]
    /\ published = [c \in Chan |-> [agentFwd |-> FALSE, x11 |-> FALSE]]
    /\ gpc = [c \in Chan |-> "off"] /\ greq = [c \in Chan |-> NoRequest]
    /\ crashed = FALSE

-----------------------------------------------------------------------------
(* The serve goroutine.                                                    *)

(* for n := range chans *)
NextChannel ==
    /\ pc = "recv" /\ incomingChannels # <<>>
    /\ cur' = Head(incomingChannels)
    /\ incomingChannels' = Tail(incomingChannels)
    /\ pc' = "decide"
    /\ UNCHANGED <<todo, marked, lockVars, loopVars, out, refusals, globalReqs,
                   chanVars>>

(* The channel is not a session. *)
RejectChannel ==
    /\ pc = "decide" /\ chanType[cur] # "session"
    /\ Reject(cur)
    /\ pc' = "recv"
    /\ UNCHANGED <<cur, todo, marked, lockVars, loopVars, refusals, incomingChannels,
                   globalReqs, chanType, remoteWin, winClosed, sentClose, reqs,
                   reqsClosed>>

(* n.Accept() returned an error: on to the next channel.                   *)
AcceptFails ==
    /\ pc = "decide" /\ chanType[cur] = "session"
    /\ FALSE \in AcceptOutcomes(cur)
    /\ decided' = [decided EXCEPT ![cur] = TRUE]
    /\ pc' = "recv"
    /\ UNCHANGED <<cur, todo, marked, lockVars, loopVars, out, refusals,
                   incomingChannels, globalReqs, chanType, remoteWin, winClosed,
                   sentClose, reqs, reqsClosed>>

(* Mutant: the timer is created but not started.                           *)
AfterFunc_NotStarted == "off"

(* time.AfterFunc returns a running timer.                                 *)
AfterFunc == "armed"

(* n.Accept() succeeded: new flags, a locked reqLock, the timer, the       *)
(* request goroutine, and the keys are marked.                             *)
AcceptChannel ==
    /\ pc = "decide" /\ chanType[cur] = "session"
    /\ TRUE \in AcceptOutcomes(cur)
    /\ Accept(cur)
    /\ agentFwd' = [agentFwd EXCEPT ![cur] = FALSE]
    /\ x11' = [x11 EXCEPT ![cur] = FALSE]
    /\ published' = [published EXCEPT ![cur] = [agentFwd |-> FALSE, x11 |-> FALSE]]
    /\ reqLock' = [reqLock EXCEPT ![cur] = "locked"]
    /\ timer' = [timer EXCEPT ![cur] = AfterFunc]
    /\ gpc' = [gpc EXCEPT ![cur] = "recv"]
    /\ marked' = marked \cup Blacklisted(keys, blacklist)
    /\ todo' = Report(keys, marked')
    /\ pc' = "report"
    /\ UNCHANGED <<cur, greq, crashed, loopVars, refusals, incomingChannels, globalReqs,
                   chanType, remoteWin, winClosed, sentClose, reqs, reqsClosed>>

(* Writing the welcome message, the table and the warnings; the errors of  *)
(* Write are ignored.                                                      *)
WriteReport ==
    /\ pc = "report" /\ todo # <<>>
    /\ Write(cur, Head(todo))
    /\ todo' = Tail(todo)
    /\ UNCHANGED <<pc, cur, marked, lockVars, loopVars, refusals, incomingChannels,
                   globalReqs, chanType, winClosed, decided, sentClose, reqs,
                   reqsClosed>>

(* Mutant: serve does not wait.                                            *)
LockReq_NoWait ==
    /\ pc = "report" /\ todo = <<>>
    /\ reqLock' = [reqLock EXCEPT ![cur] = "locked"]
    /\ pc' = "agent"
    /\ UNCHANGED <<cur, todo, marked, timer, agentFwd, x11, published, gpc, greq,
                   crashed, muxVars>>

(* The second reqLock.Lock() *)
LockReq ==
    /\ pc = "report" /\ todo = <<>>
    /\ reqLock[cur] = "unlocked"
    /\ reqLock' = [reqLock EXCEPT ![cur] = "locked"]
    /\ pc' = "agent"
    /\ UNCHANGED <<cur, todo, marked, timer, agentFwd, x11, published, gpc, greq,
                   crashed, muxVars>>

(* One of the two warnings about forwarding.  Its flag is set by another   *)
(* goroutine without synchronisation after its publication by Unlock: each *)
(* value in seen may be the one that is read.                              *)
Warn(at, seen, msg, then) ==
    /\ pc = at
    /\ \E flag \in seen : \/ ~flag /\ UNCHANGED <<out, remoteWin>>
                          \/ flag /\ Write(cur, msg)
    /\ pc' = then
    /\ UNCHANGED <<cur, todo, marked, lockVars, loopVars, refusals, incomingChannels,
                   globalReqs, chanType, winClosed, decided, sentClose, reqs,
                   reqsClosed>>

WarnAgent == Warn("agent", {published[cur].agentFwd, agentFwd[cur]}, "agentMsg", "x11")

(* Mutant: the wrong flag is tested.                                       *)
WarnX11_AgentFlag == Warn("x11", {published[cur].agentFwd, agentFwd[cur]}, "x11Msg", "close")

WarnX11 == Warn("x11", {published[cur].x11, x11[cur]}, "x11Msg", "close")

(* channel.Close() *)
CloseChannel ==
    /\ pc = "close"
    /\ SendClose(cur)
    /\ pc' = "recv"
    /\ UNCHANGED <<cur, todo, marked, lockVars, loopVars, refusals, incomingChannels,
                   globalReqs, chanType, remoteWin, winClosed, decided, reqs,
                   reqsClosed>>

(* chans is closed and drained: the deferred function removes the entry    *)
(* from sessions.keys and closes the connection.                           *)
Return ==
    /\ pc = "recv" /\ incomingChannels = <<>> /\ loop = "exited"
    /\ pc' = "done"
    /\ UNCHANGED <<cur, todo, marked, lockVars, muxVars>>

ServeStep ==
    \/ NextChannel \/ RejectChannel \/ AcceptFails \/ AcceptChannel \/ WriteReport
    \/ LockReq \/ WarnAgent \/ WarnX11 \/ CloseChannel \/ Return

-----------------------------------------------------------------------------
(* reqLock.Unlock() by the timer's callback or by the request goroutine.   *)
Unlock(c) ==
    /\ crashed' = (crashed \/ reqLock[c] = "unlocked")
    /\ reqLock' = [reqLock EXCEPT ![c] = "unlocked"]

(* The timer of a channel: it expires, and its function runs in a          *)
(* goroutine of its own.                                                   *)
TimerExpires(c) ==
    /\ timer[c] = "armed"
    /\ timer' = [timer EXCEPT ![c] = "expired"]
    /\ UNCHANGED <<reqLock, agentFwd, x11, published, gpc, greq, crashed, serveVars,
                   muxVars>>

TimerFunc(c) ==
    /\ timer[c] = "expired"
    /\ timer' = [timer EXCEPT ![c] = "ran"]
    /\ Unlock(c)
    /\ UNCHANGED <<agentFwd, x11, published, gpc, greq, serveVars, muxVars>>

(* Mutant: the result of Stop is taken to be true.                         *)
Stop_Ignored(c) == TRUE

(* What timeout.Stop() returns: it was in time.                            *)
Stop(c) == timer[c] = "armed"

(* The request goroutine receives a request: a shell or a pty stops the    *)
(* timer and, if that succeeded, unlocks; the others only set a flag.      *)
HandleRequest(c) ==
    LET req == Head(reqs[c]) IN
    /\ gpc[c] = "recv" /\ reqs[c] # <<>>
    /\ reqs' = [reqs EXCEPT ![c] = Tail(@)]
    /\ greq' = [greq EXCEPT ![c] = req]
    /\ IF req.type \in Opens /\ Stop(c)
       THEN /\ timer' = [timer EXCEPT ![c] = "stopped"]
            /\ gpc' = [gpc EXCEPT ![c] = "unlock"]
       ELSE /\ gpc' = [gpc EXCEPT ![c] = "reply"]
            /\ UNCHANGED timer
    /\ agentFwd' = [agentFwd EXCEPT ![c] = @ \/ req.type = "auth-agent-req"]
    /\ x11' = [x11 EXCEPT ![c] = @ \/ req.type = "x11-req"]
    /\ UNCHANGED <<reqLock, published, crashed, serveVars, loopVars, out, refusals,
                   incomingChannels, globalReqs, chanType, remoteWin, winClosed,
                   decided, sentClose, reqsClosed>>

UnlockReq(c) ==
    /\ gpc[c] = "unlock"
    /\ Unlock(c)
    /\ published' = [published EXCEPT ![c] = [agentFwd |-> agentFwd[c], x11 |-> x11[c]]]
    /\ gpc' = [gpc EXCEPT ![c] = "reply"]
    /\ UNCHANGED <<timer, agentFwd, x11, greq, serveVars, muxVars>>

(* Mutant: every request is granted.                                       *)
Granted_All(req) == TRUE

Granted(req) == req.type \in Opens

ReplyRequest(c) ==
    /\ gpc[c] = "reply"
    /\ \/ greq[c].wantReply /\ Reply(c, Granted(greq[c]))
       \/ ~greq[c].wantReply /\ UNCHANGED out
    /\ gpc' = [gpc EXCEPT ![c] = "recv"]
    /\ UNCHANGED <<reqLock, timer, agentFwd, x11, published, greq, crashed, serveVars,
                   loopVars, refusals, incomingChannels, globalReqs, chanVars>>

(* The range over the requests ends once the queue is closed and drained.  *)
RequestsEnd(c) ==
    /\ gpc[c] = "recv" /\ reqs[c] = <<>> /\ reqsClosed[c]
    /\ gpc' = [gpc EXCEPT ![c] = "end"]
    /\ UNCHANGED <<reqLock, timer, agentFwd, x11, published, greq, crashed, serveVars,
                   muxVars>>

(* ssh.DiscardRequests: every global request is taken and refused.         *)
DiscardRequest ==
    /\ globalReqs # <<>>
    /\ globalReqs' = Tail(globalReqs)
    /\ \/ Head(globalReqs) /\ Refuse
       \/ ~Head(globalReqs) /\ UNCHANGED refusals
    /\ UNCHANGED <<serveVars, lockVars, loopVars, out, incomingChannels, chanVars>>

RequestStep(c) == HandleRequest(c) \/ UnlockReq(c) \/ ReplyRequest(c) \/ RequestsEnd(c)

-----------------------------------------------------------------------------
Ended ==
    /\ pc = "done"
    /\ \A c \in Chan : gpc[c] \in {"off", "end"} /\ timer[c] \notin {"armed", "expired"}

(* The server is not torn down: once everything has ended, it stays so.    *)
Terminated == Ended /\ UNCHANGED vars

ClientStep == Client /\ UNCHANGED <<serveVars, lockVars>>

LoopStep == Loop /\ UNCHANGED <<serveVars, lockVars>>

(* A crash stops every goroutine of the process.                           *)
Next ==
    /\ ~crashed
    /\ \/ ClientStep
       \/ LoopStep
       \/ ServeStep
       \/ \E c \in Chan : RequestStep(c)
       \/ \E c \in Chan : TimerExpires(c)
       \/ \E c \in Chan : TimerFunc(c)
       \/ DiscardRequest
       \/ Terminated

Spec == Init /\ [][Next]_vars

(* Go schedules every goroutine that can run, and time passes.  Nothing is *)
(* assumed of the client.                                                  *)
Fairness ==
    /\ WF_vars(~crashed /\ ServeStep)
    /\ WF_vars(~crashed /\ LoopStep)
    /\ WF_vars(~crashed /\ DiscardRequest)
    /\ \A c \in Chan : /\ WF_vars(~crashed /\ RequestStep(c))
                       /\ WF_vars(~crashed /\ TimerExpires(c))
                       /\ WF_vars(~crashed /\ TimerFunc(c))

FairSpec == Spec /\ Fairness

-----------------------------------------------------------------------------
ServeTypeOK ==
    /\ pc \in {"recv", "decide", "report", "agent", "x11", "close", "done"}
    /\ cur \in Chan /\ todo \in Seq(Message) /\ marked \subseteq DOMAIN keys
    /\ reqLock \in [Chan -> {"locked", "unlocked"}]
    /\ timer \in [Chan -> {"off", "armed", "expired", "ran", "stopped"}]
    /\ agentFwd \in [Chan -> BOOLEAN] /\ x11 \in [Chan -> BOOLEAN]
    /\ published \in [Chan -> Flags]
    /\ gpc \in [Chan -> {"off", "recv", "unlock", "reply", "end"}]
    /\ greq \in [Chan -> Request]
    /\ crashed \in BOOLEAN

(* Every variable has its type; in particular no window is ever negative   *)
(* (it is a uint32), also not when writers are woken by a closing channel. *)
TypeOK == MuxTypeOK /\ ServeTypeOK

(* Of the timer's function and the request goroutine, which race when a    *)
(* shell or pty request arrives as the 30 seconds end, exactly one unlocks *)
(* reqLock: an unlock of an unlocked mutex would end the whole process,    *)
(* every other connection included.                                        *)
NoCrash == ~crashed

(* What makes NoCrash inductive: while the timer may still fire, the lock  *)
(* is held and nobody else is about to unlock it; the request goroutine is *)
(* about to unlock it only if it stopped the timer, and the lock is held.  *)
OneUnlocker ==
    \A c \in Chan :
        /\ timer[c] \in {"armed", "expired"} => reqLock[c] = "locked" /\ gpc[c] # "unlock"
        /\ gpc[c] = "unlock" => reqLock[c] = "locked" /\ timer[c] = "stopped"

(* serve gets past the second Lock only when the wait is over: neither the *)
(* timer nor the request goroutine still has to unlock.                    *)
WaitIsOver ==
    pc \in {"agent", "x11", "close"} => timer[cur] \in {"ran", "stopped"} /\ gpc[cur] # "unlock"

(* The server ends a session by itself only after the client has asked for *)
(* a shell or a pty on that channel, or after the 30 seconds: until then   *)
(* the client may still be asking for forwarding.                          *)
ClosedAfterWait ==
    \A c \in Chan :
        Contains(out[c], "close") /\ c \notin clientClosed
            => timer[c] = "ran" \/ \E i \in DOMAIN asked[c] : asked[c][i].type \in Opens

(* The client asked for this before its first shell or pty request.        *)
AskedFirst(c, type) ==
    \E i \in DOMAIN asked[c] : /\ asked[c][i].type = type
                               /\ \A j \in 1..i : asked[c][j].type \notin Opens

(* A client that asks for forwarding before its first shell or pty request *)
(* (as the comment on line 78 says clients do), and does so within the 30  *)
(* seconds, is warned before the server closes the channel, however the    *)
(* request goroutine and serve are scheduled.                              *)
ForwardingReported ==
    \A c \in Chan :
        Contains(out[c], "close") /\ c \notin clientClosed /\ timer[c] = "stopped"
            => /\ AskedFirst(c, "auth-agent-req") => Contains(out[c], "agentMsg")
               /\ AskedFirst(c, "x11-req") => Contains(out[c], "x11Msg")

(* What the client sees is what Conversation promises.                     *)
Promise == INSTANCE Conversation WITH Script <- Report(keys, Blacklisted(keys, blacklist))
ConversationPromise == Promise!Spec

(* serve waits for window that the client has not given: it writes the     *)
(* report or a warning to a channel of which the window is used up.        *)
Starved ==
    /\ \/ pc = "report" /\ todo # <<>>
       \/ pc = "agent" /\ agentFwd[cur]
       \/ pc = "x11" /\ x11[cur]
    /\ remoteWin[cur] = 0 /\ ~winClosed[cur]

(* Every channel a client opens is dealt with while the connection lasts:  *)
(* rejected, or served and closed, though serve takes one channel at a     *)
(* time and each may keep it waiting for 30 seconds; unless the client     *)
(* never gives the window that serve waits for.                            *)
EveryChannelEnds ==
    \A c \in Chan :
        (c <= opened) ~> \/ gone \/ loop # "reading" \/ []Starved
                         \/ out[c] # <<>> /\ Last(out[c]) \in {"close", "reject", "openfail"}

(* Global requests (keep-alives) that want an answer get one while the     *)
(* connection lasts, also while serve is waiting on a channel.             *)
GlobalsAnswered ==
    \A n \in 1..MaxGlobals :
        Len(SelectSeq(globals, LAMBDA w : w)) >= n
            ~> gone \/ loop # "reading" \/ refusals >= n

(* Once the connection is down, all that was started for it ends: serve,   *)
(* which then drops its entry in sessions.keys, the request goroutines and *)
(* the timers.                                                             *)
GoneEndsAll == gone ~> Ended

(* serve waits for window on one channel while mux.loop, which alone could *)
(* read the client's window adjustment, close or disconnect, waits for     *)
(* room in the queue of channels that serve empties.                       *)
Wedged ==
    /\ Starved
    /\ loop = "reading" /\ dropping = {}
    /\ inbox # <<>> /\ Head(inbox).t = "open" /\ Head(inbox).form.validSize
    /\ Len(incomingChannels) = ChanCap

(* With a client that gives too little window, the wedge is the only way   *)
(* for the goroutines of a dead connection to stay.                        *)
GoneEndsAllOrWedged == gone ~> (Ended \/ Wedged)

(* Nothing the client does, hanging up included, ends a wedge in which     *)
(* serve is writing the report.                                            *)
WedgeLasts == [][(Wedged /\ pc = "report") => Wedged']_vars

=============================================================================
