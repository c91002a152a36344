---------------------------- MODULE ServeProofs -----------------------------
(***************************************************************************)
(* Theorems about Serve, for any number of channels, any capacities of the *)
(* queues, any keys and blacklist.                                         *)
(***************************************************************************)
EXTENDS Serve, SequenceTheorems, WellFoundedInduction, TLAPS

(* What serve() writes before it waits.                                    *)
ReportMessage == {"welcomeMsg", "table", "blacklistMsg", "dsaMsg", "weakMsg"}

(* The report is made of its own messages: no confirmation, no close.      *)
LEMMA ReportMade ==
    ASSUME NEW ks, NEW m PROVE Report(ks, m) \in Seq(ReportMessage)
<1>1. <<"welcomeMsg", "table">> \in Seq(ReportMessage)
  BY DEF ReportMessage
<1>2. Warnings(ks, m) \in Seq(ReportMessage)
  <2>1. ASSUME NEW p \in BOOLEAN, NEW w \in ReportMessage
        PROVE  (IF p THEN <<w>> ELSE <<>>) \in Seq(ReportMessage)
    OBVIOUS
  <2>2. {"blacklistMsg", "dsaMsg", "weakMsg"} \subseteq ReportMessage
    BY DEF ReportMessage
  <2>3. (IF \E i \in DOMAIN ks : i \in m THEN <<"blacklistMsg">> ELSE <<>>) \in Seq(ReportMessage)
    BY <2>1, <2>2
  <2>4. (IF \E i \in DOMAIN ks : IsDSA(ks[i]) THEN <<"dsaMsg">> ELSE <<>>) \in Seq(ReportMessage)
    BY <2>1, <2>2
  <2>5. (IF \E i \in DOMAIN ks : IsWeak(ks[i]) THEN <<"weakMsg">> ELSE <<>>) \in Seq(ReportMessage)
    BY <2>1, <2>2
  <2> QED
    BY <2>3, <2>4, <2>5 DEF Warnings
<1> QED
  BY <1>1, <1>2 DEF Report

(* The report is a sequence of messages.                                   *)
LEMMA ReportType ==
    ASSUME NEW ks, NEW m PROVE Report(ks, m) \in Seq(Message)
<1>1. ReportMessage \subseteq Message
  BY DEF ReportMessage, Message
<1>2. Seq(ReportMessage) \subseteq Seq(Message)
  BY <1>1
<1> QED
  BY <1>2, ReportMade

(* Keys are marked at positions of the list.                               *)
LEMMA BlacklistedType ==
    ASSUME NEW ks, NEW bl PROVE Blacklisted(ks, bl) \subseteq DOMAIN ks
BY DEF Blacklisted

(* Writing a packet keeps the type of out.                                 *)
LEMMA SendType ==
    ASSUME out \in [Chan -> Seq(Message)], NEW c \in Chan, NEW m \in Message, Send(c, m)
    PROVE  out' \in [Chan -> Seq(Message)]
BY DEF Send

(* The initial state is well typed.                                        *)
LEMMA InitType == Init => TypeOK
<1> SUFFICES ASSUME Init PROVE TypeOK
  OBVIOUS
<1>1. 1 \in Chan
  BY BoundAssumption DEF Chan
<1>2. /\ <<>> \in Seq(Request) /\ <<>> \in Seq(BOOLEAN) /\ <<>> \in Seq(Packet)
      /\ <<>> \in Seq(Message) /\ <<>> \in Seq(Chan)
  OBVIOUS
<1>3. MuxTypeOK
  BY <1>2 DEF Init, MuxInit, MuxTypeOK, ChanTypes
<1>4. NoRequest \in Request /\ [agentFwd |-> FALSE, x11 |-> FALSE] \in Flags
  BY DEF Flags, NoRequest, Request, RequestTypes
<1>5. ServeTypeOK
  BY <1>1, <1>2, <1>4 DEF Init, ServeTypeOK
<1> QED
  BY <1>3, <1>5 DEF TypeOK

(* What the client does keeps the types.                                   *)
LEMMA ClientType == MuxTypeOK /\ Client => MuxTypeOK'
<1> SUFFICES ASSUME MuxTypeOK, Client PROVE MuxTypeOK'
  OBVIOUS
<1> USE DEF ClientSends, Packet
<1>1. ASSUME NEW form \in OpenForms, ClientOpen(form) PROVE MuxTypeOK'
  <2>1. opened + 1 \in Chan
    BY <1>1, BoundAssumption DEF ClientOpen, Chan, MuxTypeOK
  <2>2. [t |-> "open", ch |-> opened + 1, form |-> form] \in OpenPacket
    BY <2>1, ClientAssumption DEF OpenPacket
  <2> QED
    BY <1>1, <2>2 DEF ClientOpen, MuxTypeOK, chanVars
<1>2. ASSUME NEW c \in Chan, NEW req \in Requests, ClientRequest(c, req) PROVE MuxTypeOK'
  <2>1. req \in Request
    BY ClientAssumption
  <2>2. [t |-> "request", ch |-> c, req |-> req] \in RequestPacket
    BY <2>1 DEF RequestPacket
  <2> QED
    BY <1>2, <2>1, <2>2 DEF ClientRequest, MuxTypeOK, chanVars
<1>3. ASSUME NEW c \in Chan, ClientAdjust(c) PROVE MuxTypeOK'
  <2>1. [t |-> "adjust", ch |-> c] \in ChannelPacket
    BY DEF ChannelPacket
  <2> QED
    BY <1>3, <2>1 DEF ClientAdjust, MuxTypeOK, chanVars
<1>4. ASSUME NEW c \in Chan, ClientClose(c) PROVE MuxTypeOK'
  <2>1. [t |-> "close", ch |-> c] \in ChannelPacket
    BY DEF ChannelPacket
  <2> QED
    BY <1>4, <2>1 DEF ClientClose, MuxTypeOK, chanVars
<1>5. ASSUME NEW w \in BOOLEAN, ClientGlobal(w) PROVE MuxTypeOK'
  <2>1. [t |-> "global", wantReply |-> w] \in GlobalPacket
    BY DEF GlobalPacket
  <2> QED
    BY <1>5, <2>1 DEF ClientGlobal, MuxTypeOK, chanVars
<1>6. ASSUME NEW down \in BOOLEAN, ClientQuit(down) PROVE MuxTypeOK'
  <2>1. [t |-> "fatal"] \in FatalPacket
    BY DEF FatalPacket
  <2> QED
    BY <1>6, <2>1 DEF ClientQuit, MuxTypeOK, clientVars, chanVars
<1> QED
  BY <1>1, <1>2, <1>3, <1>4, <1>5, <1>6 DEF Client

(* The packet mux.loop reads is one of the packets the client may send.    *)
LEMMA ReadingType ==
    ASSUME MuxTypeOK, NEW t, Reading(t)
    PROVE  /\ Head(inbox) \in Packet /\ Head(inbox).t = t
           /\ inbox' \in Seq(Packet)
           /\ t \in {"open", "close", "adjust", "request"} => Head(inbox).ch \in Chan
           /\ t = "open" => Head(inbox).form \in OpenForm
           /\ t = "request" => Head(inbox).req \in Request
           /\ t = "global" => Head(inbox).wantReply \in BOOLEAN
<1>1. /\ inbox \in Seq(Packet) /\ inbox # <<>>
      /\ Head(inbox).t = t /\ inbox' = Tail(inbox)
  BY DEF MuxTypeOK, Reading
<1>2. Head(inbox) \in Packet /\ inbox' \in Seq(Packet)
  BY <1>1
<1> QED
  BY <1>1, <1>2 DEF Packet, OpenPacket, RequestPacket, ChannelPacket, GlobalPacket, FatalPacket

(* What mux.loop does keeps the types.                                     *)
LEMMA LoopType == MuxTypeOK /\ Loop => MuxTypeOK'
<1> SUFFICES ASSUME MuxTypeOK, Loop PROVE MuxTypeOK'
  OBVIOUS
<1> USE DEF clientVars, chanVars
<1>m. {"openfail", "close"} \subseteq Message
  BY DEF Message
<1>1. CASE handleChannelOpen
  <2>1. /\ Head(inbox).ch \in Chan /\ Head(inbox).form \in OpenForm /\ inbox' \in Seq(Packet)
    BY <1>1, ReadingType DEF handleChannelOpen
  <2>2. CASE ~Head(inbox).form.validSize
    <3>1. out' \in [Chan -> Seq(Message)]
      BY <1>1, <1>m, <2>1, <2>2, SendType DEF handleChannelOpen, MuxTypeOK
    <3> QED
      BY <1>1, <2>1, <2>2, <3>1 DEF handleChannelOpen, Fail, MuxTypeOK
  <2>3. CASE Head(inbox).form.validSize
    <3> DEFINE p == Head(inbox)
    <3>a. /\ chanList' = chanList \cup {p.ch}
          /\ chanType' = [chanType EXCEPT ![p.ch] = p.form.type]
          /\ remoteWin' = [remoteWin EXCEPT ![p.ch] = @ + p.form.win]
          /\ incomingChannels' = Append(incomingChannels, p.ch)
      BY <1>1, <2>3 DEF handleChannelOpen
    <3>b. p.ch \in Chan /\ p.form.type \in ChanTypes /\ p.form.win \in Nat
      BY <2>1 DEF OpenForm
    <3> HIDE DEF p
    <3>1. /\ chanList' \subseteq Chan /\ incomingChannels' \in Seq(Chan)
          /\ chanType' \in [Chan -> ChanTypes]
      BY <3>a, <3>b DEF MuxTypeOK
    <3>2. remoteWin' \in [Chan -> Nat]
      <4>1. remoteWin \in [Chan -> Nat]
        BY DEF MuxTypeOK
      <4>2. remoteWin[p.ch] + p.form.win \in Nat
        BY <4>1, <3>b
      <4> QED
        BY <4>1, <4>2, <3>a, <3>b
    <3> QED
      BY <1>1, <2>1, <2>3, <3>1, <3>2 DEF handleChannelOpen, MuxTypeOK
  <2> QED
    BY <2>2, <2>3
<1>2. CASE handleGlobalPacket
  <2>1. Head(inbox).wantReply \in BOOLEAN /\ inbox' \in Seq(Packet)
    BY <1>2, ReadingType DEF handleGlobalPacket
  <2> QED
    BY <1>2, <2>1 DEF handleGlobalPacket, MuxTypeOK
<1>3. CASE handleRequest
  <2>1. Head(inbox).ch \in Chan /\ Head(inbox).req \in Request /\ inbox' \in Seq(Packet)
    BY <1>3, ReadingType DEF handleRequest
  <2>2. reqs' \in [Chan -> Seq(Request)]
    BY <1>3, <2>1 DEF handleRequest, MuxTypeOK
  <2> QED
    BY <1>3, <2>1, <2>2 DEF handleRequest, MuxTypeOK
<1>4. CASE handleAdjust
  <2>1. Head(inbox).ch \in Chan /\ inbox' \in Seq(Packet)
    BY <1>4, ReadingType DEF handleAdjust
  <2>2. remoteWin' \in [Chan -> Nat]
    BY <1>4, <2>1, SMTT(40) DEF handleAdjust, MuxTypeOK
  <2> QED
    BY <1>4, <2>1, <2>2 DEF handleAdjust, MuxTypeOK
<1>5. CASE handleClose
  <2>1. Head(inbox).ch \in Chan /\ inbox' \in Seq(Packet)
    BY <1>5, ReadingType DEF handleClose
  <2>2. out' \in [Chan -> Seq(Message)]
    BY <1>5, <1>m, <2>1, SendType DEF handleClose, SendClose, MuxTypeOK
  <2>3. /\ dropping' \subseteq Chan /\ chanList' \subseteq Chan
        /\ sentClose' \in [Chan -> BOOLEAN]
    BY <1>5, <2>1 DEF handleClose, SendClose, MuxTypeOK
  <2> QED
    BY <1>5, <2>1, <2>2, <2>3 DEF handleClose, MuxTypeOK
<1>6. CASE loopFails
  <2>1. inbox' \in Seq(Packet)
    BY <1>6, ReadingType DEF loopFails
  <2>2. dropping' \subseteq Chan /\ chanList' \subseteq Chan /\ loop' = "failed"
    BY <1>6 DEF loopFails, Fail, MuxTypeOK
  <2> QED
    BY <1>6, <2>1, <2>2 DEF loopFails, MuxTypeOK
<1>7. ASSUME NEW c \in Chan, closeRequests(c) PROVE MuxTypeOK'
  BY <1>7 DEF closeRequests, MuxTypeOK
<1>8. ASSUME NEW c \in Chan, closeWindow(c) PROVE MuxTypeOK'
  BY <1>8 DEF closeWindow, WakeWriters, MuxTypeOK
<1>9. CASE loopExits
  BY <1>9 DEF loopExits, MuxTypeOK
<1> QED
  BY <1>1, <1>2, <1>3, <1>4, <1>5, <1>6, <1>7, <1>8, <1>9 DEF Loop

(* A Write keeps the types of what it changes; the window stays a natural  *)
(* number.                                                                 *)
LEMMA WriteType ==
    ASSUME MuxTypeOK, NEW c \in Chan, NEW m \in Message, Write(c, m)
    PROVE  out' \in [Chan -> Seq(Message)] /\ remoteWin' \in [Chan -> Nat]
<1>1. out' \in [Chan -> Seq(Message)]
  BY SendType DEF Write, MuxTypeOK
<1>2. remoteWin' \in [Chan -> Nat]
  BY DEF Write, reserve, MuxTypeOK
<1> QED
  BY <1>1, <1>2

(* What the serve goroutine does keeps the types.                          *)
LEMMA ServeStepType == TypeOK /\ ServeStep => TypeOK'
<1> SUFFICES ASSUME TypeOK, ServeStep PROVE TypeOK'
  OBVIOUS
<1> USE DEF loopVars, clientVars, chanVars, lockVars, serveVars
<1>t. MuxTypeOK /\ ServeTypeOK /\ cur \in Chan
  BY DEF TypeOK, ServeTypeOK
<1>1. CASE NextChannel
  <2>1. cur' \in Chan /\ incomingChannels' \in Seq(Chan)
    BY <1>1, <1>t DEF NextChannel, MuxTypeOK
  <2>2. MuxTypeOK'
    BY <1>1, <1>t, <2>1 DEF NextChannel, MuxTypeOK
  <2>3. ServeTypeOK'
    BY <1>1, <1>t, <2>1 DEF NextChannel, ServeTypeOK
  <2> QED
    BY <2>2, <2>3 DEF TypeOK
<1>2. CASE RejectChannel
  <2>1. out' \in [Chan -> Seq(Message)]
    BY <1>2, <1>t, SendType DEF RejectChannel, Reject, MuxTypeOK, Message
  <2> QED
    BY <1>2, <1>t, <2>1 DEF RejectChannel, Reject, TypeOK, MuxTypeOK, ServeTypeOK
<1>3. CASE AcceptFails
  BY <1>3, <1>t DEF AcceptFails, TypeOK, MuxTypeOK, ServeTypeOK
<1>4. CASE AcceptChannel
  <2>1. out' \in [Chan -> Seq(Message)]
    BY <1>4, <1>t, SendType DEF AcceptChannel, Accept, MuxTypeOK, Message
  <2>2. todo' \in Seq(Message) /\ marked' \subseteq DOMAIN keys
    BY <1>4, <1>t, ReportType, BlacklistedType DEF AcceptChannel, ServeTypeOK
  <2>3. MuxTypeOK'
    BY <1>4, <1>t, <2>1 DEF AcceptChannel, Accept, MuxTypeOK
  <2>4. ServeTypeOK'
    BY <1>4, <1>t, <2>2 DEF AcceptChannel, AfterFunc, Flags, ServeTypeOK
  <2> QED
    BY <2>3, <2>4 DEF TypeOK
<1>5. CASE WriteReport
  <2>1. Head(todo) \in Message /\ todo' \in Seq(Message)
    BY <1>5, <1>t DEF WriteReport, ServeTypeOK
  <2>2. out' \in [Chan -> Seq(Message)] /\ remoteWin' \in [Chan -> Nat]
    BY <1>5, <1>t, <2>1, WriteType DEF WriteReport
  <2> QED
    BY <1>5, <1>t, <2>1, <2>2 DEF WriteReport, TypeOK, MuxTypeOK, ServeTypeOK
<1>6. CASE LockReq
  BY <1>6, <1>t DEF LockReq, TypeOK, MuxTypeOK, ServeTypeOK, muxVars
<1>7. ASSUME NEW at, NEW seen, NEW m \in Message, NEW then \in {"x11", "close"},
             Warn(at, seen, m, then)
      PROVE  TypeOK'
  <2>1. out' \in [Chan -> Seq(Message)] /\ remoteWin' \in [Chan -> Nat]
    BY <1>7, <1>t, WriteType DEF Warn, MuxTypeOK
  <2> QED
    BY <1>7, <1>t, <2>1 DEF Warn, TypeOK, MuxTypeOK, ServeTypeOK
<1>8. CASE WarnAgent \/ WarnX11
  BY <1>7, <1>8 DEF WarnAgent, WarnX11, Message
<1>9. CASE CloseChannel
  <2>1. out' \in [Chan -> Seq(Message)]
    BY <1>9, <1>t, SendType DEF CloseChannel, SendClose, MuxTypeOK, Message
  <2> QED
    BY <1>9, <1>t, <2>1 DEF CloseChannel, SendClose, TypeOK, MuxTypeOK, ServeTypeOK
<1>10. CASE Return
  BY <1>10, <1>t DEF Return, TypeOK, MuxTypeOK, ServeTypeOK, muxVars
<1> QED
  BY <1>1, <1>2, <1>3, <1>4, <1>5, <1>6, <1>8, <1>9, <1>10 DEF ServeStep

(* What the request goroutine of a channel does keeps the types.           *)
LEMMA RequestStepType ==
    ASSUME TypeOK, NEW c \in Chan, RequestStep(c) PROVE TypeOK'
<1> USE DEF loopVars, clientVars, chanVars, lockVars, serveVars, muxVars
<1>t. MuxTypeOK /\ ServeTypeOK
  BY DEF TypeOK
<1>1. CASE HandleRequest(c)
  <2>1. Head(reqs[c]) \in Request /\ reqs' \in [Chan -> Seq(Request)]
    BY <1>1, <1>t DEF HandleRequest, MuxTypeOK
  <2>2. /\ timer' \in [Chan -> {"off", "armed", "expired", "ran", "stopped"}]
        /\ gpc' \in [Chan -> {"off", "recv", "unlock", "reply", "end"}]
    BY <1>1, <1>t DEF HandleRequest, ServeTypeOK
  <2>3. agentFwd' \in [Chan -> BOOLEAN] /\ x11' \in [Chan -> BOOLEAN]
    BY <1>1, <1>t DEF HandleRequest, ServeTypeOK
  <2>4. MuxTypeOK'
    BY <1>1, <1>t, <2>1 DEF HandleRequest, MuxTypeOK
  <2>5. ServeTypeOK'
    BY <1>1, <1>t, <2>1, <2>2, <2>3 DEF HandleRequest, ServeTypeOK
  <2> QED
    BY <2>4, <2>5 DEF TypeOK
<1>2. CASE UnlockReq(c)
  <2>1. [agentFwd |-> agentFwd[c], x11 |-> x11[c]] \in Flags
    BY <1>t DEF ServeTypeOK, Flags
  <2>2. crashed' \in BOOLEAN
    BY <1>2 DEF UnlockReq, Unlock
  <2> QED
    BY <1>2, <1>t, <2>1, <2>2 DEF UnlockReq, Unlock, TypeOK, MuxTypeOK, ServeTypeOK
<1>3. CASE ReplyRequest(c)
  <2>1. out' \in [Chan -> Seq(Message)]
    BY <1>3, <1>t, SendType DEF ReplyRequest, Reply, MuxTypeOK, Message
  <2> QED
    BY <1>3, <1>t, <2>1 DEF ReplyRequest, TypeOK, MuxTypeOK, ServeTypeOK
<1>4. CASE RequestsEnd(c)
  BY <1>4, <1>t DEF RequestsEnd, TypeOK, MuxTypeOK, ServeTypeOK
<1> QED
  BY <1>1, <1>2, <1>3, <1>4 DEF RequestStep

(* Timers and DiscardRequests.                                             *)
LEMMA TimerType ==
    ASSUME TypeOK, NEW c \in Chan, TimerExpires(c) \/ TimerFunc(c) PROVE TypeOK'
<1> USE DEF loopVars, clientVars, chanVars, lockVars, serveVars, muxVars
<1>1. crashed' \in BOOLEAN
  BY DEF TimerExpires, TimerFunc, Unlock, TypeOK, ServeTypeOK
<1> QED
  BY <1>1 DEF TimerExpires, TimerFunc, Unlock, TypeOK, MuxTypeOK, ServeTypeOK

(* DiscardRequests answers one request and leaves every other piece of     *)
(* state well typed.                                                       *)
LEMMA DiscardType == TypeOK /\ DiscardRequest => TypeOK'
<1> SUFFICES ASSUME TypeOK, DiscardRequest PROVE TypeOK'
  OBVIOUS
<1> USE DEF loopVars, clientVars, chanVars, lockVars, serveVars
<1>1. globalReqs' \in Seq(BOOLEAN)
  BY HeadTailProperties DEF DiscardRequest, TypeOK, MuxTypeOK
<1>2. refusals' \in Nat
  <2>1. Refuse \/ UNCHANGED refusals
    BY Zenon DEF DiscardRequest
  <2> QED
    BY <2>1 DEF Refuse, TypeOK, MuxTypeOK
<1>3. MuxTypeOK'
  BY <1>1, <1>2 DEF DiscardRequest, TypeOK, MuxTypeOK
<1>4. ServeTypeOK'
  BY DEF DiscardRequest, TypeOK, ServeTypeOK
<1> QED
  BY <1>3, <1>4 DEF TypeOK

(* Every step keeps the types.                                             *)
LEMMA NextType == TypeOK /\ [Next]_vars => TypeOK'
<1> SUFFICES ASSUME TypeOK, [Next]_vars PROVE TypeOK'
  OBVIOUS
<1>s. ASSUME ServeTypeOK, UNCHANGED <<serveVars, lockVars>> PROVE ServeTypeOK'
  BY <1>s DEF ServeTypeOK, serveVars, lockVars
<1>m. ASSUME MuxTypeOK, UNCHANGED muxVars PROVE MuxTypeOK'
  BY <1>m DEF MuxTypeOK, muxVars, loopVars, clientVars, chanVars
<1>1. CASE ClientStep
  BY <1>1, <1>s, ClientType DEF ClientStep, TypeOK
<1>2. CASE LoopStep
  BY <1>2, <1>s, LoopType DEF LoopStep, TypeOK
<1>3. CASE UNCHANGED vars
  BY <1>3, <1>s, <1>m DEF vars, TypeOK
<1>4. CASE Terminated
  BY <1>3, <1>4 DEF Terminated
<1> QED
  BY <1>1, <1>2, <1>3, <1>4, ServeStepType, RequestStepType, TimerType, DiscardType DEF Next

(* Every reachable state of serve() and its goroutines is well typed, for  *)
(* any number of channels, capacities and keys; no window underflows.      *)
THEOREM TypeCorrect == Spec => []TypeOK
BY InitType, NextType, PTL DEF Spec

-----------------------------------------------------------------------------
(* The inductive invariant behind NoCrash: who may still unlock reqLock.   *)
LockInv == TypeOK /\ OneUnlocker /\ NoCrash

(* Initially reqLock is open to its one unlocker, and nothing has crashed. *)
LEMMA InitLock == Init => LockInv
<1> SUFFICES ASSUME Init PROVE LockInv
  OBVIOUS
<1>1. TypeOK
  BY InitType
<1>2. OneUnlocker /\ NoCrash
  BY DEF Init, OneUnlocker, NoCrash
<1> QED
  BY <1>1, <1>2 DEF LockInv

(* Every step leaves reqLock at most one goroutine that will unlock it,    *)
(* and no step unlocks it twice.                                           *)
LEMMA NextLock == LockInv /\ [Next]_vars => LockInv'
<1> SUFFICES ASSUME LockInv, [Next]_vars PROVE LockInv'
  OBVIOUS
<1>t. TypeOK /\ TypeOK'
  BY NextType DEF LockInv
<1> SUFFICES OneUnlocker' /\ NoCrash'
  BY <1>t DEF LockInv
<1>y. /\ reqLock \in [Chan -> {"locked", "unlocked"}]
      /\ timer \in [Chan -> {"off", "armed", "expired", "ran", "stopped"}]
      /\ gpc \in [Chan -> {"off", "recv", "unlock", "reply", "end"}]
      /\ cur \in Chan
  BY <1>t DEF TypeOK, ServeTypeOK
<1>i. OneUnlocker /\ crashed = FALSE
  BY <1>t DEF LockInv, NoCrash, TypeOK, ServeTypeOK
<1>u. ASSUME UNCHANGED <<reqLock, timer, gpc, crashed>> PROVE OneUnlocker' /\ NoCrash'
  BY <1>u, <1>i DEF OneUnlocker, NoCrash
<1>1. CASE ClientStep \/ LoopStep \/ DiscardRequest \/ Terminated \/ UNCHANGED vars
  BY <1>1, <1>u DEF ClientStep, LoopStep, DiscardRequest, Terminated, vars, lockVars
<1>2. CASE ServeStep
  <2>1. CASE AcceptChannel
    BY <1>i, <1>y, <2>1 DEF AcceptChannel, AfterFunc, OneUnlocker, NoCrash
  <2>2. CASE LockReq
    BY <1>i, <1>y, <2>2 DEF LockReq, OneUnlocker, NoCrash
  <2>3. CASE NextChannel \/ RejectChannel \/ AcceptFails \/ WriteReport \/ CloseChannel \/ Return
    BY <1>u, <2>3 DEF NextChannel, RejectChannel, AcceptFails, WriteReport, CloseChannel,
                      Return, lockVars
  <2>4. CASE WarnAgent \/ WarnX11
    BY <1>u, <2>4 DEF WarnAgent, WarnX11, Warn, lockVars
  <2> QED
    BY <1>2, <2>1, <2>2, <2>3, <2>4 DEF ServeStep
<1>3. ASSUME NEW c \in Chan, RequestStep(c) PROVE OneUnlocker' /\ NoCrash'
  <2>1. CASE HandleRequest(c)
    BY <1>i, <1>y, <2>1 DEF HandleRequest, Stop, OneUnlocker, NoCrash
  <2>2. CASE UnlockReq(c)
    BY <1>i, <1>y, <2>2 DEF UnlockReq, Unlock, OneUnlocker, NoCrash
  <2>3. CASE ReplyRequest(c)
    BY <1>i, <1>y, <2>3 DEF ReplyRequest, OneUnlocker, NoCrash
  <2>4. CASE RequestsEnd(c)
    BY <1>i, <1>y, <2>4 DEF RequestsEnd, OneUnlocker, NoCrash
  <2> QED
    BY <1>3, <2>1, <2>2, <2>3, <2>4 DEF RequestStep
<1>4. ASSUME NEW c \in Chan, TimerExpires(c) PROVE OneUnlocker' /\ NoCrash'
  BY <1>i, <1>y, <1>4 DEF TimerExpires, OneUnlocker, NoCrash
<1>5. ASSUME NEW c \in Chan, TimerFunc(c) PROVE OneUnlocker' /\ NoCrash'
  BY <1>i, <1>y, <1>5 DEF TimerFunc, Unlock, OneUnlocker, NoCrash
<1> QED
  BY <1>1, <1>2, <1>3, <1>4, <1>5 DEF Next

(* The process never unlocks an unlocked reqLock, whatever the order of    *)
(* the timer, the requests and serve, on any number of channels.           *)
THEOREM NeverCrashes == Spec => []NoCrash
<1>1. LockInv => NoCrash
  BY DEF LockInv
<1> QED
  BY InitLock, NextLock, <1>1, PTL DEF Spec

-----------------------------------------------------------------------------
(* The channel serve is working on has a timer.                            *)
HasTimer == pc \in {"report", "agent", "x11", "close"} => timer[cur] # "off"

(* Every step keeps WaitIsOver, given who may still unlock.                *)
LEMMA NextWait ==
    LockInv /\ HasTimer /\ WaitIsOver /\ [Next]_vars => HasTimer' /\ WaitIsOver'
<1> SUFFICES ASSUME LockInv, HasTimer, WaitIsOver, [Next]_vars
             PROVE  HasTimer' /\ WaitIsOver'
  OBVIOUS
<1>y. /\ reqLock \in [Chan -> {"locked", "unlocked"}]
      /\ timer \in [Chan -> {"off", "armed", "expired", "ran", "stopped"}]
      /\ gpc \in [Chan -> {"off", "recv", "unlock", "reply", "end"}]
      /\ cur \in Chan
  BY DEF LockInv, TypeOK, ServeTypeOK
<1>o. OneUnlocker
  BY DEF LockInv
<1>1. CASE ClientStep \/ LoopStep \/ DiscardRequest \/ Terminated \/ UNCHANGED vars
  BY <1>1 DEF ClientStep, LoopStep, DiscardRequest, Terminated, vars, lockVars, serveVars,
              HasTimer, WaitIsOver
<1>2. CASE ServeStep
  <2>1. CASE AcceptChannel
    BY <1>y, <2>1 DEF AcceptChannel, AfterFunc, HasTimer, WaitIsOver
  <2>2. CASE LockReq
    <3>1. /\ timer[cur] \notin {"off", "armed", "expired"} /\ gpc[cur] # "unlock"
          /\ reqLock[cur] = "unlocked" /\ UNCHANGED <<cur, timer, gpc>>
      BY <1>o, <1>y, <2>2 DEF LockReq, OneUnlocker, HasTimer
    <3> QED
      BY <1>y, <3>1 DEF HasTimer, WaitIsOver
  <2>3. CASE NextChannel \/ RejectChannel \/ AcceptFails \/ CloseChannel \/ Return
    BY <2>3 DEF NextChannel, RejectChannel, AcceptFails, CloseChannel, Return,
                HasTimer, WaitIsOver
  <2>4. CASE WriteReport
    BY <2>4 DEF WriteReport, lockVars, HasTimer, WaitIsOver
  <2>5. CASE WarnAgent \/ WarnX11
    BY <2>5 DEF WarnAgent, WarnX11, Warn, lockVars, HasTimer, WaitIsOver
  <2> QED
    BY <1>2, <2>1, <2>2, <2>3, <2>4, <2>5 DEF ServeStep
<1>3. ASSUME NEW c \in Chan, RequestStep(c) PROVE HasTimer' /\ WaitIsOver'
  <2>1. CASE HandleRequest(c)
    BY <1>y, <2>1 DEF HandleRequest, Stop, serveVars, HasTimer, WaitIsOver
  <2>2. CASE UnlockReq(c)
    BY <1>y, <2>2 DEF UnlockReq, serveVars, HasTimer, WaitIsOver
  <2>3. CASE ReplyRequest(c) \/ RequestsEnd(c)
    BY <1>y, <2>3 DEF ReplyRequest, RequestsEnd, serveVars, HasTimer, WaitIsOver
  <2> QED
    BY <1>3, <2>1, <2>2, <2>3 DEF RequestStep
<1>4. ASSUME NEW c \in Chan, TimerExpires(c) \/ TimerFunc(c) PROVE HasTimer' /\ WaitIsOver'
  BY <1>y, <1>4 DEF TimerExpires, TimerFunc, serveVars, HasTimer, WaitIsOver
<1> QED
  BY <1>1, <1>2, <1>3, <1>4 DEF Next

(* serve never looks at the forwarding flags, nor closes a channel, before *)
(* the client has asked for a shell or a pty or the 30 seconds are over.   *)
THEOREM ServeWaits == Spec => []WaitIsOver
<1>1. Init => HasTimer /\ WaitIsOver
  BY DEF Init, HasTimer, WaitIsOver
<1> QED
  BY <1>1, InitLock, NextLock, NextWait, PTL DEF Spec

-----------------------------------------------------------------------------
(* The wedge.                                                              *)

(* Nothing ends a wedge in which serve is writing the report: serve waits  *)
(* for window (channel.go, reserve), mux.loop, which alone could read the  *)
(* window adjustment, the close or the end of the connection, waits for    *)
(* room in incomingChannels (mux.go, handleChannelOpen), and nobody else   *)
(* gives either.                                                           *)
THEOREM WedgeIsForever == Spec => WedgeLasts
<1>1. ASSUME TypeOK, [Next]_vars, Wedged, pc = "report" PROVE Wedged'
  <2>1. /\ todo # <<>> /\ remoteWin[cur] = 0 /\ ~winClosed[cur] /\ loop = "reading" /\ dropping = {}
        /\ inbox # <<>> /\ Head(inbox).t = "open" /\ Head(inbox).form.validSize
        /\ Len(incomingChannels) = ChanCap
    BY <1>1 DEF Wedged, Starved
  <2>2. ASSUME UNCHANGED <<pc, todo, cur, remoteWin, winClosed, loop, dropping, incomingChannels>>,
               inbox' = inbox \/ (inbox' # <<>> /\ Head(inbox') = Head(inbox))
        PROVE  Wedged'
    BY <1>1, <2>1, <2>2 DEF Wedged, Starved
  <2>3. inbox \in Seq(Packet)
    BY <1>1 DEF TypeOK, MuxTypeOK
  <2>4. ASSUME NEW p, inbox' = Append(inbox, p) PROVE inbox' # <<>> /\ Head(inbox') = Head(inbox)
    BY <2>1, <2>3, <2>4
  <2>5. CASE ClientStep
    <3>1. \E p : inbox' = Append(inbox, p)
      BY <2>5 DEF ClientStep, Client, ClientOpen, ClientRequest, ClientAdjust, ClientClose, ClientGlobal,
                  ClientQuit, ClientSends
    <3>2. UNCHANGED <<pc, todo, cur>>
      BY <2>5 DEF ClientStep, serveVars
    <3>3. UNCHANGED <<remoteWin, winClosed, loop, dropping, incomingChannels>>
      BY <2>5 DEF ClientStep, Client, ClientOpen, ClientRequest, ClientAdjust, ClientClose, ClientGlobal,
                  ClientQuit, chanVars
    <3> QED
      BY <2>2, <2>4, <3>1, <3>2, <3>3
  <2>6. CASE LoopStep
    <3>1. ~QueueHasRoom
      BY <2>1, CapAssumption DEF QueueHasRoom
    <3> QED
      BY <2>1, <2>6, <3>1 DEF LoopStep, Loop, handleChannelOpen, handleGlobalPacket, handleRequest, handleAdjust,
            handleClose, loopFails, loopExits, closeRequests, closeWindow, Reading
  <2>7. CASE ServeStep
    BY <1>1, <2>1, <2>7 DEF ServeStep, NextChannel, RejectChannel, AcceptFails, AcceptChannel, WriteReport, Write,
          reserve, LockReq, WarnAgent, WarnX11, Warn, CloseChannel, Return
  <2>8. ASSUME NEW c \in Chan, RequestStep(c) PROVE Wedged'
    BY <2>2, <2>8 DEF RequestStep, HandleRequest, UnlockReq, ReplyRequest, RequestsEnd, serveVars, muxVars, loopVars,
          chanVars
  <2>9. ASSUME NEW c \in Chan, TimerExpires(c) \/ TimerFunc(c) PROVE Wedged'
    BY <2>2, <2>9 DEF TimerExpires, TimerFunc, serveVars, muxVars, loopVars, chanVars
  <2>10. CASE DiscardRequest
    <3>1. UNCHANGED <<serveVars, loopVars, incomingChannels, chanVars>>
      BY <2>10, Zenon DEF DiscardRequest
    <3> QED
      BY <2>2, <3>1 DEF serveVars, loopVars, chanVars
  <2>11. CASE Terminated \/ UNCHANGED vars
    BY <2>2, <2>11 DEF Terminated, vars, serveVars, muxVars, loopVars, chanVars
  <2> QED
    BY <1>1, <2>5, <2>6, <2>7, <2>8, <2>9, <2>10, <2>11 DEF Next
<1> QED
  BY <1>1, TypeCorrect, PTL DEF Spec, WedgeLasts

-----------------------------------------------------------------------------
(* What the client has sent and the server not yet handled was asked for.  *)
Asked(c, req) == \E k \in DOMAIN asked[c] : asked[c][k] = req

Backed(p) == /\ p.t = "request" => Asked(p.ch, p.req)
             /\ p.t = "close" => p.ch \in clientClosed

Sent ==
    /\ \A i \in DOMAIN inbox : Backed(inbox[i])
    /\ \A c \in Chan : \A i \in DOMAIN reqs[c] : Asked(c, reqs[c][i])

(* Channel c comes before the channels that serve has still to take.       *)
Before(c) ==
    /\ c <= opened
    /\ \A i \in DOMAIN incomingChannels : c < incomingChannels[i]
    /\ \A i \in DOMAIN inbox : inbox[i].t = "open" => c < inbox[i].ch

(* Channels are taken in the order the client opened them, and each once:  *)
(* the one serve decides on has no timer yet, nor have those behind it.    *)
InOrder ==
    /\ \A i \in DOMAIN inbox : inbox[i].t = "open" =>
         /\ inbox[i].ch <= opened
         /\ \A j \in DOMAIN inbox : i < j /\ inbox[j].t = "open" => inbox[i].ch < inbox[j].ch
    /\ \A i \in DOMAIN incomingChannels :
         /\ incomingChannels[i] <= opened
         /\ \A j \in DOMAIN incomingChannels : i < j => incomingChannels[i] < incomingChannels[j]
         /\ \A j \in DOMAIN inbox : inbox[j].t = "open" => incomingChannels[i] < inbox[j].ch
    /\ pc = "decide" => Before(cur)
    /\ \A c \in Chan : timer[c] # "off" => Before(c) /\ (pc = "decide" => c < cur)

(* Only a shell or pty request stops the timer, and serve closes a channel *)
(* that the client has not closed only after its wait.                     *)
Ends ==
    \A c \in Chan :
        /\ timer[c] = "stopped" => \E i \in DOMAIN asked[c] : asked[c][i].type \in Opens
        /\ Contains(out[c], "close") => c \in clientClosed \/ timer[c] \in {"ran", "stopped"}

(* serve itself confirms and closes outside its report.                    *)
Reporting == todo \in Seq(ReportMessage)

WaitInv == LockInv /\ HasTimer /\ WaitIsOver /\ Reporting /\ Sent /\ InOrder /\ Ends

-----------------------------------------------------------------------------
(* Sequences that grow at the end and shrink at the front.                 *)

(* The places of a sequence with one more element.                         *)
LEMMA AppendAt ==
    ASSUME NEW S, NEW s \in Seq(S), NEW e, NEW t, t = Append(s, e)
    PROVE  /\ \A i \in DOMAIN s : i \in DOMAIN t /\ t[i] = s[i]
           /\ Len(s) + 1 \in DOMAIN t /\ t[Len(s) + 1] = e
           /\ \A i \in DOMAIN t : (i \in DOMAIN s /\ t[i] = s[i]) \/ (i = Len(s) + 1 /\ t[i] = e)
<1>1. DOMAIN t = 1..(Len(s) + 1) /\ DOMAIN s = 1..Len(s) /\ Len(s) \in Nat
  OBVIOUS
<1>2. \A i \in 1..(Len(s) + 1) : t[i] = IF i = Len(s) + 1 THEN e ELSE s[i]
  OBVIOUS
<1> QED
  BY <1>1, <1>2

(* The places of a sequence without its first element.                     *)
LEMMA TailAt ==
    ASSUME NEW S, NEW s \in Seq(S), s # <<>>, NEW t, t = Tail(s)
    PROVE  /\ 1 \in DOMAIN s /\ Head(s) = s[1] /\ Head(s) \in S /\ t \in Seq(S)
           /\ \A i \in DOMAIN t : i \in Nat /\ i + 1 \in DOMAIN s /\ t[i] = s[i + 1]
           /\ \A i \in DOMAIN s : i = 1 \/ (i - 1 \in DOMAIN t /\ t[i - 1] = s[i])
<1>1. DOMAIN s = 1..Len(s) /\ Len(s) \in Nat /\ Len(s) > 0
  OBVIOUS
<1>2. DOMAIN t = 1..(Len(s) - 1) /\ \A i \in 1..(Len(s) - 1) : t[i] = s[i + 1]
  BY <1>1
<1>3. Head(s) = s[1] /\ s[1] \in S /\ t \in Seq(S)
  BY <1>1
<1> QED
  BY <1>1, <1>2, <1>3

(* What one more element adds to what a sequence contains.                 *)
LEMMA ContainsAppend ==
    ASSUME NEW S, NEW s \in Seq(S), NEW e, NEW x
    PROVE  Contains(Append(s, e), x) <=> Contains(s, x) \/ x = e
<1>1. DOMAIN s = 1..Len(s) /\ DOMAIN Append(s, e) = 1..Len(Append(s, e))
  OBVIOUS
<1> QED
  BY <1>1, AppendAt DEF Contains

(* What a Send adds to what the client has been sent.                      *)
LEMMA SendAdds ==
    ASSUME MuxTypeOK, NEW c \in Chan, NEW m \in Message, Send(c, m)
    PROVE  \A d \in Chan : \A x :
             /\ Contains(out[d], x) => Contains(out'[d], x)
             /\ Contains(out'[d], x) => Contains(out[d], x) \/ (d = c /\ x = m)
             /\ d = c /\ x = m /\ ~sentClose[c] /\ ~gone => Contains(out'[d], x)
<1>1. out \in [Chan -> Seq(Message)]
  BY DEF MuxTypeOK
<1>2. CASE sentClose[c] \/ gone
  BY <1>2 DEF Send
<1>3. CASE ~(sentClose[c] \/ gone)
  <2>1. out' = [out EXCEPT ![c] = Append(@, m)]
    BY <1>3 DEF Send
  <2>2. out'[c] = Append(out[c], m) /\ out[c] \in Seq(Message) /\ \A d \in Chan : d # c => out'[d] = out[d]
    BY <1>1, <2>1
  <2>3. \A x : Contains(out'[c], x) <=> Contains(out[c], x) \/ x = m
    BY <2>2, ContainsAppend
  <2> QED
    BY <2>2, <2>3
<1> QED
  BY <1>2, <1>3

(* Steps that take or drop packets and requests, and add none.             *)
LEMMA SentKept ==
    ASSUME Sent, \A i \in DOMAIN inbox' : \E j \in DOMAIN inbox : inbox'[i] = inbox[j],
           \A c \in Chan : \A i \in DOMAIN reqs'[c] : \E j \in DOMAIN reqs[c] : reqs'[c][i] = reqs[c][j],
           UNCHANGED <<asked, clientClosed>>
    PROVE  Sent'
BY DEF Sent, Backed, Asked

(* Steps that close no channel by themselves and end no wait.              *)
LEMMA EndsKept ==
    ASSUME Ends, \A c \in Chan : Contains(out'[c], "close") => Contains(out[c], "close"),
           UNCHANGED <<timer, asked, clientClosed>>
    PROVE  Ends'
BY DEF Ends

(* Steps that take no channel and start no timer.                          *)
LEMMA OrderKept ==
    ASSUME InOrder, UNCHANGED <<opened, incomingChannels, inbox>>, pc' = "decide" => pc = "decide" /\ cur' = cur,
           \A c \in Chan : timer'[c] # "off" => timer[c] # "off"
    PROVE  InOrder'
BY DEF InOrder, Before

(* The client's packets keep what is in its channels.                      *)
LEMMA ClientKeeps ==
    ASSUME TypeOK, Sent, InOrder, Ends, ClientStep
    PROVE  Sent' /\ InOrder' /\ Ends'
<1>1. UNCHANGED <<pc, cur, timer, out, reqs, incomingChannels>>
  BY DEF ClientStep, Client, ClientOpen, ClientRequest, ClientAdjust, ClientClose, ClientGlobal, ClientQuit,
         serveVars, lockVars, chanVars
<1>2. inbox \in Seq(Packet) /\ opened \in Nat /\ asked \in [Chan -> Seq(Request)]
  BY DEF TypeOK, MuxTypeOK
<1>3. ASSUME NEW p, inbox' = Append(inbox, p), p.t # "open", opened' = opened PROVE InOrder'
  <2>1. /\ \A i \in DOMAIN inbox : i \in DOMAIN inbox' /\ inbox'[i] = inbox[i]
        /\ \A i \in DOMAIN inbox' : inbox'[i].t = "open" => i \in DOMAIN inbox /\ inbox'[i] = inbox[i]
    BY <1>2, <1>3, AppendAt
  <2> QED
    BY <1>1, <1>3, <2>1 DEF InOrder, Before
<1>4. ASSUME NEW p, inbox' = Append(inbox, p), Backed(p)',
             \A c \in Chan : \A k \in DOMAIN asked[c] : k \in DOMAIN asked'[c] /\ asked'[c][k] = asked[c][k],
             clientClosed \subseteq clientClosed'
      PROVE  Sent' /\ Ends'
  <2>1. \A i \in DOMAIN inbox' : (i \in DOMAIN inbox /\ inbox'[i] = inbox[i]) \/ inbox'[i] = p
    BY <1>2, <1>4, AppendAt
  <2>2. \A c \in Chan : \A req : Asked(c, req) => Asked(c, req)'
    BY <1>4 DEF Asked
  <2>3. \A i \in DOMAIN inbox : inbox[i].t = "request" => inbox[i].ch \in Chan
    BY <1>2 DEF Packet, OpenPacket, RequestPacket, ChannelPacket, GlobalPacket, FatalPacket
  <2>4. \A i \in DOMAIN inbox : Backed(inbox[i])'
    BY <1>4, <2>2, <2>3 DEF Sent, Backed
  <2>5. Sent'
    BY <1>1, <1>4, <2>1, <2>2, <2>4 DEF Sent
  <2>6. Ends'
    BY <1>1, <1>4 DEF Ends
  <2> QED
    BY <2>5, <2>6
<1>5. ASSUME NEW form \in OpenForms, ClientOpen(form) PROVE Sent' /\ InOrder' /\ Ends'
  <2>1. PICK p : p = [t |-> "open", ch |-> opened + 1, form |-> form] /\ inbox' = Append(inbox, p)
    BY <1>5 DEF ClientOpen, ClientSends
  <2>2. opened' = opened + 1 /\ UNCHANGED <<asked, clientClosed>>
    BY <1>5 DEF ClientOpen
  <2>3. p.t = "open" /\ p.ch = opened + 1
    BY <2>1
  <2>4. Sent' /\ Ends'
    BY <1>4, <2>1, <2>2, <2>3 DEF Backed
  <2>5. /\ \A i \in DOMAIN inbox : i \in DOMAIN inbox' /\ inbox'[i] = inbox[i]
        /\ \A i \in DOMAIN inbox' : (i \in DOMAIN inbox /\ inbox'[i] = inbox[i]) \/ (i = Len(inbox) + 1 /\ inbox'[i] = p)
    BY <1>2, <2>1, AppendAt
  <2>6. \A c \in Chan : c <= opened => c <= opened' /\ c < p.ch /\ ~(p.ch <= opened)
    BY <1>2, <2>2, <2>3 DEF Chan
  <2>7. \A i \in DOMAIN inbox : inbox[i].t = "open" => inbox[i].ch \in Chan
    BY <1>2 DEF Packet, OpenPacket, RequestPacket, ChannelPacket, GlobalPacket, FatalPacket
  <2>8. \A i \in DOMAIN inbox : i \in Nat /\ ~(Len(inbox) + 1 < i) /\ Len(inbox) \in Nat
    BY <1>2
  <2>9. \A i \in DOMAIN inbox' : inbox'[i].t = "open" =>
           /\ inbox'[i].ch <= opened'
           /\ \A j \in DOMAIN inbox' : i < j /\ inbox'[j].t = "open" => inbox'[i].ch < inbox'[j].ch
    BY <1>2, <2>2, <2>3, <2>5, <2>6, <2>7, <2>8 DEF InOrder
  <2>10. incomingChannels \in Seq(Chan) /\ cur \in Chan
    BY DEF TypeOK, MuxTypeOK, ServeTypeOK
  <2>11. \A c \in Chan : Before(c) => Before(c)'
    BY <1>1, <2>5, <2>6 DEF Before
  <2>12. \A i \in DOMAIN incomingChannels :
           /\ incomingChannels[i] <= opened'
           /\ \A j \in DOMAIN inbox' : inbox'[j].t = "open" => incomingChannels[i] < inbox'[j].ch
    BY <2>5, <2>6, <2>10 DEF InOrder
  <2>13. InOrder'
    BY <1>1, <2>9, <2>10, <2>11, <2>12 DEF InOrder
  <2> QED
    BY <2>4, <2>13
<1>6. ASSUME NEW c \in Chan, NEW req \in Requests, ClientRequest(c, req) PROVE Sent' /\ InOrder' /\ Ends'
  <2>1. PICK p : p = [t |-> "request", ch |-> c, req |-> req] /\ inbox' = Append(inbox, p)
    BY <1>6 DEF ClientRequest, ClientSends
  <2>2. asked' = [asked EXCEPT ![c] = Append(@, req)] /\ UNCHANGED <<opened, clientClosed>>
    BY <1>6 DEF ClientRequest
  <2>3. asked'[c] = Append(asked[c], req) /\ asked[c] \in Seq(Request) /\ \A d \in Chan : d # c => asked'[d] = asked[d]
    BY <1>2, <2>2
  <2>4. /\ \A k \in DOMAIN asked[c] : k \in DOMAIN asked'[c] /\ asked'[c][k] = asked[c][k]
        /\ Len(asked[c]) + 1 \in DOMAIN asked'[c] /\ asked'[c][Len(asked[c]) + 1] = req
    BY <2>3, AppendAt
  <2>5. p.t = "request" /\ p.ch = c /\ p.req = req
    BY <2>1
  <2>6. Backed(p)'
    BY <2>4, <2>5 DEF Backed, Asked
  <2> QED
    BY <1>3, <1>4, <2>1, <2>2, <2>3, <2>4, <2>5, <2>6
<1>7. ASSUME NEW c \in Chan, ClientAdjust(c) PROVE Sent' /\ InOrder' /\ Ends'
  <2>1. PICK p : p = [t |-> "adjust", ch |-> c] /\ inbox' = Append(inbox, p)
    BY <1>7 DEF ClientAdjust, ClientSends
  <2>2. p.t = "adjust" /\ UNCHANGED <<asked, opened, clientClosed>>
    BY <1>7, <2>1 DEF ClientAdjust
  <2> QED
    BY <1>3, <1>4, <2>1, <2>2 DEF Backed
<1>8. ASSUME NEW c \in Chan, ClientClose(c) PROVE Sent' /\ InOrder' /\ Ends'
  <2>1. PICK p : p = [t |-> "close", ch |-> c] /\ inbox' = Append(inbox, p)
    BY <1>8 DEF ClientClose, ClientSends
  <2>2. p.t = "close" /\ p.ch = c /\ UNCHANGED <<asked, opened>> /\ clientClosed' = clientClosed \cup {c}
    BY <1>8, <2>1 DEF ClientClose
  <2> QED
    BY <1>3, <1>4, <2>1, <2>2 DEF Backed
<1>9. ASSUME NEW w \in BOOLEAN, ClientGlobal(w) PROVE Sent' /\ InOrder' /\ Ends'
  <2>1. PICK p : p = [t |-> "global", wantReply |-> w] /\ inbox' = Append(inbox, p)
    BY <1>9 DEF ClientGlobal, ClientSends
  <2>2. p.t = "global" /\ UNCHANGED <<asked, opened, clientClosed>>
    BY <1>9, <2>1 DEF ClientGlobal
  <2> QED
    BY <1>3, <1>4, <2>1, <2>2 DEF Backed
<1>10. ASSUME NEW down \in BOOLEAN, ClientQuit(down) PROVE Sent' /\ InOrder' /\ Ends'
  <2>1. PICK p : p = [t |-> "fatal"] /\ inbox' = Append(inbox, p)
    BY <1>10 DEF ClientQuit, ClientSends
  <2>2. p.t = "fatal" /\ UNCHANGED <<asked, opened, clientClosed>>
    BY <1>10, <2>1 DEF ClientQuit, clientVars
  <2> QED
    BY <1>3, <1>4, <2>1, <2>2 DEF Backed
<1> QED
  BY <1>5, <1>6, <1>7, <1>8, <1>9, <1>10 DEF ClientStep, Client

(* What mux.loop reads leaves the front of the line.                       *)
LEMMA LoopKeeps ==
    ASSUME TypeOK, Sent, InOrder, Ends, LoopStep
    PROVE  Sent' /\ InOrder' /\ Ends'
<1>1. UNCHANGED <<pc, cur, timer, opened, asked, clientClosed>> /\ MuxTypeOK
  BY DEF LoopStep, Loop, handleChannelOpen, handleGlobalPacket, handleRequest, handleAdjust, handleClose, loopFails,
         loopExits, closeRequests, closeWindow, serveVars, lockVars, clientVars, TypeOK
<1>2. inbox \in Seq(Packet) /\ incomingChannels \in Seq(Chan) /\ reqs \in [Chan -> Seq(Request)] /\ cur \in Chan
  BY DEF TypeOK, MuxTypeOK, ServeTypeOK
<1>3. ASSUME NEW t, Reading(t)
      PROVE  /\ \A i \in DOMAIN inbox' : i \in Nat /\ i + 1 \in DOMAIN inbox /\ inbox'[i] = inbox[i + 1]
             /\ 1 \in DOMAIN inbox /\ Head(inbox) = inbox[1] /\ Head(inbox).t = t
  BY <1>2, <1>3, TailAt DEF Reading
<1>4. ASSUME NEW t, Reading(t), UNCHANGED incomingChannels PROVE InOrder'
  <2>1. \A i \in DOMAIN inbox' : i \in Nat /\ i + 1 \in DOMAIN inbox /\ inbox'[i] = inbox[i + 1]
    BY <1>3, <1>4
  <2>2. \A c \in Chan : Before(c) => Before(c)'
    BY <1>1, <1>4, <2>1 DEF Before
  <2>3. \A i \in DOMAIN inbox' : inbox'[i].t = "open" =>
           /\ inbox'[i].ch <= opened
           /\ \A j \in DOMAIN inbox' : i < j /\ inbox'[j].t = "open" => inbox'[i].ch < inbox'[j].ch
    BY <2>1 DEF InOrder
  <2> QED
    BY <1>1, <1>2, <1>4, <2>1, <2>2, <2>3 DEF InOrder
<1>5. ASSUME NEW t, Reading(t), UNCHANGED reqs PROVE Sent'
  <2>1. \A i \in DOMAIN inbox' : \E j \in DOMAIN inbox : inbox'[i] = inbox[j]
    BY <1>3, <1>5
  <2> QED
    BY <1>1, <1>5, <2>1, SentKept
<1>6. ASSUME UNCHANGED out PROVE Ends'
  BY <1>1, <1>6, EndsKept
<1>7. ASSUME UNCHANGED <<inbox, incomingChannels, reqs>> PROVE Sent' /\ InOrder'
  <2>1. Sent'
    BY <1>1, <1>7, SentKept
  <2>2. InOrder'
    BY <1>1, <1>7, OrderKept
  <2> QED
    BY <2>1, <2>2
<1>8. CASE handleChannelOpen
  <2>1. Reading("open") /\ UNCHANGED reqs
    BY <1>8 DEF handleChannelOpen
  <2>2. Head(inbox).ch \in Chan /\ Head(inbox).form \in OpenForm
    BY <1>1, <2>1, ReadingType
  <2>3. Sent'
    BY <1>5, <2>1
  <2>4. CASE ~Head(inbox).form.validSize
    <3>1. Send(Head(inbox).ch, "openfail") /\ UNCHANGED incomingChannels
      BY <1>8, <2>4 DEF handleChannelOpen
    <3>2. \A c \in Chan : Contains(out'[c], "close") => Contains(out[c], "close")
      BY <1>1, <2>2, <3>1, SendAdds DEF Message
    <3> QED
      BY <1>1, <1>4, <2>1, <2>3, <3>1, <3>2, EndsKept
  <2>5. CASE Head(inbox).form.validSize
    <3>1. PICK c \in Chan : c = Head(inbox).ch
      BY <2>2
    <3>2. incomingChannels' = Append(incomingChannels, c) /\ UNCHANGED out
      BY <1>8, <2>5, <3>1 DEF handleChannelOpen
    <3>3. /\ \A i \in DOMAIN inbox' : i \in Nat /\ i + 1 \in DOMAIN inbox /\ inbox'[i] = inbox[i + 1]
          /\ 1 \in DOMAIN inbox /\ inbox[1].ch = c /\ inbox[1].t = "open"
      BY <1>3, <2>1, <3>1
    <3>4. /\ c <= opened
          /\ \A i \in DOMAIN inbox' : inbox'[i].t = "open" => c < inbox'[i].ch
          /\ \A i \in DOMAIN incomingChannels : incomingChannels[i] < c
          /\ \A d \in Chan : Before(d) => d < c
      <4>1. \A i \in DOMAIN inbox' : 1 < i + 1
        <5>1. DOMAIN inbox' = 1..Len(inbox') /\ Len(inbox') \in Nat
          BY <1>2, <2>1 DEF Reading
        <5> QED
          BY <5>1
      <4>2. c <= opened /\ \A i \in DOMAIN incomingChannels : incomingChannels[i] < c
        BY <3>3 DEF InOrder
      <4>3. \A d \in Chan : Before(d) => d < c
        BY <3>3 DEF Before
      <4>4. \A j \in DOMAIN inbox : 1 < j /\ inbox[j].t = "open" => c < inbox[j].ch
        BY <3>3 DEF InOrder
      <4> QED
        BY <3>3, <4>1, <4>2, <4>3, <4>4
    <3>5. /\ \A i \in DOMAIN incomingChannels : i \in DOMAIN incomingChannels' /\ incomingChannels'[i] = incomingChannels[i]
          /\ \A i \in DOMAIN incomingChannels' :
               \/ i \in DOMAIN incomingChannels /\ incomingChannels'[i] = incomingChannels[i]
               \/ i = Len(incomingChannels) + 1 /\ incomingChannels'[i] = c
      BY <1>2, <3>2, AppendAt
    <3>6. \A d \in Chan : Before(d) => Before(d)'
      BY <1>1, <3>3, <3>4, <3>5 DEF Before
    <3>7. \A i \in DOMAIN inbox' : inbox'[i].t = "open" =>
             /\ inbox'[i].ch <= opened
             /\ \A j \in DOMAIN inbox' : i < j /\ inbox'[j].t = "open" => inbox'[i].ch < inbox'[j].ch
      BY <3>3 DEF InOrder
    <3>8. \A i \in DOMAIN incomingChannels : i \in Nat /\ ~(Len(incomingChannels) + 1 < i) /\ Len(incomingChannels) \in Nat
      BY <1>2
    <3>9. \A i \in DOMAIN incomingChannels' :
             /\ incomingChannels'[i] <= opened
             /\ \A j \in DOMAIN inbox' : inbox'[j].t = "open" => incomingChannels'[i] < inbox'[j].ch
      BY <3>3, <3>4, <3>5 DEF InOrder
    <3>10. \A i, j \in DOMAIN incomingChannels' : i < j => incomingChannels'[i] < incomingChannels'[j]
      <4> SUFFICES ASSUME NEW i \in DOMAIN incomingChannels', NEW j \in DOMAIN incomingChannels', i < j
                   PROVE  incomingChannels'[i] < incomingChannels'[j]
        OBVIOUS
      <4>1. i \in DOMAIN incomingChannels
        <5>1. ~(Len(incomingChannels) + 1 < Len(incomingChannels) + 1) /\ Len(incomingChannels) \in Nat
          BY <1>2
        <5> QED
          BY <3>5, <3>8, <5>1
      <4> QED
        BY <3>4, <3>5, <4>1 DEF InOrder
    <3>11. InOrder'
      BY <1>1, <1>2, <3>6, <3>7, <3>9, <3>10 DEF InOrder
    <3> QED
      BY <1>6, <2>3, <3>2, <3>11
  <2> QED
    BY <2>4, <2>5
<1>9. CASE handleGlobalPacket
  BY <1>4, <1>5, <1>6, <1>9 DEF handleGlobalPacket, chanVars
<1>10. CASE handleRequest
  <2>1. Reading("request") /\ UNCHANGED <<incomingChannels, out>>
    BY <1>10 DEF handleRequest
  <2>2. PICK c \in Chan : c = Head(inbox).ch
    BY <1>1, <2>1, ReadingType
  <2>3. reqs' = [reqs EXCEPT ![c] = Append(@, Head(inbox).req)]
    BY <1>10, <2>2 DEF handleRequest
  <2>4. reqs'[c] = Append(reqs[c], Head(inbox).req) /\ reqs[c] \in Seq(Request) /\ \A d \in Chan : d # c => reqs'[d] = reqs[d]
    BY <1>2, <2>3
  <2>5. \A i \in DOMAIN reqs'[c] : (i \in DOMAIN reqs[c] /\ reqs'[c][i] = reqs[c][i]) \/ reqs'[c][i] = Head(inbox).req
    BY <2>4, AppendAt
  <2>6. Asked(c, Head(inbox).req)
    BY <1>3, <2>1, <2>2 DEF Sent, Backed
  <2>7. \A i \in DOMAIN inbox' : \E j \in DOMAIN inbox : inbox'[i] = inbox[j]
    BY <1>3, <2>1
  <2>8. \A d \in Chan : \A i \in DOMAIN reqs'[d] : Asked(d, reqs'[d][i])
    BY <2>4, <2>5, <2>6 DEF Sent
  <2>9. Sent'
    BY <1>1, <2>7, <2>8 DEF Sent, Backed, Asked
  <2> QED
    BY <1>4, <1>6, <2>1, <2>9
<1>11. CASE handleAdjust
  BY <1>4, <1>5, <1>6, <1>11 DEF handleAdjust
<1>12. CASE handleClose
  <2>1. Reading("close") /\ UNCHANGED <<incomingChannels, reqs>>
    BY <1>12 DEF handleClose
  <2>2. PICK c \in Chan : c = Head(inbox).ch
    BY <1>1, <2>1, ReadingType
  <2>3. c \in clientClosed
    BY <1>3, <2>1, <2>2 DEF Sent, Backed
  <2>4. \A d \in Chan : Contains(out'[d], "close") => Contains(out[d], "close") \/ d = c
    BY <1>1, <1>12, <2>2, SendAdds DEF handleClose, SendClose, Message
  <2>5. Ends'
    BY <1>1, <2>3, <2>4 DEF Ends
  <2> QED
    BY <1>4, <1>5, <2>1, <2>5
<1>13. CASE loopFails
  BY <1>4, <1>5, <1>6, <1>13 DEF loopFails, chanVars
<1>14. CASE loopExits
  BY <1>6, <1>7, <1>14 DEF loopExits, chanVars
<1>15. ASSUME NEW c \in Chan, closeRequests(c) \/ closeWindow(c) PROVE Sent' /\ InOrder' /\ Ends'
  BY <1>6, <1>7, <1>15 DEF closeRequests, closeWindow
<1> QED
  BY <1>8, <1>9, <1>10, <1>11, <1>12, <1>13, <1>14, <1>15 DEF LoopStep, Loop

(* serve takes the channels from the front of the line and closes them     *)
(* after its wait.                                                         *)
LEMMA ServeKeeps ==
    ASSUME TypeOK, WaitIsOver, Reporting, Sent, InOrder, Ends, ServeStep
    PROVE  Sent' /\ InOrder' /\ Ends'
<1>1. UNCHANGED <<opened, asked, clientClosed, inbox, reqs>> /\ MuxTypeOK
  BY DEF ServeStep, NextChannel, RejectChannel, AcceptFails, AcceptChannel, WriteReport, LockReq, WarnAgent, WarnX11,
         Warn, CloseChannel, Return, loopVars, clientVars, chanVars, muxVars, TypeOK
<1>2. /\ inbox \in Seq(Packet) /\ incomingChannels \in Seq(Chan) /\ cur \in Chan
      /\ timer \in [Chan -> {"off", "armed", "expired", "ran", "stopped"}]
  BY DEF TypeOK, MuxTypeOK, ServeTypeOK
<1>3. Sent'
  BY <1>1, SentKept
<1>4. ASSUME NEW m \in Message, Send(cur, m), m # "close" PROVE \A c \in Chan : Contains(out'[c], "close") => Contains(out[c], "close")
  BY <1>1, <1>2, <1>4, SendAdds
<1>5. ASSUME UNCHANGED <<timer, incomingChannels>>, pc' # "decide" PROVE InOrder'
  BY <1>1, <1>5, OrderKept
<1>6. CASE NextChannel
  <2>1. /\ incomingChannels # <<>> /\ cur' = Head(incomingChannels) /\ incomingChannels' = Tail(incomingChannels)
        /\ UNCHANGED <<timer, out>>
    BY <1>6 DEF NextChannel, lockVars
  <2>2. /\ 1 \in DOMAIN incomingChannels /\ cur' = incomingChannels[1] /\ cur' \in Chan
        /\ \A i \in DOMAIN incomingChannels' :
             i \in Nat /\ i + 1 \in DOMAIN incomingChannels /\ incomingChannels'[i] = incomingChannels[i + 1]
    BY <1>2, <2>1, TailAt
  <2>3. \A i \in DOMAIN incomingChannels' : 1 < i + 1 /\ i \in DOMAIN incomingChannels'
    <3> SUFFICES ASSUME NEW i \in DOMAIN incomingChannels' PROVE 1 < i + 1
      OBVIOUS
    <3>1. DOMAIN incomingChannels' = 1..Len(incomingChannels')
      BY <1>2, <2>1
    <3> QED
      BY <2>2, <3>1
  <2>4. \A c \in Chan : Before(c) => Before(c)' /\ c < cur'
    BY <1>1, <2>2 DEF Before
  <2>5. \A i \in DOMAIN incomingChannels' : cur' < incomingChannels'[i]
    BY <2>2, <2>3 DEF InOrder
  <2>6. Before(cur)'
    BY <1>1, <2>2, <2>5 DEF InOrder, Before
  <2>7. \A i \in DOMAIN incomingChannels' :
           /\ incomingChannels'[i] <= opened
           /\ \A j \in DOMAIN incomingChannels' : i < j => incomingChannels'[i] < incomingChannels'[j]
           /\ \A j \in DOMAIN inbox : inbox[j].t = "open" => incomingChannels'[i] < inbox[j].ch
    BY <2>2 DEF InOrder
  <2>8. InOrder'
    BY <1>1, <2>1, <2>4, <2>6, <2>7 DEF InOrder
  <2> QED
    BY <1>1, <1>3, <2>1, <2>8, EndsKept
<1>7. CASE RejectChannel
  <2>1. Send(cur, "reject") /\ UNCHANGED <<timer, incomingChannels>> /\ pc' = "recv"
    BY <1>7 DEF RejectChannel, Reject, lockVars
  <2> QED
    BY <1>1, <1>3, <1>4, <1>5, <2>1, EndsKept DEF Message
<1>8. CASE AcceptFails \/ LockReq \/ Return
  <2>1. UNCHANGED <<timer, incomingChannels, out>> /\ pc' # "decide"
    BY <1>8 DEF AcceptFails, LockReq, Return, lockVars, muxVars
  <2> QED
    BY <1>1, <1>3, <1>5, <2>1, EndsKept
<1>9. CASE AcceptChannel
  <2>1. Send(cur, "confirm") /\ UNCHANGED <<cur, incomingChannels>> /\ pc = "decide" /\ pc' = "report"
    BY <1>9 DEF AcceptChannel, Accept
  <2>2. timer' = [timer EXCEPT ![cur] = "armed"]
    BY <1>9 DEF AcceptChannel, AfterFunc
  <2>3. timer'[cur] = "armed" /\ \A c \in Chan : c # cur => timer'[c] = timer[c]
    BY <1>2, <2>2
  <2>4. ~(cur < cur)
    BY <1>2 DEF Chan
  <2>5. timer[cur] = "off"
    BY <1>2, <2>1, <2>4 DEF InOrder
  <2>6. InOrder'
    BY <1>1, <2>1, <2>3 DEF InOrder, Before
  <2>7. \A c \in Chan : Contains(out'[c], "close") => Contains(out[c], "close")
    BY <1>4, <2>1 DEF Message
  <2>8. Ends'
    BY <1>1, <2>3, <2>5, <2>7 DEF Ends
  <2> QED
    BY <1>3, <2>6, <2>8
<1>10. CASE WriteReport
  <2>1. Send(cur, Head(todo)) /\ UNCHANGED <<timer, incomingChannels>> /\ pc' # "decide" /\ todo # <<>>
    BY <1>10 DEF WriteReport, Write, lockVars
  <2>2. Head(todo) \in ReportMessage
    BY <2>1 DEF Reporting
  <2>3. \A c \in Chan : Contains(out'[c], "close") => Contains(out[c], "close")
    BY <1>4, <2>1, <2>2 DEF ReportMessage, Message
  <2> QED
    BY <1>1, <1>3, <1>5, <2>1, <2>3, EndsKept
<1>11. CASE WarnAgent \/ WarnX11
  <2>1. UNCHANGED <<timer, incomingChannels>> /\ pc' # "decide"
    BY <1>11 DEF WarnAgent, WarnX11, Warn, lockVars
  <2>2. UNCHANGED out \/ Send(cur, "agentMsg") \/ Send(cur, "x11Msg")
    BY <1>11, Zenon DEF WarnAgent, WarnX11, Warn, Write
  <2> QED
    BY <1>1, <1>3, <1>4, <1>5, <2>1, <2>2, EndsKept DEF Message
<1>12. CASE CloseChannel
  <2>1. Send(cur, "close") /\ UNCHANGED <<timer, incomingChannels>> /\ pc = "close" /\ pc' = "recv"
    BY <1>12 DEF CloseChannel, SendClose, lockVars
  <2>2. \A c \in Chan : Contains(out'[c], "close") => Contains(out[c], "close") \/ c = cur
    BY <1>1, <1>2, <2>1, SendAdds DEF Message
  <2>3. timer[cur] \in {"ran", "stopped"}
    BY <2>1 DEF WaitIsOver
  <2>4. Ends'
    BY <1>1, <2>1, <2>2, <2>3 DEF Ends
  <2> QED
    BY <1>3, <1>5, <2>1, <2>4
<1> QED
  BY <1>6, <1>7, <1>8, <1>9, <1>10, <1>11, <1>12 DEF ServeStep

(* The request goroutines and the timers: only a shell or pty request      *)
(* stops a timer.                                                          *)
LEMMA RequestKeeps ==
    ASSUME TypeOK, Sent, InOrder, Ends, NEW c \in Chan, RequestStep(c)
    PROVE  Sent' /\ InOrder' /\ Ends'
<1>1. UNCHANGED <<pc, cur, opened, asked, clientClosed, inbox, incomingChannels>> /\ MuxTypeOK
  BY DEF RequestStep, HandleRequest, UnlockReq, ReplyRequest, RequestsEnd, loopVars, clientVars, serveVars, muxVars,
         TypeOK
<1>2. /\ reqs \in [Chan -> Seq(Request)]
      /\ timer \in [Chan -> {"off", "armed", "expired", "ran", "stopped"}]
  BY DEF TypeOK, MuxTypeOK, ServeTypeOK
<1>3. CASE HandleRequest(c)
  <2>1. reqs[c] # <<>> /\ reqs' = [reqs EXCEPT ![c] = Tail(@)] /\ UNCHANGED out
    BY <1>3 DEF HandleRequest
  <2>2. reqs'[c] = Tail(reqs[c]) /\ reqs[c] \in Seq(Request) /\ \A d \in Chan : d # c => reqs'[d] = reqs[d]
    BY <1>2, <2>1
  <2>3. /\ 1 \in DOMAIN reqs[c] /\ Head(reqs[c]) = reqs[c][1]
        /\ \A i \in DOMAIN reqs'[c] : i + 1 \in DOMAIN reqs[c] /\ reqs'[c][i] = reqs[c][i + 1]
    <3>1. PICK s, t : s = reqs[c] /\ t = reqs'[c]
      BY <2>2
    <3>2. /\ 1 \in DOMAIN s /\ Head(s) = s[1]
          /\ \A i \in DOMAIN t : i + 1 \in DOMAIN s /\ t[i] = s[i + 1]
      BY <2>1, <2>2, <3>1, TailAt
    <3> QED
      BY <3>1, <3>2
  <2>4. Sent'
    BY <1>1, <2>2, <2>3, SentKept, ZenonT(40)
  <2>5. Asked(c, Head(reqs[c]))
    BY <2>3 DEF Sent
  <2>6. CASE Head(reqs[c]).type \in Opens /\ Stop(c)
    <3>1. timer' = [timer EXCEPT ![c] = "stopped"] /\ timer[c] = "armed"
      BY <1>3, <2>6 DEF HandleRequest, Stop
    <3>2. timer'[c] = "stopped" /\ \A d \in Chan : d # c => timer'[d] = timer[d]
      BY <1>2, <3>1
    <3>3. InOrder'
      BY <1>1, <3>1, <3>2, OrderKept
    <3>4. \E i \in DOMAIN asked[c] : asked[c][i].type \in Opens
      BY <2>5, <2>6 DEF Asked
    <3>5. Ends'
      BY <1>1, <2>1, <3>1, <3>2, <3>4 DEF Ends
    <3> QED
      BY <2>4, <3>3, <3>5
  <2>7. CASE ~(Head(reqs[c]).type \in Opens /\ Stop(c))
    <3>1. UNCHANGED timer
      BY <1>3, <2>7 DEF HandleRequest
    <3> QED
      BY <1>1, <2>1, <2>4, <3>1, OrderKept, EndsKept
  <2> QED
    BY <2>6, <2>7
<1>4. CASE UnlockReq(c) \/ RequestsEnd(c)
  <2>1. UNCHANGED <<timer, reqs, out>>
    BY <1>4 DEF UnlockReq, RequestsEnd, muxVars, chanVars
  <2> QED
    BY <1>1, <2>1, SentKept, OrderKept, EndsKept
<1>5. CASE ReplyRequest(c)
  <2>1. UNCHANGED <<timer, reqs>>
    BY <1>5 DEF ReplyRequest, chanVars
  <2>2. UNCHANGED out \/ \E m \in {"success", "failure"} : Send(c, m)
    <3>1. UNCHANGED out \/ Reply(c, Granted(greq[c]))
      BY <1>5, Zenon DEF ReplyRequest
    <3> QED
      BY <3>1 DEF Reply
  <2>3. \A d \in Chan : Contains(out'[d], "close") => Contains(out[d], "close")
    BY <1>1, <2>2, SendAdds DEF Message
  <2> QED
    BY <1>1, <2>1, <2>3, SentKept, OrderKept, EndsKept
<1> QED
  BY <1>3, <1>4, <1>5 DEF RequestStep

(* The timers.                                                             *)
LEMMA TimerKeeps ==
    ASSUME TypeOK, Sent, InOrder, Ends, NEW c \in Chan, TimerExpires(c) \/ TimerFunc(c)
    PROVE  Sent' /\ InOrder' /\ Ends'
<1>1. UNCHANGED <<pc, cur, opened, asked, clientClosed, inbox, incomingChannels, reqs, out>>
  BY DEF TimerExpires, TimerFunc, loopVars, clientVars, chanVars, serveVars, muxVars
<1>2. timer \in [Chan -> {"off", "armed", "expired", "ran", "stopped"}]
  BY DEF TypeOK, ServeTypeOK
<1>3. PICK t \in {"expired", "ran"} : timer' = [timer EXCEPT ![c] = t] /\ timer[c] \in {"armed", "expired"}
  BY DEF TimerExpires, TimerFunc
<1>4. timer'[c] = t /\ \A d \in Chan : d # c => timer'[d] = timer[d]
  BY <1>2, <1>3
<1>5. InOrder'
  BY <1>1, <1>3, <1>4, OrderKept
<1>6. Ends'
  BY <1>1, <1>3, <1>4 DEF Ends
<1> QED
  BY <1>1, <1>5, <1>6, SentKept

(* Every step keeps the invariant of the waits.                            *)
LEMMA NextWaitInv == WaitInv /\ [Next]_vars => WaitInv'
<1> SUFFICES ASSUME WaitInv, [Next]_vars PROVE WaitInv'
  OBVIOUS
<1>1. LockInv' /\ HasTimer' /\ WaitIsOver' /\ TypeOK
  BY NextLock, NextWait DEF WaitInv, LockInv
<1>2. Reporting'
  <2>1. UNCHANGED todo \/ todo' = Report(keys, marked') \/ (todo # <<>> /\ todo' = Tail(todo))
    <3>1. CASE ServeStep
      BY <3>1 DEF ServeStep, NextChannel, RejectChannel, AcceptFails, AcceptChannel, WriteReport, LockReq, WarnAgent,
                  WarnX11, Warn, CloseChannel, Return
    <3>2. ASSUME NEW c \in Chan, RequestStep(c) \/ TimerExpires(c) \/ TimerFunc(c) PROVE UNCHANGED todo
      BY <3>2 DEF RequestStep, HandleRequest, UnlockReq, ReplyRequest, RequestsEnd, TimerExpires, TimerFunc, serveVars
    <3>3. CASE ClientStep \/ LoopStep \/ Terminated \/ UNCHANGED vars
      BY <3>3 DEF ClientStep, LoopStep, Terminated, vars, serveVars
    <3>4. CASE DiscardRequest
      <4>1. UNCHANGED serveVars
        BY <3>4, Zenon DEF DiscardRequest
      <4> QED
        BY <4>1 DEF serveVars
    <3> QED
      BY <3>1, <3>2, <3>3, <3>4 DEF Next
  <2>2. todo \in Seq(ReportMessage)
    BY DEF WaitInv, Reporting
  <2> QED
    BY <2>1, <2>2, ReportMade DEF Reporting
<1>3. TypeOK /\ WaitIsOver /\ Reporting /\ Sent /\ InOrder /\ Ends
  BY <1>1 DEF WaitInv
<1>4. ASSUME UNCHANGED <<pc, cur, timer, opened, asked, clientClosed, inbox, incomingChannels, reqs, out>>
      PROVE  Sent' /\ InOrder' /\ Ends'
  BY <1>3, <1>4, SentKept, OrderKept, EndsKept
<1>5. CASE DiscardRequest
  <2>1. UNCHANGED <<serveVars, lockVars, loopVars, out, incomingChannels, chanVars>>
    BY <1>5, Zenon DEF DiscardRequest
  <2> QED
    BY <1>1, <1>2, <1>4, <2>1 DEF WaitInv, serveVars, lockVars, loopVars, clientVars, chanVars
<1>6. CASE Terminated \/ UNCHANGED vars
  <2>1. UNCHANGED vars
    BY <1>6 DEF Terminated
  <2> QED
    BY <1>1, <1>2, <1>4, <2>1 DEF WaitInv, vars, muxVars, serveVars, lockVars, loopVars, clientVars, chanVars
<1>7. CASE ClientStep
  BY <1>1, <1>2, <1>3, <1>7, ClientKeeps DEF WaitInv
<1>8. CASE LoopStep
  BY <1>1, <1>2, <1>3, <1>8, LoopKeeps DEF WaitInv
<1>9. CASE ServeStep
  BY <1>1, <1>2, <1>3, <1>9, ServeKeeps DEF WaitInv
<1>10. ASSUME NEW c \in Chan, RequestStep(c) PROVE WaitInv'
  BY <1>1, <1>2, <1>3, <1>10, RequestKeeps DEF WaitInv
<1>11. ASSUME NEW c \in Chan, TimerExpires(c) \/ TimerFunc(c) PROVE WaitInv'
  BY <1>1, <1>2, <1>3, <1>11, TimerKeeps DEF WaitInv
<1> QED
  BY <1>5, <1>6, <1>7, <1>8, <1>9, <1>10, <1>11 DEF Next

(* The invariant of the waits holds at the start.                          *)
LEMMA InitWaitInv == Init => WaitInv
<1> SUFFICES ASSUME Init PROVE WaitInv
  OBVIOUS
<1>1. LockInv /\ HasTimer /\ WaitIsOver
  BY InitLock DEF Init, HasTimer, WaitIsOver
<1>2. Reporting
  BY DEF Init, Reporting
<1>3. Sent /\ InOrder
  BY DEF Init, MuxInit, Sent, InOrder
<1>4. \A c \in Chan : ~Contains(out[c], "close")
  BY DEF Init, MuxInit, Contains
<1>5. Ends
  BY <1>4 DEF Init, Ends
<1> QED
  BY <1>1, <1>2, <1>3, <1>5 DEF WaitInv

(* However many channels share the connection, serve closes one that the   *)
(* client has not closed only after its timer ran or the client asked for  *)
(* a shell or a pty on it (server.go, reqLock): the timer and the lock of  *)
(* one channel never stand for those of another.                           *)
THEOREM ClosesAfterWait == Spec => []ClosedAfterWait
<1>1. WaitInv => ClosedAfterWait
  BY DEF WaitInv, Ends, ClosedAfterWait
<1> QED
  BY <1>1, InitWaitInv, NextWaitInv, PTL DEF Spec

-----------------------------------------------------------------------------
(* The warnings about forwarding.                                          *)
Forwardings == {"auth-agent-req", "x11-req"}

Flag(c, f) == IF f = "auth-agent-req" THEN agentFwd[c] ELSE x11[c]
Published(c, f) == IF f = "auth-agent-req" THEN published[c].agentFwd ELSE published[c].x11
Warning(f) == IF f = "auth-agent-req" THEN "agentMsg" ELSE "x11Msg"

(* Nothing is asked of a channel that has not been accepted.               *)
Unasked == \A c \in Chan : timer[c] = "off" => asked[c] = <<>> /\ ~Contains(out[c], "confirm")

(* A forwarding request sent before any shell or pty request is handled,   *)
(* or it is still ahead of the first of those.                             *)
OpensFor(p, c) == p.t = "request" /\ p.ch = c /\ p.req.type \in Opens
AheadQueued(c, f) ==
    \E i \in DOMAIN reqs[c] : reqs[c][i].type = f /\ \A j \in 1..i : reqs[c][j].type \notin Opens
AheadUnread(c, f) ==
    /\ \A i \in DOMAIN reqs[c] : reqs[c][i].type \notin Opens
    /\ \E i \in DOMAIN inbox : /\ inbox[i].t = "request" /\ inbox[i].ch = c /\ inbox[i].req.type = f
                               /\ \A j \in 1..i : ~OpensFor(inbox[j], c)
Handled ==
    \A c \in Chan, f \in Forwardings :
        AskedFirst(c, f) => Flag(c, f) \/ (timer[c] # "stopped" /\ (AheadQueued(c, f) \/ AheadUnread(c, f)))

(* What the unlock publishes includes every such request.                  *)
Shown ==
    \A c \in Chan, f \in Forwardings :
        timer[c] = "stopped" /\ gpc[c] # "unlock" /\ AskedFirst(c, f) => Published(c, f)

(* serve has written a warning, or nothing it writes gets out any more.    *)
Warned(f) ==
    timer[cur] = "stopped" /\ AskedFirst(cur, f) => Contains(out[cur], Warning(f)) \/ sentClose[cur] \/ gone
InTurn ==
    /\ pc \in {"x11", "close"} => Warned("auth-agent-req")
    /\ pc = "close" => Warned("x11-req")

WarnInv == WaitInv /\ Unasked /\ Handled /\ Shown /\ InTurn /\ ForwardingReported

-----------------------------------------------------------------------------
(* What a step of any goroutine can do to each piece of state.             *)

(* Only AcceptChannel confirms; a close is serve's, or answers the         *)
(* client's.                                                               *)
LEMMA OutSteps ==
    ASSUME TypeOK, Reporting, Sent, [Next]_vars
    PROVE  \/ UNCHANGED out
           \/ \E c \in Chan, m \in Message :
                /\ Send(c, m)
                /\ m = "confirm" => AcceptChannel /\ c = cur
                /\ m = "close" => (CloseChannel /\ c = cur) \/ c \in clientClosed
<1> DEFINE Goal == \/ UNCHANGED out
                   \/ \E c \in Chan, m \in Message :
                        /\ Send(c, m)
                        /\ m = "confirm" => AcceptChannel /\ c = cur
                        /\ m = "close" => (CloseChannel /\ c = cur) \/ c \in clientClosed
<1>1. MuxTypeOK /\ cur \in Chan /\ inbox \in Seq(Packet)
  BY DEF TypeOK, ServeTypeOK, MuxTypeOK
<1>2. ASSUME NEW c \in Chan, NEW m \in Message \ {"confirm", "close"}, Send(c, m) PROVE Goal
  BY <1>2
<1>m. {"openfail", "reject", "success", "failure", "agentMsg", "x11Msg"} \cup ReportMessage \subseteq Message \ {"confirm", "close"}
  BY DEF Message, ReportMessage
<1>3. CASE ClientStep
  BY <1>3 DEF ClientStep, Client, ClientOpen, ClientRequest, ClientAdjust, ClientClose, ClientGlobal, ClientQuit
<1>4. CASE LoopStep
  <2>1. CASE handleChannelOpen
    <3>1. Head(inbox).ch \in Chan
      BY <1>1, <2>1, ReadingType DEF handleChannelOpen
    <3>2. UNCHANGED out \/ Send(Head(inbox).ch, "openfail")
      BY <2>1 DEF handleChannelOpen
    <3> QED
      BY <1>2, <1>m, <3>1, <3>2
  <2>2. CASE handleClose
    <3>1. PICK c \in Chan : c = Head(inbox).ch
      BY <1>1, <2>2, ReadingType DEF handleClose
    <3>2. Send(c, "close") /\ inbox # <<>> /\ Head(inbox).t = "close"
      BY <2>2, <3>1 DEF handleClose, SendClose, Reading
    <3>3. 1 \in DOMAIN inbox /\ Head(inbox) = inbox[1]
      BY <1>1, <3>2, TailAt
    <3>4. c \in clientClosed
      BY <3>1, <3>2, <3>3 DEF Sent, Backed
    <3>5. "close" \in Message
      BY DEF Message
    <3> QED
      BY <3>2, <3>4, <3>5
  <2> QED
    BY <1>4, <2>1, <2>2 DEF LoopStep, Loop, handleGlobalPacket, handleRequest, handleAdjust, loopFails, loopExits,
          closeRequests, closeWindow
<1>5. CASE ServeStep
  <2>1. CASE AcceptChannel
    <3>1. Send(cur, "confirm") /\ "confirm" \in Message
      BY <2>1 DEF AcceptChannel, Accept, Message
    <3> QED
      BY <1>1, <2>1, <3>1
  <2>2. CASE CloseChannel
    <3>1. Send(cur, "close") /\ "close" \in Message
      BY <2>2 DEF CloseChannel, SendClose, Message
    <3> QED
      BY <1>1, <2>2, <3>1
  <2>3. CASE WriteReport
    <3>1. Send(cur, Head(todo)) /\ Head(todo) \in ReportMessage
      BY <2>3 DEF WriteReport, Write, Reporting
    <3> QED
      BY <1>1, <1>2, <1>m, <3>1
  <2>4. CASE RejectChannel
    BY <1>1, <1>2, <1>m, <2>4 DEF RejectChannel, Reject
  <2>5. CASE WarnAgent \/ WarnX11
    <3>1. UNCHANGED out \/ Send(cur, "agentMsg") \/ Send(cur, "x11Msg")
      BY <2>5, Zenon DEF WarnAgent, WarnX11, Warn, Write
    <3> QED
      BY <1>1, <1>2, <1>m, <3>1
  <2>6. CASE NextChannel \/ AcceptFails \/ LockReq \/ Return
    BY <2>6 DEF NextChannel, AcceptFails, LockReq, Return, muxVars
  <2> QED
    BY <1>5, <2>1, <2>2, <2>3, <2>4, <2>5, <2>6 DEF ServeStep
<1>6. ASSUME NEW c \in Chan, RequestStep(c) PROVE Goal
  <2>1. CASE ReplyRequest(c)
    <3>1. UNCHANGED out \/ Reply(c, Granted(greq[c]))
      BY <2>1, Zenon DEF ReplyRequest
    <3>2. UNCHANGED out \/ Send(c, "success") \/ Send(c, "failure")
      BY <3>1 DEF Reply
    <3> QED
      BY <1>2, <1>m, <3>2
  <2> QED
    BY <1>6, <2>1 DEF RequestStep, HandleRequest, UnlockReq, RequestsEnd, muxVars
<1>7. ASSUME NEW c \in Chan, TimerExpires(c) \/ TimerFunc(c) PROVE Goal
  BY <1>7 DEF TimerExpires, TimerFunc, muxVars
<1>8. CASE DiscardRequest
  BY <1>8, Zenon DEF DiscardRequest
<1>9. CASE Terminated \/ UNCHANGED vars
  BY <1>9 DEF Terminated, vars, muxVars
<1> QED
  BY <1>3, <1>4, <1>5, <1>6, <1>7, <1>8, <1>9 DEF Next

(* The life of a timer, and of the flags and the lock with it.             *)
LEMMA TimerSteps ==
    ASSUME TypeOK, InOrder, [Next]_vars, NEW c \in Chan
    PROVE  \/ timer'[c] = timer[c]
           \/ AcceptChannel /\ c = cur /\ timer[c] = "off" /\ timer'[c] = "armed"
           \/ timer[c] = "armed" /\ timer'[c] = "stopped" /\ gpc'[c] = "unlock" /\ HandleRequest(c)
           \/ timer[c] \in {"armed", "expired"} /\ timer'[c] \in {"expired", "ran"}
<1>1. /\ timer \in [Chan -> {"off", "armed", "expired", "ran", "stopped"}]
      /\ gpc \in [Chan -> {"off", "recv", "unlock", "reply", "end"}]
      /\ cur \in Chan
  BY DEF TypeOK, ServeTypeOK
<1>2. CASE ServeStep
  <2>1. CASE AcceptChannel
    <3>1. timer' = [timer EXCEPT ![cur] = "armed"] /\ pc = "decide"
      BY <2>1 DEF AcceptChannel, AfterFunc
    <3>2. ~(cur < cur)
      BY <1>1 DEF Chan
    <3>3. timer[cur] = "off"
      BY <1>1, <3>1, <3>2 DEF InOrder
    <3> QED
      BY <1>1, <2>1, <3>1, <3>3
  <2> QED
    BY <1>2, <2>1 DEF ServeStep, NextChannel, RejectChannel, AcceptFails, WriteReport, LockReq, WarnAgent, WarnX11, Warn,
          CloseChannel, Return, lockVars
<1>3. ASSUME NEW d \in Chan, RequestStep(d)
      PROVE  \/ timer'[c] = timer[c]
             \/ timer[c] = "armed" /\ timer'[c] = "stopped" /\ gpc'[c] = "unlock" /\ HandleRequest(c)
  <2>1. CASE HandleRequest(d)
    BY <1>1, <2>1 DEF HandleRequest, Stop
  <2> QED
    BY <1>3, <2>1 DEF RequestStep, UnlockReq, ReplyRequest, RequestsEnd
<1>4. ASSUME NEW d \in Chan, TimerExpires(d) \/ TimerFunc(d)
      PROVE  timer'[c] = timer[c] \/ (timer[c] \in {"armed", "expired"} /\ timer'[c] \in {"expired", "ran"})
  BY <1>1, <1>4 DEF TimerExpires, TimerFunc
<1>5. CASE ClientStep \/ LoopStep \/ Terminated \/ UNCHANGED vars
  BY <1>5 DEF ClientStep, LoopStep, Terminated, vars, lockVars
<1>6. CASE DiscardRequest
  <2>1. UNCHANGED lockVars
    BY <1>6, Zenon DEF DiscardRequest
  <2> QED
    BY <2>1 DEF lockVars
<1> QED
  BY <1>2, <1>3, <1>4, <1>5, <1>6 DEF Next

(* Who unlocks and publishes, and who resets the flags.                    *)
LEMMA FlagSteps ==
    ASSUME TypeOK, [Next]_vars, NEW c \in Chan
    PROVE  /\ ((agentFwd[c] => agentFwd'[c]) /\ (x11[c] => x11'[c])) \/ (AcceptChannel /\ c = cur)
           /\ \/ published'[c] = published[c] /\ (gpc[c] = "unlock" => gpc'[c] = "unlock")
              \/ AcceptChannel /\ c = cur
              \/ UnlockReq(c)
<1> DEFINE Goal == /\ ((agentFwd[c] => agentFwd'[c]) /\ (x11[c] => x11'[c])) \/ (AcceptChannel /\ c = cur)
                   /\ \/ published'[c] = published[c] /\ (gpc[c] = "unlock" => gpc'[c] = "unlock")
                      \/ AcceptChannel /\ c = cur
                      \/ UnlockReq(c)
<1>1. /\ agentFwd \in [Chan -> BOOLEAN] /\ x11 \in [Chan -> BOOLEAN]
      /\ published \in [Chan -> Flags] /\ cur \in Chan
      /\ gpc \in [Chan -> {"off", "recv", "unlock", "reply", "end"}]
  BY DEF TypeOK, ServeTypeOK
<1>2. ASSUME UNCHANGED lockVars PROVE Goal
  BY <1>2 DEF lockVars
<1>3. CASE ServeStep
  <2>1. CASE AcceptChannel
    <3>1. c # cur => UNCHANGED <<agentFwd[c], x11[c], published[c], gpc[c]>>
      BY <1>1, <2>1 DEF AcceptChannel
    <3> QED
      BY <2>1, <3>1
  <2>2. CASE LockReq
    BY <2>2 DEF LockReq
  <2> QED
    BY <1>2, <1>3, <2>1, <2>2 DEF ServeStep, NextChannel, RejectChannel, AcceptFails, WriteReport, WarnAgent, WarnX11,
          Warn, CloseChannel, Return
<1>4. ASSUME NEW d \in Chan, RequestStep(d) PROVE Goal
  <2>1. CASE HandleRequest(d)
    <3>1. /\ agentFwd' = [agentFwd EXCEPT ![d] = @ \/ Head(reqs[d]).type = "auth-agent-req"]
          /\ x11' = [x11 EXCEPT ![d] = @ \/ Head(reqs[d]).type = "x11-req"]
      BY <2>1, Zenon DEF HandleRequest
    <3>2. (agentFwd[c] => agentFwd'[c]) /\ (x11[c] => x11'[c])
      BY <1>1, <3>1, Zenon
    <3>3. UNCHANGED published /\ (gpc[c] = "unlock" => gpc'[c] = "unlock")
      BY <1>1, <2>1 DEF HandleRequest
    <3> QED
      BY <3>2, <3>3
  <2>2. CASE UnlockReq(d)
    BY <1>1, <2>2 DEF UnlockReq
  <2>3. CASE ReplyRequest(d) \/ RequestsEnd(d)
    BY <1>1, <2>3 DEF ReplyRequest, RequestsEnd
  <2> QED
    BY <1>4, <2>1, <2>2, <2>3 DEF RequestStep
<1>5. ASSUME NEW d \in Chan, TimerExpires(d) \/ TimerFunc(d) PROVE Goal
  BY <1>5 DEF TimerExpires, TimerFunc
<1>6. CASE ClientStep \/ LoopStep \/ Terminated \/ UNCHANGED vars
  BY <1>2, <1>6 DEF ClientStep, LoopStep, Terminated, vars
<1>7. CASE DiscardRequest
  BY <1>2, <1>7, Zenon DEF DiscardRequest
<1> QED
  BY <1>3, <1>4, <1>5, <1>6, <1>7 DEF Next

(* A close, a failure of the connection and an answer stay what they are.  *)
LEMMA StaySteps ==
    ASSUME TypeOK, [Next]_vars
    PROVE  (gone => gone') /\ clientClosed \subseteq clientClosed' /\ \A c \in Chan : sentClose[c] => sentClose'[c]
<1> DEFINE Goal == (gone => gone') /\ clientClosed \subseteq clientClosed' /\ \A c \in Chan : sentClose[c] => sentClose'[c]
<1>1. sentClose \in [Chan -> BOOLEAN] /\ gone \in BOOLEAN
  BY DEF TypeOK, MuxTypeOK
<1>2. ASSUME UNCHANGED <<gone, clientClosed>>, NEW c, sentClose' = [sentClose EXCEPT ![c] = TRUE] PROVE Goal
  BY <1>1, <1>2, Zenon
<1>3. CASE ClientStep
  <2>1. clientClosed \subseteq clientClosed' /\ UNCHANGED sentClose
    BY <1>3 DEF ClientStep, Client, ClientOpen, ClientRequest, ClientAdjust, ClientClose, ClientGlobal, ClientQuit,
                clientVars, chanVars
  <2>2. ~gone \/ gone' = gone
    BY <1>3 DEF ClientStep, Client, ClientOpen, ClientRequest, ClientAdjust, ClientClose, ClientGlobal, ClientQuit,
                ClientSends
  <2> QED
    BY <2>1, <2>2
<1>4. CASE LoopStep
  <2>1. CASE handleClose
    BY <1>2, <2>1 DEF handleClose, SendClose, clientVars
  <2>2. ASSUME NEW c \in Chan, closeWindow(c) PROVE Goal
    BY <1>2, <2>2 DEF closeWindow, clientVars
  <2>3. CASE loopExits
    <3>1. gone' = TRUE /\ UNCHANGED <<clientClosed, sentClose>>
      BY <2>3 DEF loopExits, clientVars, chanVars
    <3> QED
      BY <3>1, Zenon
  <2>4. ASSUME NEW c \in Chan, closeRequests(c) PROVE Goal
    BY <2>4 DEF closeRequests, clientVars
  <2>5. CASE handleChannelOpen \/ handleGlobalPacket \/ handleRequest \/ handleAdjust \/ loopFails
    BY <2>5 DEF handleChannelOpen, handleGlobalPacket, handleRequest, handleAdjust, loopFails, clientVars, chanVars
  <2> QED
    BY <1>4, <2>1, <2>2, <2>3, <2>4, <2>5 DEF LoopStep, Loop
<1>5. CASE ServeStep
  <2>1. CASE CloseChannel
    BY <1>2, <2>1 DEF CloseChannel, SendClose, loopVars, clientVars
  <2>2. CASE ~CloseChannel
    <3>1. UNCHANGED <<gone, clientClosed, sentClose>>
      BY <1>5, <2>2 DEF ServeStep, NextChannel, RejectChannel, AcceptFails, AcceptChannel, WriteReport, LockReq,
            WarnAgent, WarnX11, Warn, Return, loopVars, clientVars, chanVars, muxVars
    <3> QED
      BY <3>1
  <2> QED
    BY <2>1, <2>2
<1>6. ASSUME NEW c \in Chan, RequestStep(c) \/ TimerExpires(c) \/ TimerFunc(c) PROVE Goal
  BY <1>6 DEF RequestStep, HandleRequest, UnlockReq, ReplyRequest, RequestsEnd, TimerExpires, TimerFunc, loopVars,
        clientVars, chanVars, muxVars
<1>7. CASE DiscardRequest
  <2>1. UNCHANGED <<loopVars, chanVars>>
    BY <1>7, Zenon DEF DiscardRequest
  <2> QED
    BY <2>1 DEF loopVars, clientVars, chanVars
<1>8. CASE Terminated \/ UNCHANGED vars
  BY <1>8 DEF Terminated, vars, loopVars, clientVars, chanVars, muxVars
<1> QED
  BY <1>3, <1>4, <1>5, <1>6, <1>7, <1>8 DEF Next

(* Only the client asks.                                                   *)
LEMMA AskedSteps ==
    ASSUME [Next]_vars
    PROVE  \/ UNCHANGED asked
           \/ \E c \in Chan, req \in Requests : ClientRequest(c, req) /\ UNCHANGED <<serveVars, lockVars>>
<1>1. CASE ClientStep
  BY <1>1 DEF ClientStep, Client, ClientOpen, ClientAdjust, ClientClose, ClientGlobal, ClientQuit, clientVars
<1>2. CASE LoopStep
  BY <1>2 DEF LoopStep, Loop, handleChannelOpen, handleGlobalPacket, handleRequest, handleAdjust, handleClose, loopFails,
        loopExits, closeRequests, closeWindow, clientVars
<1>3. CASE ServeStep
  BY <1>3 DEF ServeStep, NextChannel, RejectChannel, AcceptFails, AcceptChannel, WriteReport, LockReq, WarnAgent, WarnX11,
        Warn, CloseChannel, Return, loopVars, clientVars, muxVars
<1>4. ASSUME NEW c \in Chan, RequestStep(c) \/ TimerExpires(c) \/ TimerFunc(c) PROVE UNCHANGED asked
  BY <1>4 DEF RequestStep, HandleRequest, UnlockReq, ReplyRequest, RequestsEnd, TimerExpires, TimerFunc, loopVars,
        clientVars, muxVars
<1>5. CASE DiscardRequest
  <2>1. UNCHANGED loopVars
    BY <1>5, Zenon DEF DiscardRequest
  <2> QED
    BY <2>1 DEF loopVars, clientVars
<1>6. CASE Terminated \/ UNCHANGED vars
  BY <1>6 DEF Terminated, vars, loopVars, clientVars, muxVars
<1> QED
  BY <1>1, <1>2, <1>3, <1>4, <1>5, <1>6 DEF Next

(* What the client asked first it has always asked first, and once it has  *)
(* asked for a shell or a pty nothing more comes first.                    *)
LEMMA FirstSteps ==
    ASSUME TypeOK, [Next]_vars, NEW c \in Chan, NEW f
    PROVE  /\ AskedFirst(c, f) => AskedFirst(c, f)'
           /\ AskedFirst(c, f)' => \/ AskedFirst(c, f)
                                   \/ /\ \A i \in DOMAIN asked[c] : asked[c][i].type \notin Opens
                                      /\ \E req \in Requests : /\ ClientRequest(c, req) /\ req.type = f
                                                               /\ UNCHANGED <<serveVars, lockVars>>
<1>1. asked \in [Chan -> Seq(Request)]
  BY DEF TypeOK, MuxTypeOK
<1>2. CASE asked'[c] = asked[c]
  BY <1>2 DEF AskedFirst
<1>3. CASE asked'[c] # asked[c]
  <2>1. PICK d \in Chan, req \in Requests : ClientRequest(d, req) /\ UNCHANGED <<serveVars, lockVars>>
    BY <1>3, AskedSteps
  <2>2. asked' = [asked EXCEPT ![d] = Append(@, req)]
    BY <2>1 DEF ClientRequest
  <2>3. d = c
    BY <1>1, <1>3, <2>2
  <2>4. PICK s, t : s = asked[c] /\ t = asked'[c]
    OBVIOUS
  <2>5. s \in Seq(Request) /\ t = Append(s, req)
    BY <1>1, <2>2, <2>3, <2>4
  <2>6. /\ \A i \in DOMAIN s : i \in DOMAIN t /\ t[i] = s[i]
        /\ \A i \in DOMAIN t : (i \in DOMAIN s /\ t[i] = s[i]) \/ (i = Len(s) + 1 /\ t[i] = req)
    BY <2>5, AppendAt
  <2>7. \A i \in DOMAIN s : \A j \in 1..i : j \in DOMAIN s
    <3>1. DOMAIN s = 1..Len(s) /\ Len(s) \in Nat
      BY <2>5
    <3> QED
      BY <3>1
  <2>8. AskedFirst(c, f) => AskedFirst(c, f)'
    BY <2>4, <2>6, <2>7 DEF AskedFirst
  <2>9. ASSUME AskedFirst(c, f)', ~AskedFirst(c, f)
        PROVE  req.type = f /\ \A i \in DOMAIN s : s[i].type \notin Opens
    <3>1. PICK i \in DOMAIN t : t[i].type = f /\ \A j \in 1..i : t[j].type \notin Opens
      BY <2>4, <2>9 DEF AskedFirst
    <3>2. i \notin DOMAIN s
      BY <2>4, <2>6, <2>7, <2>9, <3>1 DEF AskedFirst
    <3>3. i = Len(s) + 1 /\ t[i] = req
      BY <2>6, <3>2
    <3>4. \A j \in DOMAIN s : j \in 1..i
      <4>1. DOMAIN s = 1..Len(s) /\ Len(s) \in Nat
        BY <2>5
      <4> QED
        BY <3>3, <4>1
    <3> QED
      BY <2>6, <3>1, <3>3, <3>4
  <2> QED
    BY <2>1, <2>3, <2>4, <2>8, <2>9
<1> QED
  BY <1>2, <1>3

(* How a request travels: the client appends a packet, mux.loop takes the  *)
(* first and queues the requests, the request goroutine handles the first. *)
LEMMA LineSteps ==
    ASSUME TypeOK, [Next]_vars, NEW c \in Chan
    PROVE  \/ inbox' = inbox /\ reqs'[c] = reqs[c]
           \/ reqs'[c] = reqs[c] /\ \E p : inbox' = Append(inbox, p)
           \/ /\ reqs'[c] = reqs[c] /\ inbox # <<>> /\ inbox' = Tail(inbox)
              /\ ~(Head(inbox).t = "request" /\ Head(inbox).ch = c)
           \/ /\ inbox # <<>> /\ inbox' = Tail(inbox) /\ reqs'[c] = Append(reqs[c], Head(inbox).req)
              /\ Head(inbox).t = "request" /\ Head(inbox).ch = c
           \/ inbox' = inbox /\ HandleRequest(c)
<1> DEFINE Goal == \/ inbox' = inbox /\ reqs'[c] = reqs[c]
                   \/ reqs'[c] = reqs[c] /\ \E p : inbox' = Append(inbox, p)
                   \/ /\ reqs'[c] = reqs[c] /\ inbox # <<>> /\ inbox' = Tail(inbox)
                      /\ ~(Head(inbox).t = "request" /\ Head(inbox).ch = c)
                   \/ /\ inbox # <<>> /\ inbox' = Tail(inbox) /\ reqs'[c] = Append(reqs[c], Head(inbox).req)
                      /\ Head(inbox).t = "request" /\ Head(inbox).ch = c
                   \/ inbox' = inbox /\ HandleRequest(c)
<1>1. reqs \in [Chan -> Seq(Request)] /\ MuxTypeOK
  BY DEF TypeOK, MuxTypeOK
<1>2. CASE ClientStep
  <2>1. \E p : inbox' = Append(inbox, p)
    BY <1>2 DEF ClientStep, Client, ClientOpen, ClientRequest, ClientAdjust, ClientClose, ClientGlobal, ClientQuit,
                ClientSends
  <2>2. UNCHANGED reqs
    BY <1>2 DEF ClientStep, Client, ClientOpen, ClientRequest, ClientAdjust, ClientClose, ClientGlobal, ClientQuit,
                chanVars
  <2> QED
    BY <2>1, <2>2
<1>3. CASE LoopStep
  <2>1. ASSUME NEW t, Reading(t), t # "request", UNCHANGED reqs PROVE Goal
    BY <2>1 DEF Reading
  <2>2. CASE handleRequest
    <3>1. /\ inbox # <<>> /\ inbox' = Tail(inbox) /\ Head(inbox).t = "request"
          /\ reqs' = [reqs EXCEPT ![Head(inbox).ch] = Append(@, Head(inbox).req)]
      BY <2>2 DEF handleRequest, Reading
    <3>2. Head(inbox).ch \in Chan
      BY <1>1, <2>2, ReadingType DEF handleRequest
    <3>3. IF Head(inbox).ch = c THEN reqs'[c] = Append(reqs[c], Head(inbox).req) ELSE reqs'[c] = reqs[c]
      BY <1>1, <3>1, <3>2
    <3> QED
      BY <3>1, <3>3
  <2>3. CASE handleChannelOpen \/ handleGlobalPacket \/ handleAdjust \/ handleClose \/ loopFails
    BY <2>1, <2>3 DEF handleChannelOpen, handleGlobalPacket, handleAdjust, handleClose, loopFails, chanVars
  <2>4. CASE loopExits
    BY <2>4 DEF loopExits, chanVars
  <2>5. ASSUME NEW d \in Chan, closeRequests(d) \/ closeWindow(d) PROVE Goal
    BY <2>5 DEF closeRequests, closeWindow
  <2> QED
    BY <1>3, <2>2, <2>3, <2>4, <2>5 DEF LoopStep, Loop
<1>4. CASE ServeStep
  BY <1>4 DEF ServeStep, NextChannel, RejectChannel, AcceptFails, AcceptChannel, WriteReport, LockReq, WarnAgent, WarnX11,
        Warn, CloseChannel, Return, loopVars, chanVars, muxVars
<1>5. ASSUME NEW d \in Chan, RequestStep(d) PROVE Goal
  <2>1. CASE HandleRequest(d)
    <3>1. reqs' = [reqs EXCEPT ![d] = Tail(@)] /\ inbox' = inbox
      BY <2>1 DEF HandleRequest, loopVars
    <3> QED
      BY <1>1, <2>1, <3>1
  <2> QED
    BY <1>5, <2>1 DEF RequestStep, UnlockReq, ReplyRequest, RequestsEnd, loopVars, chanVars, muxVars
<1>6. ASSUME NEW d \in Chan, TimerExpires(d) \/ TimerFunc(d) PROVE Goal
  BY <1>6 DEF TimerExpires, TimerFunc, loopVars, chanVars, muxVars
<1>7. CASE DiscardRequest
  <2>1. UNCHANGED <<loopVars, chanVars>>
    BY <1>7, Zenon DEF DiscardRequest
  <2> QED
    BY <2>1 DEF loopVars, chanVars
<1>8. CASE Terminated \/ UNCHANGED vars
  BY <1>8 DEF Terminated, vars, loopVars, chanVars, muxVars
<1> QED
  BY <1>2, <1>3, <1>4, <1>5, <1>6, <1>7, <1>8 DEF Next

(* A request that is ahead stays ahead until it is handled, and no shell   *)
(* or pty request stops the timer while one is.                            *)
LEMMA AheadSteps ==
    ASSUME TypeOK, [Next]_vars, NEW c \in Chan, NEW f \in Forwardings, AheadQueued(c, f) \/ AheadUnread(c, f)
    PROVE  \/ AheadQueued(c, f)' \/ AheadUnread(c, f)' \/ Flag(c, f)'
<1>1. inbox \in Seq(Packet) /\ reqs[c] \in Seq(Request) /\ agentFwd \in [Chan -> BOOLEAN] /\ x11 \in [Chan -> BOOLEAN]
  BY DEF TypeOK, MuxTypeOK, ServeTypeOK
<1>2. PICK s, t, m, n : s = reqs[c] /\ t = reqs'[c] /\ m = inbox /\ n = inbox'
  OBVIOUS
<1>3. s \in Seq(Request) /\ m \in Seq(Packet)
  BY <1>1, <1>2
<1>4. /\ \A i \in DOMAIN s : \A j \in 1..i : j \in DOMAIN s
      /\ \A i \in DOMAIN m : \A j \in 1..i : j \in DOMAIN m
  <2>1. DOMAIN s = 1..Len(s) /\ DOMAIN m = 1..Len(m) /\ Len(s) \in Nat /\ Len(m) \in Nat
    BY <1>3
  <2> QED
    BY <2>1
<1> DEFINE Queued(q) == \E i \in DOMAIN q : q[i].type = f /\ \A j \in 1..i : q[j].type \notin Opens
           Clear(q) == \A i \in DOMAIN q : q[i].type \notin Opens
           Unread(q) == \E i \in DOMAIN q : /\ q[i].t = "request" /\ q[i].ch = c /\ q[i].req.type = f
                                            /\ \A j \in 1..i : ~OpensFor(q[j], c)
<1>5. Queued(s) \/ (Clear(s) /\ Unread(m))
  BY <1>2 DEF AheadQueued, AheadUnread
<1>6. SUFFICES Queued(t) \/ (Clear(t) /\ Unread(n)) \/ Flag(c, f)'
  BY <1>2 DEF AheadQueued, AheadUnread, OpensFor
<1>7. ASSUME NEW p, n = Append(m, p), Unread(m) PROVE Unread(n)
  <2>1. \A i \in DOMAIN m : i \in DOMAIN n /\ n[i] = m[i]
    BY <1>3, <1>7, AppendAt
  <2> QED
    BY <1>4, <1>7, <2>1
<1>8. ASSUME n = Tail(m), m # <<>>, Unread(m), ~(m[1].t = "request" /\ m[1].ch = c /\ m[1].req.type = f) PROVE Unread(n)
  <2>1. PICK i \in DOMAIN m : m[i].t = "request" /\ m[i].ch = c /\ m[i].req.type = f /\ \A j \in 1..i : ~OpensFor(m[j], c)
    BY <1>8
  <2>2. /\ \A k \in DOMAIN n : k \in Nat /\ k + 1 \in DOMAIN m /\ n[k] = m[k + 1]
        /\ i = 1 \/ (i - 1 \in DOMAIN n /\ n[i - 1] = m[i])
    BY <1>3, <1>8, TailAt
  <2>3. i # 1
    BY <1>8, <2>1
  <2>4. i - 1 \in DOMAIN n /\ n[i - 1] = m[i] /\ i \in Nat
    <3>1. i \in Nat
      BY <1>3
    <3> QED
      BY <2>2, <2>3, <3>1
  <2>5. \A k \in 1..(i - 1) : k \in DOMAIN n /\ k + 1 \in 1..i
    <3>1. DOMAIN n = 1..Len(n) /\ Len(n) \in Nat
      BY <1>3, <1>8
    <3> QED
      BY <2>4, <3>1
  <2>6. \A k \in 1..(i - 1) : ~OpensFor(n[k], c)
    BY <2>1, <2>2, <2>5
  <2> QED
    BY <2>1, <2>4, <2>6
<1>9. CASE n = m /\ t = s
  BY <1>5, <1>9
<1>10. CASE t = s /\ \E p : n = Append(m, p)
  BY <1>5, <1>7, <1>10
<1>11. CASE t = s /\ m # <<>> /\ n = Tail(m) /\ ~(m[1].t = "request" /\ m[1].ch = c)
  BY <1>5, <1>8, <1>11
<1>12. CASE m # <<>> /\ n = Tail(m) /\ t = Append(s, m[1].req) /\ m[1].t = "request" /\ m[1].ch = c
  <2>1. /\ \A i \in DOMAIN s : i \in DOMAIN t /\ t[i] = s[i]
        /\ Len(s) + 1 \in DOMAIN t /\ t[Len(s) + 1] = m[1].req
        /\ \A i \in DOMAIN t : (i \in DOMAIN s /\ t[i] = s[i]) \/ (i = Len(s) + 1 /\ t[i] = m[1].req)
    BY <1>3, <1>12, AppendAt
  <2>2. CASE Queued(s)
    BY <1>4, <2>1, <2>2
  <2>3. CASE Clear(s) /\ Unread(m)
    <3>1. m[1].req.type \notin Opens
      <4>1. PICK i \in DOMAIN m : \A j \in 1..i : ~OpensFor(m[j], c)
        BY <2>3
      <4>2. 1 \in 1..i
        BY <1>3
      <4> QED
        BY <1>12, <4>1, <4>2 DEF OpensFor
    <3>2. Clear(t)
      BY <2>1, <2>3, <3>1
    <3>3. CASE m[1].req.type = f
      <4>1. \A j \in 1..(Len(s) + 1) : j \in DOMAIN t
        <5>1. DOMAIN s = 1..Len(s) /\ Len(s) \in Nat
          BY <1>3
        <5> QED
          BY <2>1, <5>1
      <4>2. \A j \in 1..(Len(s) + 1) : t[j].type \notin Opens
        BY <3>2, <4>1
      <4> QED
        BY <2>1, <3>3, <4>2
    <3>4. CASE m[1].req.type # f
      BY <1>8, <1>12, <2>3, <3>2, <3>4
    <3> QED
      BY <3>3, <3>4
  <2> QED
    BY <1>5, <2>2, <2>3
<1>13. CASE n = m /\ HandleRequest(c)
  <2>1. s # <<>> /\ t = Tail(s)
    <3>1. reqs[c] # <<>> /\ reqs' = [reqs EXCEPT ![c] = Tail(@)] /\ reqs \in [Chan -> Seq(Request)]
      BY <1>13 DEF HandleRequest, TypeOK, MuxTypeOK
    <3> QED
      BY <1>2, <3>1
  <2>2. /\ Head(s) = s[1] /\ 1 \in DOMAIN s
        /\ \A k \in DOMAIN t : k \in Nat /\ k + 1 \in DOMAIN s /\ t[k] = s[k + 1]
        /\ \A k \in DOMAIN s : k = 1 \/ (k - 1 \in DOMAIN t /\ t[k - 1] = s[k])
    BY <1>3, <2>1, TailAt
  <2>3. s[1].type = f => Flag(c, f)'
    <3>1. /\ agentFwd' = [agentFwd EXCEPT ![c] = @ \/ Head(reqs[c]).type = "auth-agent-req"]
          /\ x11' = [x11 EXCEPT ![c] = @ \/ Head(reqs[c]).type = "x11-req"]
      BY <1>13, Zenon DEF HandleRequest
    <3>2. /\ Head(reqs[c]).type = "auth-agent-req" => agentFwd'[c]
          /\ Head(reqs[c]).type = "x11-req" => x11'[c]
      BY <1>1, <3>1, Zenon
    <3>3. f \in {"auth-agent-req", "x11-req"} /\ Head(reqs[c]) = s[1]
      BY <1>2, <2>2 DEF Forwardings
    <3> QED
      BY <3>2, <3>3 DEF Flag
  <2>4. CASE Clear(s) /\ Unread(m)
    <3>1. Clear(t)
      BY <2>2, <2>4
    <3> QED
      BY <1>13, <2>4, <3>1
  <2>5. CASE Queued(s)
    <3>1. PICK i \in DOMAIN s : s[i].type = f /\ \A j \in 1..i : s[j].type \notin Opens
      BY <2>5
    <3>2. CASE i = 1
      BY <2>3, <3>1, <3>2
    <3>3. CASE i # 1
      <4>1. i - 1 \in DOMAIN t /\ t[i - 1] = s[i] /\ i \in Nat
        <5>1. i \in Nat
          BY <1>3
        <5> QED
          BY <2>2, <3>3, <5>1
      <4>2. \A k \in 1..(i - 1) : k \in DOMAIN t /\ k + 1 \in 1..i
        <5>1. DOMAIN t = 1..Len(t) /\ Len(t) \in Nat
          BY <1>3, <2>1
        <5> QED
          BY <4>1, <5>1
      <4>3. \A k \in 1..(i - 1) : t[k].type \notin Opens
        BY <2>2, <3>1, <4>2
      <4> QED
        BY <3>1, <4>1, <4>3
    <3> QED
      BY <3>2, <3>3
  <2> QED
    BY <1>5, <2>4, <2>5
<1>14. inbox # <<>> => Head(inbox) = m[1]
  BY <1>2, <1>3, TailAt
<1> QED
  BY <1>2, <1>9, <1>10, <1>11, <1>12, <1>13, <1>14, LineSteps

(* Every step keeps the invariant of the warnings.                         *)
LEMMA NextWarnInv == WarnInv /\ [Next]_vars => WarnInv'
<1> SUFFICES ASSUME WarnInv, [Next]_vars PROVE WarnInv'
  OBVIOUS
<1>1. WaitInv /\ WaitInv' /\ TypeOK /\ TypeOK' /\ Reporting /\ Sent /\ InOrder /\ Ends /\ WaitIsOver /\ OneUnlocker
  BY NextWaitInv DEF WarnInv, WaitInv, LockInv
<1>2. Unasked /\ Handled /\ Shown /\ InTurn /\ ForwardingReported
  BY DEF WarnInv
<1>3. (gone => gone') /\ clientClosed \subseteq clientClosed' /\ \A c \in Chan : sentClose[c] => sentClose'[c]
  BY <1>1, StaySteps
<1>4. \A c \in Chan : \A x :
        /\ Contains(out[c], x) => Contains(out'[c], x)
        /\ Contains(out'[c], x) /\ ~Contains(out[c], x) =>
             /\ x = "confirm" => AcceptChannel /\ c = cur
             /\ x = "close" => (CloseChannel /\ c = cur) \/ c \in clientClosed
  <2>1. MuxTypeOK
    BY <1>1 DEF TypeOK
  <2>2. CASE UNCHANGED out
    BY <2>2
  <2>3. CASE ~UNCHANGED out
    <3>1. PICK d \in Chan, m \in Message :
                /\ Send(d, m)
                /\ m = "confirm" => AcceptChannel /\ d = cur
                /\ m = "close" => (CloseChannel /\ d = cur) \/ d \in clientClosed
      BY <1>1, <2>3, OutSteps
    <3>2. \A c \in Chan : \A x :
             /\ Contains(out[c], x) => Contains(out'[c], x)
             /\ Contains(out'[c], x) => Contains(out[c], x) \/ (c = d /\ x = m)
      BY <2>1, <3>1, SendAdds
    <3> QED
      BY <3>1, <3>2
  <2> QED
    BY <2>2, <2>3
<1>5. \A c \in Chan :
        /\ timer'[c] = "off" => timer[c] = "off"
        /\ AcceptChannel /\ c = cur => timer[c] = "off" /\ timer'[c] = "armed"
        /\ timer'[c] = "stopped" => \/ timer[c] = "stopped"
                                    \/ timer[c] = "armed" /\ gpc'[c] = "unlock" /\ HandleRequest(c)
  <2> SUFFICES ASSUME NEW c \in Chan
               PROVE  /\ timer'[c] = "off" => timer[c] = "off"
                      /\ AcceptChannel /\ c = cur => timer[c] = "off" /\ timer'[c] = "armed"
                      /\ timer'[c] = "stopped" => \/ timer[c] = "stopped"
                                                  \/ timer[c] = "armed" /\ gpc'[c] = "unlock" /\ HandleRequest(c)
    OBVIOUS
  <2>1. \/ timer'[c] = timer[c]
        \/ AcceptChannel /\ c = cur /\ timer[c] = "off" /\ timer'[c] = "armed"
        \/ timer[c] = "armed" /\ timer'[c] = "stopped" /\ gpc'[c] = "unlock" /\ HandleRequest(c)
        \/ timer[c] \in {"armed", "expired"} /\ timer'[c] \in {"expired", "ran"}
    BY <1>1, TimerSteps
  <2>2. AcceptChannel /\ c = cur => timer'[c] = "armed" /\ timer[c] = "off"
    <3>1. timer \in [Chan -> {"off", "armed", "expired", "ran", "stopped"}] /\ cur \in Chan
      BY <1>1 DEF TypeOK, ServeTypeOK
    <3>2. ~(cur < cur)
      BY <3>1 DEF Chan
    <3>3. AcceptChannel => timer' = [timer EXCEPT ![cur] = "armed"] /\ pc = "decide"
      BY DEF AcceptChannel, AfterFunc
    <3> QED
      BY <1>1, <3>1, <3>2, <3>3 DEF InOrder
  <2> QED
    BY <2>1, <2>2
<1>6. \A c \in Chan, f \in Forwardings : (timer[c] = "stopped" \/ AcceptChannel) /\ AskedFirst(c, f)' => AskedFirst(c, f)
  <2> SUFFICES ASSUME NEW c \in Chan, NEW f \in Forwardings, timer[c] = "stopped" \/ AcceptChannel, AskedFirst(c, f)',
                      ~AskedFirst(c, f)
               PROVE  FALSE
    OBVIOUS
  <2>1. (\A i \in DOMAIN asked[c] : asked[c][i].type \notin Opens) /\ UNCHANGED serveVars
    BY <1>1, FirstSteps
  <2>2. timer[c] # "stopped"
    BY <1>1, <2>1 DEF Ends
  <2>3. ~AcceptChannel
    BY <2>1 DEF AcceptChannel, serveVars
  <2> QED
    BY <2>2, <2>3
<1>7. Unasked'
  <2> SUFFICES ASSUME NEW c \in Chan, timer'[c] = "off" PROVE asked'[c] = <<>> /\ ~Contains(out'[c], "confirm")
    BY DEF Unasked
  <2>1. timer[c] = "off" /\ asked[c] = <<>> /\ ~Contains(out[c], "confirm")
    BY <1>2, <1>5 DEF Unasked
  <2>2. asked'[c] = asked[c]
    <3>1. ASSUME NEW d \in Chan, NEW req \in Requests, ClientRequest(d, req) PROVE asked'[c] = asked[c]
      <4>1. d # c /\ asked' = [asked EXCEPT ![d] = Append(@, req)]
        BY <2>1, <3>1 DEF ClientRequest, Confirmed
      <4>2. asked \in [Chan -> Seq(Request)]
        BY <1>1 DEF TypeOK, MuxTypeOK
      <4> QED
        BY <4>1, <4>2
    <3> QED
      BY <3>1, AskedSteps
  <2>3. ~Contains(out'[c], "confirm")
    BY <1>4, <1>5, <2>1
  <2> QED
    BY <2>1, <2>2, <2>3
<1>8. Handled'
  <2> SUFFICES ASSUME NEW c \in Chan, NEW f \in Forwardings, AskedFirst(c, f)'
               PROVE  Flag(c, f)' \/ (timer'[c] # "stopped" /\ (AheadQueued(c, f)' \/ AheadUnread(c, f)'))
    BY DEF Handled
  <2>1. CASE AcceptChannel /\ c = cur
    <3>1. AskedFirst(c, f) /\ asked[c] = <<>>
      BY <1>2, <1>5, <1>6, <2>1 DEF Unasked
    <3> QED
      BY <3>1 DEF AskedFirst
  <2>2. CASE AskedFirst(c, f) /\ ~(AcceptChannel /\ c = cur)
    <3>1. CASE Flag(c, f)
      BY <1>1, <2>2, <3>1, FlagSteps DEF Flag
    <3>2. CASE ~Flag(c, f)
      <4>1. timer[c] # "stopped" /\ (AheadQueued(c, f) \/ AheadUnread(c, f))
        BY <1>2, <2>2, <3>2 DEF Handled
      <4>2. AheadQueued(c, f)' \/ AheadUnread(c, f)' \/ Flag(c, f)'
        BY <1>1, <4>1, AheadSteps
      <4>3. CASE timer'[c] = "stopped"
        <5>1. Head(reqs[c]).type \in Opens /\ reqs[c] # <<>>
          <6>1. HandleRequest(c) /\ timer'[c] # timer[c]
            BY <1>5, <4>1, <4>3
          <6> QED
            BY <6>1 DEF HandleRequest
        <5>2. PICK s : s = reqs[c]
          OBVIOUS
        <5>3. s \in Seq(Request) /\ s # <<>>
          BY <1>1, <5>1, <5>2 DEF TypeOK, MuxTypeOK
        <5>4. 1 \in DOMAIN s /\ Head(s) = s[1]
          BY <5>3, TailAt
        <5>5. s[1].type \in Opens
          BY <5>1, <5>2, <5>4
        <5>6. ~AheadUnread(c, f)
          BY <5>2, <5>4, <5>5 DEF AheadUnread
        <5>7. ~AheadQueued(c, f)
          <6>1. \A i \in DOMAIN s : 1 \in 1..i
            BY <5>3
          <6> QED
            BY <5>2, <5>5, <6>1 DEF AheadQueued
        <5> QED
          BY <4>1, <5>6, <5>7
      <4> QED
        BY <4>2, <4>3
    <3> QED
      BY <3>1, <3>2
  <2>3. CASE ~AskedFirst(c, f) /\ ~(AcceptChannel /\ c = cur)
    <3>1. PICK req \in Requests : ClientRequest(c, req) /\ req.type = f /\ UNCHANGED <<serveVars, lockVars>>
      BY <1>1, <2>3, FirstSteps
    <3>2. \A i \in DOMAIN asked[c] : asked[c][i].type \notin Opens
      BY <1>1, <2>3, FirstSteps
    <3>3. timer'[c] # "stopped"
      BY <1>1, <3>1, <3>2 DEF Ends, lockVars
    <3>4. PICK p, m, n : p = [t |-> "request", ch |-> c, req |-> req] /\ m = inbox /\ n = inbox'
      OBVIOUS
    <3>5. m \in Seq(Packet) /\ n = Append(m, p) /\ UNCHANGED reqs
      BY <1>1, <3>1, <3>4 DEF ClientRequest, ClientSends, TypeOK, MuxTypeOK, chanVars
    <3>6. /\ Len(m) + 1 \in DOMAIN n /\ n[Len(m) + 1] = p
          /\ \A i \in DOMAIN n : (i \in DOMAIN m /\ n[i] = m[i]) \/ (i = Len(m) + 1 /\ n[i] = p)
      BY <3>5, AppendAt
    <3>7. p.t = "request" /\ p.ch = c /\ p.req = req
      BY <3>4
    <3>8. f \notin Opens
      BY DEF Forwardings, Opens
    <3>9. \A i \in DOMAIN n : ~OpensFor(n[i], c)
      <4>1. \A i \in DOMAIN m : ~OpensFor(m[i], c)
        BY <1>1, <3>2, <3>4 DEF Sent, Backed, Asked, OpensFor
      <4> QED
        BY <3>1, <3>6, <3>7, <3>8, <4>1 DEF OpensFor
    <3>10. \A i \in 1..(Len(m) + 1) : i \in DOMAIN n
      BY <3>5
    <3>11. \A i \in DOMAIN reqs[c] : reqs[c][i].type \notin Opens
      BY <1>1, <3>2 DEF Sent, Asked
    <3>12. \E i \in DOMAIN n : /\ n[i].t = "request" /\ n[i].ch = c /\ n[i].req.type = f
                               /\ \A j \in 1..i : ~OpensFor(n[j], c)
      BY <3>1, <3>6, <3>7, <3>9, <3>10
    <3>13. AheadUnread(c, f)'
      BY <3>4, <3>5, <3>11, <3>12 DEF AheadUnread, OpensFor
    <3> QED
      BY <3>3, <3>13
  <2> QED
    BY <2>1, <2>2, <2>3
<1>9. Shown'
  <2> SUFFICES ASSUME NEW c \in Chan, NEW f \in Forwardings, timer'[c] = "stopped", gpc'[c] # "unlock", AskedFirst(c, f)'
               PROVE  Published(c, f)'
    BY DEF Shown
  <2>1. timer[c] = "stopped" /\ ~(AcceptChannel /\ c = cur) /\ AskedFirst(c, f)
    BY <1>5, <1>6
  <2>2. CASE UnlockReq(c)
    <3>1. Flag(c, f)
      BY <1>2, <2>1 DEF Handled
    <3>2. published' = [published EXCEPT ![c] = [agentFwd |-> agentFwd[c], x11 |-> x11[c]]] /\ published \in [Chan -> Flags]
      BY <1>1, <2>2 DEF UnlockReq, TypeOK, ServeTypeOK
    <3>3. published'[c] = [agentFwd |-> agentFwd[c], x11 |-> x11[c]]
      BY <3>2
    <3>4. published'[c].agentFwd = agentFwd[c] /\ published'[c].x11 = x11[c]
      BY <3>3
    <3> QED
      BY <3>1, <3>4 DEF Flag, Published
  <2>3. CASE ~UnlockReq(c)
    <3>1. published'[c] = published[c] /\ gpc[c] # "unlock"
      BY <1>1, <2>1, <2>3, FlagSteps
    <3>2. Published(c, f)
      BY <1>2, <2>1, <3>1 DEF Shown
    <3> QED
      BY <3>1, <3>2 DEF Published
  <2> QED
    BY <2>2, <2>3
<1>10. ASSUME NEW f \in Forwardings, Warned(f), cur' = cur, pc \in {"x11", "close"} PROVE Warned(f)'
  <2> SUFFICES ASSUME timer'[cur] = "stopped", AskedFirst(cur, f)'
               PROVE  Contains(out'[cur], Warning(f)) \/ sentClose'[cur] \/ gone'
    BY <1>10 DEF Warned, Warning
  <2>1. cur \in Chan /\ timer[cur] \in {"ran", "stopped"}
    BY <1>1, <1>10 DEF TypeOK, ServeTypeOK, WaitIsOver
  <2>2. timer[cur] = "stopped" /\ AskedFirst(cur, f)
    <3>1. PICK c \in Chan : c = cur /\ c = cur'
      BY <1>10, <2>1
    <3>2. timer'[c] = "stopped" /\ AskedFirst(c, f)'
      BY <1>10, <3>1 DEF AskedFirst
    <3>3. timer[c] = "stopped" /\ AskedFirst(c, f)
      BY <1>5, <1>6, <2>1, <3>1, <3>2
    <3> QED
      BY <3>1, <3>3
  <2>3. Contains(out[cur], Warning(f)) \/ sentClose[cur] \/ gone
    BY <1>10, <2>2 DEF Warned
  <2> QED
    BY <1>3, <1>4, <2>1, <2>3
<1>11. ASSUME NEW f \in Forwardings, NEW at \in {"agent", "x11"}, NEW then, NEW seen,
              Warn(at, seen, Warning(f), then), \A flag \in seen : flag = Published(cur, f) \/ flag = Flag(cur, f)
       PROVE  Warned(f)'
  <2>1. cur \in Chan /\ MuxTypeOK /\ pc = at /\ UNCHANGED <<cur, timer, gpc>>
    BY <1>1, <1>11 DEF TypeOK, ServeTypeOK, Warn, lockVars
  <2> SUFFICES ASSUME timer'[cur] = "stopped", AskedFirst(cur, f)'
               PROVE  Contains(out'[cur], Warning(f)) \/ sentClose'[cur] \/ gone'
    BY <2>1 DEF Warned, Warning
  <2>2. timer[cur] = "stopped" /\ AskedFirst(cur, f) /\ gpc[cur] # "unlock"
    BY <1>1, <1>6, <2>1 DEF WaitIsOver
  <2>3. Published(cur, f) /\ Flag(cur, f)
    BY <1>2, <2>1, <2>2 DEF Shown, Handled
  <2>4. \A flag \in seen : flag
    BY <1>11, <2>3, Zenon
  <2>5. Write(cur, Warning(f))
    BY <1>11, <2>4, Zenon DEF Warn
  <2>6. Send(cur, Warning(f)) /\ Warning(f) \in Message
    BY <2>5 DEF Write, Warning, Message
  <2>7. ~sentClose[cur] /\ ~gone => Contains(out'[cur], Warning(f))
    BY <2>1, <2>6, SendAdds
  <2> QED
    BY <1>3, <2>1, <2>7
<1>12. InTurn'
  <2>1. pc' \in {"x11", "close"} => \/ pc' = pc /\ cur' = cur
                                    \/ WarnAgent /\ pc' = "x11"
                                    \/ WarnX11 /\ pc' = "close"
    <3>1. CASE ServeStep
      BY <3>1 DEF ServeStep, NextChannel, RejectChannel, AcceptFails, AcceptChannel, WriteReport, LockReq, WarnAgent,
                  WarnX11, Warn, CloseChannel, Return
    <3>2. ASSUME NEW c \in Chan, RequestStep(c) \/ TimerExpires(c) \/ TimerFunc(c) PROVE UNCHANGED <<pc, cur>>
      BY <3>2 DEF RequestStep, HandleRequest, UnlockReq, ReplyRequest, RequestsEnd, TimerExpires, TimerFunc, serveVars
    <3>3. CASE ClientStep \/ LoopStep \/ Terminated \/ UNCHANGED vars
      BY <3>3 DEF ClientStep, LoopStep, Terminated, vars, serveVars
    <3>4. CASE DiscardRequest
      <4>1. UNCHANGED serveVars
        BY <3>4, Zenon DEF DiscardRequest
      <4> QED
        BY <4>1 DEF serveVars
    <3> QED
      BY <3>1, <3>2, <3>3, <3>4 DEF Next
  <2>2. {"auth-agent-req", "x11-req"} = Forwardings
    BY DEF Forwardings
  <2>3. CASE pc' \notin {"x11", "close"}
    BY <2>3 DEF InTurn
  <2>4. CASE pc' \in {"x11", "close"} /\ pc' = pc /\ cur' = cur
    BY <1>2, <1>10, <2>2, <2>4 DEF InTurn
  <2>5. CASE WarnAgent /\ pc' = "x11"
    <3>1. Warn("agent", {Published(cur, "auth-agent-req"), Flag(cur, "auth-agent-req")}, Warning("auth-agent-req"), "x11")
      BY <2>5 DEF WarnAgent, Published, Flag, Warning
    <3>2. Warned("auth-agent-req")'
      BY <1>11, <2>2, <3>1
    <3> QED
      BY <2>5, <3>2 DEF InTurn
  <2>6. CASE WarnX11 /\ pc' = "close"
    <3>1. Warn("x11", {Published(cur, "x11-req"), Flag(cur, "x11-req")}, Warning("x11-req"), "close")
      BY <2>6 DEF WarnX11, Published, Flag, Warning
    <3>2. Warned("x11-req")'
      BY <1>11, <2>2, <3>1
    <3>3. pc = "x11" /\ cur' = cur
      BY <2>6 DEF WarnX11, Warn
    <3>4. Warned("auth-agent-req")'
      BY <1>2, <1>10, <2>2, <3>3 DEF InTurn
    <3> QED
      BY <3>2, <3>4 DEF InTurn
  <2> QED
    BY <2>1, <2>3, <2>4, <2>5, <2>6
<1>13. ForwardingReported'
  <2>1. ASSUME NEW c \in Chan, NEW f \in Forwardings, Contains(out'[c], "close"), c \notin clientClosed',
               timer'[c] = "stopped", AskedFirst(c, f)'
        PROVE  Contains(out'[c], Warning(f))
    <3>1. CASE Contains(out[c], "close")
      <4>1. c \notin clientClosed /\ timer[c] \in {"ran", "stopped"}
        BY <1>1, <1>3, <2>1, <3>1 DEF Ends
      <4>2. timer[c] = "stopped" /\ AskedFirst(c, f)
        BY <1>5, <1>6, <2>1, <4>1
      <4>3. Contains(out[c], Warning(f))
        BY <1>2, <3>1, <4>1, <4>2 DEF ForwardingReported, Forwardings, Warning
      <4> QED
        BY <1>4, <4>3
    <3>2. CASE ~Contains(out[c], "close")
      <4>1. CloseChannel /\ c = cur
        BY <1>3, <1>4, <2>1, <3>2
      <4>2. pc = "close" /\ Send(c, "close") /\ UNCHANGED timer
        BY <4>1 DEF CloseChannel, SendClose, lockVars
      <4>3. ~sentClose[c] /\ ~gone
        BY <2>1, <3>2, <4>2 DEF Send
      <4>4. timer[c] = "stopped" /\ AskedFirst(c, f)
        BY <1>6, <2>1, <4>2
      <4>5. Warned(f)
        BY <1>2, <4>2 DEF InTurn, Forwardings
      <4>6. Contains(out[c], Warning(f))
        BY <4>1, <4>3, <4>4, <4>5 DEF Warned
      <4> QED
        BY <1>4, <4>6
    <3> QED
      BY <3>1, <3>2
  <2>2. {"auth-agent-req", "x11-req"} = Forwardings /\ Warning("auth-agent-req") = "agentMsg" /\ Warning("x11-req") = "x11Msg"
    BY DEF Forwardings, Warning
  <2> QED
    BY <2>1, <2>2 DEF ForwardingReported
<1> QED
  BY <1>1, <1>7, <1>8, <1>9, <1>12, <1>13 DEF WarnInv

(* The invariant of the warnings holds at first.                           *)
LEMMA InitWarnInv == Init => WarnInv
<1> SUFFICES ASSUME Init PROVE WarnInv
  OBVIOUS
<1>1. WaitInv
  BY InitWaitInv
<1>2. \A c \in Chan : out[c] = <<>> /\ asked[c] = <<>> /\ timer[c] = "off"
  BY DEF Init, MuxInit
<1>3. \A c \in Chan : \A x : ~Contains(out[c], x)
  BY <1>2 DEF Contains
<1>4. Unasked /\ Handled /\ Shown /\ ForwardingReported
  BY <1>2, <1>3 DEF Unasked, Handled, Shown, ForwardingReported, AskedFirst
<1>5. InTurn
  BY DEF Init, InTurn
<1> QED
  BY <1>1, <1>4, <1>5 DEF WarnInv

(* However serve, the request goroutines, the timers and the client        *)
(* interleave, on any number of channels and with any capacity of the      *)
(* queues: a client that asked for forwarding before its first shell or    *)
(* pty request, within the 30 seconds, is warned before the server closes  *)
(* the channel (server.go, the flags that reqLock publishes).              *)
THEOREM ReportsForwarding == Spec => []ForwardingReported
<1>1. WarnInv => ForwardingReported
  BY DEF WarnInv
<1> QED
  BY <1>1, InitWarnInv, NextWarnInv, PTL DEF Spec

-----------------------------------------------------------------------------
(* Induction, and sequences put together from sequences.                   *)

(* A set of naturals that is not empty has a least element.                *)
LEMMA LeastElement ==
    ASSUME NEW T, T \subseteq Nat, T # {}
    PROVE  \E x \in T : \A y \in T : x <= y
<1>1. PICK x \in T : \A y \in T : <<y, x>> \notin OpToRel(<, Nat)
  BY NatLessThanWellFounded, WFMin
<1>2. \A y \in T : ~(y < x)
  BY <1>1 DEF OpToRel
<1>3. x \in Nat /\ \A y \in T : y \in Nat
  OBVIOUS
<1>4. \A y \in T : x <= y
  BY <1>2, <1>3, SMT
<1> QED
  BY <1>4, Zenon

(* A set with 0 and with every successor holds every natural number.       *)
LEMMA Induction ==
    ASSUME NEW S, 0 \in S, \A n \in Nat : n \in S => n + 1 \in S
    PROVE  \A n \in Nat : n \in S
<1> DEFINE T == {n \in Nat : n \notin S}
<1>1. SUFFICES ASSUME T # {} PROVE FALSE
  OBVIOUS
<1>2. PICK x \in T : \A y \in T : x <= y
  BY <1>1, LeastElement, T \subseteq Nat
<1>3. x \in Nat /\ x # 0
  BY <1>2
<1>4. x - 1 \in Nat /\ x - 1 \notin T
  BY <1>2, <1>3, SMT
<1>5. (x - 1) + 1 = x
  BY <1>3
<1> QED
  BY <1>2, <1>3, <1>4, <1>5

(* T is a set of sequences over A.                                         *)
Lists(T, A) == T \subseteq Seq(A)

(* f puts the first n sequences of e together, one after the other.        *)
Joins(f, e, n) == \A i \in 1..n : f[i] = IF i = 1 THEN e[i] ELSE f[i - 1] \o e[i]

(* Such a function exists, and FlattenSeq is its last value.               *)
LEMMA FlattenJoins ==
    ASSUME NEW A, NEW T, Lists(T, A), NEW e \in Seq(T), NEW k \in Nat, Len(e) = k, k # 0
    PROVE  \E f \in [1..k -> Seq(A)] : Joins(f, e, k) /\ FlattenSeq(e) = f[k]
<1>e. \A i \in 1..k : e[i] \in Seq(A)
  BY DEF Lists
<1> DEFINE S == {n \in Nat : n <= k => \E f \in [1..n -> Seq(A)] : Joins(f, e, n)}
<1>1. 0 \in S
  <2>1. [i \in 1..0 |-> <<>>] \in [1..0 -> Seq(A)] /\ Joins([i \in 1..0 |-> <<>>], e, 0)
    BY DEF Joins
  <2> QED
    BY <2>1
<1>2. ASSUME NEW n \in Nat, n \in S PROVE n + 1 \in S
  <2> SUFFICES ASSUME n + 1 <= k PROVE \E f \in [1..(n + 1) -> Seq(A)] : Joins(f, e, n + 1)
    OBVIOUS
  <2>1. PICK f \in [1..n -> Seq(A)] : Joins(f, e, n)
    BY <1>2
  <2>2. PICK x \in Seq(A) : x = IF n = 0 THEN e[n + 1] ELSE f[n] \o e[n + 1]
    <3>1. e[n + 1] \in Seq(A) /\ (n # 0 => f[n] \in Seq(A))
      BY <1>e
    <3> QED
      BY <3>1, ConcatProperties
  <2> DEFINE g == [i \in 1..(n + 1) |-> IF i = n + 1 THEN x ELSE f[i]]
  <2>3. \A i \in 1..(n + 1) : i = n + 1 \/ i \in 1..n
    OBVIOUS
  <2>4. g \in [1..(n + 1) -> Seq(A)]
    BY <2>3
  <2>5. ASSUME NEW i \in 1..(n + 1) PROVE g[i] = IF i = 1 THEN e[i] ELSE g[i - 1] \o e[i]
    <3>1. CASE i = n + 1
      <4>1. g[i] = x
        BY <3>1
      <4>2. i # 1 => g[i - 1] = f[n] /\ n # 0
        BY <3>1
      <4>3. i = 1 => n = 0
        BY <3>1
      <4> QED
        BY <2>2, <3>1, <4>1, <4>2, <4>3
    <3>2. CASE i # n + 1
      <4>1. i \in 1..n /\ g[i] = f[i]
        BY <3>2
      <4>2. i # 1 => i - 1 \in 1..n /\ i - 1 # n + 1 /\ i - 1 \in 1..(n + 1)
        BY <4>1
      <4>3. i # 1 => g[i - 1] = f[i - 1]
        BY <4>2
      <4> QED
        BY <2>1, <4>1, <4>3 DEF Joins
    <3> QED
      BY <3>1, <3>2
  <2> HIDE DEF g
  <2> QED
    BY <2>4, <2>5, Zenon DEF Joins
<1>3. k \in S
  <2> HIDE DEF S
  <2> QED
    BY <1>1, <1>2, Induction
<1>4. PICK f \in [1..k -> Seq(A)] : Joins(f, e, k)
  BY <1>3
<1> DEFINE F(flatten) == [i \in 1..Len(e) |-> IF i = 1 THEN e[i] ELSE flatten[i - 1] \o e[i]]
           flatten == CHOOSE flatten : flatten = F(flatten)
<1>5. f = F(f)
  BY <1>4 DEF Joins
<1>6. flatten = F(flatten)
  BY <1>5
<1>7. FlattenSeq(e) = flatten[Len(e)]
  BY DEF FlattenSeq
<1> HIDE DEF flatten
<1>8. \A i \in 1..k : flatten[i] = IF i = 1 THEN e[i] ELSE flatten[i - 1] \o e[i]
  BY <1>6
<1> DEFINE R == {n \in Nat : n + 1 <= k => flatten[n + 1] = f[n + 1]}
<1>9. 0 \in R
  BY <1>4, <1>8 DEF Joins
<1>10. ASSUME NEW n \in Nat, n \in R PROVE n + 1 \in R
  <2> SUFFICES ASSUME (n + 1) + 1 <= k PROVE flatten[(n + 1) + 1] = f[(n + 1) + 1]
    OBVIOUS
  <2>1. PICK m \in 1..k : m = (n + 1) + 1 /\ m # 1 /\ m - 1 = n + 1
    OBVIOUS
  <2>2. flatten[m] = flatten[m - 1] \o e[m] /\ f[m] = f[m - 1] \o e[m]
    BY <1>4, <1>8, <2>1, Zenon DEF Joins
  <2>3. flatten[n + 1] = f[n + 1]
    BY <1>10
  <2> QED
    BY <2>1, <2>2, <2>3, Zenon
<1>11. \A n \in Nat : n \in R
  <2> HIDE DEF R
  <2> QED
    BY <1>9, <1>10, Induction
<1>12. flatten[k] = f[k]
  <2>1. k - 1 \in Nat /\ (k - 1) + 1 = k
    OBVIOUS
  <2>2. k - 1 \in R
    BY <1>11, <2>1
  <2> QED
    BY <2>1, <2>2
<1> QED
  BY <1>4, <1>7, <1>12

(* Sequences that agree up to n are put together alike up to n.            *)
LEMMA SameJoins ==
    ASSUME NEW f, NEW g, NEW d, NEW e, NEW n \in Nat, n # 0, Joins(f, d, n), Joins(g, e, n),
           \A i \in 1..n : d[i] = e[i]
    PROVE  f[n] = g[n]
<1> DEFINE R == {i \in Nat : i + 1 <= n => f[i + 1] = g[i + 1]}
<1>1. 0 \in R
  BY DEF Joins
<1>2. ASSUME NEW i \in Nat, i \in R PROVE i + 1 \in R
  <2> SUFFICES ASSUME (i + 1) + 1 <= n PROVE f[(i + 1) + 1] = g[(i + 1) + 1]
    OBVIOUS
  <2>1. PICK m \in 1..n : m = (i + 1) + 1 /\ m # 1 /\ m - 1 = i + 1
    OBVIOUS
  <2>2. f[m] = f[m - 1] \o d[m] /\ g[m] = g[m - 1] \o e[m] /\ d[m] = e[m]
    BY <2>1, Zenon DEF Joins
  <2>3. f[i + 1] = g[i + 1]
    BY <1>2
  <2> QED
    BY <2>1, <2>2, <2>3, Zenon
<1>3. \A i \in Nat : i \in R
  <2> HIDE DEF R
  <2> QED
    BY <1>1, <1>2, Induction
<1>4. n - 1 \in Nat /\ (n - 1) + 1 = n
  OBVIOUS
<1>5. n - 1 \in R
  BY <1>3, <1>4
<1> QED
  BY <1>4, <1>5

(* A sequence with one more element.                                       *)
LEMMA OneMore ==
    ASSUME NEW T, NEW e \in Seq(T), NEW x \in T, NEW n \in Nat, Len(e) = n, NEW t, t = Append(e, x)
    PROVE  t \in Seq(T) /\ Len(t) = n + 1 /\ t[n + 1] = x /\ \A i \in 1..n : t[i] = e[i]
  OBVIOUS

(* A sequence that is not empty has a last element.                        *)
LEMMA OneLess ==
    ASSUME NEW T, NEW d \in Seq(T), NEW n \in Nat, Len(d) = n + 1
    PROVE  \E b \in Seq(T), x \in T : d = Append(b, x) /\ Len(b) = n
<1>1. PICK b : b = [i \in 1..n |-> d[i]]
  OBVIOUS
<1>2. \A i \in 1..(n + 1) : d[i] \in T
  OBVIOUS
<1>3. b \in [1..n -> T]
  BY <1>1, <1>2
<1>4. b \in Seq(T) /\ Len(b) = n
  BY <1>3
<1>5. PICK x \in T : x = d[n + 1]
  BY <1>2
<1>6. PICK a : a = Append(b, x)
  OBVIOUS
<1>7. a \in Seq(T) /\ Len(a) = n + 1 /\ a[n + 1] = x /\ \A i \in 1..n : a[i] = b[i]
  BY <1>4, <1>6, OneMore
<1>8. \A i \in 1..(n + 1) : a[i] = d[i]
  <2>1. \A i \in 1..(n + 1) : i \in 1..n \/ i = n + 1
    OBVIOUS
  <2>2. \A i \in 1..n : b[i] = d[i]
    BY <1>1
  <2> QED
    BY <1>5, <1>7, <2>1, <2>2, Zenon
<1>9. d = a
  BY <1>7, <1>8, SeqEqual
<1> QED
  BY <1>4, <1>6, <1>9

(* One more sequence goes to the end.                                      *)
LEMMA FlattenAppend ==
    ASSUME NEW A, NEW T, Lists(T, A), NEW e \in Seq(T), NEW x \in T
    PROVE  FlattenSeq(Append(e, x)) = FlattenSeq(e) \o x /\ FlattenSeq(e) \in Seq(A)
<1>t. PICK t : t = Append(e, x)
  OBVIOUS
<1>1. PICK k \in Nat : k = Len(e)
  OBVIOUS
<1>2. t \in Seq(T) /\ Len(t) = k + 1 /\ t[k + 1] = x /\ \A i \in 1..k : t[i] = e[i]
  BY <1>1, <1>t, OneMore
<1>3. PICK g \in [1..(k + 1) -> Seq(A)] : Joins(g, t, k + 1) /\ FlattenSeq(t) = g[k + 1]
  <2>1. PICK m \in Nat : m = k + 1 /\ m # 0
    OBVIOUS
  <2>2. Len(t) = m /\ t \in Seq(T)
    BY <1>2, <2>1
  <2>3. \E g \in [1..m -> Seq(A)] : Joins(g, t, m) /\ FlattenSeq(t) = g[m]
    BY ONLY Lists(T, A), <2>1, <2>2, m \in Nat, FlattenJoins
  <2> QED
    BY <2>1, <2>3
<1>4. g[k + 1] = IF k = 0 THEN x ELSE g[k] \o x
  <2>1. k + 1 \in 1..(k + 1) /\ (k + 1) - 1 = k /\ (k + 1 = 1 <=> k = 0)
    OBVIOUS
  <2> QED
    BY <1>2, <1>3, <2>1, Zenon DEF Joins
<1>5. CASE k = 0
  <2>1. e = <<>>
    BY <1>1, <1>5, EmptySeq
  <2>2. FlattenSeq(e) = <<>>
    BY <1>1, <1>5, <2>1 DEF FlattenSeq
  <2>3. <<>> \o x = x /\ <<>> \in Seq(A)
    BY ConcatEmptySeq, EmptySeq
  <2> QED
    BY <1>3, <1>4, <1>5, <1>t, <2>2, <2>3
<1>6. CASE k # 0
  <2>1. PICK f \in [1..k -> Seq(A)] : Joins(f, e, k) /\ FlattenSeq(e) = f[k]
    BY ONLY Lists(T, A), e \in Seq(T), k \in Nat, <1>1, <1>6, FlattenJoins
  <2>2. Joins(g, t, k)
    <3>1. \A i \in 1..k : i \in 1..(k + 1)
      OBVIOUS
    <3> QED
      BY <1>3, <3>1, Zenon DEF Joins
  <2>3. g[k] = f[k]
    BY <1>2, <1>6, <2>1, <2>2, SameJoins
  <2>4. k \in 1..k
    BY <1>6
  <2>5. f[k] \in Seq(A)
    BY <2>1, <2>4, Zenon
  <2> QED
    BY <1>3, <1>4, <1>6, <1>t, <2>1, <2>3, <2>5, Zenon
<1> QED
  BY <1>5, <1>6

(* The first sequence comes first.                                         *)
LEMMA FlattenTail ==
    ASSUME NEW A, NEW T, Lists(T, A), NEW e \in Seq(T), e # <<>>
    PROVE  FlattenSeq(e) = Head(e) \o FlattenSeq(Tail(e)) /\ FlattenSeq(Tail(e)) \in Seq(A) /\ Head(e) \in Seq(A)
<1> DEFINE P(d) == /\ FlattenSeq(d) = Head(d) \o FlattenSeq(Tail(d))
                   /\ FlattenSeq(Tail(d)) \in Seq(A) /\ Head(d) \in Seq(A)
           S == {n \in Nat : \A d \in Seq(T) : Len(d) = n + 1 => P(d)}
<1>1. ASSUME NEW d \in Seq(T), NEW n \in Nat, Len(d) = n + 1
      PROVE  \E b \in Seq(T), x \in T : d = Append(b, x) /\ Len(b) = n
  BY <1>1, OneLess
<1>2. 0 \in S
  <2> SUFFICES ASSUME NEW d \in Seq(T), Len(d) = 0 + 1 PROVE P(d)
    OBVIOUS
  <2>1. PICK b \in Seq(T), x \in T : d = Append(b, x) /\ Len(b) = 0
    BY <1>1, 0 \in Nat
  <2>2. b = <<>> /\ <<>> \in Seq(A)
    BY <2>1, EmptySeq
  <2>3. FlattenSeq(<<>>) = <<>>
    BY EmptySeq DEF FlattenSeq
  <2>4. Head(d) = x /\ Tail(d) = <<>>
    BY <2>1, <2>2, HeadTailAppend
  <2>a. FlattenSeq(d) = FlattenSeq(b) \o x
    BY <2>1, FlattenAppend, ZenonT(60)
  <2>5. FlattenSeq(d) = <<>> \o x
    BY <2>2, <2>3, <2>a
  <2>6. <<>> \o x = x /\ x \o <<>> = x /\ x \in Seq(A)
    BY ConcatEmptySeq DEF Lists
  <2> QED
    BY <2>2, <2>3, <2>4, <2>5, <2>6
<1>3. ASSUME NEW n \in Nat, n \in S PROVE n + 1 \in S
  <2> SUFFICES ASSUME NEW d \in Seq(T), Len(d) = (n + 1) + 1 PROVE P(d)
    OBVIOUS
  <2>1. PICK b \in Seq(T), x \in T : d = Append(b, x) /\ Len(b) = n + 1
    BY <1>1, n + 1 \in Nat
  <2>2. P(b)
    BY <1>3, <2>1
  <2>3. b # <<>>
    BY <2>1, EmptySeq
  <2>4. Head(d) = Head(b) /\ Tail(d) = Append(Tail(b), x)
    BY <2>1, <2>3, HeadTailAppend
  <2>5. Tail(b) \in Seq(T)
    BY <2>3, HeadTailProperties
  <2>6. FlattenSeq(Tail(d)) = FlattenSeq(Tail(b)) \o x
    BY <2>4, <2>5, FlattenAppend, ZenonT(60)
  <2>7. FlattenSeq(d) = FlattenSeq(b) \o x
    BY <2>1, FlattenAppend, ZenonT(60)
  <2>8. PICK u \in Seq(A), v \in Seq(A) : u = Head(b) /\ v = FlattenSeq(Tail(b))
    BY <2>2
  <2>11. PICK y \in Seq(A) : y = x
    BY DEF Lists
  <2>9. (u \o v) \o y = u \o (v \o y)
    BY ONLY u \in Seq(A), v \in Seq(A), y \in Seq(A), ConcatAssociative
  <2>10. v \o y \in Seq(A)
    BY ONLY v \in Seq(A), y \in Seq(A), ConcatProperties
  <2> QED
    BY <2>2, <2>4, <2>6, <2>7, <2>8, <2>9, <2>10, <2>11, Zenon
<1>4. \A n \in Nat : n \in S
  <2> HIDE DEF S
  <2> QED
    BY <1>2, <1>3, Induction
<1>5. PICK n \in Nat : Len(e) = n + 1
  <2>1. Len(e) \in Nat /\ Len(e) # 0
    BY EmptySeq
  <2>2. Len(e) - 1 \in Nat /\ Len(e) = (Len(e) - 1) + 1
    BY <2>1
  <2> QED
    BY <2>2
<1> QED
  BY <1>4, <1>5

(* What g makes of the elements of q, put together.                        *)
Image(g, q) == [i \in DOMAIN q |-> g[q[i]]]
Flat(g, q) == FlattenSeq(Image(g, q))

(* g makes a sequence over A of every element of B.                        *)
Maker(g, B, T, A) == g \in [B -> T] /\ Lists(T, A)

(* The image of a sequence.                                                *)
LEMMA ImageType ==
    ASSUME NEW B, NEW T, NEW g \in [B -> T], NEW q \in Seq(B)
    PROVE  Image(g, q) \in Seq(T)
<1>1. PICK n \in Nat : n = Len(q) /\ DOMAIN q = 1..n /\ \A i \in 1..n : q[i] \in B
  OBVIOUS
<1>2. Image(g, q) = [i \in 1..n |-> g[q[i]]] /\ \A i \in 1..n : g[q[i]] \in T
  BY <1>1 DEF Image
<1>3. Image(g, q) \in [1..n -> T]
  BY <1>2
<1> QED
  BY <1>3

(* The image of a sequence that grows at the end.                          *)
LEMMA ImageAppend ==
    ASSUME NEW B, NEW T, NEW g \in [B -> T], NEW q \in Seq(B), NEW e \in B
    PROVE  Image(g, Append(q, e)) = Append(Image(g, q), g[e])
<1>1. PICK n \in Nat : n = Len(q) /\ DOMAIN q = 1..n /\ \A i \in 1..n : q[i] \in B
  OBVIOUS
<1>2. PICK a : a = Image(g, q)
  OBVIOUS
<1>3. a = [i \in 1..n |-> g[q[i]]] /\ \A i \in 1..n : a[i] = g[q[i]] /\ a[i] \in T
  BY <1>1, <1>2 DEF Image
<1>4. a \in [1..n -> T]
  BY <1>3
<1>5. a \in Seq(T) /\ Len(a) = n /\ g[e] \in T
  BY <1>4
<1>6. PICK p : p = Append(q, e)
  OBVIOUS
<1>7. DOMAIN p = 1..(n + 1) /\ p[n + 1] = e /\ \A i \in 1..n : p[i] = q[i]
  BY <1>1, <1>6
<1>8. Image(g, p) = [i \in 1..(n + 1) |-> IF i = n + 1 THEN g[e] ELSE a[i]]
  <2>1. Image(g, p) = [i \in 1..(n + 1) |-> g[p[i]]]
    BY <1>7, Zenon DEF Image
  <2>2. ASSUME NEW i \in 1..(n + 1) PROVE g[p[i]] = IF i = n + 1 THEN g[e] ELSE a[i]
    <3>1. CASE i = n + 1
      BY <3>1, <1>7
    <3>2. CASE i # n + 1
      <4>1. i \in 1..n
        BY <3>2
      <4> QED
        BY <3>2, <4>1, <1>3, <1>7
    <3> QED
      BY <3>1, <3>2
  <2> QED
    BY <2>1, <2>2, Zenon
<1>9. Image(g, p) = Append(a, g[e])
  BY <1>5, <1>8
<1> QED
  BY <1>2, <1>5, <1>6, <1>9

(* The image of a sequence that shrinks at the front.                      *)
LEMMA ImageTail ==
    ASSUME NEW B, NEW T, NEW g \in [B -> T], NEW q \in Seq(B), q # <<>>
    PROVE  /\ Image(g, q) # <<>> /\ Head(Image(g, q)) = g[Head(q)] /\ Tail(Image(g, q)) = Image(g, Tail(q))
           /\ Tail(q) \in Seq(B) /\ Head(q) \in B
<1>1. PICK n \in Nat : n + 1 = Len(q) /\ DOMAIN q = 1..(n + 1) /\ \A i \in 1..(n + 1) : q[i] \in B
  <2>1. Len(q) \in Nat /\ Len(q) # 0 /\ DOMAIN q = 1..Len(q) /\ \A i \in 1..Len(q) : q[i] \in B
    OBVIOUS
  <2>2. Len(q) - 1 \in Nat /\ (Len(q) - 1) + 1 = Len(q)
    BY <2>1
  <2> QED
    BY <2>1, <2>2
<1>2. PICK a, p : a = Image(g, q) /\ p = Tail(q)
  OBVIOUS
<1>3. a = [i \in 1..(n + 1) |-> g[q[i]]] /\ \A i \in 1..(n + 1) : a[i] = g[q[i]] /\ a[i] \in T
  BY <1>1, <1>2 DEF Image
<1>4. a \in [1..(n + 1) -> T]
  BY <1>3
<1>m. PICK m \in Nat : m = n + 1 /\ m # 0 /\ m - 1 = n
  OBVIOUS
<1>5. a \in Seq(T) /\ Len(a) = m /\ a # <<>>
  BY <1>4, <1>m
<1>6. p \in Seq(B) /\ Head(q) = q[1] /\ Head(q) \in B /\ DOMAIN p = 1..n /\ \A i \in 1..n : p[i] = q[i + 1]
  BY <1>1, <1>2
<1>7. Head(a) = a[1] /\ Tail(a) \in Seq(T) /\ Len(Tail(a)) = n /\ \A i \in 1..n : Tail(a)[i] = a[i + 1]
  BY <1>5, <1>m, HeadTailProperties
<1>8. 1 \in 1..(n + 1) /\ \A i \in 1..n : i + 1 \in 1..(n + 1)
  OBVIOUS
<1>9. Image(g, p) = [i \in 1..n |-> a[i + 1]]
  <2>1. Image(g, p) = [i \in 1..n |-> g[p[i]]]
    BY <1>6, Zenon DEF Image
  <2>2. \A i \in 1..n : g[p[i]] = a[i + 1]
    BY <1>3, <1>6, <1>8
  <2> QED
    BY <2>1, <2>2, Zenon
<1>10. PICK b : b = Image(g, p)
  OBVIOUS
<1>11. b \in [1..n -> T] /\ \A i \in 1..n : b[i] = a[i + 1]
  BY <1>3, <1>8, <1>9, <1>10
<1>12. b \in Seq(T) /\ Len(b) = n
  BY <1>11
<1>13. Tail(a) = b
  BY <1>7, <1>11, <1>12, SeqEqual
<1>14. Head(a) = g[Head(q)]
  BY <1>3, <1>6, <1>7, <1>8
<1> QED
  BY <1>2, <1>5, <1>6, <1>10, <1>13, <1>14

(* Flat of nothing.                                                        *)
LEMMA FlatEmpty ==
    ASSUME NEW g PROVE Flat(g, <<>>) = <<>>
<1>1. Image(g, <<>>) = <<>>
  BY DEF Image
<1>2. FlattenSeq(<<>>) = <<>>
  BY EmptySeq DEF FlattenSeq
<1> QED
  BY <1>1, <1>2 DEF Flat

(* Flat of a sequence that grows at the end.                               *)
LEMMA FlatAppend ==
    ASSUME NEW A, NEW B, NEW T, NEW g, Maker(g, B, T, A), NEW q \in Seq(B), NEW e \in B
    PROVE  Flat(g, Append(q, e)) = Flat(g, q) \o g[e] /\ Flat(g, q) \in Seq(A) /\ g[e] \in Seq(A)
<1>1. g \in [B -> T] /\ Lists(T, A)
  BY DEF Maker
<1>2. Image(g, q) \in Seq(T) /\ g[e] \in T
  BY <1>1, ImageType
<1>6. Image(g, Append(q, e)) = Append(Image(g, q), g[e])
  BY <1>1, ImageAppend
<1>3. PICK a \in Seq(T), x \in T : a = Image(g, q) /\ x = g[e]
  BY <1>2
<1>4. FlattenSeq(Append(a, x)) = FlattenSeq(a) \o x /\ FlattenSeq(a) \in Seq(A)
  BY <1>1, FlattenAppend
<1>5. x \in Seq(A)
  BY <1>1 DEF Lists
<1> QED
  BY <1>2, <1>3, <1>4, <1>5, <1>6 DEF Flat

(* Flat of a sequence that shrinks at the front.                           *)
LEMMA FlatTail ==
    ASSUME NEW A, NEW B, NEW T, NEW g, Maker(g, B, T, A), NEW q \in Seq(B), q # <<>>
    PROVE  /\ Flat(g, q) = g[Head(q)] \o Flat(g, Tail(q)) /\ Flat(g, Tail(q)) \in Seq(A) /\ g[Head(q)] \in Seq(A)
           /\ Tail(q) \in Seq(B) /\ Head(q) \in B
<1>1. g \in [B -> T] /\ Lists(T, A)
  BY DEF Maker
<1>2. /\ Image(g, q) # <<>> /\ Head(Image(g, q)) = g[Head(q)] /\ Tail(Image(g, q)) = Image(g, Tail(q))
      /\ Tail(q) \in Seq(B) /\ Head(q) \in B
  BY <1>1, ImageTail
<1>3. PICK a \in Seq(T) : a = Image(g, q)
  <2>1. Image(g, q) \in Seq(T)
    BY <1>1, <1>2, ImageType
  <2> QED
    BY <2>1
<1>4. FlattenSeq(a) = Head(a) \o FlattenSeq(Tail(a)) /\ FlattenSeq(Tail(a)) \in Seq(A) /\ Head(a) \in Seq(A)
  BY <1>1, <1>2, <1>3, FlattenTail
<1> QED
  BY <1>2, <1>3, <1>4 DEF Flat

(* g makes a sequence over A of every element of B.                        *)
Makes(g, B, A) == \E T : Maker(g, B, T, A)

(* Flat makes a sequence over A.                                           *)
LEMMA FlatType ==
    ASSUME NEW A, NEW B, NEW g, Makes(g, B, A), NEW q \in Seq(B)
    PROVE  Flat(g, q) \in Seq(A)
<1>1. PICK T : Maker(g, B, T, A)
  BY DEF Makes
<1>2. CASE q = <<>>
  BY <1>2, FlatEmpty, EmptySeq
<1>3. CASE q # <<>>
  <2>1. Flat(g, q) = g[Head(q)] \o Flat(g, Tail(q)) /\ Flat(g, Tail(q)) \in Seq(A) /\ g[Head(q)] \in Seq(A)
    BY <1>1, <1>3, FlatTail
  <2> QED
    BY <2>1, ConcatProperties
<1> QED
  BY <1>2, <1>3

(* Flat of a sequence with one more element.                               *)
LEMMA FlatGrows ==
    ASSUME NEW A, NEW B, NEW g, Makes(g, B, A), NEW q \in Seq(B), NEW e \in B
    PROVE  Flat(g, Append(q, e)) = Flat(g, q) \o g[e]
<1>1. PICK T : Maker(g, B, T, A)
  BY DEF Makes
<1> QED
  BY <1>1, FlatAppend

(* x continues y.                                                          *)
Continues(x, y, A) == \E u \in Seq(A) : x = y \o u

(* Flat of a longer sequence begins with Flat of its beginning.            *)
LEMMA FlatMore ==
    ASSUME NEW A, NEW B, NEW g, Makes(g, B, A), NEW q \in Seq(B), NEW r \in Seq(B)
    PROVE  Continues(Flat(g, q \o r), Flat(g, q), A)
<1> DEFINE Q(s) == \E u \in Seq(A) : Flat(g, q \o s) = Flat(g, q) \o u
<1> DEFINE S == {n \in Nat : \A s \in Seq(B) : Len(s) = n => Q(s)}
<1>f. Flat(g, q) \in Seq(A)
  BY FlatType
<1>1. 0 \in S
  <2> SUFFICES ASSUME NEW s \in Seq(B), Len(s) = 0 PROVE Q(s)
    OBVIOUS
  <2>1. s = <<>>
    BY EmptySeq
  <2>2. q \o s = q
    BY <2>1, ConcatEmptySeq
  <2>3. Flat(g, q) = Flat(g, q) \o <<>> /\ <<>> \in Seq(A)
    BY <1>f, ConcatEmptySeq, EmptySeq
  <2> QED
    BY <2>2, <2>3
<1>2. ASSUME NEW n \in Nat, n \in S PROVE n + 1 \in S
  <2> SUFFICES ASSUME NEW s \in Seq(B), Len(s) = n + 1 PROVE Q(s)
    <3> n + 1 \in Nat
      OBVIOUS
    <3> HIDE DEF Q
    <3> QED
      OBVIOUS
  <2>1. s # <<>>
    BY EmptySeq
  <2>2. PICK b \in Seq(B), x \in B : s = Append(b, x)
    BY <2>1, SequenceEmptyOrAppend
  <2>3. Len(b) = n
    <3>1. Len(b) \in Nat /\ Len(s) = Len(b) + 1
      BY <2>2, AppendProperties
    <3> QED
      BY <3>1
  <2>4. PICK u \in Seq(A) : Flat(g, q \o b) = Flat(g, q) \o u
    BY <1>2, <2>3
  <2>5. q \o s = Append(q \o b, x) /\ q \o b \in Seq(B)
    <3>1. Append(b, x) = b \o <<x>> /\ <<x>> \in Seq(B)
      BY AppendIsConcat
    <3>2. q \o b \in Seq(B)
      BY ConcatProperties
    <3>3. Append(q \o b, x) = (q \o b) \o <<x>>
      BY <3>2, AppendIsConcat
    <3>4. (q \o b) \o <<x>> = q \o (b \o <<x>>)
      BY ONLY <3>1, q \in Seq(B), b \in Seq(B), SMTT(40)
    <3> QED
      BY <2>2, <3>1, <3>2, <3>3, <3>4
  <2>6. PICK p \in Seq(B) : p = q \o b
    BY <2>5
  <2>7. Flat(g, Append(p, x)) = Flat(g, p) \o g[x]
    BY FlatGrows
  <2>8. PICK v \in Seq(A), w \in Seq(A) : v = Flat(g, q) /\ w = g[x]
    BY <1>f DEF Makes, Maker, Lists
  <2>9. (v \o u) \o w = v \o (u \o w) /\ u \o w \in Seq(A)
    BY ONLY u \in Seq(A), v \in Seq(A), w \in Seq(A), SMTT(40)
  <2> QED
    BY <2>4, <2>5, <2>6, <2>7, <2>8, <2>9, Zenon
<1>3. \A n \in Nat : n \in S
  <2> HIDE DEF S
  <2> QED
    BY <1>1, <1>2, Induction
<1>4. Len(r) \in Nat
  OBVIOUS
<1> HIDE DEF Q
<1>5. Q(r)
  BY <1>3, <1>4
<1> QED
  BY <1>5 DEF Q, Continues

-----------------------------------------------------------------------------
(* The messages of a kind, the answers due, and the requests for a channel *)
(* that mux.loop has not read: each is a Flat.                             *)
Keep(M) == [m \in Message |-> IF m \in M THEN <<m>> ELSE <<>>]
Owed == [r \in Request |-> IF r.wantReply THEN <<Promise!Answer(r)>> ELSE <<>>]
IsFor(p, c) == p.t = "request" /\ p.ch = c
Take(c) == [p \in Packet |-> IF IsFor(p, c) THEN <<p.req>> ELSE <<>>]
Unread(q, c) == Flat(Take(c), q)

(* The three are made of sequences.                                        *)
LEMMA Kept ==
    ASSUME NEW M PROVE Makes(Keep(M), Message, Message)
<1>1. PICK T : T = {IF m \in M THEN <<m>> ELSE <<>> : m \in Message}
  OBVIOUS
<1>2. Lists(T, Message)
  <2>1. ASSUME NEW m \in Message PROVE (IF m \in M THEN <<m>> ELSE <<>>) \in Seq(Message)
    OBVIOUS
  <2> QED
    BY <1>1, <2>1, Zenon DEF Lists
<1>3. Keep(M) \in [Message -> T]
  BY <1>1 DEF Keep
<1> QED
  BY <1>2, <1>3 DEF Makes, Maker

(* Answers are owed to requests.                                           *)
LEMMA Owing == Makes(Owed, Request, Message)
<1>1. PICK T : T = {IF r.wantReply THEN <<Promise!Answer(r)>> ELSE <<>> : r \in Request}
  OBVIOUS
<1>2. Lists(T, Message)
  <2>1. ASSUME NEW r \in Request PROVE (IF r.wantReply THEN <<Promise!Answer(r)>> ELSE <<>>) \in Seq(Message)
    <3>1. Promise!Answer(r) \in Message
      BY DEF Promise!Answer, Message
    <3>2. <<Promise!Answer(r)>> \in Seq(Message) /\ <<>> \in Seq(Message)
      BY <3>1
    <3> QED
      BY <3>2, Zenon
  <2> QED
    BY <1>1, <2>1, Zenon DEF Lists
<1>3. Owed \in [Request -> T]
  BY <1>1 DEF Owed
<1> QED
  BY <1>2, <1>3 DEF Makes, Maker

(* A request packet carries a request.                                     *)
LEMMA Carries ==
    ASSUME NEW p \in Packet, NEW c, IsFor(p, c) PROVE p.req \in Request
BY DEF IsFor, Packet, OpenPacket, RequestPacket, ChannelPacket, GlobalPacket, FatalPacket

(* Requests are taken from packets.                                        *)
LEMMA Taking ==
    ASSUME NEW c PROVE Makes(Take(c), Packet, Request)
<1>1. PICK T : T = {IF IsFor(p, c) THEN <<p.req>> ELSE <<>> : p \in Packet}
  OBVIOUS
<1>2. Lists(T, Request)
  <2>1. ASSUME NEW p \in Packet PROVE (IF IsFor(p, c) THEN <<p.req>> ELSE <<>>) \in Seq(Request)
    <3>1. CASE IsFor(p, c)
      BY <3>1, Carries
    <3>2. CASE ~IsFor(p, c)
      BY <3>2
    <3> QED
      BY <3>1, <3>2
  <2> QED
    BY <1>1, <2>1, Zenon DEF Lists
<1>3. Take(c) \in [Packet -> T]
  BY <1>1, Zenon DEF Take
<1> QED
  BY <1>2, <1>3 DEF Makes, Maker

(* The messages of a kind are picked one by one.                           *)
LEMMA PartIsFlat ==
    ASSUME NEW M, NEW s \in Seq(Message) PROVE Promise!Part(s, M) = Flat(Keep(M), s)
<1>1. ASSUME NEW e PROVE Promise!FlattenSeq(e) = FlattenSeq(e)
  BY DEF Promise!FlattenSeq, FlattenSeq
<1>2. \A i \in DOMAIN s : s[i] \in Message
  OBVIOUS
<1>3. [i \in DOMAIN s |-> IF s[i] \in M THEN <<s[i]>> ELSE <<>>] = Image(Keep(M), s)
  BY <1>2, Zenon DEF Image, Keep
<1> QED
  BY <1>1, <1>3 DEF Flat, Promise!Part

(* So are the answers due.                                                 *)
LEMMA DueIsFlat ==
    ASSUME NEW a \in Seq(Request) PROVE Promise!Due(a) = Flat(Owed, a)
<1>1. ASSUME NEW e PROVE Promise!FlattenSeq(e) = FlattenSeq(e)
  BY DEF Promise!FlattenSeq, FlattenSeq
<1>2. \A i \in DOMAIN a : a[i] \in Request
  OBVIOUS
<1>3. [i \in DOMAIN a |-> IF a[i].wantReply THEN <<Promise!Answer(a[i])>> ELSE <<>>] = Image(Owed, a)
  BY <1>2, Zenon DEF Image, Owed
<1> QED
  BY <1>1, <1>3 DEF Flat, Promise!Due

(* A message of the kind is added to its kind.                             *)
LEMMA PartIn ==
    ASSUME NEW M, NEW s \in Seq(Message), NEW m \in Message, m \in M
    PROVE  Promise!Part(Append(s, m), M) = Append(Promise!Part(s, M), m)
<1>1. PICK z \in Seq(Message) : z = Append(s, m)
  BY AppendProperties
<1>2. Promise!Part(z, M) = Flat(Keep(M), z) /\ Promise!Part(s, M) = Flat(Keep(M), s)
  BY PartIsFlat
<1>3. Flat(Keep(M), Append(s, m)) = Flat(Keep(M), s) \o Keep(M)[m]
  BY Kept, FlatGrows
<1>4. Keep(M)[m] = <<m>>
  BY DEF Keep
<1>5. PICK f \in Seq(Message) : f = Flat(Keep(M), s)
  BY Kept, FlatType
<1>6. Append(f, m) = f \o <<m>>
  BY AppendIsConcat
<1> QED
  BY <1>1, <1>2, <1>3, <1>4, <1>5, <1>6

(* A message of another kind is not.                                       *)
LEMMA PartOut ==
    ASSUME NEW M, NEW s \in Seq(Message), NEW m \in Message, m \notin M
    PROVE  Promise!Part(Append(s, m), M) = Promise!Part(s, M)
<1>1. PICK z \in Seq(Message) : z = Append(s, m)
  BY AppendProperties
<1>2. Promise!Part(z, M) = Flat(Keep(M), z) /\ Promise!Part(s, M) = Flat(Keep(M), s)
  BY PartIsFlat
<1>3. Flat(Keep(M), Append(s, m)) = Flat(Keep(M), s) \o Keep(M)[m]
  BY Kept, FlatGrows
<1>4. Keep(M)[m] = <<>>
  BY DEF Keep
<1>5. PICK f \in Seq(Message) : f = Flat(Keep(M), s)
  BY Kept, FlatType
<1>6. f \o <<>> = f
  BY ConcatEmptySeq
<1> QED
  BY <1>1, <1>2, <1>3, <1>4, <1>5, <1>6

(* A part is a sequence of messages, and nothing has no parts.             *)
LEMMA PartType ==
    ASSUME NEW M, NEW s \in Seq(Message)
    PROVE  Promise!Part(s, M) \in Seq(Message)
BY PartIsFlat, Kept, FlatType

(* Nothing has no parts.                                                   *)
LEMMA PartEmpty ==
    ASSUME NEW M PROVE Promise!Part(<<>>, M) = <<>>
BY PartIsFlat, FlatEmpty, EmptySeq

(* Nothing is due to a client that asked nothing.                          *)
LEMMA DueEmpty == Promise!Due(<<>>) = <<>>
BY DueIsFlat, FlatEmpty, EmptySeq

(* An answer is due to a request that wants one.                           *)
LEMMA DueIn ==
    ASSUME NEW a \in Seq(Request), NEW r \in Request, r.wantReply
    PROVE  Promise!Due(Append(a, r)) = Append(Promise!Due(a), Promise!Answer(r))
<1>1. PICK z \in Seq(Request) : z = Append(a, r)
  BY AppendProperties
<1>2. Promise!Due(z) = Flat(Owed, z) /\ Promise!Due(a) = Flat(Owed, a)
  BY DueIsFlat
<1>3. Flat(Owed, Append(a, r)) = Flat(Owed, a) \o Owed[r]
  BY Owing, FlatGrows
<1>4. Owed[r] = <<Promise!Answer(r)>>
  BY DEF Owed
<1>5. PICK f \in Seq(Message), m \in Message : f = Flat(Owed, a) /\ m = Promise!Answer(r)
  BY Owing, FlatType DEF Promise!Answer, Message
<1>6. Append(f, m) = f \o <<m>>
  BY AppendIsConcat
<1> QED
  BY <1>1, <1>2, <1>3, <1>4, <1>5, <1>6

(* None is due to one that does not.                                       *)
LEMMA DueOut ==
    ASSUME NEW a \in Seq(Request), NEW r \in Request, ~r.wantReply
    PROVE  Promise!Due(Append(a, r)) = Promise!Due(a)
<1>1. PICK z \in Seq(Request) : z = Append(a, r)
  BY AppendProperties
<1>2. Promise!Due(z) = Flat(Owed, z) /\ Promise!Due(a) = Flat(Owed, a)
  BY DueIsFlat
<1>3. Flat(Owed, Append(a, r)) = Flat(Owed, a) \o Owed[r]
  BY Owing, FlatGrows
<1>4. Owed[r] = <<>>
  BY DEF Owed
<1>5. PICK f \in Seq(Message) : f = Flat(Owed, a)
  BY Owing, FlatType
<1>6. f \o <<>> = f
  BY ConcatEmptySeq
<1> QED
  BY <1>1, <1>2, <1>3, <1>4, <1>5, <1>6

(* A sequence is a prefix of every continuation of it.                     *)
LEMMA PrefixOf ==
    ASSUME NEW A, NEW s \in Seq(A), NEW u \in Seq(A)
    PROVE  Promise!IsPrefix(s, s \o u)
<1>a. s \o u \in Seq(A)
  BY ConcatProperties
<1>b. Len(s) \in Nat /\ Len(u) \in Nat
  OBVIOUS
<1>1. PICK t \in Seq(A), m \in Nat, n \in Nat : t = s \o u /\ m = Len(s) /\ n = Len(u)
  BY <1>a, <1>b, Zenon
<1>2. Len(t) = m + n /\ \A i \in 1..(m + n) : t[i] = IF i <= m THEN s[i] ELSE u[i - m]
  BY <1>1, ConcatProperties
<1>3. m <= Len(t)
  BY <1>2
<1>4. \A i \in 1..m : t[i] = s[i]
  BY <1>2
<1>5. SubSeq(s, 1, m) = SubSeq(t, 1, m)
  BY <1>1, <1>3, <1>4
<1> QED
  BY <1>1, <1>3, <1>5 DEF Promise!IsPrefix

(* What is due to the first requests is due first.                         *)
LEMMA DuePrefix ==
    ASSUME NEW a \in Seq(Request), NEW b \in Seq(Request)
    PROVE  Promise!IsPrefix(Promise!Due(a), Promise!Due(a \o b))
<1>1. PICK z \in Seq(Request) : z = a \o b
  BY ConcatProperties
<1>2. Promise!Due(z) = Flat(Owed, z) /\ Promise!Due(a) = Flat(Owed, a)
  BY DueIsFlat
<1>3. Continues(Flat(Owed, a \o b), Flat(Owed, a), Message)
  BY Owing, FlatMore
<1>4. PICK u \in Seq(Message) : Flat(Owed, a \o b) = Flat(Owed, a) \o u
  BY <1>3 DEF Continues
<1>5. Flat(Owed, a) \in Seq(Message)
  BY Owing, FlatType
<1> QED
  BY <1>1, <1>2, <1>4, <1>5, PrefixOf

(* Unread holds requests.                                                  *)
LEMMA UnreadType ==
    ASSUME NEW c, NEW q \in Seq(Packet) PROVE Unread(q, c) \in Seq(Request)
BY Taking, FlatType DEF Unread

(* Nothing is unread in an empty inbox.                                    *)
LEMMA UnreadEmpty ==
    ASSUME NEW c PROVE Unread(<<>>, c) = <<>>
BY FlatEmpty DEF Unread

(* A request that arrives is the last one unread.                          *)
LEMMA UnreadIn ==
    ASSUME NEW c, NEW q \in Seq(Packet), NEW p \in Packet, IsFor(p, c)
    PROVE  Unread(Append(q, p), c) = Unread(q, c) \o <<p.req>>
<1>1. Flat(Take(c), Append(q, p)) = Flat(Take(c), q) \o Take(c)[p]
  BY Taking, FlatGrows
<1>2. Take(c)[p] = <<p.req>>
  BY DEF Take
<1> QED
  BY <1>1, <1>2 DEF Unread

(* Another packet that arrives changes nothing.                            *)
LEMMA UnreadOut ==
    ASSUME NEW c, NEW q \in Seq(Packet), NEW p \in Packet, ~IsFor(p, c)
    PROVE  Unread(Append(q, p), c) = Unread(q, c)
<1>1. Flat(Take(c), Append(q, p)) = Flat(Take(c), q) \o Take(c)[p]
  BY Taking, FlatGrows
<1>2. Take(c)[p] = <<>>
  BY DEF Take
<1>3. PICK f \in Seq(Request) : f = Flat(Take(c), q)
  BY Taking, FlatType
<1>4. f \o <<>> = f
  BY ConcatEmptySeq
<1> QED
  BY <1>1, <1>2, <1>3, <1>4 DEF Unread

(* mux.loop reads the first request of those unread.                       *)
LEMMA UnreadFirst ==
    ASSUME NEW c, NEW q \in Seq(Packet), q # <<>>, IsFor(Head(q), c)
    PROVE  Unread(q, c) = <<Head(q).req>> \o Unread(Tail(q), c)
<1>1. PICK T : Maker(Take(c), Packet, T, Request)
  BY Taking DEF Makes
<1>2. Flat(Take(c), q) = Take(c)[Head(q)] \o Flat(Take(c), Tail(q)) /\ Head(q) \in Packet
  BY <1>1, FlatTail
<1>3. Take(c)[Head(q)] = <<Head(q).req>>
  BY <1>2 DEF Take
<1> QED
  BY <1>2, <1>3 DEF Unread

(* It reads another packet.                                                *)
LEMMA UnreadSkip ==
    ASSUME NEW c, NEW q \in Seq(Packet), q # <<>>, ~IsFor(Head(q), c)
    PROVE  Unread(Tail(q), c) = Unread(q, c)
<1>1. PICK T : Maker(Take(c), Packet, T, Request)
  BY Taking DEF Makes
<1>2. Flat(Take(c), q) = Take(c)[Head(q)] \o Flat(Take(c), Tail(q)) /\ Head(q) \in Packet
  BY <1>1, FlatTail
<1>3. Take(c)[Head(q)] = <<>>
  BY <1>2 DEF Take
<1>4. PICK f \in Seq(Request) : f = Flat(Take(c), Tail(q))
  BY <1>1, FlatTail
<1>5. <<>> \o f = f
  BY ConcatEmptySeq
<1> QED
  BY <1>2, <1>3, <1>4, <1>5 DEF Unread

-----------------------------------------------------------------------------
(* What the promise says of a conversation that grows.                     *)
Script == Report(keys, Blacklisted(keys, blacklist))

(* s opens with the confirmation, and neither is followed by another       *)
(* verdict nor closed.                                                     *)
Talking(s) ==
    /\ s # <<>> /\ s[1] = "confirm"
    /\ \A i \in DOMAIN s : i # 1 => s[i] \notin Promise!Verdicts \cup {"close"}

(* The texts x written so far, when serve is at p with td still to write,  *)
(* to a client that asked a.                                               *)
Told(x, p, td, a) ==
    /\ p = "report" => x \o td = Script
    /\ p = "agent" => x = Script
    /\ p = "x11" => x = Script \/ (Promise!Asked(a, "auth-agent-req") /\ x = Script \o <<"agentMsg">>)
    /\ p = "close" => x \in Promise!Sessions(a)

(* The texts x may be all of a session or its beginning.                   *)
Begins(x, a) == \E t \in Promise!Sessions(a) : Promise!IsPrefix(x, t)

(* The script alone is a session.                                          *)
LEMMA ScriptType == Script \in Seq(Message)
BY ReportType DEF Script

(* The warnings a client that asked a may get.                             *)
Maybe(a, ty, m) == {<<>>} \cup (IF Promise!Asked(a, ty) THEN {<<m>>} ELSE {})

(* The sessions, one warning at a time.                                    *)
LEMMA SessionsAre ==
    ASSUME NEW a, NEW x
    PROVE  x \in Promise!Sessions(a) <=> \E f \in Maybe(a, "auth-agent-req", "agentMsg"), g \in Maybe(a, "x11-req", "x11Msg") :
                                           x = Script \o f \o g
<1>1. Promise!Sessions(a) = {Script \o f \o g : f \in Maybe(a, "auth-agent-req", "agentMsg"), g \in Maybe(a, "x11-req", "x11Msg")}
  BY DEF Promise!Sessions, Script, Maybe
<1> QED
  BY <1>1

(* The texts before the second warning are a session, with it and without. *)
LEMMA SessionWith ==
    ASSUME NEW a, NEW x, Told(x, "x11", <<>>, a)
    PROVE  /\ x \in Promise!Sessions(a)
           /\ Promise!Asked(a, "x11-req") => x \o <<"x11Msg">> \in Promise!Sessions(a)
<1>1. PICK f : x = Script \o f /\ (f = <<>> \/ (f = <<"agentMsg">> /\ Promise!Asked(a, "auth-agent-req")))
  <2>1. Script = Script \o <<>>
    BY ScriptType, ConcatEmptySeq
  <2> QED
    BY <2>1 DEF Told
<1>2. f \in Seq(Message)
  <2>1. "agentMsg" \in Message
    BY DEF Message
  <2>2. <<"agentMsg">> \in Seq(Message) /\ <<>> \in Seq(Message)
    BY <2>1
  <2> QED
    BY <1>1, <2>2
<1>3. x \in Seq(Message)
  BY <1>1, <1>2, ScriptType, ConcatProperties
<1>4. x = x \o <<>>
  BY <1>3, ConcatEmptySeq
<1>5. f \in Maybe(a, "auth-agent-req", "agentMsg") /\ <<>> \in Maybe(a, "x11-req", "x11Msg")
  BY <1>1, Zenon DEF Maybe
<1>6. Promise!Asked(a, "x11-req") => <<"x11Msg">> \in Maybe(a, "x11-req", "x11Msg")
  BY Zenon DEF Maybe
<1> QED
  BY <1>1, <1>4, <1>5, <1>6, SessionsAre

(* What has been asked stays asked.                                        *)
LEMMA AskedMore ==
    ASSUME NEW a \in Seq(Request), NEW r \in Request, NEW ty, Promise!Asked(a, ty)
    PROVE  Promise!Asked(Append(a, r), ty)
<1>1. PICK i \in DOMAIN a : a[i].type = ty
  BY DEF Promise!Asked
<1>2. i \in DOMAIN Append(a, r) /\ Append(a, r)[i] = a[i]
  BY <1>1
<1> QED
  BY <1>1, <1>2 DEF Promise!Asked

(* A client that asks more may expect more.                                *)
LEMMA ToldMore ==
    ASSUME NEW a \in Seq(Request), NEW r \in Request, NEW x, NEW p, NEW td, Told(x, p, td, a)
    PROVE  Told(x, p, td, Append(a, r))
<1>1. ASSUME NEW ty, Promise!Asked(a, ty) PROVE Promise!Asked(Append(a, r), ty)
  BY <1>1, AskedMore
<1>2. Promise!Sessions(a) \subseteq Promise!Sessions(Append(a, r))
  <2>1. ASSUME NEW ty, NEW m PROVE Maybe(a, ty, m) \subseteq Maybe(Append(a, r), ty, m)
    BY <1>1, Zenon DEF Maybe
  <2>2. PICK b : b = Append(a, r)
    OBVIOUS
  <2>3. ASSUME NEW y \in Promise!Sessions(a) PROVE y \in Promise!Sessions(b)
    <3>1. PICK f \in Maybe(a, "auth-agent-req", "agentMsg"), g \in Maybe(a, "x11-req", "x11Msg") : y = Script \o f \o g
      BY SessionsAre
    <3>2. f \in Maybe(b, "auth-agent-req", "agentMsg") /\ g \in Maybe(b, "x11-req", "x11Msg")
      BY <2>1, <2>2
    <3> QED
      BY <3>1, <3>2, SessionsAre
  <2> QED
    BY <2>2, <2>3
<1> QED
  BY <1>1, <1>2 DEF Told

(* At every place, what was written is the beginning of a session.         *)
LEMMA ToldBegins ==
    ASSUME NEW a, NEW x \in Seq(Message), NEW p \in {"report", "agent", "x11", "close"}, NEW td \in Seq(Message),
           Told(x, p, td, a)
    PROVE  Begins(x, a)
<1>1. Script \in Promise!Sessions(a)
  BY SessionWith DEF Told
<1>2. Promise!IsPrefix(x, x)
  <2>1. Promise!IsPrefix(x, x \o <<>>) /\ x \o <<>> = x
    BY PrefixOf, ConcatEmptySeq, EmptySeq
  <2> QED
    BY <2>1
<1>3. CASE p = "report"
  <2>1. Promise!IsPrefix(x, x \o td) /\ x \o td = Script
    BY <1>3, PrefixOf DEF Told
  <2> QED
    BY <1>1, <2>1 DEF Begins
<1>4. CASE p = "agent"
  BY <1>1, <1>2, <1>4 DEF Begins, Told
<1>5. CASE p = "x11"
  <2>1. Told(x, "x11", <<>>, a)
    BY <1>5 DEF Told
  <2> QED
    BY <1>2, <2>1, SessionWith DEF Begins
<1>6. CASE p = "close"
  BY <1>2, <1>6 DEF Begins, Told
<1> QED
  BY <1>3, <1>4, <1>5, <1>6

(* The kinds of messages.                                                  *)
LEMMA Kinds ==
    /\ ReportMessage \cup {"agentMsg", "x11Msg"} \subseteq Promise!Text
    /\ \A m \in Promise!Text : m \in Message \ (Promise!Verdicts \cup Promise!Answers \cup {"close"})
    /\ Promise!Answers \subseteq Message \ (Promise!Text \cup Promise!Verdicts \cup {"close"})
    /\ Promise!Verdicts \subseteq Message \ (Promise!Text \cup Promise!Answers \cup {"close"})
    /\ "close" \in Message \ (Promise!Text \cup Promise!Answers \cup Promise!Verdicts)
BY DEF ReportMessage, Promise!Text, Promise!Answers, Promise!Verdicts, Message

(* A verdict fits where nothing was said.                                  *)
LEMMA FitsVerdict ==
    ASSUME NEW m \in Promise!Verdicts, NEW a \in Seq(Request), NEW h
    PROVE  Promise!Fits(Append(<<>>, m), a, h)
<1>1. m \in Message /\ m \notin Promise!Text /\ m \notin Promise!Answers /\ m # "close"
  BY Kinds
<1>2. Promise!Part(Append(<<>>, m), Promise!Text) = <<>> /\ Promise!Part(Append(<<>>, m), Promise!Answers) = <<>>
  BY <1>1, PartOut, PartEmpty, EmptySeq
<1>3. PICK z : z = Append(<<>>, m)
  OBVIOUS
<1>4. z \in Seq(Message) /\ Len(z) = 1 /\ DOMAIN z = {1} /\ z[1] = m
  BY <1>1, <1>3
<1>5. ASSUME NEW t \in Seq(Message) PROVE Promise!IsPrefix(<<>>, t)
  <2>1. Promise!IsPrefix(<<>>, <<>> \o t) /\ <<>> \o t = t
    BY PrefixOf, ConcatEmptySeq, EmptySeq
  <2> QED
    BY <2>1
<1>6. Script \in Promise!Sessions(a)
  BY SessionWith DEF Told
<1>7. Promise!Due(a) \in Seq(Message)
  BY DueIsFlat, Owing, FlatType
<1>8. \E t \in Promise!Sessions(a) : Promise!IsPrefix(<<>>, t)
  BY <1>5, <1>6, ScriptType
<1> QED
  BY <1>1, <1>2, <1>3, <1>4, <1>5, <1>7, <1>8 DEF Promise!Fits

(* What fits a conversation under way.                                     *)
LEMMA FitsMore ==
    ASSUME NEW s \in Seq(Message), Talking(s), NEW m \in Message, m \notin Promise!Verdicts,
           NEW a \in Seq(Request), NEW h,
           \/ Begins(Promise!Part(Append(s, m), Promise!Text), a) /\ (m = "close" => h)
           \/ Promise!Part(Append(s, m), Promise!Text) \in Promise!Sessions(a),
           Promise!IsPrefix(Promise!Part(Append(s, m), Promise!Answers), Promise!Due(a))
    PROVE  Promise!Fits(Append(s, m), a, h)
<1>1. PICK z \in Seq(Message) : z = Append(s, m)
  BY AppendProperties
<1>2. PICK n \in Nat : n = Len(s) /\ n # 0 /\ DOMAIN s = 1..n
  BY EmptySeq DEF Talking
<1>3. Len(z) = n + 1 /\ DOMAIN z = 1..(n + 1) /\ z[n + 1] = m /\ \A i \in 1..n : z[i] = s[i]
  BY <1>1, <1>2
<1>4. s[1] = "confirm" /\ \A i \in 1..n : i # 1 => s[i] \notin Promise!Verdicts /\ s[i] # "close"
  BY <1>2 DEF Talking
<1>5. "confirm" \in Promise!Verdicts /\ "confirm" # "close"
  BY DEF Promise!Verdicts
<1>6. z[1] = "confirm" /\ \A i \in 1..(n + 1) : i \in 1..n \/ i = n + 1
  BY <1>2, <1>3, <1>4
<1>7. \A i \in DOMAIN z : z[i] \in Promise!Verdicts <=> i = 1
  BY <1>2, <1>3, <1>4, <1>5, <1>6
<1>8. \A i \in DOMAIN z : z[i] = "close" => i = Len(z)
  BY <1>2, <1>3, <1>4, <1>5, <1>6
<1>9. \E t \in Promise!Sessions(a) : /\ Promise!IsPrefix(Promise!Part(z, Promise!Text), t)
                                     /\ z[Len(z)] = "close" => h \/ Promise!Part(z, Promise!Text) = t
  <2>1. CASE Begins(Promise!Part(z, Promise!Text), a) /\ (m = "close" => h)
    BY <1>3, <2>1 DEF Begins
  <2>2. CASE Promise!Part(z, Promise!Text) \in Promise!Sessions(a)
    <3>1. PICK x \in Seq(Message) : x = Promise!Part(z, Promise!Text)
      BY PartType
    <3>2. Promise!IsPrefix(x, x \o <<>>) /\ x \o <<>> = x
      BY PrefixOf, ConcatEmptySeq, EmptySeq
    <3> QED
      BY <2>2, <3>1, <3>2
  <2> QED
    BY <1>1, <2>1, <2>2
<1> QED
  BY <1>1, <1>6, <1>7, <1>8, <1>9 DEF Promise!Fits

-----------------------------------------------------------------------------
(* The invariant of the refinement.                                        *)

(* The marked keys are those on the blacklist.                             *)
Marking == marked \subseteq Blacklisted(keys, blacklist)

(* Requests and closes are for accepted channels.                          *)
Watched == \A c \in Chan : gpc[c] # "off" \/ c \in clientClosed => timer[c] # "off"

(* A flag is set only if the client asked on this channel.                 *)
FlagsAsked ==
    \A c \in Chan :
        /\ agentFwd[c] \/ published[c].agentFwd => Promise!Asked(asked[c], "auth-agent-req")
        /\ x11[c] \/ published[c].x11 => Promise!Asked(asked[c], "x11-req")

(* Nothing has been written on a channel that serve has still to decide on *)
(* or that mux.loop has still to queue or refuse.                          *)
Settled(c) ==
    /\ c <= opened
    /\ \A i \in DOMAIN inbox : inbox[i].t = "open" => c # inbox[i].ch
    /\ \A i \in DOMAIN incomingChannels : c # incomingChannels[i]
    /\ pc = "decide" => c # cur

Fresh == \A c \in Chan : out[c] # <<>> => Settled(c)

(* What is written on c gets out.                                          *)
Live(c) == ~sentClose[c] /\ ~gone

(* Of the accepted channels only the one serve works on is live, and what  *)
(* has been written on it is what serve has written up to here.            *)
Serving == pc \in {"report", "agent", "x11", "close"}
ToldOn(c) == Told(Promise!Part(out[c], Promise!Text), pc, todo, asked[c])
Talk ==
    \A c \in Chan : timer[c] # "off" /\ Live(c) => c = cur /\ Serving /\ Talking(out[c]) /\ ToldOn(c)

(* The requests of a live channel that have not been answered: the one the *)
(* request goroutine handles, those queued for it, those not read yet.     *)
Pending(c) == IF gpc[c] \in {"unlock", "reply"} THEN <<greq[c]>> ELSE <<>>
Queue(c) == Pending(c) \o (reqs[c] \o Unread(inbox, c))

(* The requests before those have been answered, in order.                 *)
Replied(c, done) ==
    asked[c] = done \o Queue(c) /\ Promise!Part(out[c], Promise!Answers) = Promise!Due(done)
Answered == \A c \in Chan : Live(c) => \E done \in Seq(Request) : Replied(c, done)

PromiseInv == WarnInv /\ Marking /\ Watched /\ FlagsAsked /\ Fresh /\ Talk /\ Answered

-----------------------------------------------------------------------------
(* Who writes what.                                                        *)
Speaks(c, m) ==
    \/ m = "openfail" /\ LoopStep /\ handleChannelOpen /\ c = Head(inbox).ch
    \/ m = "reject" /\ RejectChannel /\ c = cur
    \/ m = "confirm" /\ AcceptChannel /\ c = cur
    \/ m = Head(todo) /\ m \in ReportMessage /\ WriteReport /\ c = cur
    \/ m = "agentMsg" /\ WarnAgent /\ c = cur /\ (published[cur].agentFwd \/ agentFwd[cur])
    \/ m = "x11Msg" /\ WarnX11 /\ c = cur /\ (published[cur].x11 \/ x11[cur])
    \/ m = "close" /\ CloseChannel /\ c = cur
    \/ m = "close" /\ LoopStep /\ handleClose /\ c = Head(inbox).ch /\ c \in clientClosed
    \/ ReplyRequest(c) /\ greq[c].wantReply /\ m = Promise!Answer(greq[c])

(* Every packet that is written has such a writer.                         *)
LEMMA Writers ==
    ASSUME TypeOK, Reporting, Sent, [Next]_vars, ~UNCHANGED out
    PROVE  \E c \in Chan, m \in Message : Send(c, m) /\ Speaks(c, m)
<1> DEFINE Goal == \E c \in Chan, m \in Message : Send(c, m) /\ Speaks(c, m)
<1>1. MuxTypeOK /\ cur \in Chan /\ inbox \in Seq(Packet)
  BY DEF TypeOK, ServeTypeOK, MuxTypeOK
<1>2. ASSUME NEW c \in Chan, NEW m \in Message, Send(c, m), Speaks(c, m) PROVE Goal
  BY <1>2 DEF Goal
<1>m. {"openfail", "reject", "confirm", "close", "success", "failure", "agentMsg", "x11Msg"} \cup ReportMessage \subseteq Message
  BY DEF Message, ReportMessage
<1>3. CASE ClientStep
  BY <1>3 DEF ClientStep, Client, ClientOpen, ClientRequest, ClientAdjust, ClientClose, ClientGlobal, ClientQuit
<1>4. CASE LoopStep
  <2>1. CASE handleChannelOpen
    <3>1. Head(inbox).ch \in Chan
      BY <1>1, <2>1, ReadingType DEF handleChannelOpen
    <3>2. Send(Head(inbox).ch, "openfail")
      BY <2>1 DEF handleChannelOpen
    <3> QED
      BY <1>2, <1>4, <1>m, <2>1, <3>1, <3>2 DEF Speaks
  <2>2. CASE handleClose
    <3>1. PICK c \in Chan : c = Head(inbox).ch
      BY <1>1, <2>2, ReadingType DEF handleClose
    <3>2. Send(c, "close") /\ inbox # <<>> /\ Head(inbox).t = "close"
      BY <2>2, <3>1 DEF handleClose, SendClose, Reading
    <3>3. 1 \in DOMAIN inbox /\ Head(inbox) = inbox[1]
      BY <1>1, <3>2, TailAt
    <3>4. c \in clientClosed
      BY <3>1, <3>2, <3>3 DEF Sent, Backed
    <3> QED
      BY <1>2, <1>4, <1>m, <2>2, <3>1, <3>2, <3>4 DEF Speaks
  <2> QED
    BY <1>4, <2>1, <2>2 DEF LoopStep, Loop, handleGlobalPacket, handleRequest, handleAdjust, loopFails, loopExits,
          closeRequests, closeWindow
<1>5. CASE ServeStep
  <2>1. CASE AcceptChannel
    <3>1. Send(cur, "confirm")
      BY <2>1 DEF AcceptChannel, Accept
    <3> QED
      BY <1>1, <1>2, <1>m, <2>1, <3>1 DEF Speaks
  <2>2. CASE CloseChannel
    <3>1. Send(cur, "close")
      BY <2>2 DEF CloseChannel, SendClose
    <3> QED
      BY <1>1, <1>2, <1>m, <2>2, <3>1 DEF Speaks
  <2>3. CASE WriteReport
    <3>1. Send(cur, Head(todo)) /\ Head(todo) \in ReportMessage
      BY <2>3 DEF WriteReport, Write, Reporting
    <3> QED
      BY <1>1, <1>2, <1>m, <2>3, <3>1 DEF Speaks
  <2>4. CASE RejectChannel
    <3>1. Send(cur, "reject")
      BY <2>4 DEF RejectChannel, Reject
    <3> QED
      BY <1>1, <1>2, <1>m, <2>4, <3>1 DEF Speaks
  <2>5. CASE WarnAgent
    <3>1. Send(cur, "agentMsg") /\ (published[cur].agentFwd \/ agentFwd[cur])
      BY <2>5, Zenon DEF WarnAgent, Warn, Write
    <3> QED
      BY <1>1, <1>2, <1>m, <2>5, <3>1 DEF Speaks
  <2>6. CASE WarnX11
    <3>1. Send(cur, "x11Msg") /\ (published[cur].x11 \/ x11[cur])
      BY <2>6, Zenon DEF WarnX11, Warn, Write
    <3> QED
      BY <1>1, <1>2, <1>m, <2>6, <3>1 DEF Speaks
  <2>7. CASE NextChannel \/ AcceptFails \/ LockReq \/ Return
    BY <2>7 DEF NextChannel, AcceptFails, LockReq, Return, muxVars
  <2> QED
    BY <1>5, <2>1, <2>2, <2>3, <2>4, <2>5, <2>6, <2>7 DEF ServeStep
<1>6. ASSUME NEW c \in Chan, RequestStep(c) PROVE Goal
  <2>1. CASE ReplyRequest(c)
    <3>1. greq[c].wantReply /\ Reply(c, Granted(greq[c]))
      BY <2>1, Zenon DEF ReplyRequest
    <3>2. Send(c, Promise!Answer(greq[c])) /\ Promise!Answer(greq[c]) \in {"success", "failure"}
      BY <3>1 DEF Reply, Granted, Promise!Answer
    <3> QED
      BY <1>2, <1>m, <2>1, <3>1, <3>2 DEF Speaks
  <2> QED
    BY <1>6, <2>1 DEF RequestStep, HandleRequest, UnlockReq, RequestsEnd, muxVars
<1>7. ASSUME NEW c \in Chan, TimerExpires(c) \/ TimerFunc(c) PROVE Goal
  BY <1>7 DEF TimerExpires, TimerFunc, muxVars
<1>8. CASE DiscardRequest
  <2>1. UNCHANGED out
    BY <1>8, Zenon DEF DiscardRequest
  <2> QED
    BY <2>1
<1>9. CASE Terminated \/ UNCHANGED vars
  <2>1. UNCHANGED muxVars
    BY <1>9 DEF Terminated, vars
  <2> QED
    BY <2>1 DEF muxVars
<1> QED
  BY <1>3, <1>4, <1>5, <1>6, <1>7, <1>8, <1>9 DEF Next, Goal

(* The client's own steps in the conversation.                             *)
LEMMA Parties ==
    ASSUME [Next]_vars
    PROVE  \/ UNCHANGED <<asked, clientClosed>>
           \/ \E c \in Chan, req \in Requests : ClientRequest(c, req) /\ UNCHANGED <<serveVars, lockVars>>
           \/ \E c \in Chan : ClientClose(c) /\ UNCHANGED <<serveVars, lockVars>>
<1>1. CASE ClientStep
  BY <1>1 DEF ClientStep, Client, ClientOpen, ClientAdjust, ClientGlobal, ClientQuit, clientVars
<1>2. CASE LoopStep
  BY <1>2 DEF LoopStep, Loop, handleChannelOpen, handleGlobalPacket, handleRequest, handleAdjust, handleClose, loopFails,
        loopExits, closeRequests, closeWindow, clientVars
<1>3. CASE ServeStep
  BY <1>3 DEF ServeStep, NextChannel, RejectChannel, AcceptFails, AcceptChannel, WriteReport, LockReq, WarnAgent, WarnX11,
        Warn, CloseChannel, Return, loopVars, clientVars, muxVars
<1>4. ASSUME NEW c \in Chan, RequestStep(c) \/ TimerExpires(c) \/ TimerFunc(c) PROVE UNCHANGED <<asked, clientClosed>>
  BY <1>4 DEF RequestStep, HandleRequest, UnlockReq, ReplyRequest, RequestsEnd, TimerExpires, TimerFunc, loopVars,
        clientVars, muxVars
<1>5. CASE DiscardRequest
  <2>1. UNCHANGED loopVars
    BY <1>5, Zenon DEF DiscardRequest
  <2> QED
    BY <2>1 DEF loopVars, clientVars
<1>6. CASE Terminated \/ UNCHANGED vars
  BY <1>6 DEF Terminated, vars, loopVars, clientVars, muxVars
<1> QED
  BY <1>1, <1>2, <1>3, <1>4, <1>5, <1>6 DEF Next

(* Only serve moves serve.                                                 *)
LEMMA ServeMoves ==
    ASSUME [Next]_vars PROVE ServeStep \/ UNCHANGED serveVars
<1>1. CASE ClientStep \/ LoopStep \/ Terminated \/ UNCHANGED vars
  BY <1>1 DEF ClientStep, LoopStep, Terminated, vars
<1>2. ASSUME NEW c \in Chan, RequestStep(c) \/ TimerExpires(c) \/ TimerFunc(c) PROVE UNCHANGED serveVars
  BY <1>2 DEF RequestStep, HandleRequest, UnlockReq, ReplyRequest, RequestsEnd, TimerExpires, TimerFunc
<1>3. CASE DiscardRequest
  BY <1>3, Zenon DEF DiscardRequest
<1> QED
  BY <1>1, <1>2, <1>3 DEF Next

(* Every step keeps the marks.                                             *)
LEMMA MarkingKept ==
    ASSUME Marking, [Next]_vars PROVE Marking'
<1>1. CASE UNCHANGED serveVars
  BY <1>1 DEF Marking, serveVars
<1>2. CASE AcceptChannel
  BY <1>2 DEF Marking, AcceptChannel
<1>3. CASE ServeStep /\ ~AcceptChannel
  <2>1. UNCHANGED marked
    BY <1>3 DEF ServeStep, NextChannel, RejectChannel, AcceptFails, WriteReport, LockReq, WarnAgent, WarnX11, Warn,
          CloseChannel, Return
  <2> QED
    BY <2>1 DEF Marking
<1> QED
  BY <1>1, <1>2, <1>3, ServeMoves

(* The timer of a channel, once created, is there.                         *)
LEMMA TimerStays ==
    ASSUME TypeOK, InOrder, [Next]_vars, NEW c \in Chan
    PROVE  (timer[c] # "off" => timer'[c] # "off") /\ (timer[c] = "off" /\ timer'[c] # "off" => AcceptChannel /\ c = cur)
BY TimerSteps

(* The request goroutine of a channel starts with its timer.               *)
LEMMA WatchSteps ==
    ASSUME TypeOK, [Next]_vars, NEW c \in Chan, gpc[c] = "off", gpc'[c] # "off"
    PROVE  AcceptChannel /\ c = cur
<1>1. gpc \in [Chan -> {"off", "recv", "unlock", "reply", "end"}] /\ cur \in Chan
  BY DEF TypeOK, ServeTypeOK
<1>2. CASE AcceptChannel
  <2>1. gpc' = [gpc EXCEPT ![cur] = "recv"]
    BY <1>2 DEF AcceptChannel
  <2> QED
    BY <1>1, <1>2, <2>1
<1>3. CASE ServeStep /\ ~AcceptChannel
  BY <1>3 DEF ServeStep, NextChannel, RejectChannel, AcceptFails, WriteReport, LockReq, WarnAgent, WarnX11, Warn,
        CloseChannel, Return, lockVars
<1>4. ASSUME NEW d \in Chan, RequestStep(d) PROVE FALSE
  <2>1. PICK v : gpc' = [gpc EXCEPT ![d] = v] /\ gpc[d] # "off"
    BY <1>4 DEF RequestStep, HandleRequest, UnlockReq, ReplyRequest, RequestsEnd
  <2> QED
    BY <1>1, <2>1
<1>5. ASSUME NEW d \in Chan, TimerExpires(d) \/ TimerFunc(d) PROVE FALSE
  BY <1>5 DEF TimerExpires, TimerFunc
<1>6. CASE ClientStep \/ LoopStep \/ Terminated \/ UNCHANGED vars
  BY <1>6 DEF ClientStep, LoopStep, Terminated, vars, lockVars
<1>7. CASE DiscardRequest
  <2>1. UNCHANGED lockVars
    BY <1>7, Zenon DEF DiscardRequest
  <2> QED
    BY <2>1 DEF lockVars
<1> QED
  BY <1>2, <1>3, <1>4, <1>5, <1>6, <1>7 DEF Next

(* Every step keeps requests and closes to accepted channels.              *)
LEMMA WatchedKept ==
    ASSUME TypeOK, InOrder, Unasked, Watched, [Next]_vars PROVE Watched'
<1> SUFFICES ASSUME NEW c \in Chan, gpc'[c] # "off" \/ c \in clientClosed' PROVE timer'[c] # "off"
  BY DEF Watched
<1>1. CASE gpc[c] # "off" \/ c \in clientClosed
  BY <1>1, TimerStays DEF Watched
<1>2. CASE gpc[c] = "off" /\ gpc'[c] # "off"
  <2>1. AcceptChannel /\ c = cur
    BY <1>2, WatchSteps
  <2>2. timer' = [timer EXCEPT ![cur] = "armed"] /\ timer \in [Chan -> {"off", "armed", "expired", "ran", "stopped"}]
    BY <2>1 DEF AcceptChannel, AfterFunc, TypeOK, ServeTypeOK
  <2> QED
    BY <2>1, <2>2
<1>3. CASE c \notin clientClosed /\ c \in clientClosed'
  <2>1. ASSUME NEW d \in Chan, NEW r \in Requests, ClientRequest(d, r) PROVE FALSE
    BY <1>3, <2>1 DEF ClientRequest
  <2>2. PICK d \in Chan : ClientClose(d)
    BY <1>3, <2>1, Parties
  <2>3. d = c /\ Contains(out[c], "confirm")
    BY <1>3, <2>2 DEF ClientClose, Confirmed
  <2> QED
    BY <2>3, TimerStays DEF Unasked
<1> QED
  BY <1>1, <1>2, <1>3

(* What the client has asked it has asked.                                 *)
LEMMA AskedStays ==
    ASSUME TypeOK, [Next]_vars, NEW c \in Chan, NEW ty, Promise!Asked(asked[c], ty)
    PROVE  Promise!Asked(asked'[c], ty)
<1>1. asked \in [Chan -> Seq(Request)] /\ Requests \subseteq Request
  BY ClientAssumption DEF TypeOK, MuxTypeOK
<1>2. ASSUME NEW d \in Chan, NEW r \in Requests, ClientRequest(d, r) PROVE Promise!Asked(asked'[c], ty)
  <2>1. asked' = [asked EXCEPT ![d] = Append(@, r)]
    BY <1>2 DEF ClientRequest
  <2>2. PICK a \in Seq(Request) : a = asked[c]
    BY <1>1
  <2>3. Promise!Asked(Append(a, r), ty)
    BY <1>1, <2>2, AskedMore
  <2> QED
    BY <1>1, <2>1, <2>2, <2>3
<1> QED
  BY <1>2, AskedSteps

(* Who sets the flags, and which flags are published.                      *)
LEMMA FlagRises ==
    ASSUME TypeOK, [Next]_vars, NEW c \in Chan
    PROVE  /\ agentFwd'[c] => agentFwd[c] \/ (HandleRequest(c) /\ Head(reqs[c]).type = "auth-agent-req")
           /\ x11'[c] => x11[c] \/ (HandleRequest(c) /\ Head(reqs[c]).type = "x11-req")
           /\ published'[c].agentFwd => published[c].agentFwd \/ agentFwd[c]
           /\ published'[c].x11 => published[c].x11 \/ x11[c]
<1> DEFINE Goal == /\ agentFwd'[c] => agentFwd[c] \/ (HandleRequest(c) /\ Head(reqs[c]).type = "auth-agent-req")
                   /\ x11'[c] => x11[c] \/ (HandleRequest(c) /\ Head(reqs[c]).type = "x11-req")
                   /\ published'[c].agentFwd => published[c].agentFwd \/ agentFwd[c]
                   /\ published'[c].x11 => published[c].x11 \/ x11[c]
<1>1. /\ agentFwd \in [Chan -> BOOLEAN] /\ x11 \in [Chan -> BOOLEAN]
      /\ published \in [Chan -> Flags] /\ cur \in Chan
  BY DEF TypeOK, ServeTypeOK
<1>2. ASSUME agentFwd'[c] = agentFwd[c], x11'[c] = x11[c], published'[c] = published[c] PROVE Goal
  BY <1>2
<1>3. ASSUME UNCHANGED lockVars PROVE Goal
  BY <1>2, <1>3 DEF lockVars
<1>4. CASE ServeStep
  <2>1. CASE AcceptChannel
    <3>1. CASE c # cur
      <4>1. agentFwd'[c] = agentFwd[c] /\ x11'[c] = x11[c] /\ published'[c] = published[c]
        BY <1>1, <2>1, <3>1 DEF AcceptChannel
      <4> QED
        BY <1>2, <4>1
    <3>2. CASE c = cur
      <4>1. /\ agentFwd' = [agentFwd EXCEPT ![c] = FALSE] /\ x11' = [x11 EXCEPT ![c] = FALSE]
            /\ published' = [published EXCEPT ![c] = [agentFwd |-> FALSE, x11 |-> FALSE]]
        BY <2>1, <3>2 DEF AcceptChannel
      <4>2. published'[c] = [agentFwd |-> FALSE, x11 |-> FALSE]
        BY <1>1, <4>1, Zenon
      <4>3. agentFwd'[c] = FALSE /\ x11'[c] = FALSE
        BY <1>1, <4>1, Zenon
      <4>4. published'[c].agentFwd = FALSE /\ published'[c].x11 = FALSE
        BY <4>2
      <4> QED
        BY <4>3, <4>4, Zenon
    <3> QED
      BY <3>1, <3>2
  <2>2. CASE LockReq
    BY <1>2, <2>2 DEF LockReq
  <2> QED
    BY <1>3, <1>4, <2>1, <2>2 DEF ServeStep, NextChannel, RejectChannel, AcceptFails, WriteReport, WarnAgent, WarnX11,
          Warn, CloseChannel, Return
<1>5. ASSUME NEW d \in Chan, RequestStep(d) PROVE Goal
  <2>1. CASE HandleRequest(d)
    <3>1. /\ agentFwd' = [agentFwd EXCEPT ![d] = @ \/ Head(reqs[d]).type = "auth-agent-req"]
          /\ x11' = [x11 EXCEPT ![d] = @ \/ Head(reqs[d]).type = "x11-req"]
          /\ UNCHANGED published
      BY <2>1, Zenon DEF HandleRequest
    <3>2. CASE d = c
      <4>1. /\ agentFwd'[c] = (agentFwd[c] \/ Head(reqs[c]).type = "auth-agent-req")
            /\ x11'[c] = (x11[c] \/ Head(reqs[c]).type = "x11-req")
        BY <1>1, <3>1, <3>2, Zenon
      <4>2. HandleRequest(c)
        BY <2>1, <3>2
      <4> QED
        BY <3>1, <4>1, <4>2, Zenon
    <3>3. CASE d # c
      <4>1. agentFwd'[c] = agentFwd[c] /\ x11'[c] = x11[c]
        BY <1>1, <3>1, <3>3, Zenon
      <4> QED
        BY <1>2, <3>1, <4>1
    <3> QED
      BY <3>2, <3>3
  <2>2. CASE UnlockReq(d)
    <3>1. published' = [published EXCEPT ![d] = [agentFwd |-> agentFwd[d], x11 |-> x11[d]]] /\ UNCHANGED <<agentFwd, x11>>
      BY <2>2 DEF UnlockReq
    <3>2. CASE d = c
      <4>1. published'[c] = [agentFwd |-> agentFwd[c], x11 |-> x11[c]]
        BY <1>1, <3>1, <3>2, Zenon
      <4>2. published'[c].agentFwd = agentFwd[c] /\ published'[c].x11 = x11[c]
        BY <4>1
      <4> QED
        BY <3>1, <4>2, Zenon
    <3>3. CASE d # c
      <4>1. published'[c] = published[c]
        BY <1>1, <3>1, <3>3, Zenon
      <4> QED
        BY <1>2, <3>1, <4>1
    <3> QED
      BY <3>2, <3>3
  <2>3. CASE ReplyRequest(d) \/ RequestsEnd(d)
    BY <1>2, <2>3 DEF ReplyRequest, RequestsEnd
  <2> QED
    BY <1>5, <2>1, <2>2, <2>3 DEF RequestStep
<1>6. ASSUME NEW d \in Chan, TimerExpires(d) \/ TimerFunc(d) PROVE Goal
  BY <1>2, <1>6 DEF TimerExpires, TimerFunc
<1>7. CASE ClientStep \/ LoopStep \/ Terminated \/ UNCHANGED vars
  BY <1>3, <1>7 DEF ClientStep, LoopStep, Terminated, vars
<1>8. CASE DiscardRequest
  BY <1>3, <1>8, Zenon DEF DiscardRequest
<1> QED
  BY <1>4, <1>5, <1>6, <1>7, <1>8 DEF Next

(* Every step keeps the flags to what was asked.                           *)
LEMMA FlagsKept ==
    ASSUME TypeOK, Sent, FlagsAsked, [Next]_vars PROVE FlagsAsked'
<1> SUFFICES ASSUME NEW c \in Chan
             PROVE  /\ agentFwd'[c] \/ published'[c].agentFwd => Promise!Asked(asked'[c], "auth-agent-req")
                    /\ x11'[c] \/ published'[c].x11 => Promise!Asked(asked'[c], "x11-req")
  BY DEF FlagsAsked
<1>1. ASSUME NEW ty, HandleRequest(c), Head(reqs[c]).type = ty PROVE Promise!Asked(asked[c], ty)
  <2>1. PICK s \in Seq(Request) : s = reqs[c] /\ s # <<>>
    BY <1>1 DEF HandleRequest, TypeOK, MuxTypeOK
  <2>2. 1 \in DOMAIN s /\ Head(s) = s[1]
    BY <2>1, TailAt
  <2>3. Asked(c, s[1])
    BY <2>1, <2>2 DEF Sent
  <2> QED
    BY <1>1, <2>1, <2>2, <2>3 DEF Asked, Promise!Asked
<1>2. agentFwd[c] \/ published[c].agentFwd => Promise!Asked(asked[c], "auth-agent-req")
  BY DEF FlagsAsked
<1>3. x11[c] \/ published[c].x11 => Promise!Asked(asked[c], "x11-req")
  BY DEF FlagsAsked
<1>4. agentFwd'[c] \/ published'[c].agentFwd => Promise!Asked(asked[c], "auth-agent-req")
  BY <1>1, <1>2, FlagRises
<1>5. x11'[c] \/ published'[c].x11 => Promise!Asked(asked[c], "x11-req")
  BY <1>1, <1>3, FlagRises
<1> QED
  BY <1>4, <1>5, AskedStays

(* A channel that is settled stays so.                                     *)
LEMMA SettledStays ==
    ASSUME TypeOK, [Next]_vars, NEW c \in Chan, Settled(c) PROVE Settled(c)'
<1>1. /\ inbox \in Seq(Packet) /\ incomingChannels \in Seq(Chan) /\ opened \in Nat
      /\ c \in Nat /\ MuxTypeOK
  BY DEF TypeOK, MuxTypeOK, Chan
<1>2. /\ c <= opened /\ \A i \in DOMAIN inbox : inbox[i].t = "open" => c # inbox[i].ch
      /\ \A i \in DOMAIN incomingChannels : c # incomingChannels[i]
      /\ pc = "decide" => c # cur
  BY DEF Settled
<1>3. ASSUME UNCHANGED <<opened, inbox, incomingChannels>>, pc' = "decide" => pc = "decide" /\ cur' = cur PROVE Settled(c)'
  BY <1>2, <1>3 DEF Settled
<1>4. CASE ClientStep
  <2>1. UNCHANGED <<pc, cur, incomingChannels>>
    BY <1>4 DEF ClientStep, Client, ClientOpen, ClientRequest, ClientAdjust, ClientClose, ClientGlobal, ClientQuit, serveVars
  <2>2. PICK p : inbox' = Append(inbox, p) /\ ((p.t # "open" /\ opened' = opened) \/ (p.ch = opened + 1 /\ opened' = opened + 1))
    <3>1. ASSUME NEW f, ClientOpen(f) PROVE \E p : inbox' = Append(inbox, p) /\ p.ch = opened + 1 /\ opened' = opened + 1
      BY <3>1 DEF ClientOpen, ClientSends
    <3>2. ASSUME NEW d \in Chan, NEW r, ClientRequest(d, r) PROVE \E p : inbox' = Append(inbox, p) /\ p.t # "open" /\ opened' = opened
      BY <3>2 DEF ClientRequest, ClientSends
    <3>3. ASSUME NEW d \in Chan, ClientAdjust(d) \/ ClientClose(d) PROVE \E p : inbox' = Append(inbox, p) /\ p.t # "open" /\ opened' = opened
      BY <3>3 DEF ClientAdjust, ClientClose, ClientSends
    <3>4. ASSUME NEW b \in BOOLEAN, ClientGlobal(b) \/ ClientQuit(b) PROVE \E p : inbox' = Append(inbox, p) /\ p.t # "open" /\ opened' = opened
      BY <3>4 DEF ClientGlobal, ClientQuit, ClientSends, clientVars
    <3> QED
      BY <1>4, <3>1, <3>2, <3>3, <3>4 DEF ClientStep, Client
  <2>3. c <= opened' /\ (p.t = "open" => c # p.ch)
    BY <1>1, <1>2, <2>2
  <2>4. \A i \in DOMAIN inbox' : (i \in DOMAIN inbox /\ inbox'[i] = inbox[i]) \/ inbox'[i] = p
    BY <1>1, <2>2, AppendAt
  <2> QED
    BY <1>2, <2>1, <2>3, <2>4 DEF Settled
<1>5. CASE LoopStep
  <2>1. UNCHANGED <<pc, cur, opened>>
    BY <1>5 DEF LoopStep, Loop, handleChannelOpen, handleGlobalPacket, handleRequest, handleAdjust, handleClose, loopFails,
        loopExits, closeRequests, closeWindow, clientVars, serveVars
  <2>2. ASSUME inbox # <<>>, inbox' = Tail(inbox),
               UNCHANGED incomingChannels
                 \/ (Head(inbox).t = "open" /\ incomingChannels' = Append(incomingChannels, Head(inbox).ch))
        PROVE  Settled(c)'
    <3>1. 1 \in DOMAIN inbox /\ Head(inbox) = inbox[1] /\ \A i \in DOMAIN inbox' : i + 1 \in DOMAIN inbox /\ inbox'[i] = inbox[i + 1]
      BY <1>1, <2>2, TailAt
    <3>2. \A i \in DOMAIN incomingChannels' : c # incomingChannels'[i]
      <4>1. CASE UNCHANGED incomingChannels
        BY <1>2, <4>1
      <4>2. CASE Head(inbox).t = "open" /\ incomingChannels' = Append(incomingChannels, Head(inbox).ch)
        <5>1. c # Head(inbox).ch
          BY <1>2, <3>1, <4>2
        <5>2. \A i \in DOMAIN incomingChannels' :
                 (i \in DOMAIN incomingChannels /\ incomingChannels'[i] = incomingChannels[i]) \/ incomingChannels'[i] = Head(inbox).ch
          BY <1>1, <4>2, AppendAt
        <5> QED
          BY <1>2, <5>1, <5>2
      <4> QED
        BY <2>2, <4>1, <4>2
    <3> QED
      BY <1>2, <2>1, <3>1, <3>2 DEF Settled
  <2>3. CASE handleChannelOpen
    <3>1. inbox # <<>> /\ inbox' = Tail(inbox) /\ Head(inbox).t = "open"
      BY <2>3 DEF handleChannelOpen, Reading
    <3>2. UNCHANGED incomingChannels \/ incomingChannels' = Append(incomingChannels, Head(inbox).ch)
      BY <2>3 DEF handleChannelOpen
    <3> QED
      BY <2>2, <3>1, <3>2
  <2>4. CASE handleGlobalPacket \/ handleRequest \/ handleAdjust \/ handleClose \/ loopFails
    BY <2>2, <2>4 DEF handleGlobalPacket, handleRequest, handleAdjust, handleClose, loopFails, Reading
  <2>5. CASE loopExits \/ \E d \in Chan : closeRequests(d) \/ closeWindow(d)
    <3>1. UNCHANGED <<inbox, incomingChannels>>
      BY <2>5 DEF loopExits, closeRequests, closeWindow
    <3> QED
      BY <1>3, <2>1, <3>1
  <2> QED
    BY <1>5, <2>3, <2>4, <2>5 DEF LoopStep, Loop
<1>6. CASE ServeStep
  <2>1. CASE NextChannel
    <3>1. /\ incomingChannels # <<>> /\ incomingChannels' = Tail(incomingChannels) /\ cur' = Head(incomingChannels)
          /\ UNCHANGED <<opened, inbox>>
      BY <2>1 DEF NextChannel, loopVars, clientVars
    <3>2. /\ 1 \in DOMAIN incomingChannels /\ Head(incomingChannels) = incomingChannels[1]
          /\ \A i \in DOMAIN incomingChannels' : i + 1 \in DOMAIN incomingChannels /\ incomingChannels'[i] = incomingChannels[i + 1]
      BY <1>1, <3>1, TailAt
    <3> QED
      BY <1>2, <3>1, <3>2 DEF Settled
  <2>2. CASE ~NextChannel
    <3>1. UNCHANGED <<opened, inbox, incomingChannels>> /\ pc' # "decide"
      BY <1>6, <2>2 DEF ServeStep, RejectChannel, AcceptFails, AcceptChannel, WriteReport, LockReq, WarnAgent, WarnX11,
            Warn, CloseChannel, Return, loopVars, clientVars, muxVars
    <3> QED
      BY <1>3, <3>1
  <2> QED
    BY <2>1, <2>2
<1>7. ASSUME NEW d \in Chan, RequestStep(d) \/ TimerExpires(d) \/ TimerFunc(d) PROVE Settled(c)'
  <2>1. UNCHANGED <<opened, inbox, incomingChannels, pc, cur>>
    BY <1>7 DEF RequestStep, HandleRequest, UnlockReq, ReplyRequest, RequestsEnd, TimerExpires, TimerFunc, serveVars,
          loopVars, clientVars, muxVars
  <2> QED
    BY <1>3, <2>1
<1>8. CASE DiscardRequest
  <2>1. UNCHANGED <<serveVars, loopVars, incomingChannels>>
    BY <1>8, Zenon DEF DiscardRequest
  <2> QED
    BY <1>3, <2>1 DEF serveVars, loopVars, clientVars
<1>9. CASE Terminated \/ UNCHANGED vars
  BY <1>3, <1>9 DEF Terminated, vars, serveVars, loopVars, clientVars, muxVars
<1> QED
  BY <1>4, <1>5, <1>6, <1>7, <1>8, <1>9 DEF Next

(* A channel with a timer is settled.                                      *)
LEMMA TimerSettled ==
    ASSUME InOrder, NEW c \in Chan, cur \in Chan, timer[c] # "off" PROVE Settled(c)
<1>1. Before(c) /\ (pc = "decide" => c < cur)
  BY DEF InOrder
<1>2. \A d \in Chan : ~(d < d)
  BY DEF Chan
<1> QED
  BY <1>1, <1>2 DEF Before, Settled

(* A verdict is the first thing written on its channel, and settles it;    *)
(* everything else is written on accepted channels.                        *)
LEMMA Spoken ==
    ASSUME TypeOK, InOrder, HasTimer, Watched, Fresh, ~UNCHANGED out,
           NEW c \in Chan, NEW m \in Message, Send(c, m), Speaks(c, m)
    PROVE  /\ Live(c) /\ out' = [out EXCEPT ![c] = Append(@, m)]
           /\ \/ m \in Promise!Verdicts /\ out[c] = <<>> /\ Settled(c)'
              \/ m \notin Promise!Verdicts /\ timer[c] # "off"
<1>1. Live(c) /\ out' = [out EXCEPT ![c] = Append(@, m)]
  BY DEF Send, Live
<1>2. cur \in Chan /\ inbox \in Seq(Packet) /\ \A d \in Chan : ~(d < d)
  BY DEF TypeOK, MuxTypeOK, ServeTypeOK, Chan
<1>3. {"openfail", "reject", "confirm"} \subseteq Promise!Verdicts
  BY DEF Promise!Verdicts
<1>4. CASE m = "openfail" /\ LoopStep /\ handleChannelOpen /\ c = Head(inbox).ch
  <2>1. UNCHANGED <<pc, cur, opened, incomingChannels>>
    BY <1>4 DEF LoopStep, handleChannelOpen, serveVars, clientVars
  <2>2. inbox # <<>> /\ inbox' = Tail(inbox) /\ Head(inbox).t = "open"
    BY <1>4 DEF handleChannelOpen, Reading
  <2>3. 1 \in DOMAIN inbox /\ Head(inbox) = inbox[1] /\ \A i \in DOMAIN inbox' : i \in Nat /\ i + 1 \in DOMAIN inbox /\ inbox'[i] = inbox[i + 1]
    BY <1>2, <2>2, TailAt
  <2>4. inbox[1].t = "open" /\ inbox[1].ch = c
    BY <1>4, <2>2, <2>3
  <2>5. out[c] = <<>>
    BY <2>3, <2>4 DEF Fresh, Settled
  <2>6. c <= opened /\ \A j \in DOMAIN inbox : 1 < j /\ inbox[j].t = "open" => c < inbox[j].ch
    BY <2>3, <2>4 DEF InOrder
  <2>7. \A i \in DOMAIN inbox' : 1 < i + 1
    <3>1. DOMAIN inbox' = 1..Len(inbox')
      BY <1>2, <2>2
    <3> QED
      BY <3>1
  <2>8. \A i \in DOMAIN inbox' : inbox'[i].t = "open" => c # inbox'[i].ch
    BY <1>2, <2>3, <2>6, <2>7
  <2>9. \A i \in DOMAIN incomingChannels : incomingChannels[i] < c
    BY <2>3, <2>4 DEF InOrder
  <2>10. pc = "decide" => cur < c
    BY <2>3, <2>4 DEF InOrder, Before
  <2>11. Settled(c)'
    BY <1>2, <2>1, <2>6, <2>8, <2>9, <2>10 DEF Settled
  <2> QED
    BY <1>1, <1>3, <1>4, <2>5, <2>11
<1>5. CASE m \in {"reject", "confirm"} /\ (RejectChannel \/ AcceptChannel) /\ c = cur
  <2>1. pc = "decide" /\ pc' # "decide" /\ UNCHANGED <<opened, inbox, incomingChannels>>
    BY <1>5 DEF RejectChannel, AcceptChannel, loopVars, clientVars
  <2>2. out[c] = <<>>
    BY <1>5, <2>1 DEF Fresh, Settled
  <2>3. Before(cur)
    BY <2>1 DEF InOrder
  <2>4. Settled(c)'
    BY <1>2, <1>5, <2>1, <2>3 DEF Before, Settled
  <2> QED
    BY <1>1, <1>3, <1>5, <2>2, <2>4
<1>6. CASE m \in ReportMessage \cup {"agentMsg", "x11Msg", "close"} /\ (WriteReport \/ WarnAgent \/ WarnX11 \/ CloseChannel) /\ c = cur
  <2>1. pc \in {"report", "agent", "x11", "close"}
    BY <1>6 DEF WriteReport, WarnAgent, WarnX11, Warn, CloseChannel
  <2>2. m \notin Promise!Verdicts
    BY <1>6, Kinds
  <2> QED
    BY <1>1, <1>6, <2>1, <2>2 DEF HasTimer
<1>7. CASE m = "close" /\ c \in clientClosed
  BY <1>1, <1>7, Kinds DEF Watched
<1>8. CASE ReplyRequest(c) /\ m = Promise!Answer(greq[c])
  <2>1. gpc[c] # "off"
    BY <1>8 DEF ReplyRequest
  <2>2. m \in Promise!Answers
    BY <1>8 DEF Promise!Answer, Promise!Answers
  <2> QED
    BY <1>1, <2>1, <2>2, Kinds DEF Watched
<1> QED
  BY <1>4, <1>5, <1>6, <1>7, <1>8 DEF Speaks

(* Every step keeps undecided channels silent.                             *)
LEMMA FreshKept ==
    ASSUME TypeOK, Reporting, Sent, InOrder, HasTimer, Watched, Fresh, [Next]_vars PROVE Fresh'
<1> SUFFICES ASSUME NEW c \in Chan, out'[c] # <<>> PROVE Settled(c)'
  BY DEF Fresh
<1>1. CASE out[c] # <<>>
  BY <1>1, SettledStays DEF Fresh
<1>2. CASE out[c] = <<>>
  <2>1. PICK d \in Chan, m \in Message : Send(d, m) /\ Speaks(d, m)
    BY <1>2, Writers
  <2>2. /\ out' = [out EXCEPT ![d] = Append(@, m)]
        /\ \/ m \in Promise!Verdicts /\ out[d] = <<>> /\ Settled(d)'
           \/ m \notin Promise!Verdicts /\ timer[d] # "off"
    BY <1>2, <2>1, Spoken
  <2>3. d = c
    BY <1>2, <2>2 DEF TypeOK, MuxTypeOK
  <2>4. cur \in Chan
    BY DEF TypeOK, ServeTypeOK
  <2>5. CASE timer[d] # "off"
    BY <2>3, <2>4, <2>5, TimerSettled, SettledStays
  <2> QED
    BY <2>2, <2>3, <2>5
<1> QED
  BY <1>1, <1>2

-----------------------------------------------------------------------------
(* The report, one message at a time.                                      *)
LEMMA ToldReport ==
    ASSUME NEW x \in Seq(Message), NEW td \in Seq(Message), td # <<>>, NEW a, Told(x, "report", td, a)
    PROVE  Told(Append(x, Head(td)), "report", Tail(td), a)
<1>1. PICK h \in Message, u \in Seq(Message) : h = Head(td) /\ u = Tail(td)
  BY HeadTailProperties
<1>2. td = <<h>> \o u
  BY <1>1
<1>3. Append(x, h) = x \o <<h>> /\ <<h>> \in Seq(Message)
  BY AppendIsConcat
<1>4. (x \o <<h>>) \o u = x \o (<<h>> \o u)
  BY <1>3, ConcatAssociative
<1>5. x \o td = Script
  BY DEF Told
<1> QED
  BY <1>1, <1>2, <1>3, <1>4, <1>5 DEF Told

(* The report is complete when nothing is left of it.                      *)
LEMMA ToldAll ==
    ASSUME NEW x \in Seq(Message), NEW a, Told(x, "report", <<>>, a)
    PROVE  Told(x, "agent", <<>>, a)
<1>1. x \o <<>> = x
  BY ConcatEmptySeq
<1> QED
  BY <1>1 DEF Told

(* The warning about the agent, or none.                                   *)
LEMMA ToldAgent ==
    ASSUME NEW x \in Seq(Message), NEW td, NEW a, Told(x, "agent", td, a)
    PROVE  /\ Told(x, "x11", td, a)
           /\ Promise!Asked(a, "auth-agent-req") => Told(Append(x, "agentMsg"), "x11", td, a)
<1>1. "agentMsg" \in Message
  BY DEF Message
<1>2. Append(x, "agentMsg") = x \o <<"agentMsg">>
  BY <1>1, AppendIsConcat
<1> QED
  BY <1>2 DEF Told

(* The warning about X11, or none.                                         *)
LEMMA ToldX11 ==
    ASSUME NEW x \in Seq(Message), NEW td, NEW a, Told(x, "x11", td, a)
    PROVE  /\ Told(x, "close", td, a)
           /\ Promise!Asked(a, "x11-req") => Told(Append(x, "x11Msg"), "close", td, a)
<1>1. "x11Msg" \in Message
  BY DEF Message
<1>2. Append(x, "x11Msg") = x \o <<"x11Msg">>
  BY <1>1, AppendIsConcat
<1>3. Told(x, "x11", <<>>, a)
  BY DEF Told
<1> QED
  BY <1>2, <1>3, SessionWith DEF Told

(* A conversation under way goes on until a verdict or a close.            *)
LEMMA TalkingMore ==
    ASSUME NEW s \in Seq(Message), Talking(s), NEW m \in Message, m \notin Promise!Verdicts \cup {"close"}
    PROVE  Talking(Append(s, m))
<1>1. PICK z \in Seq(Message) : z = Append(s, m)
  BY AppendProperties
<1>2. PICK n \in Nat : n = Len(s) /\ n # 0 /\ DOMAIN s = 1..n
  BY EmptySeq DEF Talking
<1>3. Len(z) = n + 1 /\ DOMAIN z = 1..(n + 1) /\ z[n + 1] = m /\ \A i \in 1..n : z[i] = s[i]
  BY <1>1, <1>2
<1>4. s[1] = "confirm" /\ \A i \in 1..n : i # 1 => s[i] \notin Promise!Verdicts \cup {"close"}
  BY <1>2 DEF Talking
<1>5. \A i \in 1..(n + 1) : i \in 1..n \/ i = n + 1
  OBVIOUS
<1>6. z # <<>> /\ z[1] = "confirm"
  BY <1>2, <1>3, <1>4
<1>7. \A i \in DOMAIN z : i # 1 => z[i] \notin Promise!Verdicts \cup {"close"}
  BY <1>3, <1>4, <1>5
<1> QED
  BY <1>1, <1>6, <1>7 DEF Talking

(* The confirmation opens a conversation.                                  *)
LEMMA TalkingFirst == Talking(Append(<<>>, "confirm"))
<1>1. PICK z : z = Append(<<>>, "confirm")
  OBVIOUS
<1>2. z = <<"confirm">> /\ DOMAIN z = {1} /\ z # <<>> /\ z[1] = "confirm"
  BY <1>1
<1> QED
  BY <1>1, <1>2 DEF Talking

(* What is written on a live channel is added to it.                       *)
LEMMA SendLive ==
    ASSUME TypeOK, NEW c \in Chan, NEW m \in Message, Send(c, m), Live(c)
    PROVE  out'[c] = Append(out[c], m) /\ out[c] \in Seq(Message)
<1>1. out' = [out EXCEPT ![c] = Append(@, m)]
  BY DEF Send, Live
<1>2. out \in [Chan -> Seq(Message)]
  BY DEF TypeOK, MuxTypeOK
<1> QED
  BY <1>1, <1>2

(* A live channel was live before.                                         *)
LEMMA LiveBefore ==
    ASSUME TypeOK, [Next]_vars, NEW c \in Chan, Live(c)' PROVE Live(c)
BY StaySteps DEF Live

(* Serve's own steps in a conversation.                                    *)
LEMMA TalkServe ==
    ASSUME TypeOK, FlagsAsked, Reporting, Talk, ServeStep, NEW c \in Chan, timer[c] # "off", Live(c), Live(c)'
    PROVE  c = cur' /\ Serving' /\ Talking(out'[c]) /\ ToldOn(c)'
<1>1. c = cur /\ Serving /\ Talking(out[c]) /\ ToldOn(c)
  BY DEF Talk
<1>2. PICK s \in Seq(Message), x \in Seq(Message), a \in Seq(Request) : s = out[c] /\ x = Promise!Part(s, Promise!Text) /\ a = asked[c]
  <2>1. out[c] \in Seq(Message) /\ asked[c] \in Seq(Request)
    BY DEF TypeOK, MuxTypeOK
  <2> QED
    BY <2>1, PartType
<1>3. Talking(s) /\ Told(x, pc, todo, a)
  BY <1>1, <1>2 DEF ToldOn
<1>4. UNCHANGED asked
  BY DEF ServeStep, NextChannel, RejectChannel, AcceptFails, AcceptChannel, WriteReport, LockReq, WarnAgent, WarnX11,
        Warn, CloseChannel, Return, loopVars, clientVars, muxVars
<1>5. ASSUME NEW m \in Promise!Text, out'[c] = Append(s, m)
      PROVE  Talking(out'[c]) /\ Promise!Part(out'[c], Promise!Text) = Append(x, m)
  <2>1. m \in Message /\ m \notin Promise!Verdicts \cup {"close"}
    BY Kinds
  <2>2. Talking(Append(s, m))
    BY <1>3, <2>1, TalkingMore
  <2>3. Promise!Part(Append(s, m), Promise!Text) = Append(Promise!Part(s, Promise!Text), m)
    BY <2>1, PartIn
  <2> QED
    BY <1>2, <1>5, <2>2, <2>3
<1>6. CASE WriteReport
  <2>1. pc = "report" /\ todo # <<>> /\ Send(c, Head(todo)) /\ todo' = Tail(todo) /\ UNCHANGED <<pc, cur>>
    BY <1>1, <1>6 DEF WriteReport, Write
  <2>2. Head(todo) \in ReportMessage /\ todo \in Seq(Message)
    BY <2>1 DEF Reporting, TypeOK, ServeTypeOK
  <2>3. Head(todo) \in Promise!Text /\ Head(todo) \in Message
    BY <2>2, Kinds
  <2>4. out'[c] = Append(s, Head(todo))
    BY <1>2, <2>1, <2>3, SendLive
  <2>5. Talking(out'[c]) /\ Promise!Part(out'[c], Promise!Text) = Append(x, Head(todo))
    BY <1>5, <2>3, <2>4
  <2>6. Told(Append(x, Head(todo)), "report", Tail(todo), a)
    BY <1>3, <2>1, <2>2, ToldReport
  <2> QED
    BY <1>1, <1>2, <1>4, <2>1, <2>5, <2>6 DEF Serving, ToldOn
<1>7. CASE LockReq
  <2>1. pc = "report" /\ todo = <<>> /\ pc' = "agent" /\ UNCHANGED <<cur, todo, out>>
    BY <1>7 DEF LockReq, muxVars
  <2>2. Told(x, "agent", <<>>, a)
    BY <1>3, <2>1, ToldAll
  <2> QED
    BY <1>1, <1>2, <1>3, <1>4, <2>1, <2>2 DEF Serving, ToldOn
<1>8. CASE WarnAgent
  <2>1. pc = "agent" /\ pc' = "x11" /\ UNCHANGED <<cur, todo>>
    BY <1>8 DEF WarnAgent, Warn
  <2>2. UNCHANGED out \/ (Send(c, "agentMsg") /\ (published[c].agentFwd \/ agentFwd[c]))
    BY <1>1, <1>8, Zenon DEF WarnAgent, Warn, Write
  <2>3. /\ Told(x, "x11", todo, a)
        /\ Promise!Asked(a, "auth-agent-req") => Told(Append(x, "agentMsg"), "x11", todo, a)
    BY <1>3, <2>1, ToldAgent
  <2>4. CASE UNCHANGED out
    BY <1>1, <1>2, <1>3, <1>4, <2>1, <2>3, <2>4 DEF Serving, ToldOn
  <2>5. CASE Send(c, "agentMsg") /\ (published[c].agentFwd \/ agentFwd[c])
    <3>1. Promise!Asked(a, "auth-agent-req")
      BY <1>2, <2>5 DEF FlagsAsked
    <3>2. "agentMsg" \in Promise!Text /\ "agentMsg" \in Message
      BY Kinds
    <3>3. out'[c] = Append(s, "agentMsg")
      BY <1>2, <2>5, <3>2, SendLive
    <3>4. Talking(out'[c]) /\ Promise!Part(out'[c], Promise!Text) = Append(x, "agentMsg")
      BY <1>5, <3>2, <3>3
    <3> QED
      BY <1>1, <1>2, <1>4, <2>1, <2>3, <3>1, <3>4 DEF Serving, ToldOn
  <2> QED
    BY <2>2, <2>4, <2>5
<1>9. CASE WarnX11
  <2>1. pc = "x11" /\ pc' = "close" /\ UNCHANGED <<cur, todo>>
    BY <1>9 DEF WarnX11, Warn
  <2>2. UNCHANGED out \/ (Send(c, "x11Msg") /\ (published[c].x11 \/ x11[c]))
    BY <1>1, <1>9, Zenon DEF WarnX11, Warn, Write
  <2>3. /\ Told(x, "close", todo, a)
        /\ Promise!Asked(a, "x11-req") => Told(Append(x, "x11Msg"), "close", todo, a)
    BY <1>3, <2>1, ToldX11
  <2>4. CASE UNCHANGED out
    BY <1>1, <1>2, <1>3, <1>4, <2>1, <2>3, <2>4 DEF Serving, ToldOn
  <2>5. CASE Send(c, "x11Msg") /\ (published[c].x11 \/ x11[c])
    <3>1. Promise!Asked(a, "x11-req")
      BY <1>2, <2>5 DEF FlagsAsked
    <3>2. "x11Msg" \in Promise!Text /\ "x11Msg" \in Message
      BY Kinds
    <3>3. out'[c] = Append(s, "x11Msg")
      BY <1>2, <2>5, <3>2, SendLive
    <3>4. Talking(out'[c]) /\ Promise!Part(out'[c], Promise!Text) = Append(x, "x11Msg")
      BY <1>5, <3>2, <3>3
    <3> QED
      BY <1>1, <1>2, <1>4, <2>1, <2>3, <3>1, <3>4 DEF Serving, ToldOn
  <2> QED
    BY <2>2, <2>4, <2>5
<1>10. ~CloseChannel
  <2>1. sentClose \in [Chan -> BOOLEAN]
    BY DEF TypeOK, MuxTypeOK
  <2>2. CloseChannel => sentClose' = [sentClose EXCEPT ![c] = TRUE]
    BY <1>1 DEF CloseChannel, SendClose
  <2> QED
    BY <2>1, <2>2, Zenon DEF Live
<1>11. ~(NextChannel \/ RejectChannel \/ AcceptFails \/ AcceptChannel \/ Return)
  BY <1>1 DEF Serving, NextChannel, RejectChannel, AcceptFails, AcceptChannel, Return
<1> QED
  BY <1>6, <1>7, <1>8, <1>9, <1>10, <1>11 DEF ServeStep

(* Every step keeps the conversation in step with serve.                   *)
LEMMA TalkKept ==
    ASSUME TypeOK, Reporting, Sent, InOrder, HasTimer, Marking, Watched, FlagsAsked, Fresh, Talk, [Next]_vars
    PROVE  Talk'
<1> SUFFICES ASSUME NEW c \in Chan, timer'[c] # "off", Live(c)'
             PROVE  c = cur' /\ Serving' /\ Talking(out'[c]) /\ ToldOn(c)'
  BY DEF Talk
<1>1. Live(c)
  BY LiveBefore
<1>2. CASE timer[c] = "off"
  <2>1. AcceptChannel /\ c = cur
    BY <1>2, TimerStays
  <2>2. /\ pc = "decide" /\ pc' = "report" /\ cur' = cur /\ Send(c, "confirm")
        /\ todo' = Report(keys, marked') /\ marked' = marked \cup Blacklisted(keys, blacklist)
    BY <2>1 DEF AcceptChannel, Accept
  <2>3. out[c] = <<>>
    BY <2>1, <2>2 DEF Fresh, Settled
  <2>4. todo' = Script
    <3>1. marked' = Blacklisted(keys, blacklist)
      BY <2>2 DEF Marking
    <3> QED
      BY <2>2, <3>1 DEF Script
  <2>5. "confirm" \in Promise!Verdicts
    BY DEF Promise!Verdicts
  <2>6. "confirm" \in Message /\ "confirm" \notin Promise!Text
    BY <2>5, Kinds
  <2>7. out'[c] = Append(<<>>, "confirm")
    BY <1>1, <2>2, <2>3, <2>6, SendLive
  <2>8. Promise!Part(Append(<<>>, "confirm"), Promise!Text) = <<>>
    BY <2>6, PartOut, PartEmpty, EmptySeq
  <2>9. <<>> \o Script = Script
    BY ScriptType, ConcatEmptySeq
  <2> QED
    BY <2>1, <2>2, <2>4, <2>7, <2>8, <2>9, TalkingFirst DEF Serving, ToldOn, Told
<1>3. CASE timer[c] # "off" /\ ServeStep
  BY <1>1, <1>3, TalkServe
<1>4. CASE timer[c] # "off" /\ ~ServeStep
  <2>1. c = cur /\ Serving /\ Talking(out[c]) /\ ToldOn(c)
    BY <1>1, <1>4 DEF Talk
  <2>2. UNCHANGED <<pc, cur, todo>>
    BY <1>4, ServeMoves DEF serveVars
  <2>3. PICK s \in Seq(Message), x \in Seq(Message), a \in Seq(Request) : s = out[c] /\ x = Promise!Part(s, Promise!Text) /\ a = asked[c]
    <3>1. out[c] \in Seq(Message) /\ asked[c] \in Seq(Request)
      BY DEF TypeOK, MuxTypeOK
    <3> QED
      BY <3>1, PartType
  <2>4. Talking(s) /\ Told(x, pc, todo, a)
    BY <2>1, <2>3 DEF ToldOn
  <2>5. Told(x, pc, todo, asked'[c])
    <3>1. CASE UNCHANGED asked
      BY <2>3, <2>4, <3>1
    <3>2. ASSUME NEW d \in Chan, NEW r \in Requests, ClientRequest(d, r) PROVE Told(x, pc, todo, asked'[c])
      <4>1. asked' = [asked EXCEPT ![d] = Append(@, r)] /\ asked \in [Chan -> Seq(Request)]
        BY <3>2 DEF ClientRequest, TypeOK, MuxTypeOK
      <4>2. r \in Request
        BY ClientAssumption
      <4>3. Told(x, pc, todo, Append(a, r))
        BY <2>4, <4>2, ToldMore
      <4> QED
        BY <2>3, <2>4, <4>1, <4>3
    <3> QED
      BY <3>1, <3>2, AskedSteps
  <2>6. CASE out'[c] = out[c]
    BY <2>1, <2>2, <2>3, <2>4, <2>5, <2>6 DEF Serving, ToldOn
  <2>7. CASE out'[c] # out[c]
    <3>1. PICK d \in Chan, m \in Message : Send(d, m) /\ Speaks(d, m)
      BY <2>7, Writers
    <3>2. /\ out' = [out EXCEPT ![d] = Append(@, m)]
          /\ \/ m \in Promise!Verdicts /\ out[d] = <<>>
             \/ m \notin Promise!Verdicts
      BY <2>7, <3>1, Spoken
    <3>3. d = c /\ out'[c] = Append(s, m)
      BY <2>3, <2>7, <3>2 DEF TypeOK, MuxTypeOK
    <3>4. m \notin Promise!Verdicts
      BY <2>3, <2>4, <3>2, <3>3 DEF Talking
    <3>5. m \in Promise!Answers
      <4>1. ~(handleClose /\ c = Head(inbox).ch)
        <5>1. sentClose \in [Chan -> BOOLEAN]
          BY DEF TypeOK, MuxTypeOK
        <5>2. handleClose /\ c = Head(inbox).ch => sentClose' = [sentClose EXCEPT ![c] = TRUE]
          BY DEF handleClose, SendClose
        <5> QED
          BY <5>1, <5>2, Zenon DEF Live
      <4>2. m # "openfail"
        BY <3>4 DEF Promise!Verdicts
      <4>3. m = Promise!Answer(greq[c])
        BY <1>4, <3>1, <3>3, <4>1, <4>2 DEF Speaks, ServeStep
      <4> QED
        BY <4>3 DEF Promise!Answer, Promise!Answers
    <3>6. m \notin Promise!Text /\ m \notin Promise!Verdicts \cup {"close"}
      BY <3>5, Kinds
    <3>7. Promise!Part(Append(s, m), Promise!Text) = x
      BY <2>3, <3>6, PartOut
    <3>8. Talking(Append(s, m))
      BY <2>4, <3>6, TalkingMore
    <3> QED
      BY <2>1, <2>2, <2>5, <3>3, <3>7, <3>8 DEF Serving, ToldOn
  <2> QED
    BY <2>6, <2>7
<1> QED
  BY <1>2, <1>3, <1>4

-----------------------------------------------------------------------------
(* The queue of a channel is a sequence of requests.                       *)
LEMMA QueueType ==
    ASSUME TypeOK, NEW c \in Chan
    PROVE  /\ Pending(c) \in Seq(Request) /\ reqs[c] \in Seq(Request) /\ Unread(inbox, c) \in Seq(Request)
           /\ reqs[c] \o Unread(inbox, c) \in Seq(Request) /\ Queue(c) \in Seq(Request)
<1>1. reqs[c] \in Seq(Request) /\ greq[c] \in Request /\ inbox \in Seq(Packet)
  BY DEF TypeOK, MuxTypeOK, ServeTypeOK
<1>2. Unread(inbox, c) \in Seq(Request)
  BY <1>1, UnreadType
<1>3. Pending(c) \in Seq(Request)
  <2>1. <<greq[c]>> \in Seq(Request) /\ <<>> \in Seq(Request)
    BY <1>1
  <2> QED
    BY <2>1 DEF Pending
<1>4. reqs[c] \o Unread(inbox, c) \in Seq(Request)
  BY <1>1, <1>2, ConcatProperties
<1>5. Queue(c) \in Seq(Request)
  BY <1>3, <1>4, ConcatProperties DEF Queue
<1> QED
  BY <1>1, <1>2, <1>3, <1>4, <1>5

(* The reply ends the handling of the first request of the queue.          *)
LEMMA QueueReply ==
    ASSUME TypeOK, NEW c \in Chan, ReplyRequest(c)
    PROVE  Queue(c) = <<greq[c]>> \o Queue(c)' /\ greq[c] \in Request /\ Queue(c)' \in Seq(Request) /\ UNCHANGED asked
<1>1. gpc[c] = "reply" /\ gpc' = [gpc EXCEPT ![c] = "recv"] /\ UNCHANGED <<asked, inbox, reqs>>
  BY DEF ReplyRequest, loopVars, clientVars, chanVars
<1>2. gpc \in [Chan -> {"off", "recv", "unlock", "reply", "end"}] /\ greq[c] \in Request
  BY DEF TypeOK, ServeTypeOK
<1>3. Pending(c) = <<greq[c]>> /\ Pending(c)' = <<>>
  BY <1>1, <1>2 DEF Pending
<1>4. PICK u \in Seq(Request) : u = reqs[c] \o Unread(inbox, c)
  BY QueueType
<1>5. <<>> \o u = u
  BY ConcatEmptySeq
<1> QED
  BY <1>1, <1>2, <1>3, <1>4, <1>5 DEF Queue

(* What the client sends joins the queue of its channel.                   *)
LEMMA QueueClient ==
    ASSUME TypeOK, TypeOK', NEW c \in Chan, ClientStep
    PROVE  \/ asked'[c] = asked[c] /\ Queue(c)' = Queue(c)
           \/ \E r \in Request : asked'[c] = Append(asked[c], r) /\ Queue(c)' = Queue(c) \o <<r>>
<1>1. UNCHANGED <<gpc, greq, reqs>>
  BY DEF ClientStep, Client, ClientOpen, ClientRequest, ClientAdjust, ClientClose, ClientGlobal, ClientQuit,
         lockVars, chanVars
<1>2. Pending(c)' = Pending(c)
  BY <1>1 DEF Pending
<1>3. inbox \in Seq(Packet) /\ inbox' \in Seq(Packet) /\ asked \in [Chan -> Seq(Request)]
  BY DEF TypeOK, MuxTypeOK
<1>4. ASSUME NEW p, inbox' = Append(inbox, p) PROVE p \in Packet
  <2>1. Len(inbox) + 1 \in DOMAIN inbox' /\ inbox'[Len(inbox) + 1] = p
    BY <1>3, <1>4, AppendAt
  <2> QED
    BY <1>3, <2>1
<1>5. ASSUME NEW p, inbox' = Append(inbox, p), ~IsFor(p, c), asked'[c] = asked[c]
      PROVE  asked'[c] = asked[c] /\ Queue(c)' = Queue(c)
  <2>1. Unread(Append(inbox, p), c) = Unread(inbox, c)
    BY <1>3, <1>4, <1>5, UnreadOut
  <2> QED
    BY <1>1, <1>2, <1>5, <2>1 DEF Queue
<1>6. CASE \E f \in OpenForms : ClientOpen(f)
  <2>1. PICK p : inbox' = Append(inbox, p) /\ p.t # "request" /\ UNCHANGED asked
    BY <1>6 DEF ClientOpen, ClientSends
  <2> QED
    BY <1>5, <2>1 DEF IsFor
<1>7. CASE \E d \in Chan : ClientAdjust(d) \/ ClientClose(d)
  <2>1. PICK p : inbox' = Append(inbox, p) /\ p.t # "request" /\ UNCHANGED asked
    BY <1>7 DEF ClientAdjust, ClientClose, ClientSends
  <2> QED
    BY <1>5, <2>1 DEF IsFor
<1>8. CASE \E b \in BOOLEAN : ClientGlobal(b) \/ ClientQuit(b)
  <2>1. PICK p : inbox' = Append(inbox, p) /\ p.t # "request" /\ UNCHANGED asked
    BY <1>8 DEF ClientGlobal, ClientQuit, ClientSends, clientVars
  <2> QED
    BY <1>5, <2>1 DEF IsFor
<1>9. CASE \E d \in Chan, r \in Requests : ClientRequest(d, r)
  <2>1. PICK d \in Chan, r \in Requests : ClientRequest(d, r)
    BY <1>9
  <2>2. PICK p : p = [t |-> "request", ch |-> d, req |-> r]
    OBVIOUS
  <2>3. inbox' = Append(inbox, p) /\ asked' = [asked EXCEPT ![d] = Append(@, r)] /\ p.t = "request" /\ p.ch = d /\ p.req = r
    BY <2>1, <2>2 DEF ClientRequest, ClientSends
  <2>4. CASE d # c
    BY <1>3, <1>5, <2>3, <2>4 DEF IsFor
  <2>5. CASE d = c
    <3>1. Unread(Append(inbox, p), c) = Unread(inbox, c) \o <<p.req>>
      <4>1. p \in Packet /\ IsFor(p, c)
        BY <1>4, <2>3, <2>5 DEF IsFor
      <4> QED
        BY <1>3, <4>1, UnreadIn
    <3>2. r \in Request
      BY ClientAssumption
    <3>3. /\ Pending(c) \in Seq(Request) /\ reqs[c] \in Seq(Request) /\ Unread(inbox, c) \in Seq(Request)
          /\ <<r>> \in Seq(Request)
      BY <3>2, QueueType
    <3>4. PICK u \in Seq(Request), v \in Seq(Request), w \in Seq(Request), l \in Seq(Request) :
             u = Pending(c) /\ v = reqs[c] /\ w = Unread(inbox, c) /\ l = <<r>>
      BY <3>3, Zenon
    <3>5. u \o (v \o (w \o l)) = (u \o (v \o w)) \o l
      BY ONLY u \in Seq(Request), v \in Seq(Request), w \in Seq(Request), l \in Seq(Request), SMTT(40)
    <3>6. Queue(c)' = Queue(c) \o <<r>>
      BY <1>1, <1>2, <2>3, <3>1, <3>4, <3>5, Zenon DEF Queue
    <3>7. asked'[c] = Append(asked[c], r)
      BY <1>3, <2>3, <2>5
    <3> QED
      BY <3>2, <3>6, <3>7
  <2> QED
    BY <2>4, <2>5
<1> QED
  BY <1>6, <1>7, <1>8, <1>9 DEF ClientStep, Client

(* mux.loop moves requests within the queue of their channel.              *)
LEMMA QueueLoop ==
    ASSUME TypeOK, NEW c \in Chan, LoopStep
    PROVE  asked'[c] = asked[c] /\ Queue(c)' = Queue(c)
<1>1. UNCHANGED <<asked, gpc, greq>>
  BY DEF LoopStep, Loop, handleChannelOpen, handleGlobalPacket, handleRequest, handleAdjust, handleClose, loopFails,
        loopExits, closeRequests, closeWindow, clientVars, lockVars
<1>2. Pending(c)' = Pending(c)
  BY <1>1 DEF Pending
<1>3. inbox \in Seq(Packet) /\ reqs \in [Chan -> Seq(Request)]
  BY DEF TypeOK, MuxTypeOK
<1>4. ASSUME inbox # <<>>, inbox' = Tail(inbox), ~IsFor(Head(inbox), c), reqs'[c] = reqs[c] PROVE Queue(c)' = Queue(c)
  <2>1. Unread(Tail(inbox), c) = Unread(inbox, c)
    BY <1>3, <1>4, UnreadSkip
  <2> QED
    BY <1>2, <1>4, <2>1 DEF Queue
<1>5. CASE handleRequest
  <2>1. PICK p : p = Head(inbox)
    OBVIOUS
  <2>2. inbox # <<>> /\ inbox' = Tail(inbox) /\ p.t = "request" /\ reqs' = [reqs EXCEPT ![p.ch] = Append(@, p.req)]
    BY <1>5, <2>1 DEF handleRequest, Reading
  <2>3. CASE p.ch # c
    BY <1>1, <1>3, <1>4, <2>1, <2>2, <2>3 DEF IsFor
  <2>4. CASE p.ch = c
    <3>1. IsFor(p, c) /\ p \in Packet
      BY <1>3, <2>1, <2>2, <2>4, TailAt DEF IsFor
    <3>2. Unread(inbox, c) = <<p.req>> \o Unread(Tail(inbox), c)
      BY <1>3, <2>1, <2>2, <3>1, UnreadFirst
    <3>3. reqs'[c] = Append(reqs[c], p.req)
      BY <1>3, <2>2, <2>4
    <3>4. p.req \in Request
      BY <3>1, Carries
    <3>5. Tail(inbox) \in Seq(Packet)
      BY <1>3, <2>2, TailAt
    <3>6. Unread(Tail(inbox), c) \in Seq(Request) /\ reqs[c] \in Seq(Request)
      BY <1>3, <3>5, UnreadType
    <3>7. PICK r \in Request, u \in Seq(Request), v \in Seq(Request) : r = p.req /\ u = reqs[c] /\ v = Unread(Tail(inbox), c)
      BY <3>4, <3>6, Zenon
    <3>8. Append(u, r) \o v = u \o (<<r>> \o v)
      BY ONLY r \in Request, u \in Seq(Request), v \in Seq(Request), SMT
    <3> QED
      BY <1>1, <1>2, <2>2, <3>2, <3>3, <3>7, <3>8, Zenon DEF Queue
  <2> QED
    BY <2>3, <2>4
<1>6. CASE handleChannelOpen \/ handleGlobalPacket \/ handleAdjust \/ handleClose \/ loopFails
  <2>1. inbox # <<>> /\ inbox' = Tail(inbox) /\ Head(inbox).t # "request" /\ UNCHANGED reqs
    BY <1>6 DEF handleChannelOpen, handleGlobalPacket, handleAdjust, handleClose, loopFails, Reading, chanVars
  <2> QED
    BY <1>1, <1>4, <2>1 DEF IsFor
<1>7. CASE loopExits \/ \E d \in Chan : closeRequests(d) \/ closeWindow(d)
  <2>1. UNCHANGED <<inbox, reqs>>
    BY <1>7 DEF loopExits, closeRequests, closeWindow, chanVars
  <2> QED
    BY <1>1, <1>2, <2>1 DEF Queue
<1> QED
  BY <1>5, <1>6, <1>7 DEF LoopStep, Loop

(* The request goroutine takes the first request and keeps it until it has *)
(* replied.                                                                *)
LEMMA QueueRequest ==
    ASSUME TypeOK, NEW c \in Chan, NEW d \in Chan, RequestStep(d), ~ReplyRequest(c)
    PROVE  asked'[c] = asked[c] /\ Queue(c)' = Queue(c)
<1>1. UNCHANGED <<asked, inbox>>
  BY DEF RequestStep, HandleRequest, UnlockReq, ReplyRequest, RequestsEnd, loopVars, clientVars, muxVars
<1>2. /\ gpc \in [Chan -> {"off", "recv", "unlock", "reply", "end"}] /\ greq \in [Chan -> Request]
      /\ reqs \in [Chan -> Seq(Request)]
  BY DEF TypeOK, ServeTypeOK, MuxTypeOK
<1>3. CASE d # c
  <2>1. gpc'[c] = gpc[c] /\ greq'[c] = greq[c] /\ reqs'[c] = reqs[c]
    BY <1>2, <1>3 DEF RequestStep, HandleRequest, UnlockReq, ReplyRequest, RequestsEnd, muxVars, chanVars
  <2> QED
    BY <1>1, <2>1 DEF Queue, Pending
<1>4. CASE HandleRequest(c)
  <2>1. PICK s \in Seq(Request) : s = reqs[c] /\ s # <<>>
    BY <1>2, <1>4 DEF HandleRequest
  <2>2. gpc[c] = "recv" /\ gpc'[c] \in {"unlock", "reply"} /\ greq'[c] = Head(s) /\ reqs'[c] = Tail(s)
    BY <1>2, <1>4, <2>1 DEF HandleRequest
  <2>3. Pending(c) = <<>> /\ Pending(c)' = <<Head(s)>>
    BY <2>2 DEF Pending
  <2>4. PICK w \in Seq(Request) : w = Unread(inbox, c)
    BY QueueType
  <2>5. <<>> \o (s \o w) = <<Head(s)>> \o (Tail(s) \o w)
    <3>1. PICK h \in Request, v \in Seq(Request) : h = Head(s) /\ v = Tail(s)
      BY <2>1, HeadTailProperties
    <3>2. s = <<h>> \o v
      BY <2>1, <3>1
    <3>3. <<>> \o ((<<h>> \o v) \o w) = <<h>> \o (v \o w)
      BY ONLY h \in Request, v \in Seq(Request), w \in Seq(Request), SMT
    <3> QED
      BY <3>1, <3>2, <3>3
  <2> QED
    BY <1>1, <2>1, <2>2, <2>3, <2>4, <2>5, Zenon DEF Queue
<1>5. CASE UnlockReq(c)
  <2>1. gpc[c] = "unlock" /\ gpc'[c] = "reply" /\ UNCHANGED <<greq, reqs>>
    BY <1>2, <1>5 DEF UnlockReq, muxVars, chanVars
  <2> QED
    BY <1>1, <2>1 DEF Queue, Pending
<1>6. CASE RequestsEnd(c)
  <2>1. gpc[c] = "recv" /\ gpc'[c] = "end" /\ UNCHANGED <<greq, reqs>>
    BY <1>2, <1>6 DEF RequestsEnd, muxVars, chanVars
  <2> QED
    BY <1>1, <2>1 DEF Queue, Pending
<1> QED
  BY <1>3, <1>4, <1>5, <1>6 DEF RequestStep

(* A channel's queue changes when its client asks and when a reply is      *)
(* given, and not otherwise.                                               *)
LEMMA QueueSteps ==
    ASSUME TypeOK, TypeOK', InOrder, Watched, [Next]_vars, NEW c \in Chan, ~ReplyRequest(c)
    PROVE  \/ asked'[c] = asked[c] /\ Queue(c)' = Queue(c)
           \/ \E r \in Request : asked'[c] = Append(asked[c], r) /\ Queue(c)' = Queue(c) \o <<r>>
<1>1. ASSUME UNCHANGED <<asked, inbox>>, gpc'[c] = gpc[c], greq'[c] = greq[c], reqs'[c] = reqs[c]
      PROVE  asked'[c] = asked[c] /\ Queue(c)' = Queue(c)
  BY <1>1 DEF Queue, Pending
<1>2. CASE ClientStep
  BY <1>2, QueueClient
<1>3. CASE LoopStep
  BY <1>3, QueueLoop
<1>4. ASSUME NEW d \in Chan, RequestStep(d) PROVE asked'[c] = asked[c] /\ Queue(c)' = Queue(c)
  BY <1>4, QueueRequest
<1>5. CASE AcceptChannel
  <2>1. /\ UNCHANGED <<asked, inbox, greq, reqs>> /\ gpc' = [gpc EXCEPT ![cur] = "recv"] /\ pc = "decide"
        /\ timer' = [timer EXCEPT ![cur] = "armed"]
    BY <1>5 DEF AcceptChannel, AfterFunc, loopVars, clientVars
  <2>2. gpc \in [Chan -> {"off", "recv", "unlock", "reply", "end"}] /\ cur \in Chan
    BY DEF TypeOK, ServeTypeOK
  <2>3. CASE c # cur
    BY <1>1, <2>1, <2>2, <2>3
  <2>4. CASE c = cur
    <3>1. ~(cur < cur)
      BY <2>2 DEF Chan
    <3>2. timer[cur] = "off"
      BY <2>1, <2>2, <3>1 DEF InOrder
    <3>3. gpc[c] = "off" /\ gpc'[c] = "recv"
      BY <2>1, <2>2, <2>4, <3>2 DEF Watched
    <3> QED
      BY <2>1, <3>3 DEF Queue, Pending
  <2> QED
    BY <2>3, <2>4
<1>6. CASE ServeStep /\ ~AcceptChannel
  <2>1. UNCHANGED <<asked, inbox, gpc, greq, reqs>>
    BY <1>6 DEF ServeStep, NextChannel, RejectChannel, AcceptFails, WriteReport, LockReq, WarnAgent, WarnX11, Warn,
          CloseChannel, Return, lockVars, loopVars, clientVars, chanVars, muxVars
  <2> QED
    BY <1>1, <2>1
<1>7. ASSUME NEW d \in Chan, TimerExpires(d) \/ TimerFunc(d) PROVE asked'[c] = asked[c] /\ Queue(c)' = Queue(c)
  BY <1>1, <1>7 DEF TimerExpires, TimerFunc, loopVars, clientVars, chanVars, muxVars
<1>8. CASE DiscardRequest
  <2>1. UNCHANGED <<lockVars, loopVars, chanVars>>
    BY <1>8, Zenon DEF DiscardRequest
  <2> QED
    BY <1>1, <2>1 DEF lockVars, loopVars, clientVars, chanVars
<1>9. CASE Terminated \/ UNCHANGED vars
  BY <1>1, <1>9 DEF Terminated, vars, lockVars, loopVars, clientVars, chanVars, muxVars
<1> QED
  BY <1>2, <1>3, <1>4, <1>5, <1>6, <1>7, <1>8, <1>9 DEF Next

(* Only a reply adds an answer.                                            *)
LEMMA AnswersKept ==
    ASSUME TypeOK, Reporting, Sent, InOrder, HasTimer, Watched, Fresh, [Next]_vars, NEW c \in Chan, ~ReplyRequest(c)
    PROVE  Promise!Part(out'[c], Promise!Answers) = Promise!Part(out[c], Promise!Answers)
<1>1. CASE out'[c] = out[c]
  BY <1>1
<1>2. CASE out'[c] # out[c]
  <2>1. PICK d \in Chan, m \in Message : Send(d, m) /\ Speaks(d, m)
    BY <1>2, Writers
  <2>2. out' = [out EXCEPT ![d] = Append(@, m)] /\ out \in [Chan -> Seq(Message)]
    BY <1>2, <2>1, Spoken DEF TypeOK, MuxTypeOK
  <2>3. d = c /\ out'[c] = Append(out[c], m) /\ out[c] \in Seq(Message)
    BY <1>2, <2>2
  <2>4. m \in {"openfail", "reject", "confirm", "agentMsg", "x11Msg", "close"} \cup ReportMessage
    BY <2>1, <2>3 DEF Speaks
  <2>5. m \notin Promise!Answers
    BY <2>4 DEF Promise!Answers, ReportMessage
  <2>6. PICK s \in Seq(Message) : s = out[c]
    BY <2>3
  <2>7. Promise!Part(Append(s, m), Promise!Answers) = Promise!Part(s, Promise!Answers)
    BY <2>5, PartOut
  <2> QED
    BY <2>3, <2>6, <2>7
<1> QED
  BY <1>1, <1>2

(* A reply answers the first request of the queue, if it wants one.        *)
LEMMA AnswerGiven ==
    ASSUME TypeOK, NEW c \in Chan, ReplyRequest(c), Live(c), NEW done \in Seq(Request),
           Promise!Part(out[c], Promise!Answers) = Promise!Due(done)
    PROVE  Promise!Part(out'[c], Promise!Answers) = Promise!Due(Append(done, greq[c]))
<1>1. greq[c] \in Request
  BY DEF TypeOK, ServeTypeOK
<1>2. PICK r \in Request : r = greq[c]
  BY <1>1
<1>3. CASE greq[c].wantReply
  <2>1. Reply(c, Granted(greq[c]))
    BY <1>3, Zenon DEF ReplyRequest
  <2>2. PICK m \in Message : m = Promise!Answer(r) /\ m \in Promise!Answers
    BY DEF Promise!Answer, Promise!Answers, Message
  <2>3. Send(c, m)
    BY <1>2, <2>1, <2>2 DEF Reply, Granted, Promise!Answer
  <2>4. out'[c] = Append(out[c], m) /\ out[c] \in Seq(Message)
    BY <2>3, SendLive
  <2>5. PICK s \in Seq(Message) : s = out[c]
    BY <2>4
  <2>6. Promise!Part(Append(s, m), Promise!Answers) = Append(Promise!Part(s, Promise!Answers), m)
    BY <2>2, PartIn
  <2>7. Promise!Due(Append(done, r)) = Append(Promise!Due(done), Promise!Answer(r))
    BY <1>2, <1>3, DueIn
  <2> QED
    BY <1>2, <2>2, <2>4, <2>5, <2>6, <2>7
<1>4. CASE ~greq[c].wantReply
  <2>1. UNCHANGED out
    BY <1>4, Zenon DEF ReplyRequest
  <2>2. Promise!Due(Append(done, r)) = Promise!Due(done)
    BY <1>2, <1>4, DueOut
  <2> QED
    BY <1>2, <2>1, <2>2
<1> QED
  BY <1>3, <1>4

(* Every step keeps the answers in the order of the requests.              *)
LEMMA AnsweredKept ==
    ASSUME TypeOK, TypeOK', Reporting, Sent, InOrder, HasTimer, Watched, Fresh, Answered, [Next]_vars
    PROVE  Answered'
<1> SUFFICES ASSUME NEW c \in Chan, Live(c)' PROVE \E done \in Seq(Request) : Replied(c, done)'
  BY DEF Answered
<1>1. Live(c)
  BY LiveBefore
<1>2. PICK done \in Seq(Request) : Replied(c, done)
  BY <1>1 DEF Answered
<1>3. asked[c] = done \o Queue(c) /\ Promise!Part(out[c], Promise!Answers) = Promise!Due(done)
  BY <1>2 DEF Replied
<1>4. CASE ReplyRequest(c)
  <2>1. Queue(c) = <<greq[c]>> \o Queue(c)' /\ greq[c] \in Request /\ Queue(c)' \in Seq(Request) /\ UNCHANGED asked
    BY <1>4, QueueReply
  <2>2. Promise!Part(out'[c], Promise!Answers) = Promise!Due(Append(done, greq[c]))
    BY <1>1, <1>3, <1>4, AnswerGiven
  <2>3. PICK r \in Request, q \in Seq(Request) : r = greq[c] /\ q = Queue(c)'
    BY <2>1
  <2>4. done \o (<<r>> \o q) = Append(done, r) \o q /\ Append(done, r) \in Seq(Request)
    BY ONLY done \in Seq(Request), r \in Request, q \in Seq(Request), SMTT(40)
  <2>5. Replied(c, Append(done, r))'
    BY <1>3, <2>1, <2>2, <2>3, <2>4, Zenon DEF Replied
  <2> QED
    BY <2>4, <2>5
<1>5. CASE ~ReplyRequest(c)
  <2>1. Promise!Part(out'[c], Promise!Answers) = Promise!Due(done)
    BY <1>3, <1>5, AnswersKept
  <2>2. CASE asked'[c] = asked[c] /\ Queue(c)' = Queue(c)
    BY <1>3, <2>1, <2>2 DEF Replied
  <2>3. CASE \E r \in Request : asked'[c] = Append(asked[c], r) /\ Queue(c)' = Queue(c) \o <<r>>
    <3>1. PICK r \in Request : asked'[c] = Append(asked[c], r) /\ Queue(c)' = Queue(c) \o <<r>>
      BY <2>3
    <3>2. PICK q \in Seq(Request) : q = Queue(c)
      BY QueueType
    <3>3. Append(done \o q, r) = done \o (q \o <<r>>)
      BY ONLY done \in Seq(Request), r \in Request, q \in Seq(Request), SMTT(40)
    <3> QED
      BY <1>3, <2>1, <3>1, <3>2, <3>3 DEF Replied
  <2> QED
    BY <1>5, <2>2, <2>3, QueueSteps
<1> QED
  BY <1>4, <1>5

-----------------------------------------------------------------------------
(* The invariant holds at first.                                           *)
LEMMA InitPromiseInv == Init => PromiseInv
<1> SUFFICES ASSUME Init PROVE PromiseInv
  OBVIOUS
<1>1. WarnInv
  BY InitWarnInv
<1>2. \A c \in Chan : /\ out[c] = <<>> /\ asked[c] = <<>> /\ timer[c] = "off" /\ gpc[c] = "off" /\ reqs[c] = <<>>
                      /\ agentFwd[c] = FALSE /\ x11[c] = FALSE /\ published[c] = [agentFwd |-> FALSE, x11 |-> FALSE]
  BY DEF Init, MuxInit
<1>3. inbox = <<>> /\ clientClosed = {} /\ marked = {}
  BY DEF Init, MuxInit
<1>4. Marking /\ Watched /\ Fresh /\ Talk
  BY <1>2, <1>3 DEF Marking, Watched, Fresh, Talk
<1>5. FlagsAsked
  <2>1. \A c \in Chan : published[c].agentFwd = FALSE /\ published[c].x11 = FALSE
    BY <1>2
  <2> QED
    BY <1>2, <2>1, Zenon DEF FlagsAsked
<1>6. Answered
  <2> SUFFICES ASSUME NEW c \in Chan PROVE Replied(c, <<>>)
    BY EmptySeq DEF Answered
  <2>1. Pending(c) = <<>> /\ Unread(inbox, c) = <<>>
    BY <1>2, <1>3, UnreadEmpty DEF Pending
  <2>2. <<>> \o (<<>> \o <<>>) = <<>> /\ <<>> \o <<>> = <<>>
    BY ConcatEmptySeq, EmptySeq
  <2>3. Queue(c) = <<>>
    BY <1>2, <2>1, <2>2 DEF Queue
  <2>4. Promise!Part(<<>>, Promise!Answers) = Promise!Due(<<>>)
    BY PartEmpty, DueEmpty
  <2> QED
    BY <1>2, <2>2, <2>3, <2>4 DEF Replied
<1> QED
  BY <1>1, <1>4, <1>5, <1>6 DEF PromiseInv

(* Every step keeps it.                                                    *)
LEMMA NextPromiseInv == PromiseInv /\ [Next]_vars => PromiseInv'
<1> SUFFICES ASSUME PromiseInv, [Next]_vars PROVE PromiseInv'
  OBVIOUS
<1>1. WarnInv /\ Marking /\ Watched /\ FlagsAsked /\ Fresh /\ Talk /\ Answered
  BY DEF PromiseInv
<1>2. WarnInv'
  BY <1>1, NextWarnInv
<1>3. TypeOK /\ TypeOK' /\ Reporting /\ Sent /\ InOrder /\ HasTimer /\ Unasked
  BY <1>1, <1>2 DEF WarnInv, WaitInv, LockInv
<1>4. Marking'
  BY <1>1, MarkingKept
<1>5. Watched'
  BY <1>1, <1>3, WatchedKept
<1>6. FlagsAsked'
  BY <1>1, <1>3, FlagsKept
<1>7. Fresh'
  BY <1>1, <1>3, FreshKept
<1>8. Talk'
  BY <1>1, <1>3, TalkKept
<1>9. Answered'
  BY <1>1, <1>3, AnsweredKept
<1> QED
  BY <1>2, <1>4, <1>5, <1>6, <1>7, <1>8, <1>9 DEF PromiseInv

(* The answers written, with the packet that is being written, are a       *)
(* beginning of those due.                                                 *)
LEMMA AnswersFit ==
    ASSUME PromiseInv, [Next]_vars, NEW c \in Chan, Live(c)
    PROVE  Promise!IsPrefix(Promise!Part(out'[c], Promise!Answers), Promise!Due(asked[c]))
<1>1. TypeOK /\ Reporting /\ Sent /\ InOrder /\ HasTimer /\ Watched /\ Fresh /\ Answered
  BY DEF PromiseInv, WarnInv, WaitInv, LockInv
<1>2. PICK done \in Seq(Request) : Replied(c, done)
  BY <1>1 DEF Answered
<1>3. asked[c] = done \o Queue(c) /\ Promise!Part(out[c], Promise!Answers) = Promise!Due(done)
  BY <1>2 DEF Replied
<1>4. CASE ReplyRequest(c)
  <2>1. Queue(c) = <<greq[c]>> \o Queue(c)' /\ greq[c] \in Request /\ Queue(c)' \in Seq(Request)
    BY <1>1, <1>4, QueueReply
  <2>2. Promise!Part(out'[c], Promise!Answers) = Promise!Due(Append(done, greq[c]))
    BY <1>1, <1>3, <1>4, AnswerGiven
  <2>3. PICK r \in Request, q \in Seq(Request) : r = greq[c] /\ q = Queue(c)'
    BY <2>1
  <2>4. done \o (<<r>> \o q) = Append(done, r) \o q /\ Append(done, r) \in Seq(Request)
    BY ONLY done \in Seq(Request), r \in Request, q \in Seq(Request), SMTT(40)
  <2>5. PICK b \in Seq(Request) : b = Append(done, r)
    BY <2>4
  <2>6. Promise!IsPrefix(Promise!Due(b), Promise!Due(b \o q))
    BY DuePrefix
  <2> QED
    BY <1>3, <2>1, <2>2, <2>3, <2>4, <2>5, <2>6, Zenon
<1>5. CASE ~ReplyRequest(c)
  <2>1. Promise!Part(out'[c], Promise!Answers) = Promise!Due(done)
    BY <1>1, <1>3, <1>5, AnswersKept
  <2>2. PICK q \in Seq(Request) : q = Queue(c)
    BY <1>1, QueueType
  <2>3. Promise!IsPrefix(Promise!Due(done), Promise!Due(done \o q))
    BY DuePrefix
  <2> QED
    BY <1>3, <2>1, <2>2, <2>3
<1> QED
  BY <1>4, <1>5

(* So are the texts of those of a session, and all of it before serve's    *)
(* own close.                                                              *)
LEMMA TextsFit ==
    ASSUME PromiseInv, [Next]_vars, NEW c \in Chan, NEW m \in Message, Send(c, m), Speaks(c, m),
           timer[c] # "off", Live(c), m \notin Promise!Verdicts, UNCHANGED asked
    PROVE  \/ Begins(Promise!Part(out'[c], Promise!Text), asked[c]) /\ (m = "close" => c \in clientClosed)
           \/ Promise!Part(out'[c], Promise!Text) \in Promise!Sessions(asked[c])
<1>1. TypeOK /\ TypeOK' /\ Reporting /\ FlagsAsked /\ Talk
  <2>1. WarnInv /\ WarnInv'
    BY NextWarnInv DEF PromiseInv
  <2> QED
    BY <2>1 DEF PromiseInv, WarnInv, WaitInv, LockInv
<1>2. c = cur /\ Serving /\ Talking(out[c]) /\ ToldOn(c)
  BY <1>1 DEF Talk
<1>3. out'[c] = Append(out[c], m) /\ out[c] \in Seq(Message)
  BY <1>1, SendLive
<1>4. PICK s \in Seq(Message), x \in Seq(Message) : s = out[c] /\ x = Promise!Part(s, Promise!Text)
  BY <1>3, PartType
<1>5. Told(x, pc, todo, asked[c])
  BY <1>2, <1>4 DEF ToldOn
<1>6. ASSUME m \notin Promise!Text PROVE Promise!Part(out'[c], Promise!Text) = x
  <2>1. Promise!Part(Append(s, m), Promise!Text) = Promise!Part(s, Promise!Text)
    BY <1>6, PartOut
  <2> QED
    BY <1>3, <1>4, <2>1
<1>7. todo \in Seq(Message) /\ todo' \in Seq(Message) /\ out'[c] \in Seq(Message)
  BY <1>1 DEF TypeOK, MuxTypeOK, ServeTypeOK
<1>8. CASE CloseChannel /\ m = "close"
  <2>1. pc = "close"
    BY <1>8 DEF CloseChannel
  <2> QED
    BY <1>5, <1>6, <1>8, <2>1, Kinds DEF Told
<1>9. CASE m = "close" /\ c \in clientClosed
  <2>1. Begins(x, asked[c])
    BY <1>2, <1>5, <1>7, ToldBegins DEF Serving
  <2> QED
    BY <1>6, <1>9, <2>1, Kinds
<1>10. CASE m = Promise!Answer(greq[c])
  <2>1. m \in Promise!Answers
    BY <1>10 DEF Promise!Answer, Promise!Answers
  <2>2. Begins(x, asked[c])
    BY <1>2, <1>5, <1>7, ToldBegins DEF Serving
  <2> QED
    BY <1>6, <2>1, <2>2, Kinds
<1>11. CASE m \in Promise!Text /\ (WriteReport \/ WarnAgent \/ WarnX11)
  <2>1. UNCHANGED <<sentClose, gone>>
    BY <1>11 DEF WriteReport, WarnAgent, WarnX11, Warn, loopVars
  <2>2. Live(c)'
    BY <2>1 DEF Live
  <2>3. ServeStep
    BY <1>11 DEF ServeStep
  <2>4. c = cur' /\ Serving' /\ Talking(out'[c]) /\ ToldOn(c)'
    BY <1>1, <2>2, <2>3, TalkServe
  <2>5. PICK y \in Seq(Message), p \in {"report", "agent", "x11", "close"}, td \in Seq(Message) :
           y = Promise!Part(out'[c], Promise!Text) /\ p = pc' /\ td = todo'
    BY <1>7, <2>4, PartType DEF Serving
  <2>6. Told(y, p, td, asked[c])
    BY <2>4, <2>5 DEF ToldOn
  <2>7. Begins(y, asked[c])
    BY <2>6, ToldBegins
  <2> QED
    BY <1>11, <2>5, <2>7, Kinds
<1> QED
  <2>1. {"openfail", "reject", "confirm"} \subseteq Promise!Verdicts
    BY DEF Promise!Verdicts
  <2> QED
    BY <1>8, <1>9, <1>10, <1>11, <2>1, Kinds DEF Speaks

(* Every packet that is written is one the client may expect.              *)
LEMMA SpeechFits ==
    ASSUME PromiseInv, [Next]_vars, ~UNCHANGED out
    PROVE  \E c \in Chan : Promise!Say(c)
<1>1. TypeOK /\ Reporting /\ Sent /\ InOrder /\ HasTimer /\ Watched /\ Fresh /\ Talk
  BY DEF PromiseInv, WarnInv, WaitInv, LockInv
<1>2. PICK c \in Chan, m \in Message : Send(c, m) /\ Speaks(c, m)
  BY <1>1, Writers
<1>3. /\ Live(c) /\ out' = [out EXCEPT ![c] = Append(@, m)]
      /\ \/ m \in Promise!Verdicts /\ out[c] = <<>>
         \/ m \notin Promise!Verdicts /\ timer[c] # "off"
  BY <1>1, <1>2, Spoken
<1>4. UNCHANGED <<asked, clientClosed>>
  <2>1. ASSUME NEW d \in Chan, NEW r \in Requests, ClientRequest(d, r) PROVE FALSE
    BY <2>1 DEF ClientRequest
  <2>2. ASSUME NEW d \in Chan, ClientClose(d) PROVE FALSE
    BY <2>2 DEF ClientClose
  <2> QED
    BY <2>1, <2>2, Parties
<1>5. out \in [Chan -> Seq(Message)] /\ asked \in [Chan -> Seq(Request)]
  BY <1>1 DEF TypeOK, MuxTypeOK
<1>6. PICK s \in Seq(Message), a \in Seq(Request) : s = out[c] /\ a = asked[c]
  BY <1>5
<1>7. out'[c] = Append(s, m) /\ \A d \in Chan \ {c} : out'[d] = out[d]
  BY <1>3, <1>5, <1>6
<1>8. Promise!Fits(Append(s, m), a, c \in clientClosed)
  <2>1. CASE m \in Promise!Verdicts /\ out[c] = <<>>
    <3>1. Promise!Fits(Append(<<>>, m), a, c \in clientClosed)
      BY <2>1, FitsVerdict
    <3> QED
      BY <1>6, <2>1, <3>1
  <2>2. CASE m \notin Promise!Verdicts /\ timer[c] # "off"
    <3>1. Talking(s)
      BY <1>1, <1>3, <1>6, <2>2 DEF Talk
    <3>2. Promise!IsPrefix(Promise!Part(Append(s, m), Promise!Answers), Promise!Due(a))
      BY <1>3, <1>6, <1>7, AnswersFit
    <3>3. \/ Begins(Promise!Part(out'[c], Promise!Text), asked[c]) /\ (m = "close" => c \in clientClosed)
          \/ Promise!Part(out'[c], Promise!Text) \in Promise!Sessions(asked[c])
      BY <1>2, <1>3, <1>4, <2>2, TextsFit
    <3>4. \/ Begins(Promise!Part(Append(s, m), Promise!Text), a) /\ (m = "close" => c \in clientClosed)
          \/ Promise!Part(Append(s, m), Promise!Text) \in Promise!Sessions(a)
      BY <1>6, <1>7, <3>3
    <3> QED
      BY <2>2, <3>1, <3>2, <3>4, FitsMore
  <2> QED
    BY <1>3, <2>1, <2>2
<1>9. Len(Append(s, m)) = Len(s) + 1
  OBVIOUS
<1>10. Promise!IsPrefix(s, Append(s, m))
  <2>1. Append(s, m) = s \o <<m>> /\ <<m>> \in Seq(Message)
    BY AppendIsConcat
  <2> QED
    BY <2>1, PrefixOf
<1>11. Promise!Say(c)
  BY <1>4, <1>6, <1>7, <1>8, <1>9, <1>10, Zenon DEF Promise!Say
<1> QED
  BY <1>11

(* Every step of the server and of its client is a step of the promise, or *)
(* leaves what the client sees alone.                                      *)
LEMMA Simulates ==
    ASSUME PromiseInv, [Next]_vars
    PROVE  [Promise!Next]_<<asked, clientClosed, out>>
<1>1. CASE ~UNCHANGED out
  BY <1>1, SpeechFits DEF Promise!Next
<1>2. CASE UNCHANGED out
  <2>1. ASSUME NEW c \in Chan, NEW r \in Requests, ClientRequest(c, r) PROVE Promise!Next
    <3>1. Promise!Ask(c, r)
      BY <2>1 DEF ClientRequest, Promise!Ask
    <3>2. r \in Request
      BY ClientAssumption
    <3> QED
      BY <3>1, <3>2 DEF Promise!Next
  <2>2. ASSUME NEW c \in Chan, ClientClose(c) PROVE Promise!Next
    <3>1. Promise!HangUp(c)
      BY <2>2 DEF ClientClose, Promise!HangUp
    <3> QED
      BY <3>1 DEF Promise!Next
  <2> QED
    BY <1>2, <2>1, <2>2, Parties
<1> QED
  BY <1>1, <1>2

(* serve(), the request goroutines, the timers and mux.loop together keep  *)
(* the promise of Conversation, for any number of channels, any capacity   *)
(* of the queues, any keys and blacklist: on every channel the verdict     *)
(* comes first, the report in order and in full before the server's own    *)
(* close, a forwarding warning only if the client asked for forwarding on  *)
(* that channel, one answer per request in the order of the requests, and  *)
(* nothing after the close (server.go, the loop over the new channels).    *)
THEOREM KeepsPromise == Spec => ConversationPromise
<1>1. Init => Promise!Init
  BY DEF Init, MuxInit, Promise!Init
<1>2. PromiseInv /\ [Next]_vars => [Promise!Next]_<<asked, clientClosed, out>>
  BY Simulates
<1> QED
  BY <1>1, <1>2, InitPromiseInv, NextPromiseInv, PTL DEF Spec, ConversationPromise, Promise!Spec

=============================================================================
