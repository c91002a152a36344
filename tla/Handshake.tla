----------------------------- MODULE Handshake ------------------------------
(***************************************************************************)
(* Key exchange and re-keying between a client and a server that both use  *)
(* the vendored library: handshakeTransport (handshake.go) over transport  *)
(* (transport.go), with the messages of a Diffie-Hellman exchange (kex.go).*)
(* The two ends are joined by the two directions of a TCP connection.      *)
(*                                                                         *)
(* On each end run the readLoop goroutine (rl), the goroutine "mux" that   *)
(* does the first key exchange, then reads the packets and may answer them,*)
(* and the goroutine "app" that writes packets.  A packet counts as one    *)
(* byte towards RekeyThreshold.                                            *)
(***************************************************************************)
EXTENDS Naturals, Sequences

CONSTANTS
    RekeyThreshold,  \* packets after which new keys are negotiated
    IncomingCap,     \* capacity of handshakeTransport.incoming (16)
    MaxWrites,       \* bound: per end and goroutine, the packets it writes
    CanFail,         \* an exchange may fail (no common algorithm, bad signature...)
    CanDrop          \* the TCP connection may break

ASSUME HandshakeAssumption ==
    /\ RekeyThreshold \in Nat /\ IncomingCap \in Nat \ {0}
    /\ CanFail \in BOOLEAN /\ CanDrop \in BOOLEAN
    /\ MaxWrites["client"] \in [{"app", "mux"} -> Nat] /\ MaxWrites["server"] \in [{"app", "mux"} -> Nat]

Peers == {"client", "server"}
Other(p) == IF p = "client" THEN "server" ELSE "client"
Goroutines == {"app", "mux"}

VARIABLES
    link,  \* link[p]: packets on their way from p to the other end
    down,  \* down[p]: p's end of the TCP connection is closed
    tr,    \* transport: keys in use and pending, per direction; session ID
    hs,    \* handshakeTransport
    rl,    \* readLoop: where it is and what it holds
    w,     \* w[p][g]: where goroutine g of p is
    count  \* count[p][g]: packets that g has written

vars == <<link, down, tr, hs, rl, w, count>>

None == <<0, 0>>     \* no session ID, no contents
(* generateKeyMaterial: what comes out depends on H and on the direction.  *)
Key(h, dir) == [h |-> h, dir |-> dir]
NoKey == Key(None, "none")   \* noneCipher
WriteDir(p) == p                \* clientKeys for what the client writes
ReadDir(p) == Other(p)

Init ==
    /\ link = [p \in Peers |-> <<>>]
    /\ down = [p \in Peers |-> FALSE]
    /\ tr = [p \in Peers |-> [rkey |-> NoKey, wkey |-> NoKey, pendR |-> NoKey, pendW |-> NoKey,
                              sessionID |-> None]]
    /\ hs = [p \in Peers |-> [mu |-> "free", sentInit |-> 0, inits |-> 0, written |-> 0,
                              read |-> 0, writeError |-> FALSE, incoming |-> <<>>, closed |-> FALSE]]
    /\ rl = [p \in Peers |-> [pc |-> "check", pkt |-> "none", theirs |-> 0, err |-> FALSE]]
    /\ w = [p \in Peers |-> [g \in Goroutines |-> IF g = "mux" THEN "init" ELSE "idle"]]
    /\ count = [p \in Peers |-> [g \in Goroutines |-> 0]]

-----------------------------------------------------------------------------
(* The connection, and transport.readPacket and writePacket.               *)

WriteMayFail(p) == down[p] \/ down[Other(p)]
Packet(p, t, arg) == [t |-> t, arg |-> arg, key |-> tr[p].wkey]
Write(p, t, arg) == ~down[p] /\ link' = [link EXCEPT ![p] = Append(@, Packet(p, t, arg))]

ReadFails(p) == down[p] \/ (link[Other(p)] = <<>> /\ down[Other(p)])

(* The next packet; reading takes it off the connection.                   *)
Next1(p) == Head(link[Other(p)])
Read(p) == ~down[p] /\ link[Other(p)] # <<>> /\ link' = [link EXCEPT ![Other(p)] = Tail(@)]

(* The MAC of a packet is right under the reader's key, and a msgNewKeys   *)
(* finds a key that was prepared.                                          *)
Authentic(p) == Next1(p).key = tr[p].rkey
Valid(p) == Authentic(p) /\ (Next1(p).t = "newKeys" => tr[p].pendR # NoKey)

(* Mutant: the directions are mixed up.                                    *)
prepareKeyChange_SameDirection(p, h) ==
    [tr[p] EXCEPT !.sessionID = IF @ = None THEN h ELSE @,
                  !.pendR = Key(h, ReadDir(p)), !.pendW = Key(h, ReadDir(p))]

(* The transport after prepareKeyChange with the result h of an exchange.  *)
prepareKeyChange(p, h) ==
    [tr[p] EXCEPT !.sessionID = IF @ = None THEN h ELSE @,
                  !.pendR = Key(h, ReadDir(p)), !.pendW = Key(h, WriteDir(p))]

(* A msgNewKeys has been written, or read: the pending key takes effect.   *)
ChangeWriteKey(t) == [t EXCEPT !.wkey = t.pendW, !.pendW = NoKey]
ChangeReadKey(t) == [t EXCEPT !.rkey = t.pendR, !.pendR = NoKey]

-----------------------------------------------------------------------------
(* sendKexInitLocked, t.mu being free or held by the caller: at most one   *)
(* kexInit is sent per exchange.  new is handshakeTransport afterwards.    *)
sendKexInitLocked(p, ok, new) ==
    \/ /\ hs[p].sentInit # 0
       /\ ok /\ new = hs[p] /\ UNCHANGED link
    \/ /\ hs[p].sentInit = 0
       /\ ok /\ new = [hs[p] EXCEPT !.sentInit = hs[p].inits + 1, !.inits = @ + 1]
       /\ Write(p, "kexInit", hs[p].inits + 1)
    \/ /\ hs[p].sentInit = 0 /\ WriteMayFail(p)
       /\ ~ok /\ new = hs[p] /\ UNCHANGED link

(* The values new may take.                                                *)
AfterKexInit(p) == {hs[p], [hs[p] EXCEPT !.sentInit = hs[p].inits + 1, !.inits = @ + 1]}

-----------------------------------------------------------------------------
(* readLoop                                                                *)

Loop(p, from, to) == rl[p].pc = from /\ rl' = [rl EXCEPT ![p].pc = to]

(* readOnePacket returned an error: the error is kept, incoming closed.    *)
Exit(p, from, new) ==
    /\ Loop(p, from, "exited")
    /\ hs' = [hs EXCEPT ![p] = [new EXCEPT !.closed = TRUE]]

(* The top of readOnePacket.                                               *)
CheckThreshold(p) ==
    /\ Loop(p, "check", IF hs[p].read > RekeyThreshold THEN "request" ELSE "read")
    /\ UNCHANGED <<link, down, tr, hs, w, count>>

(* requestKeyChange by the readLoop.                                       *)
RequestKeyChange(p) ==
    /\ hs[p].mu = "free"
    /\ \E ok \in BOOLEAN, new \in AfterKexInit(p) :
           /\ sendKexInitLocked(p, ok, new)
           /\ \/ ok /\ Loop(p, "request", "read") /\ hs' = [hs EXCEPT ![p] = new]
              \/ ~ok /\ Exit(p, "request", new)
    /\ UNCHANGED <<down, tr, w, count>>

(* A packet, not one of a key exchange: it goes to readPacket's caller.    *)
ReadOther(p) ==
    /\ Read(p) /\ Valid(p) /\ Next1(p).t \notin {"kexInit", "newKeys"}
    /\ rl[p].pc = "read"
    /\ rl' = [rl EXCEPT ![p].pc = "push", ![p].pkt = Next1(p).t]
    /\ hs' = [hs EXCEPT ![p].read = @ + 1]
    /\ UNCHANGED <<down, tr, w, count>>

ReadKexInit(p) ==
    /\ Read(p) /\ Valid(p) /\ Next1(p).t = "kexInit"
    /\ rl[p].pc = "read"
    /\ rl' = [rl EXCEPT ![p].pc = "enter", ![p].theirs = Next1(p).arg]
    /\ hs' = [hs EXCEPT ![p].read = @ + 1]
    /\ UNCHANGED <<down, tr, w, count>>

(* The connection has ended, or what arrives is not valid.                 *)
ReadError(p) ==
    /\ rl[p].pc = "read"
    /\ \/ ReadFails(p) /\ UNCHANGED link
       \/ Read(p) /\ ~Valid(p)
    /\ Exit(p, "read", hs[p])
    /\ UNCHANGED <<down, tr, w, count>>

(* enterKeyExchange: our kexInit, unless it was sent before.               *)
EnterKeyExchange(p) ==
    /\ rl[p].pc = "enter" /\ hs[p].mu = "free"
    /\ \E ok \in BOOLEAN, new \in AfterKexInit(p) :
           /\ sendKexInitLocked(p, ok, new)
           /\ hs' = [hs EXCEPT ![p] = new]
           /\ rl' = [rl EXCEPT ![p].err = ~ok,
                               ![p].pc = IF ~ok THEN "finish"
                                         ELSE IF p = "client" THEN "dhInit" ELSE "dhWait"]
    /\ UNCHANGED <<down, tr, w, count>>

(* The hash H of the exchange covers both kexInits, and so do the keys.    *)
H(p) == IF p = "client" THEN <<hs[p].sentInit, rl[p].theirs>>
                        ELSE <<rl[p].theirs, hs[p].sentInit>>

(* The client's kex.Client: its public value, then the server's reply,     *)
(* which is signed over H with the host key.                               *)
ClientInit ==
    /\ Loop("client", "dhInit", "dhWait")
    /\ Write("client", "dhInit", None)
    /\ UNCHANGED <<down, tr, hs, w, count>>

ClientReply ==
    /\ Read("client") /\ Valid("client")
    /\ Next1("client").t = "dhReply" /\ Next1("client").arg = H("client")
    /\ Loop("client", "dhWait", "ready")
    /\ UNCHANGED <<down, tr, hs, w, count>>

(* kex.Server: the client's public value, and the reply.                   *)
ServerReply ==
    /\ ~down["server"] /\ link["client"] # <<>>
    /\ Valid("server") /\ Next1("server").t = "dhInit"
    /\ link' = [link EXCEPT !["client"] = Tail(@),
                            !["server"] = Append(@, Packet("server", "dhReply", H("server")))]
    /\ Loop("server", "dhWait", "ready")
    /\ UNCHANGED <<down, tr, hs, w, count>>

(* The keys are prepared and msgNewKeys is sent, under the old key.        *)
WriteNewKeys(p) ==
    /\ Loop(p, "ready", "newKeys")
    /\ tr[p].pendR = NoKey /\ tr[p].pendW = NoKey    \* pendingKeyChange has room
    /\ Write(p, "newKeys", None)
    /\ tr' = [tr EXCEPT ![p] = ChangeWriteKey(prepareKeyChange(p, H(p)))]
    /\ UNCHANGED <<down, hs, w, count>>

ReadNewKeys(p) ==
    /\ Read(p) /\ Valid(p) /\ Next1(p).t = "newKeys"
    /\ rl[p].pc = "newKeys"
    /\ rl' = [rl EXCEPT ![p].pc = "finish", ![p].err = FALSE]
    /\ tr' = [tr EXCEPT ![p] = ChangeReadKey(@)]
    /\ UNCHANGED <<down, hs, w, count>>

(* An exchange ends in an error: the connection broke, another packet than *)
(* the one expected came, or (CanFail) its contents are refused.           *)
KexError(p) ==
    /\ \/ rl[p].pc \in {"dhInit", "ready"} /\ WriteMayFail(p)
       \/ rl[p].pc \in {"dhWait", "newKeys"} /\ ReadFails(p)
       \/ rl[p].pc = "dhWait" /\ CanFail
       \/ /\ rl[p].pc \in {"dhWait", "newKeys"} /\ link[Other(p)] # <<>>
          /\ ~Valid(p) \/ Next1(p).t \in {"data", "kexInit"}
    /\ rl' = [rl EXCEPT ![p].pc = "finish", ![p].err = TRUE]
    /\ UNCHANGED <<link, down, tr, hs, w, count>>

(* Mutant: no broadcast.                                                   *)
Broadcast_Not(p) == w[p]

(* cond.Broadcast: every waiting writer is woken.                          *)
Broadcast(p) == [g \in Goroutines |-> IF w[p][g] = "wait" THEN "woken" ELSE w[p][g]]

(* The end of readOnePacket after an exchange, under t.mu.                 *)
FinishKeyExchange(p) ==
    LET new == [hs[p] EXCEPT !.sentInit = 0, !.written = 0,
                             !.writeError = @ \/ rl[p].err,
                             !.read = IF rl[p].err THEN @ ELSE 0]
    IN
    /\ rl[p].pc = "finish" /\ hs[p].mu = "free"
    /\ w' = [w EXCEPT ![p] = Broadcast(p)]
    /\ \/ /\ rl[p].err
          /\ Exit(p, "finish", new)
          /\ down' = [down EXCEPT ![p] = TRUE]
       \/ /\ ~rl[p].err
          /\ rl' = [rl EXCEPT ![p].pc = "push", ![p].pkt = "newKeys"]
          /\ hs' = [hs EXCEPT ![p] = new]
          /\ UNCHANGED down
    /\ UNCHANGED <<link, tr, count>>

(* t.incoming <- p, which blocks when nobody reads.                        *)
Push(p) ==
    /\ Len(hs[p].incoming) < IncomingCap
    /\ Loop(p, "push", "check")
    /\ hs' = [hs EXCEPT ![p].incoming = Append(@, rl[p].pkt)]
    /\ UNCHANGED <<link, down, tr, w, count>>

ReadLoop(p) ==
    \/ CheckThreshold(p) \/ RequestKeyChange(p) \/ ReadOther(p) \/ ReadKexInit(p)
    \/ ReadError(p) \/ EnterKeyExchange(p)
    \/ p = "client" /\ (ClientInit \/ ClientReply)
    \/ p = "server" /\ ServerReply
    \/ WriteNewKeys(p) \/ ReadNewKeys(p) \/ KexError(p) \/ FinishKeyExchange(p) \/ Push(p)

-----------------------------------------------------------------------------
(* The goroutines that use the transport.                                  *)

Home(g) == IF g = "mux" THEN "recv" ELSE "idle"
At(p, g, from, to) == w[p][g] = from /\ w' = [w EXCEPT ![p][g] = to]

(* clientHandshake and serverHandshake: request the first key exchange and *)
(* wait until msgNewKeys comes in.  On an error the connection is closed.  *)
FirstRequest(p) ==
    /\ hs[p].mu = "free"
    /\ \E ok \in BOOLEAN, new \in AfterKexInit(p) :
           /\ sendKexInitLocked(p, ok, new)
           /\ hs' = [hs EXCEPT ![p] = new]
           /\ At(p, "mux", "init", IF ok THEN "first" ELSE "end")
           /\ down' = [down EXCEPT ![p] = @ \/ ~ok]
    /\ UNCHANGED <<tr, rl, count>>

(* readPacket                                                              *)
Receive(p) == hs[p].incoming # <<>> /\ hs' = [hs EXCEPT ![p].incoming = Tail(@)]

FirstKeys(p) ==
    /\ Receive(p) /\ Head(hs[p].incoming) = "newKeys"
    /\ At(p, "mux", "first", "recv")
    /\ UNCHANGED <<link, down, tr, rl, count>>

(* mux.loop takes a packet; it may have to answer it before the next one.  *)
TakePacket(p) ==
    /\ Receive(p)
    /\ \/ At(p, "mux", "recv", "recv")
       \/ /\ Head(hs[p].incoming) = "data" /\ count[p]["mux"] < MaxWrites[p]["mux"]
          /\ At(p, "mux", "recv", "lock")
    /\ UNCHANGED <<link, down, tr, rl, count>>

(* readPacket fails: mux.loop, or the handshake, closes the connection.    *)
EndOfPackets(p) ==
    /\ hs[p].closed /\ hs[p].incoming = <<>>
    /\ At(p, "mux", "first", "end") \/ At(p, "mux", "recv", "end")
    /\ down' = [down EXCEPT ![p] = TRUE]
    /\ UNCHANGED <<link, tr, hs, rl, count>>

(* A call of writePacket by a user of the connection.                      *)
StartWrite(p) ==
    /\ w[p]["mux"] \notin {"init", "first", "end"}
    /\ count[p]["app"] < MaxWrites[p]["app"]
    /\ At(p, "app", "idle", "lock")
    /\ UNCHANGED <<link, down, tr, hs, rl, count>>

(* The rest of writePacket, with t.mu held and new the transport so far:   *)
(* wait while an exchange is going on, else fail or write.  The error of   *)
(* an exchange that failed is returned with t.mu still locked.             *)
Finish(p, g, from, new) ==
    \/ /\ new.sentInit # 0
       /\ At(p, g, from, "wait")
       /\ hs' = [hs EXCEPT ![p] = new]
       /\ UNCHANGED count
    \/ /\ new.sentInit = 0 /\ new.writeError
       /\ At(p, g, from, Home(g))
       /\ hs' = [hs EXCEPT ![p] = [new EXCEPT !.mu = g]]
       /\ count' = [count EXCEPT ![p][g] = @ + 1]
    \/ /\ new.sentInit = 0 /\ ~new.writeError
       /\ At(p, g, from, Home(g))
       /\ hs' = [hs EXCEPT ![p] = [new EXCEPT !.written = @ + 1]]
       /\ count' = [count EXCEPT ![p][g] = @ + 1]

(* The data is written only where Finish neither waits nor fails.          *)
WriteData(p, new) ==
    IF new.sentInit # 0 \/ new.writeError THEN UNCHANGED link
    ELSE Write(p, "data", None) \/ (WriteMayFail(p) /\ UNCHANGED link)

(* Mutant: a writer that has just asked for new keys does not wait.        *)
WritePacket_NoWait(p, g) ==
    /\ w[p][g] = "lock" /\ hs[p].mu = "free"
    /\ ~hs[p].writeError
    /\ At(p, g, "lock", Home(g))
    /\ hs' = [hs EXCEPT ![p].written = @ + 1]
    /\ count' = [count EXCEPT ![p][g] = @ + 1]
    /\ Write(p, "data", None)
    /\ UNCHANGED <<down, tr, rl>>

(* writePacket up to its first wait: when the threshold is passed, a       *)
(* kexInit is sent first (an error of that is ignored).                    *)
WritePacket(p, g) ==
    /\ w[p][g] = "lock" /\ hs[p].mu = "free"
    /\ \/ /\ hs[p].written > RekeyThreshold
          /\ \E ok \in BOOLEAN, new \in AfterKexInit(p) :
                 /\ sendKexInitLocked(p, ok, new)
                 /\ new.sentInit # 0 /\ Finish(p, g, "lock", new)
       \/ /\ hs[p].written <= RekeyThreshold \/ WriteMayFail(p)
          /\ WriteData(p, hs[p])
          /\ Finish(p, g, "lock", hs[p])
    /\ UNCHANGED <<down, tr, rl>>

(* cond.Wait returns once t.mu is free.                                    *)
Rewrite(p, g) ==
    /\ w[p][g] = "woken" /\ hs[p].mu = "free"
    /\ WriteData(p, hs[p])
    /\ Finish(p, g, "woken", hs[p])
    /\ UNCHANGED <<down, tr, rl>>

Mux(p) == FirstRequest(p) \/ FirstKeys(p) \/ TakePacket(p) \/ EndOfPackets(p)

(* The network fails.                                                      *)
Drop ==
    /\ CanDrop /\ \E p \in Peers : ~down[p]
    /\ down' = [p \in Peers |-> TRUE]
    /\ UNCHANGED <<link, tr, hs, rl, w, count>>

(* Nobody has anything to do: all is read and written, or the end.         *)
Quiet ==
    /\ \A p \in Peers : /\ rl[p].pc = "read" /\ ~ReadFails(p) /\ link[p] = <<>>
                        /\ hs[p].incoming = <<>>
                        /\ w[p] = [g \in Goroutines |-> Home(g)]
    /\ UNCHANGED vars

Next == \/ \E p \in Peers : ReadLoop(p) \/ Mux(p) \/ StartWrite(p)
        \/ \E p \in Peers, g \in Goroutines : WritePacket(p, g) \/ Rewrite(p, g)
        \/ Drop
        \/ Quiet

Spec == Init /\ [][Next]_vars

(* Every goroutine that can run does; t.mu is passed on to whoever keeps   *)
(* trying to lock it.  Nobody has to start a write.                        *)
Fairness ==
    \A p \in Peers : /\ WF_vars(ReadLoop(p)) /\ WF_vars(Mux(p))
                     /\ \A g \in Goroutines : WF_vars(WritePacket(p, g) \/ Rewrite(p, g))
FairSpec == Spec /\ Fairness

-----------------------------------------------------------------------------
(* Each end reads every packet with the key the other end wrote it with,   *)
(* though each changes the keys of its two directions at different times   *)
(* and either may have started the exchange: no packet that arrives fails  *)
(* its MAC check, and no msgNewKeys comes before its key is ready.  All    *)
(* these keys are derived with the session ID, under which the server also *)
(* files the client's keys: it stays the hash of the first exchange of the *)
(* connection, on both ends, through every re-keying.                      *)
KeysMatch ==
    \A p \in Peers :
        /\ rl[p].pc # "exited" /\ link[Other(p)] # <<>>
               => Authentic(p) /\ (rl[p].pc = "read" => Next1(p).t # "newKeys")
        /\ tr[p].sessionID \in {None, <<1, 1>>}

InExchange == {"enter", "dhInit", "dhWait", "ready", "newKeys"}

(* Once an end has sent its kexInit it sends nothing but the messages of   *)
(* the exchange until its msgNewKeys ("all writes will be blocked until    *)
(* the change is done"): the other end, which reads these messages inside  *)
(* the exchange, never meets a data packet there.                          *)
KexSilence ==
    \A p \in Peers :
        /\ rl[Other(p)].pc \in InExchange /\ link[p] # <<>> => Head(link[p]).t # "data"
        /\ \A i, j \in DOMAIN link[p] :
               i < j /\ link[p][i].t \in {"kexInit", "dhInit", "dhReply"} /\ link[p][j].t = "data"
                   => \E n \in i..j : link[p][n].t = "newKeys"

Writing(p, g) == w[p][g] \in {"lock", "wait", "woken"}

(* The goroutine that reads incoming waits for the exchange to end while   *)
(* readLoop, which alone could end it, waits for room in incoming.         *)
Wedged(p) == /\ rl[p].pc = "push" /\ Len(hs[p].incoming) = IncomingCap
             /\ w[p]["mux"] = "wait" /\ hs[p].sentInit # 0

(* The connection ended after the kexInit was sent and before the answer   *)
(* came: readLoop returned without waking the writers.                     *)
Stranded(p) == rl[p].pc = "exited" /\ hs[p].sentInit # 0

(* A writer took the error of a failed exchange and kept t.mu.             *)
Leaked(p) == hs[p].mu # "free" /\ hs[p].writeError

(* Every writePacket returns, however many exchanges it meets, whether     *)
(* they end or fail ("Unblock writers.", handshake.go:179) and when the    *)
(* connection breaks: the three above, on its own end or, for a wedge, on  *)
(* the other, are the only ways in which one does not.                     *)
WritersReturnUnless ==
    \A p \in Peers, g \in Goroutines :
        Writing(p, g) ~> \/ ~Writing(p, g)
                         \/ Wedged(p) \/ Wedged(Other(p)) \/ Stranded(p) \/ Leaked(p)

=============================================================================
