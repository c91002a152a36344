---------------------------- MODULE ChannelData -----------------------------
(***************************************************************************)
(* The data of one ssh channel in one direction: the writers' end (Write,  *)
(* WriteExtended, CloseWrite, Close of channel.go, and window of common.go *)
(* that they reserve from) and the readers' end (handleData, ReadExtended, *)
(* adjustWindow, and buffer of buffer.go).  Stream 0 is the plain data,    *)
(* stream 1 stderr, any other is discarded by the readers' end.  One       *)
(* goroutine writes and one reads each stream.  Byte k of a stream is the  *)
(* number k.  uint32 is a number modulo Mod.                               *)
(***************************************************************************)
EXTENDS Naturals, Sequences, SequencesExt, FiniteSetsExt

CONSTANTS
    Mod,            \* 2^32
    WindowSize,     \* channelWindowSize: the readers' end grants this at first
    MaxPayload,     \* channelMaxPacket, maxRemotePayload
    Streams,        \* the extended codes written to
    Length,         \* Length[s]: bytes the writer of stream s writes, in one Write
    ReadSize,       \* the size of the buffer passed to Read
    Adjustments,    \* other window adjustments that the writers' end may receive
    MaxAdjustments, \* bound: how many of them
    CanClose        \* the two ends may close the channel

ASSUME ChannelDataAssumption ==
    /\ Mod \in Nat \ {0} /\ WindowSize \in 1..(Mod - 1) /\ MaxPayload \in 1..(Mod - 1)
    /\ Streams \subseteq Nat /\ IsFiniteSet(Streams) /\ \A s \in Streams : Length[s] \in 1..(Mod - 1)
    /\ ReadSize \in Nat \ {0}
    /\ Adjustments \subseteq 0..(Mod - 1) /\ MaxAdjustments \in Nat /\ CanClose \in BOOLEAN

Readable == Streams \cap {0, 1}

VARIABLES
    remoteWin,  \* window of the writers' end: win, closed
    w,          \* w[s]: the Write on stream s: pc, n (bytes sent), space (reserved)
    sentEOF, sentClose,      \* writers' end
    link,       \* packets from the writers' end to the readers' end
    back,       \* window adjustments and close on the way back
    myWindow,   \* readers' end
    buf,        \* buf[s]: pending and extPending: bytes, closed
    r,          \* r[s]: bytes that Read has returned, whether it has returned io.EOF
    open,       \* the readers' end has neither closed the channel nor failed
    failed,     \* an end whose mux stopped with an error, and why
    extra,      \* number of other adjustments
    granted, reserved   \* window bytes the writers' end was ever given, has ever reserved

vars == <<remoteWin, w, sentEOF, sentClose, link, back, myWindow, buf, r, open, failed,
          extra, granted, reserved>>

Init ==
    /\ remoteWin = [win |-> WindowSize, closed |-> FALSE]
    /\ w = [s \in Streams |-> [pc |-> "top", n |-> 0, space |-> 0]]
    /\ sentEOF = FALSE /\ sentClose = FALSE
    /\ link = <<>> /\ back = <<>>
    /\ myWindow = WindowSize
    /\ buf = [s \in Readable |-> [bytes |-> <<>>, closed |-> FALSE]]
    /\ r = [s \in Readable |-> [got |-> <<>>, eof |-> FALSE]]
    /\ open = TRUE /\ failed = "no" /\ extra = 0
    /\ granted = WindowSize /\ reserved = 0

Data(s, from, len) == [t |-> "data", s |-> s, bytes |-> [i \in 1..len |-> from + i]]
Msg(t) == [t |-> t, s |-> 0, bytes |-> <<>>]

-----------------------------------------------------------------------------
(* The writers' end.                                                       *)

(* Mutant: the sum is not checked.                                         *)
Overflows_Not(win) == FALSE

(* window.add refuses a sum that does not fit.                             *)
Overflows(win) == (remoteWin.win + win) % Mod < win

(* window.reserve as far as it has not to wait.                            *)
Reserve(s) ==
    LET want == Min({MaxPayload, Length[s] - w[s].n})
        got == Min({want, remoteWin.win})
    IN
    /\ w[s].pc = "top" /\ w[s].n < Length[s]
    /\ w[s].n = 0 => ~sentEOF             \* checked once, at the start of Write
    /\ remoteWin.win # 0 \/ remoteWin.closed
    /\ remoteWin' = [remoteWin EXCEPT !.win = @ - got]
    /\ w' = [w EXCEPT ![s].space = got, ![s].pc = IF remoteWin.closed THEN "eof" ELSE "send"]
    /\ reserved' = reserved + got
    /\ UNCHANGED <<sentEOF, sentClose, link, back, myWindow, buf, r, open, failed, extra, granted>>

(* The packet is written, or writePacket finds the channel closed.         *)
SendData(s) ==
    /\ w[s].pc = "send"
    /\ IF sentClose
       THEN /\ w' = [w EXCEPT ![s].pc = "eof"]
            /\ UNCHANGED link
       ELSE /\ w' = [w EXCEPT ![s].pc = "top", ![s].n = @ + w[s].space]
            /\ link' = Append(link, Data(s, w[s].n, w[s].space))
    /\ UNCHANGED <<remoteWin, sentEOF, sentClose, back, myWindow, buf, r, open, failed, extra, granted, reserved>>

(* Write after CloseWrite.                                                 *)
WriteAfterEOF(s) ==
    /\ w[s].pc = "top" /\ w[s].n = 0 /\ sentEOF
    /\ w' = [w EXCEPT ![s].pc = "eof"]
    /\ UNCHANGED <<remoteWin, sentEOF, sentClose, link, back, myWindow, buf, r, open, failed, extra, granted, reserved>>

(* CloseWrite by the user of the channel, when the Writes have returned.   *)
CloseWrite ==
    /\ ~sentEOF /\ ~sentClose
    /\ \A s \in Streams : w[s].pc = "eof" \/ w[s].n = Length[s] \/ (w[s].n = 0 /\ w[s].pc = "top")
    /\ sentEOF' = TRUE
    /\ link' = Append(link, Msg("eof"))
    /\ UNCHANGED <<remoteWin, w, sentClose, back, myWindow, buf, r, open, failed, extra, granted, reserved>>

(* Close by the user of the writers' end, at any time.                     *)
Close ==
    /\ CanClose /\ ~sentClose
    /\ sentClose' = TRUE
    /\ link' = Append(link, Msg("close"))
    /\ UNCHANGED <<remoteWin, w, sentEOF, back, myWindow, buf, r, open, failed, extra, granted, reserved>>

(* handlePacket: an adjustment.  The mux stops on one that is too large,   *)
(* and closes the channel.                                                 *)
AdjustBy(n) ==
    IF n # 0 /\ Overflows(n)
    THEN /\ failed' = "adjust"
         /\ remoteWin' = [remoteWin EXCEPT !.closed = TRUE]
         /\ sentClose' = TRUE
         /\ UNCHANGED granted
    ELSE /\ remoteWin' = [remoteWin EXCEPT !.win = (@ + n) % Mod]
         /\ granted' = granted + n
         /\ UNCHANGED <<failed, sentClose>>

HandleAdjust ==
    /\ back # <<>> /\ Head(back) # 0 /\ failed = "no"
    /\ back' = Tail(back)
    /\ AdjustBy(Head(back))
    /\ UNCHANGED <<w, sentEOF, link, myWindow, buf, r, open, extra, reserved>>

(* The peer is another implementation and grants more.                     *)
HandleOther(n) ==
    /\ extra < MaxAdjustments /\ failed = "no"
    /\ extra' = extra + 1
    /\ AdjustBy(n)
    /\ UNCHANGED <<w, sentEOF, link, back, myWindow, buf, r, open, reserved>>

(* Mutant: the window is not closed.                                       *)
CloseWindow_Not == remoteWin

(* channel.close: "Unblock writers."                                       *)
CloseWindow == [remoteWin EXCEPT !.closed = TRUE]

(* The close of the readers' end (0 on the way back) is answered with ours *)
(* if it was not sent before.                                              *)
HandleClose ==
    /\ back # <<>> /\ Head(back) = 0 /\ failed = "no"
    /\ back' = Tail(back)
    /\ sentClose' = TRUE
    /\ link' = IF sentClose THEN link ELSE Append(link, Msg("close"))
    /\ remoteWin' = CloseWindow
    /\ UNCHANGED <<w, sentEOF, myWindow, buf, r, open, failed, extra, granted, reserved>>

-----------------------------------------------------------------------------
(* The readers' end.                                                       *)

EndBuffers == [s \in Readable |-> [buf[s] EXCEPT !.closed = TRUE]]

(* Mutant: the window is charged with stream 0 only.                       *)
Charge_Plain(p) == IF p.s = 0 THEN Len(p.bytes) ELSE 0

(* The part of the window that a data packet uses up.                      *)
Charge(p) == Len(p.bytes)

(* handleData *)
HandleData ==
    LET p == Head(link) IN
    /\ link # <<>> /\ p.t = "data" /\ failed = "no"
    /\ link' = Tail(link)
    /\ IF myWindow < Charge(p)
       THEN failed' = "too much" /\ UNCHANGED <<myWindow, buf>>
       ELSE /\ myWindow' = myWindow - Charge(p)
            /\ buf' = IF p.s \in Readable THEN [buf EXCEPT ![p.s].bytes = @ \o p.bytes] ELSE buf
            /\ UNCHANGED failed
    /\ UNCHANGED <<remoteWin, w, sentEOF, sentClose, back, r, open, extra, granted, reserved>>

(* msgChannelEOF and msgChannelClose; the latter is answered.              *)
HandleEnd ==
    /\ link # <<>> /\ Head(link).t # "data" /\ failed = "no"
    /\ link' = Tail(link)
    /\ buf' = EndBuffers
    /\ IF Head(link).t = "close" /\ open
       THEN open' = FALSE /\ back' = Append(back, 0)
       ELSE UNCHANGED <<open, back>>
    /\ UNCHANGED <<remoteWin, w, sentEOF, sentClose, myWindow, r, failed, extra, granted, reserved>>

(* adjustWindow's message, which is not sent once this end is closed.      *)
SendAdjust(n) == IF open THEN Append(back, n) ELSE back

(* ReadExtended: what is there, up to the size of the buffer passed, and   *)
(* the window grows by that.                                               *)
ReadExtended(s) ==
    LET n == Min({ReadSize, Len(buf[s].bytes)}) IN
    /\ buf[s].bytes # <<>>
    /\ buf' = [buf EXCEPT ![s].bytes = SubSeq(@, n + 1, Len(@))]
    /\ r' = [r EXCEPT ![s].got = @ \o SubSeq(buf[s].bytes, 1, n)]
    /\ myWindow' = myWindow + n
    /\ back' = SendAdjust(n)
    /\ UNCHANGED <<remoteWin, w, sentEOF, sentClose, link, open, failed, extra, granted, reserved>>

(* Mutant: io.EOF as soon as the buffer is closed.                         *)
AtEOF_Early(s) == buf[s].closed

(* buffer.Read returns io.EOF when the buffer is empty and closed.         *)
AtEOF(s) == buf[s].closed /\ buf[s].bytes = <<>>

ReadEOF(s) ==
    /\ AtEOF(s) /\ ~r[s].eof
    /\ r' = [r EXCEPT ![s].eof = TRUE]
    /\ UNCHANGED <<remoteWin, w, sentEOF, sentClose, link, back, myWindow, buf, open, failed, extra, granted, reserved>>

(* Close by the user of the readers' end.                                  *)
CloseReader ==
    /\ CanClose /\ open /\ failed = "no"
    /\ open' = FALSE
    /\ back' = Append(back, 0)
    /\ UNCHANGED <<remoteWin, w, sentEOF, sentClose, link, myWindow, buf, r, failed, extra, granted, reserved>>

Writer(s) == Reserve(s) \/ SendData(s) \/ WriteAfterEOF(s)
Reader(s) == ReadExtended(s) \/ ReadEOF(s)
Muxes == HandleAdjust \/ HandleClose \/ HandleData \/ HandleEnd

Next ==
    \/ \E s \in Streams : Writer(s)
    \/ \E s \in Readable : Reader(s)
    \/ Muxes \/ CloseWrite \/ Close \/ CloseReader
    \/ \E n \in Adjustments : HandleOther(n)

Spec == Init /\ [][Next]_vars

(* Goroutines that can run do; the application keeps reading.  Nobody has  *)
(* to close anything.                                                      *)
Fairness ==
    /\ \A s \in Streams : WF_vars(Writer(s))
    /\ \A s \in Readable : WF_vars(Reader(s))
    /\ WF_vars(Muxes)
FairSpec == Spec /\ Fairness

-----------------------------------------------------------------------------
(* What window.add accepted and reserve gave out is what remoteWin holds:  *)
(* no sum wraps around 2^32, no difference goes below zero.                *)
WindowExact == remoteWin.win = granted - reserved /\ remoteWin.win < Mod

(* The sum of a sequence of numbers.                                       *)
Total(q) == LET sum[i \in 0..Len(q)] == IF i = 0 THEN 0 ELSE sum[i - 1] + q[i]
            IN  sum[Len(q)]

StreamSeq == SetToSeq(Streams)

(* What the Write on stream s has reserved and not sent.                   *)
Held(s) == IF w[s].pc = "send" THEN w[s].space ELSE 0

(* What the writers' end may still send, has reserved, or is on its way    *)
(* here, and the adjustments on their way there.                           *)
Outstanding ==
    remoteWin.win + Total([i \in DOMAIN StreamSeq |-> Held(StreamSeq[i])])
                  + Total([i \in DOMAIN link |-> Len(link[i].bytes)])
                  + Total(back)

(* The two ends never disagree about the window, though each keeps its own *)
(* count and data, adjustments and closes cross: a writer of this library  *)
(* never makes handleData say "remote side wrote too much", and myWindow   *)
(* "can never exceed the initial window setting" (channel.go:335).  Said   *)
(* of two ends of this library: once a peer has granted what it does not   *)
(* have, the two counts differ.                                            *)
WindowKept ==
    extra = 0 =>
    /\ failed # "too much" /\ myWindow <= WindowSize
    /\ Outstanding <= myWindow
    /\ open /\ ~sentClose => Outstanding = myWindow

(* Each stream arrives whole and in order, and io.EOF only after its last  *)
(* byte when the writer ended it with CloseWrite and nobody closed.        *)
StreamIntact ==
    \A s \in Readable :
        /\ r[s].got = [i \in 1..Len(r[s].got) |-> i]
        /\ r[s].eof /\ open /\ ~sentClose => Len(r[s].got) = w[s].n

Returned(s) == w[s].pc = "eof" \/ w[s].n = Length[s]

(* Bytes of streams that the readers' end discards: no adjustment is ever  *)
(* sent for them, so that part of the window is gone.                      *)
Discarded == WindowSize - myWindow - FoldSet(LAMBDA s, n : Len(buf[s].bytes) + n, 0, Readable)

(* A Write returns: the readers make room, or a close unblocks it.  Only   *)
(* when the whole window was used up by discarded data it never does.      *)
WritesReturn ==
    \A s \in Streams : <>(Returned(s) \/ failed # "no" \/ Discarded = WindowSize)

=============================================================================
