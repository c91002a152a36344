------------------------- MODULE ChannelDataProofs --------------------------
(***************************************************************************)
(* Theorems about ChannelData, for any word size, windows, packet sizes,   *)
(* streams and lengths of the writes.                                      *)
(***************************************************************************)
EXTENDS ChannelData, SequenceTheorems, FiniteSetTheorems, WellFoundedInduction, TLAPS

Packet == [t : {"data", "eof", "close"}, s : Nat, bytes : Seq(Nat)]
Window == [win : Nat, closed : BOOLEAN]
Writing == [pc : {"top", "send", "eof"}, n : Nat, space : Nat]
Buffer == [bytes : Seq(Nat), closed : BOOLEAN]
Reading == [got : Seq(Nat), eof : BOOLEAN]

TypeOK ==
    /\ remoteWin \in Window /\ w \in [Streams -> Writing]
    /\ sentEOF \in BOOLEAN /\ sentClose \in BOOLEAN
    /\ link \in Seq(Packet) /\ back \in Seq(0..WindowSize)
    /\ myWindow \in Nat
    /\ buf \in [Readable -> Buffer] /\ r \in [Readable -> Reading]
    /\ open \in BOOLEAN /\ failed \in {"no", "adjust", "too much"}
    /\ extra \in Nat /\ granted \in Nat /\ reserved \in Nat

(* What a Write has sent and reserved is a part of what it writes.         *)
WritesFit ==
    \A s \in Streams :
        /\ w[s].n <= Length[s]
        /\ w[s].pc = "send" => w[s].space # 0 /\ w[s].n + w[s].space <= Length[s]

Pending(s) == IF s \in Readable THEN Len(buf[s].bytes) ELSE 0

(* The readers' end holds no more than it has granted: what it may still   *)
(* receive and what nobody has read yet fit into the first window.         *)
RoomKept == myWindow + Pending(0) + Pending(1) <= WindowSize

Inv == TypeOK /\ WritesFit /\ RoomKept /\ WindowExact

-----------------------------------------------------------------------------
(* Lemmas about the operators.                                             *)

(* The smaller of two numbers.                                             *)
LEMMA MinOfTwo ==
    ASSUME NEW a \in Nat, NEW b \in Nat
    PROVE  /\ Min({a, b}) \in Nat
           /\ Min({a, b}) <= a /\ Min({a, b}) <= b
           /\ Min({a, b}) = a \/ Min({a, b}) = b
<1>1. \E x \in {a, b} : \A y \in {a, b} : x <= y
  OBVIOUS
<1> QED
  BY <1>1 DEF Min

(* The remainder of a sum of two words.                                    *)
LEMMA ModOfSum ==
    ASSUME NEW m \in Nat \ {0}, NEW a \in 0..(m - 1), NEW b \in 0..(m - 1)
    PROVE  (a + b) % m = IF a + b < m THEN a + b ELSE a + b - m
  OBVIOUS

(* window.add refuses exactly the sums that do not fit into a word.        *)
LEMMA OverflowsExactly ==
    ASSUME TypeOK, WindowExact, NEW n \in 1..(Mod - 1)
    PROVE  /\ Overflows(n) <=> remoteWin.win + n >= Mod
           /\ ~Overflows(n) => (remoteWin.win + n) % Mod = remoteWin.win + n
<1>a. Mod \in Nat \ {0}
  BY ChannelDataAssumption
<1>b. remoteWin.win \in Nat
  BY DEF TypeOK, Window
<1>1. remoteWin.win \in 0..(Mod - 1)
  BY <1>a, <1>b DEF WindowExact
<1>c. n \in 0..(Mod - 1)
  OBVIOUS
<1>2. (remoteWin.win + n) % Mod = IF remoteWin.win + n < Mod THEN remoteWin.win + n ELSE remoteWin.win + n - Mod
  BY <1>1, <1>a, <1>c, ModOfSum, Zenon
<1> QED
  BY <1>1, <1>2, <1>a DEF Overflows

(* What is read from a buffer, and what stays in it.                       *)
LEMMA ReadParts ==
    ASSUME NEW b \in Seq(Nat), NEW n \in Nat, n <= Len(b)
    PROVE  /\ SubSeq(b, 1, n) \in Seq(Nat) /\ Len(SubSeq(b, 1, n)) = n
           /\ SubSeq(b, n + 1, Len(b)) \in Seq(Nat) /\ Len(SubSeq(b, n + 1, Len(b))) = Len(b) - n
           /\ \A i \in 1..n : SubSeq(b, 1, n)[i] = b[i]
           /\ \A i \in 1..(Len(b) - n) : SubSeq(b, n + 1, Len(b))[i] = b[n + i]
<1>1. \A i \in 1..n : b[i] \in Nat
  OBVIOUS
<1>2. \A i \in (n + 1)..Len(b) : b[i] \in Nat
  OBVIOUS
<1>3. SubSeq(b, 1, n) \in Seq(Nat) /\ Len(SubSeq(b, 1, n)) = n /\ \A i \in 1..n : SubSeq(b, 1, n)[i] = b[i]
  BY <1>1, SubSeqProperties
<1>4. /\ SubSeq(b, n + 1, Len(b)) \in Seq(Nat)
      /\ Len(SubSeq(b, n + 1, Len(b))) = Len(b) - n
      /\ \A i \in 1..(Len(b) - n) : SubSeq(b, n + 1, Len(b))[i] = b[n + i]
  <2> DEFINE u == SubSeq(b, n + 1, Len(b))
             m == n + 1
             k == Len(b)
  <2>1. m \in Int /\ k \in Int /\ \A i \in m..k : b[i] \in Nat
    BY <1>2
  <2> HIDE DEF m, k
  <2>2. /\ SubSeq(b, m, k) \in Seq(Nat)
        /\ Len(SubSeq(b, m, k)) = IF m <= k THEN k - m + 1 ELSE 0
        /\ \A i \in 1..(k - m + 1) : SubSeq(b, m, k)[i] = b[m + i - 1]
    BY <2>1, SubSeqProperties
  <2>3. m = n + 1 /\ k = Len(b) /\ SubSeq(b, n + 1, Len(b)) = SubSeq(b, m, k)
    BY DEF m, k
  <2>4. Len(SubSeq(b, m, k)) = Len(b) - n
    BY <2>2, <2>3
  <2>5. ASSUME NEW i \in 1..(Len(b) - n) PROVE SubSeq(b, m, k)[i] = b[n + i]
    <3>1. i \in 1..(k - m + 1) /\ m + i - 1 = n + i
      BY <2>3
    <3> QED
      BY <2>2, <3>1
  <2> QED
    BY <2>2, <2>3, <2>4, <2>5
<1> QED
  BY <1>3, <1>4

(* Packets are packets.                                                    *)
LEMMA PacketTypes ==
    /\ \A s \in Nat, from \in Nat, len \in Nat :
          Data(s, from, len) \in Packet /\ Len(Data(s, from, len).bytes) = len
    /\ Msg("eof") \in Packet /\ Msg("close") \in Packet
<1>1. ASSUME NEW s \in Nat, NEW from \in Nat, NEW len \in Nat
      PROVE  Data(s, from, len) \in Packet /\ Len(Data(s, from, len).bytes) = len
  <2>1. [i \in 1..len |-> from + i] \in Seq(Nat) /\ Len([i \in 1..len |-> from + i]) = len
    OBVIOUS
  <2> QED
    BY <2>1 DEF Data, Packet
<1>2. Msg("eof") \in Packet /\ Msg("close") \in Packet
  BY DEF Msg, Packet
<1> QED
  BY <1>1, <1>2

-----------------------------------------------------------------------------
(* The inductive invariant of the counts.                                  *)

(* The initial state satisfies the counts: the whole window is unspent and *)
(* nothing is under way.                                                   *)
LEMMA InitInv == Init => Inv
<1> SUFFICES ASSUME Init PROVE Inv
  OBVIOUS
<1>1. WindowSize \in Nat /\ WindowSize < Mod
  BY ChannelDataAssumption
<1>2. remoteWin \in Window /\ w \in [Streams -> Writing]
  BY <1>1 DEF Init, Window, Writing
<1>3. buf \in [Readable -> Buffer] /\ r \in [Readable -> Reading]
  BY DEF Init, Buffer, Reading
<1>4. link \in Seq(Packet) /\ back \in Seq(0..WindowSize)
  BY DEF Init
<1>5. TypeOK
  BY <1>1, <1>2, <1>3, <1>4 DEF Init, TypeOK
<1>6. WritesFit
  BY ChannelDataAssumption DEF Init, WritesFit
<1>7. Pending(0) = 0 /\ Pending(1) = 0
  BY DEF Init, Pending
<1>8. RoomKept /\ WindowExact
  BY <1>1, <1>7 DEF Init, RoomKept, WindowExact
<1> QED
  BY <1>5, <1>6, <1>8 DEF Inv

(* One stream's Write after a step of it.                                  *)
Wrote(s, p, n, space) ==
    /\ w' \in [Streams -> Writing] /\ w'[s].pc = p /\ w'[s].n = n /\ w'[s].space = space
    /\ \A q \in Streams : q # s => w'[q] = w[q]

(* The three forms of update a Write's record takes.                       *)
LEMMA WritingUpdate ==
    ASSUME TypeOK, NEW s \in Streams, NEW p \in {"top", "send", "eof"}, NEW k \in Nat
    PROVE  /\ w' = [w EXCEPT ![s].space = k, ![s].pc = p] => Wrote(s, p, w[s].n, k)
           /\ w' = [w EXCEPT ![s].pc = p, ![s].n = k] => Wrote(s, p, k, w[s].space)
           /\ w' = [w EXCEPT ![s].pc = p] => Wrote(s, p, w[s].n, w[s].space)
<1>1. w \in [Streams -> Writing]
  BY DEF TypeOK
<1>2. ASSUME w' = [w EXCEPT ![s].space = k, ![s].pc = p] PROVE Wrote(s, p, w[s].n, k)
  <2> DEFINE g == [w EXCEPT ![s].space = k, ![s].pc = p]
  <2>1. g \in [Streams -> Writing] /\ g[s].pc = p /\ g[s].n = w[s].n /\ g[s].space = k
        /\ \A q \in Streams : q # s => g[q] = w[q]
    BY <1>1 DEF Writing
  <2> QED
    BY <1>2, <2>1, Zenon DEF Wrote
<1>3. ASSUME w' = [w EXCEPT ![s].pc = p, ![s].n = k] PROVE Wrote(s, p, k, w[s].space)
  <2> DEFINE g == [w EXCEPT ![s].pc = p, ![s].n = k]
  <2>1. g \in [Streams -> Writing] /\ g[s].pc = p /\ g[s].n = k /\ g[s].space = w[s].space
        /\ \A q \in Streams : q # s => g[q] = w[q]
    BY <1>1 DEF Writing
  <2> QED
    BY <1>3, <2>1, Zenon DEF Wrote
<1>4. w' = [w EXCEPT ![s].pc = p] => Wrote(s, p, w[s].n, w[s].space)
  BY <1>1 DEF Writing, Wrote
<1> QED
  BY <1>2, <1>3, <1>4

(* The window of the writers' end after a step of it.                      *)
LEMMA WindowUpdate ==
    ASSUME TypeOK, NEW k \in Nat
    PROVE  /\ [remoteWin EXCEPT !.win = k] \in Window
           /\ [remoteWin EXCEPT !.win = k].win = k
           /\ [remoteWin EXCEPT !.closed = TRUE] \in Window
           /\ [remoteWin EXCEPT !.closed = TRUE].win = remoteWin.win
  BY DEF TypeOK, Window

(* The state of a Write that has something left to do.                     *)
LEMMA WriterFacts ==
    ASSUME Inv, NEW s \in Streams
    PROVE  /\ s \in Nat /\ Length[s] \in Nat /\ w[s].n \in Nat /\ w[s].space \in Nat
           /\ w[s].pc \in {"top", "send", "eof"} /\ w[s].n <= Length[s]
           /\ w[s].pc = "send" => w[s].space # 0 /\ w[s].n + w[s].space <= Length[s]
<1>1. s \in Nat /\ Length[s] \in Nat
  BY ChannelDataAssumption
<1>2. w[s] \in Writing
  BY DEF Inv, TypeOK
<1>3. w[s].n \in Nat /\ w[s].space \in Nat /\ w[s].pc \in {"top", "send", "eof"}
  BY <1>2 DEF Writing
<1> QED
  BY <1>1, <1>3 DEF Inv, WritesFit

(* What reserve() gives out is wanted and is there.                        *)
LEMMA ReserveEffect ==
    ASSUME Inv, NEW s \in Streams, Reserve(s)
    PROVE  \E got \in Nat :
             /\ got <= remoteWin.win /\ w[s].n + got <= Length[s]
             /\ ~remoteWin.closed => got # 0
             /\ remoteWin' = [remoteWin EXCEPT !.win = remoteWin.win - got]
             /\ w' = [w EXCEPT ![s].space = got, ![s].pc = IF remoteWin.closed THEN "eof" ELSE "send"]
             /\ reserved' = reserved + got
<1> DEFINE want == Min({MaxPayload, Length[s] - w[s].n})
           got == Min({want, remoteWin.win})
<1>1. w[s].n \in Nat /\ Length[s] \in Nat
  BY WriterFacts
<1>2. w[s].n < Length[s]
  BY DEF Reserve
<1>3. MaxPayload \in Nat \ {0}
  BY ChannelDataAssumption
<1>4. remoteWin.win \in Nat
  BY DEF Inv, TypeOK, Window
<1>5. Length[s] - w[s].n \in Nat \ {0}
  BY <1>1, <1>2
<1>6. want \in Nat /\ want <= Length[s] - w[s].n /\ want # 0
  BY <1>3, <1>5, MinOfTwo
<1>7. got \in Nat /\ got <= want /\ got <= remoteWin.win /\ (remoteWin.win # 0 => got # 0)
  BY <1>4, <1>6, MinOfTwo
<1>8. /\ remoteWin' = [remoteWin EXCEPT !.win = remoteWin.win - got]
      /\ w' = [w EXCEPT ![s].space = got, ![s].pc = IF remoteWin.closed THEN "eof" ELSE "send"]
      /\ reserved' = reserved + got
      /\ remoteWin.win # 0 \/ remoteWin.closed
  BY Zenon DEF Reserve
<1> HIDE DEF want, got
<1>9. w[s].n + got <= Length[s]
  BY <1>1, <1>6, <1>7
<1>10. ~remoteWin.closed => got # 0
  BY <1>7, <1>8
<1> QED
  BY <1>7, <1>8, <1>9, <1>10, Zenon

(* window.reserve keeps the counts: what it takes from the window is what  *)
(* the Write now holds to send.                                            *)
LEMMA ReserveInv == ASSUME Inv, NEW s \in Streams, Reserve(s) PROVE Inv'
<1>1. PICK got \in Nat :
             /\ got <= remoteWin.win /\ w[s].n + got <= Length[s]
             /\ ~remoteWin.closed => got # 0
             /\ remoteWin' = [remoteWin EXCEPT !.win = remoteWin.win - got]
             /\ w' = [w EXCEPT ![s].space = got, ![s].pc = IF remoteWin.closed THEN "eof" ELSE "send"]
             /\ reserved' = reserved + got
  BY ReserveEffect
<1>2. UNCHANGED <<sentEOF, sentClose, link, back, myWindow, buf, r, open, failed, extra, granted>>
  BY DEF Reserve
<1> DEFINE p == IF remoteWin.closed THEN "eof" ELSE "send"
<1>3. p \in {"top", "send", "eof"} /\ (p = "send" => ~remoteWin.closed)
  OBVIOUS
<1> HIDE DEF p
<1>w. w' = [w EXCEPT ![s].space = got, ![s].pc = p]
  BY <1>1, Zenon DEF p
<1>4. remoteWin.win \in Nat /\ reserved \in Nat
  BY DEF Inv, TypeOK, Window
<1>5. remoteWin.win - got \in Nat /\ reserved' \in Nat
  BY <1>1, <1>4
<1>6. remoteWin' \in Window /\ remoteWin'.win = remoteWin.win - got
  BY <1>1, <1>5, WindowUpdate DEF Inv
<1>7. Wrote(s, p, w[s].n, got)
  BY <1>3, <1>w, WritingUpdate DEF Inv
<1>8. TypeOK'
  BY <1>2, <1>5, <1>6, <1>7 DEF Inv, TypeOK, Wrote
<1>9. WritesFit'
  <2> SUFFICES ASSUME NEW q \in Streams
               PROVE  w'[q].n <= Length[q] /\ (w'[q].pc = "send" => w'[q].space # 0 /\ w'[q].n + w'[q].space <= Length[q])
    BY DEF WritesFit
  <2>1. CASE q = s
    BY <2>1, <1>1, <1>3, <1>7, WriterFacts DEF Wrote
  <2>2. CASE q # s
    BY <2>2, <1>7, WriterFacts DEF Wrote
  <2> QED
    BY <2>1, <2>2
<1>10. RoomKept'
  BY <1>2 DEF Inv, RoomKept, Pending
<1>11. WindowExact'
  <2>1. Mod \in Nat /\ granted \in Nat
    BY ChannelDataAssumption DEF Inv, TypeOK
  <2>2. remoteWin.win = granted - reserved /\ remoteWin.win < Mod
    BY DEF Inv, WindowExact
  <2>3. granted' = granted /\ reserved' = reserved + got
    BY <1>1, <1>2
  <2> QED
    BY <2>1, <2>2, <2>3, <1>4, <1>6 DEF WindowExact
<1> QED
  BY <1>8, <1>9, <1>10, <1>11 DEF Inv

(* A step that changes nothing but its own Write keeps the counts.         *)
LEMMA WroteInv ==
    ASSUME Inv, NEW s \in Streams, NEW p \in {"top", "eof"}, NEW k \in Nat, k <= Length[s],
           Wrote(s, p, k, w[s].space), link' \in Seq(Packet),
           UNCHANGED <<remoteWin, sentEOF, sentClose, back, myWindow, buf, r, open, failed, extra, granted, reserved>>
    PROVE  Inv'
<1>1. TypeOK'
  BY DEF Inv, TypeOK, Wrote
<1>2. WritesFit'
  <2> SUFFICES ASSUME NEW q \in Streams
               PROVE  w'[q].n <= Length[q] /\ (w'[q].pc = "send" => w'[q].space # 0 /\ w'[q].n + w'[q].space <= Length[q])
    BY DEF WritesFit
  <2>1. CASE q = s
    BY <2>1 DEF Wrote
  <2>2. CASE q # s
    BY <2>2, WriterFacts DEF Wrote
  <2> QED
    BY <2>1, <2>2
<1>3. RoomKept' /\ WindowExact'
  BY DEF Inv, RoomKept, Pending, WindowExact
<1> QED
  BY <1>1, <1>2, <1>3 DEF Inv

(* Sending a packet keeps the counts: the bytes the Write held are now on  *)
(* the connection.                                                         *)
LEMMA SendDataInv == ASSUME Inv, NEW s \in Streams, SendData(s) PROVE Inv'
<1>1. w[s].pc = "send"
      /\ UNCHANGED <<remoteWin, sentEOF, sentClose, back, myWindow, buf, r, open, failed, extra, granted, reserved>>
  BY DEF SendData
<1>2. w[s].n \in Nat /\ w[s].space \in Nat /\ Length[s] \in Nat /\ w[s].n + w[s].space <= Length[s] /\ s \in Nat
  BY <1>1, WriterFacts
<1>3. link \in Seq(Packet)
  BY DEF Inv, TypeOK
<1>4. CASE sentClose
  <2>1. w' = [w EXCEPT ![s].pc = "eof"] /\ link' = link
    BY <1>4 DEF SendData
  <2>2. Wrote(s, "eof", w[s].n, w[s].space)
    BY <2>1, <1>2, WritingUpdate DEF Inv
  <2>3. w[s].n <= Length[s] /\ link' \in Seq(Packet)
    BY <1>2, <1>3, <2>1
  <2> QED
    BY <1>1, <1>2, <2>2, <2>3, WroteInv
<1>5. CASE ~sentClose
  <2> DEFINE k == w[s].n + w[s].space
  <2>1. w' = [w EXCEPT ![s].pc = "top", ![s].n = k] /\ link' = Append(link, Data(s, w[s].n, w[s].space))
    BY <1>5, Zenon DEF SendData
  <2>2. k \in Nat /\ k <= Length[s]
    BY <1>2
  <2> HIDE DEF k
  <2>3. Wrote(s, "top", k, w[s].space)
    BY <2>1, <2>2, <1>2, WritingUpdate DEF Inv
  <2>4. link' \in Seq(Packet)
    BY <1>2, <1>3, <2>1, PacketTypes, AppendProperties
  <2> QED
    BY <1>1, <2>2, <2>3, <2>4, WroteInv
<1> QED
  BY <1>4, <1>5

(* A Write after CloseWrite takes nothing and keeps the counts.            *)
LEMMA WriteAfterEOFInv == ASSUME Inv, NEW s \in Streams, WriteAfterEOF(s) PROVE Inv'
<1>1. w' = [w EXCEPT ![s].pc = "eof"] /\ link' = link
      /\ UNCHANGED <<remoteWin, sentEOF, sentClose, back, myWindow, buf, r, open, failed, extra, granted, reserved>>
  BY DEF WriteAfterEOF
<1>2. w[s].n \in Nat /\ w[s].n <= Length[s]
  BY WriterFacts
<1>3. Wrote(s, "eof", w[s].n, w[s].space)
  BY <1>1, <1>2, WritingUpdate DEF Inv
<1>4. link' \in Seq(Packet)
  BY <1>1 DEF Inv, TypeOK
<1> QED
  BY <1>1, <1>2, <1>3, <1>4, WroteInv

(* The steps that end the stream send a message and change no count.       *)
LEMMA EndingInv == ASSUME Inv, CloseWrite \/ Close PROVE Inv'
<1>1. Msg("eof") \in Packet /\ Msg("close") \in Packet /\ link \in Seq(Packet)
  BY PacketTypes DEF Inv, TypeOK
<1>a. link' \in Seq(Packet)
  BY <1>1, AppendProperties DEF CloseWrite, Close
<1>2. sentEOF' \in BOOLEAN /\ sentClose' \in BOOLEAN
      /\ UNCHANGED <<remoteWin, w, back, myWindow, buf, r, open, failed, extra, granted, reserved>>
  BY DEF CloseWrite, Close, Inv, TypeOK
<1>3. TypeOK'
  BY <1>a, <1>2 DEF Inv, TypeOK
<1>4. WritesFit' /\ RoomKept' /\ WindowExact'
  BY <1>2 DEF Inv, WritesFit, RoomKept, Pending, WindowExact
<1> QED
  BY <1>3, <1>4 DEF Inv

(* An adjustment either fits, and is counted, or stops the mux.            *)
LEMMA AdjustByEffect ==
    ASSUME Inv, NEW n \in 0..(Mod - 1), AdjustBy(n)
    PROVE  /\ remoteWin' \in Window /\ WindowExact' /\ granted' \in Nat
           /\ failed' \in {"no", "adjust", "too much"} /\ sentClose' \in BOOLEAN
           \/ reserved' # reserved
<1> SUFFICES ASSUME reserved' = reserved
             PROVE  /\ remoteWin' \in Window /\ WindowExact' /\ granted' \in Nat
                    /\ failed' \in {"no", "adjust", "too much"} /\ sentClose' \in BOOLEAN
  OBVIOUS
<1>1. remoteWin.win \in Nat /\ granted \in Nat /\ reserved \in Nat /\ Mod \in Nat \ {0}
  <2>1. remoteWin.win \in Nat
    BY DEF Inv, TypeOK, Window
  <2>2. Mod \in Nat \ {0}
    BY ChannelDataAssumption
  <2> QED
    BY <2>1, <2>2 DEF Inv, TypeOK
<1>b. failed \in {"no", "adjust", "too much"} /\ sentClose \in BOOLEAN
  BY DEF Inv, TypeOK
<1>2. remoteWin.win = granted - reserved /\ remoteWin.win < Mod
  BY DEF Inv, WindowExact
<1>3. CASE n # 0 /\ Overflows(n)
  <2>1. failed' = "adjust" /\ remoteWin' = [remoteWin EXCEPT !.closed = TRUE] /\ sentClose' = TRUE /\ granted' = granted
    BY <1>3 DEF AdjustBy
  <2>2. remoteWin' \in Window /\ remoteWin'.win = remoteWin.win
    BY <2>1, WindowUpdate DEF Inv
  <2>3. WindowExact'
    BY <1>2, <2>1, <2>2 DEF WindowExact
  <2> QED
    BY <1>1, <1>b, <2>1, <2>2, <2>3
<1>4. CASE ~(n # 0 /\ Overflows(n))
  <2> DEFINE k == (remoteWin.win + n) % Mod
  <2>1. remoteWin' = [remoteWin EXCEPT !.win = k] /\ failed' = failed /\ sentClose' = sentClose
    BY <1>4, Zenon DEF AdjustBy
  <2>g. granted' = granted + n
    BY <1>4, Zenon DEF AdjustBy
  <2>2. k = remoteWin.win + n /\ k < Mod
    <3>1. CASE n = 0
      <4>1. remoteWin.win \in 0..(Mod - 1)
        BY <1>1, <1>2
      <4>2. 0 \in 0..(Mod - 1)
        BY <1>1
      <4>3. (remoteWin.win + 0) % Mod = IF remoteWin.win + 0 < Mod THEN remoteWin.win + 0 ELSE remoteWin.win + 0 - Mod
        BY <4>1, <4>2, <1>1, ModOfSum, Zenon
      <4> QED
        BY <3>1, <4>3, <1>1, <1>2
    <3>2. CASE n # 0
      <4>1. n \in 1..(Mod - 1) /\ ~Overflows(n)
        BY <3>2, <1>4
      <4> HIDE DEF k
      <4>2. k = remoteWin.win + n
        BY <4>1, OverflowsExactly DEF Inv, k
      <4>3. ~(remoteWin.win + n >= Mod)
        BY <4>1, OverflowsExactly DEF Inv
      <4> QED
        BY <4>2, <4>3, <1>1
    <3> QED
      BY <3>1, <3>2
  <2> HIDE DEF k
  <2>3. k \in Nat
    BY <2>2, <1>1
  <2>4. remoteWin' \in Window /\ remoteWin'.win = k
    BY <2>1, <2>3, WindowUpdate DEF Inv
  <2>5. WindowExact'
    BY <2>g, <2>2, <2>4, <1>1, <1>2 DEF WindowExact
  <2>6. granted' \in Nat
    BY <2>g, <1>1
  <2> QED
    BY <1>1, <1>b, <2>1, <2>4, <2>5, <2>6
<1> QED
  BY <1>3, <1>4

(* window.add keeps the counts: an adjustment taken from the connection is *)
(* added to the window unless it would wrap around.                        *)
LEMMA AdjustInv ==
    ASSUME Inv, HandleAdjust \/ \E n \in Adjustments : HandleOther(n) PROVE Inv'
<1>1. WindowSize \in Nat /\ Mod \in Nat /\ WindowSize < Mod /\ Adjustments \subseteq 0..(Mod - 1)
  BY ChannelDataAssumption
<1>2. back \in Seq(0..WindowSize) /\ extra \in Nat
  BY DEF Inv, TypeOK
<1>3. PICK n \in 0..(Mod - 1) : AdjustBy(n)
  <2>1. CASE HandleAdjust
    <3>1. Head(back) \in 0..WindowSize
      BY <1>2, <2>1, HeadTailProperties DEF HandleAdjust
    <3>2. Head(back) \in 0..(Mod - 1)
      BY <1>1, <3>1
    <3> QED
      BY <2>1, <3>2 DEF HandleAdjust
  <2>2. CASE \E n \in Adjustments : HandleOther(n)
    BY <1>1, <2>2, Zenon DEF HandleOther
  <2> QED
    BY <2>1, <2>2
<1>4. back' \in Seq(0..WindowSize) /\ extra' \in Nat
      /\ UNCHANGED <<w, sentEOF, link, myWindow, buf, r, open, reserved>>
  BY <1>2, HeadTailProperties DEF HandleAdjust, HandleOther
<1>5. /\ remoteWin' \in Window /\ WindowExact' /\ granted' \in Nat
      /\ failed' \in {"no", "adjust", "too much"} /\ sentClose' \in BOOLEAN
  BY <1>3, <1>4, AdjustByEffect
<1>6. TypeOK'
  BY <1>4, <1>5 DEF Inv, TypeOK
<1>7. WritesFit' /\ RoomKept'
  BY <1>4 DEF Inv, WritesFit, RoomKept, Pending
<1> QED
  BY <1>5, <1>6, <1>7 DEF Inv

(* The peer's close, after which nothing is reserved, keeps the counts.    *)
LEMMA HandleCloseInv == ASSUME Inv, HandleClose PROVE Inv'
<1>1. link \in Seq(Packet) /\ back \in Seq(0..WindowSize) /\ Msg("close") \in Packet
  BY PacketTypes DEF Inv, TypeOK
<1>2. link' \in Seq(Packet)
  BY <1>1, AppendProperties DEF HandleClose
<1>3. back' \in Seq(0..WindowSize)
  BY <1>1, HeadTailProperties DEF HandleClose
<1>4. sentClose' = TRUE /\ remoteWin' = [remoteWin EXCEPT !.closed = TRUE]
      /\ UNCHANGED <<w, sentEOF, myWindow, buf, r, open, failed, extra, granted, reserved>>
  BY DEF HandleClose, CloseWindow
<1>5. remoteWin' \in Window /\ remoteWin'.win = remoteWin.win
  BY <1>4, WindowUpdate DEF Inv
<1>6. TypeOK'
  BY <1>2, <1>3, <1>4, <1>5 DEF Inv, TypeOK
<1>7. WritesFit' /\ RoomKept'
  BY <1>4 DEF Inv, WritesFit, RoomKept, Pending
<1>8. WindowExact'
  BY <1>4, <1>5 DEF Inv, WindowExact
<1> QED
  BY <1>6, <1>7, <1>8 DEF Inv

(* The readers' end: what it counts, and the room it has.                  *)
LEMMA ReaderFacts ==
    ASSUME Inv
    PROVE  /\ myWindow \in Nat /\ WindowSize \in Nat
           /\ \A s \in Readable : buf[s] \in Buffer /\ buf[s].bytes \in Seq(Nat) /\ Len(buf[s].bytes) \in Nat
           /\ Pending(0) \in Nat /\ Pending(1) \in Nat
           /\ \A s \in Readable : Pending(s) = Len(buf[s].bytes) /\ s \in {0, 1}
<1>a. myWindow \in Nat
  BY DEF Inv, TypeOK
<1>1. WindowSize \in Nat
  BY ChannelDataAssumption
<1>2. ASSUME NEW s \in Readable PROVE buf[s] \in Buffer /\ buf[s].bytes \in Seq(Nat) /\ Len(buf[s].bytes) \in Nat
  <2>1. buf[s] \in Buffer
    BY DEF Inv, TypeOK
  <2>2. buf[s].bytes \in Seq(Nat)
    BY <2>1 DEF Buffer
  <2> QED
    BY <2>1, <2>2
<1>3. Pending(0) \in Nat /\ Pending(1) \in Nat
  BY <1>2 DEF Pending
<1>4. \A s \in Readable : Pending(s) = Len(buf[s].bytes) /\ s \in {0, 1}
  BY DEF Pending, Readable
<1> QED
  BY <1>a, <1>1, <1>2, <1>3, <1>4

(* Streams 0 and 1 share the room: it moves between one of them and the    *)
(* window.                                                                 *)
LEMMA RoomMoves ==
    ASSUME Inv, NEW s \in Readable, NEW k \in Nat, myWindow' + k <= myWindow + Len(buf[s].bytes),
           myWindow' \in Nat, Pending(s)' = k, \A q \in {0, 1} : q # s => Pending(q)' = Pending(q)
    PROVE  RoomKept'
<1>1. myWindow \in Nat /\ WindowSize \in Nat /\ Pending(0) \in Nat /\ Pending(1) \in Nat
      /\ Pending(s) = Len(buf[s].bytes) /\ s \in {0, 1}
  BY ReaderFacts
<1>2. myWindow + Pending(0) + Pending(1) <= WindowSize
  BY DEF Inv, RoomKept
<1>3. myWindow' + Pending(s)' <= myWindow + Pending(s)
  BY <1>1
<1>4. CASE s = 0
  <2>1. Pending(1)' = Pending(1)
    BY <1>4
  <2> QED
    BY <1>1, <1>2, <1>3, <1>4, <2>1 DEF RoomKept
<1>5. CASE s = 1
  <2>1. Pending(0)' = Pending(0)
    BY <1>5
  <2> QED
    BY <1>1, <1>2, <1>3, <1>5, <2>1, SMTT(40) DEF RoomKept
<1> QED
  BY <1>1, <1>4, <1>5

(* One stream's buffer after a step that changes its bytes.                *)
Filled(s, b) ==
    /\ buf' \in [Readable -> Buffer] /\ buf'[s].bytes = b /\ buf'[s].closed = buf[s].closed
    /\ \A q \in Readable : q # s => buf'[q] = buf[q]

(* A buffer whose bytes are replaced, and what is pending in it.           *)
LEMMA BufferUpdate ==
    ASSUME Inv, NEW s \in Readable, NEW b \in Seq(Nat), buf' = [buf EXCEPT ![s].bytes = b]
    PROVE  Filled(s, b) /\ Pending(s)' = Len(b) /\ \A q \in {0, 1} : q # s => Pending(q)' = Pending(q)
<1>1. buf \in [Readable -> Buffer]
  BY DEF Inv, TypeOK
<1>2. Filled(s, b)
  BY <1>1 DEF Buffer, Filled
<1>3. Pending(s)' = Len(b)
  BY <1>2 DEF Pending, Filled, Readable
<1>4. ASSUME NEW q \in {0, 1}, q # s PROVE Pending(q)' = Pending(q)
  BY <1>2, <1>4 DEF Pending, Filled, Readable
<1> QED
  BY <1>2, <1>3, <1>4

(* handleData takes the packet off the wire; it is refused only by the     *)
(* window.                                                                 *)
LEMMA HandleDataInv == ASSUME Inv, HandleData PROVE Inv'
<1> DEFINE p == Head(link)
<1>1. link \in Seq(Packet) /\ link # <<>> /\ link' = Tail(link)
      /\ UNCHANGED <<remoteWin, w, sentEOF, sentClose, back, r, open, extra, granted, reserved>>
  BY DEF Inv, TypeOK, HandleData
<1>2. p \in Packet /\ link' \in Seq(Packet)
  BY <1>1, HeadTailProperties
<1>3. p.bytes \in Seq(Nat) /\ Len(p.bytes) \in Nat
  BY <1>2 DEF Packet
<1> HIDE DEF p
<1>4. WritesFit' /\ WindowExact'
  BY <1>1 DEF Inv, WritesFit, WindowExact
<1>5. CASE myWindow < Charge(p)
  <2>1. failed' = "too much" /\ myWindow' = myWindow /\ buf' = buf
    BY <1>5 DEF HandleData, p
  <2>2. TypeOK'
    BY <1>1, <1>2, <2>1 DEF Inv, TypeOK
  <2>3. RoomKept'
    BY <2>1 DEF Inv, RoomKept, Pending
  <2> QED
    BY <1>4, <2>2, <2>3 DEF Inv
<1>6. CASE ~(myWindow < Charge(p)) /\ p.s \in Readable
  <2>s. PICK s \in Readable : s = p.s
    BY <1>6
  <2>b. PICK b \in Seq(Nat) : b = buf[s].bytes \o p.bytes /\ Len(b) = Len(buf[s].bytes) + Len(p.bytes)
    <3>1. buf[s].bytes \in Seq(Nat)
      BY ReaderFacts
    <3>2. buf[s].bytes \o p.bytes \in Seq(Nat) /\ Len(buf[s].bytes \o p.bytes) = Len(buf[s].bytes) + Len(p.bytes)
      BY <1>3, <3>1, ConcatProperties
    <3> QED
      BY <3>2, Zenon
  <2>1. failed' = failed /\ buf' = [buf EXCEPT ![s].bytes = b]
    BY <1>6, <2>s, <2>b, Zenon DEF HandleData, p
  <2>2. myWindow' = myWindow - Len(p.bytes) /\ ~(myWindow < Len(p.bytes))
    BY <1>6 DEF HandleData, Charge, p
  <2>4. Filled(s, b) /\ Pending(s)' = Len(b) /\ \A q \in {0, 1} : q # s => Pending(q)' = Pending(q)
    BY <2>1, BufferUpdate
  <2>5. myWindow' \in Nat /\ Len(b) \in Nat /\ myWindow' + Len(b) <= myWindow + Len(buf[s].bytes)
    <3> DEFINE u == Len(p.bytes)
               v == Len(buf[s].bytes)
               l == Len(b)
    <3>1. u \in Nat /\ myWindow \in Nat /\ v \in Nat
      BY <1>3, ReaderFacts
    <3>2. myWindow' = myWindow - u /\ ~(myWindow < u) /\ l = v + u
      BY <2>2, <2>b
    <3> HIDE DEF u, v, l
    <3>3. myWindow' \in Nat /\ l \in Nat /\ myWindow' + l <= myWindow + v
      BY <3>1, <3>2
    <3> QED
      BY <3>3 DEF l, v
  <2>6. RoomKept'
    BY <2>4, <2>5, RoomMoves
  <2>7. TypeOK'
    BY <1>1, <1>2, <2>1, <2>4, <2>5 DEF Inv, TypeOK, Filled
  <2> QED
    BY <1>4, <2>6, <2>7 DEF Inv
<1>7. CASE ~(myWindow < Charge(p)) /\ p.s \notin Readable
  <2>1. failed' = failed /\ buf' = buf
    BY <1>7 DEF HandleData, p
  <2>2. myWindow' = myWindow - Len(p.bytes)
    BY <1>7 DEF HandleData, Charge, p
  <2>3. myWindow' \in Nat /\ myWindow' <= myWindow
    BY <1>3, <1>7, <2>2, ReaderFacts DEF Charge
  <2>4. Pending(0)' = Pending(0) /\ Pending(1)' = Pending(1)
    BY <2>1 DEF Pending
  <2>5. RoomKept'
    BY <2>3, <2>4, ReaderFacts DEF Inv, RoomKept
  <2>6. TypeOK'
    BY <1>1, <1>2, <2>1, <2>3 DEF Inv, TypeOK
  <2> QED
    BY <1>4, <2>5, <2>6 DEF Inv
<1> QED
  BY <1>5, <1>6, <1>7

(* The buffers are closed, not emptied.                                    *)
LEMMA EndBuffersEffect ==
    ASSUME TypeOK
    PROVE  /\ EndBuffers \in [Readable -> Buffer]
           /\ \A s \in Readable : EndBuffers[s].bytes = buf[s].bytes /\ EndBuffers[s].closed = TRUE
<1>1. buf \in [Readable -> Buffer]
  BY DEF TypeOK
<1>2. ASSUME NEW s \in Readable
      PROVE  /\ [buf[s] EXCEPT !.closed = TRUE] \in Buffer
             /\ [buf[s] EXCEPT !.closed = TRUE].bytes = buf[s].bytes
             /\ [buf[s] EXCEPT !.closed = TRUE].closed = TRUE
  <2>1. buf[s] \in Buffer
    BY <1>1
  <2> QED
    BY <2>1 DEF Buffer
<1> QED
  BY <1>2, Zenon DEF EndBuffers

(* EOF and close on the receiving side keep the counts: they carry no      *)
(* bytes.                                                                  *)
LEMMA HandleEndInv == ASSUME Inv, HandleEnd PROVE Inv'
<1>1. link \in Seq(Packet) /\ link # <<>> /\ link' = Tail(link) /\ buf' = EndBuffers /\ back \in Seq(0..WindowSize)
      /\ UNCHANGED <<remoteWin, w, sentEOF, sentClose, myWindow, r, failed, extra, granted, reserved>>
  BY DEF Inv, TypeOK, HandleEnd
<1>2. link' \in Seq(Packet)
  BY <1>1, HeadTailProperties
<1>3. 0 \in 0..WindowSize
  BY ReaderFacts
<1>4. back' \in Seq(0..WindowSize)
  BY <1>1, <1>3, AppendProperties, ZenonT(40) DEF HandleEnd
<1>5. open' \in BOOLEAN
  BY DEF Inv, TypeOK, HandleEnd
<1>6. buf' \in [Readable -> Buffer] /\ Pending(0)' = Pending(0) /\ Pending(1)' = Pending(1)
  BY <1>1, EndBuffersEffect DEF Inv, Pending
<1>7. TypeOK'
  BY <1>1, <1>2, <1>4, <1>5, <1>6 DEF Inv, TypeOK
<1>8. WritesFit' /\ RoomKept' /\ WindowExact'
  BY <1>1, <1>6 DEF Inv, WritesFit, RoomKept, WindowExact
<1> QED
  BY <1>7, <1>8 DEF Inv

(* What a Read takes out of the buffer.                                    *)
LEMMA ReadEffect ==
    ASSUME Inv, NEW s \in Readable, ReadExtended(s)
    PROVE  \E n \in 0..Len(buf[s].bytes) :
             /\ buf' = [buf EXCEPT ![s].bytes = SubSeq(buf[s].bytes, n + 1, Len(buf[s].bytes))]
             /\ r' = [r EXCEPT ![s].got = r[s].got \o SubSeq(buf[s].bytes, 1, n)]
             /\ myWindow' = myWindow + n /\ back' = SendAdjust(n)
<1> DEFINE n == Min({ReadSize, Len(buf[s].bytes)})
<1>1. ReadSize \in Nat /\ Len(buf[s].bytes) \in Nat
  BY ChannelDataAssumption, ReaderFacts
<1>2. n \in 0..Len(buf[s].bytes)
  BY <1>1, MinOfTwo
<1>3. /\ buf' = [buf EXCEPT ![s].bytes = SubSeq(buf[s].bytes, n + 1, Len(buf[s].bytes))]
      /\ r' = [r EXCEPT ![s].got = r[s].got \o SubSeq(buf[s].bytes, 1, n)]
      /\ myWindow' = myWindow + n /\ back' = SendAdjust(n)
  BY Zenon DEF ReadExtended
<1> QED
  BY <1>2, <1>3, Zenon

(* One stream's reader after a step of it.                                 *)
Got(s, b, e) ==
    /\ r' \in [Readable -> Reading] /\ r'[s].got = b /\ r'[s].eof = e
    /\ \A q \in Readable : q # s => r'[q] = r[q]

(* The two forms of update a reader's record takes.                        *)
LEMMA ReadingUpdate ==
    ASSUME TypeOK, NEW s \in Readable, NEW b \in Seq(Nat)
    PROVE  /\ r' = [r EXCEPT ![s].got = b] => Got(s, b, r[s].eof)
           /\ r' = [r EXCEPT ![s].eof = TRUE] => Got(s, r[s].got, TRUE)
<1>1. r \in [Readable -> Reading]
  BY DEF TypeOK
<1> QED
  BY <1>1 DEF Reading, Got

(* A Read keeps the counts: what it takes from a buffer goes back to       *)
(* myWindow.                                                               *)
LEMMA ReadExtendedInv == ASSUME Inv, NEW s \in Readable, ReadExtended(s) PROVE Inv'
<1>1. PICK n \in 0..Len(buf[s].bytes) :
             /\ buf' = [buf EXCEPT ![s].bytes = SubSeq(buf[s].bytes, n + 1, Len(buf[s].bytes))]
             /\ r' = [r EXCEPT ![s].got = r[s].got \o SubSeq(buf[s].bytes, 1, n)]
             /\ myWindow' = myWindow + n /\ back' = SendAdjust(n)
  BY ReadEffect
<1>2. UNCHANGED <<remoteWin, w, sentEOF, sentClose, link, open, failed, extra, granted, reserved>>
  BY DEF ReadExtended
<1>3. PICK b \in Seq(Nat) : b = buf[s].bytes
  BY ReaderFacts
<1>4. n \in Nat /\ n <= Len(b) /\ Len(b) \in Nat
  BY <1>3
<1>5. PICK b1 \in Seq(Nat), b2 \in Seq(Nat) :
         /\ b1 = SubSeq(b, 1, n) /\ b2 = SubSeq(b, n + 1, Len(b))
         /\ Len(b1) = n /\ Len(b2) = Len(b) - n
  BY <1>4, ReadParts
<1>6. buf' = [buf EXCEPT ![s].bytes = b2] /\ r' = [r EXCEPT ![s].got = r[s].got \o b1]
  BY <1>1, <1>3, <1>5
<1>7. PICK g \in Seq(Nat) : g = r[s].got \o b1
  <2>1. r[s] \in Reading
    BY DEF Inv, TypeOK
  <2>2. r[s].got \in Seq(Nat)
    BY <2>1 DEF Reading
  <2>3. r[s].got \o b1 \in Seq(Nat)
    BY <2>2, ConcatProperties
  <2> QED
    BY <2>3
<1>8. Got(s, g, r[s].eof)
  BY <1>6, <1>7, ReadingUpdate DEF Inv
<1>9. Filled(s, b2) /\ Pending(s)' = Len(b2) /\ \A q \in {0, 1} : q # s => Pending(q)' = Pending(q)
  BY <1>6, BufferUpdate
<1>10. myWindow \in Nat /\ WindowSize \in Nat /\ Pending(0) \in Nat /\ Pending(1) \in Nat
       /\ Pending(s) = Len(buf[s].bytes) /\ s \in {0, 1}
  BY ReaderFacts
<1>11. myWindow' \in Nat /\ Len(b2) \in Nat /\ myWindow' + Len(b2) = myWindow + Len(b)
  <2>1. myWindow' = myWindow + n
    BY <1>1
  <2>2. myWindow \in Nat /\ Len(b2) = Len(b) - n
    BY <1>5, <1>10
  <2> QED
    BY <2>1, <2>2, <1>4
<1>12. RoomKept'
  <2>1. myWindow' + Len(b2) <= myWindow + Len(buf[s].bytes)
    BY <1>3, <1>4, <1>10, <1>11
  <2> QED
    BY <1>9, <1>11, <2>1, RoomMoves
<1>13. n \in 0..WindowSize
  <2>1. myWindow + Pending(0) + Pending(1) <= WindowSize /\ n <= Pending(s)
    BY <1>1, <1>10 DEF Inv, RoomKept
  <2> QED
    BY <1>4, <1>10, <2>1
<1>14. back' \in Seq(0..WindowSize)
  <2>1. back \in Seq(0..WindowSize)
    BY DEF Inv, TypeOK
  <2> QED
    BY <1>1, <1>13, <2>1, AppendProperties DEF SendAdjust
<1>15. TypeOK'
  BY <1>2, <1>8, <1>9, <1>11, <1>14 DEF Inv, TypeOK, Filled, Got
<1>16. WritesFit' /\ WindowExact'
  BY <1>2 DEF Inv, WritesFit, WindowExact
<1> QED
  BY <1>12, <1>15, <1>16 DEF Inv

(* A Read that returns io.EOF keeps the counts.                            *)
LEMMA ReadEOFInv == ASSUME Inv, NEW s \in Readable, ReadEOF(s) PROVE Inv'
<1>1. r' = [r EXCEPT ![s].eof = TRUE]
      /\ UNCHANGED <<remoteWin, w, sentEOF, sentClose, link, back, myWindow, buf, open, failed, extra, granted, reserved>>
  BY DEF ReadEOF
<1>2. r' \in [Readable -> Reading]
  <2>1. r \in [Readable -> Reading]
    BY DEF Inv, TypeOK
  <2> QED
    BY <1>1, <2>1 DEF Reading
<1>3. TypeOK'
  BY <1>1, <1>2 DEF Inv, TypeOK
<1>4. WritesFit' /\ RoomKept' /\ WindowExact'
  BY <1>1 DEF Inv, WritesFit, RoomKept, Pending, WindowExact
<1> QED
  BY <1>3, <1>4 DEF Inv

(* The reading side's Close keeps the counts.                              *)
LEMMA CloseReaderInv == ASSUME Inv, CloseReader PROVE Inv'
<1>1. open' = FALSE /\ back' = Append(back, 0)
      /\ UNCHANGED <<remoteWin, w, sentEOF, sentClose, link, myWindow, buf, r, failed, extra, granted, reserved>>
  BY DEF CloseReader
<1>2. back' \in Seq(0..WindowSize)
  <2>1. back \in Seq(0..WindowSize)
    BY DEF Inv, TypeOK
  <2>2. 0 \in 0..WindowSize
    BY ReaderFacts
  <2> QED
    BY <1>1, <2>1, <2>2, AppendProperties
<1>3. TypeOK'
  BY <1>1, <1>2 DEF Inv, TypeOK
<1>4. WritesFit' /\ RoomKept' /\ WindowExact'
  BY <1>1 DEF Inv, WritesFit, RoomKept, Pending, WindowExact
<1> QED
  BY <1>3, <1>4 DEF Inv

(* Every step keeps the counts of both ends.                               *)
LEMMA NextInv == ASSUME Inv, [Next]_vars PROVE Inv'
<1>1. ASSUME NEW s \in Streams, Writer(s) PROVE Inv'
  BY <1>1, ReserveInv, SendDataInv, WriteAfterEOFInv DEF Writer
<1>2. ASSUME NEW s \in Readable, Reader(s) PROVE Inv'
  BY <1>2, ReadExtendedInv, ReadEOFInv DEF Reader
<1>3. CASE Muxes
  BY <1>3, AdjustInv, HandleCloseInv, HandleDataInv, HandleEndInv DEF Muxes
<1>4. CASE CloseWrite \/ Close \/ CloseReader
  BY <1>4, EndingInv, CloseReaderInv
<1>5. CASE \E n \in Adjustments : HandleOther(n)
  BY <1>5, AdjustInv
<1>6. CASE UNCHANGED vars
  <2>1. TypeOK'
    BY <1>6 DEF vars, Inv, TypeOK
  <2>2. WritesFit' /\ RoomKept' /\ WindowExact'
    BY <1>6 DEF vars, Inv, WritesFit, RoomKept, Pending, WindowExact
  <2> QED
    BY <2>1, <2>2 DEF Inv
<1> QED
  BY <1>1, <1>2, <1>3, <1>4, <1>5, <1>6 DEF Next

(* The invariant of the counts holds of every behaviour, whatever the      *)
(* peer grants and whoever closes.                                         *)
THEOREM CountsKept == Spec => []Inv
<1>1. Inv /\ [Next]_vars => Inv'
  BY NextInv
<1> QED
  BY InitInv, <1>1, PTL DEF Spec

(* window.add and window.reserve (common.go:298-347) keep remoteWin equal  *)
(* to what was granted and not yet reserved: the test after the addition   *)
(* catches every sum of two words that wraps, and a reservation never      *)
(* takes more than is there.                                               *)
THEOREM WindowIsExact == Spec => []WindowExact
<1>1. Inv => WindowExact
  BY DEF Inv
<1> QED
  BY CountsKept, <1>1, PTL

-----------------------------------------------------------------------------
(* The order of the bytes.                                                 *)

OnStream(p, s) == p.t = "data" /\ p.s = s

(* The bytes of a packet are those after the first k of its stream.        *)
From(p, k) == \A i \in 1..Len(p.bytes) : p.bytes[i] = k + i

(* The packets of queue q take stream s from its byte a to its byte b:     *)
(* pos[j] is how far the first j of them take it.                          *)
Positions(q, s, a, b, pos) ==
    /\ pos \in [0..Len(q) -> Nat] /\ pos[0] = a /\ pos[Len(q)] = b
    /\ \A j \in 1..Len(q) :
          /\ OnStream(q[j], s) => From(q[j], pos[j - 1]) /\ pos[j] = pos[j - 1] + Len(q[j].bytes)
          /\ ~OnStream(q[j], s) => pos[j] = pos[j - 1]

Gapless(q, s, a, b) == \E pos : Positions(q, s, a, b, pos)

(* A packet that continues the stream may be appended.                     *)
LEMMA GaplessAppend ==
    ASSUME NEW q \in Seq(Packet), NEW p \in Packet, NEW s, NEW a \in Nat, NEW b \in Nat, NEW c \in Nat,
           Gapless(q, s, a, b), OnStream(p, s) => From(p, b) /\ c = b + Len(p.bytes), ~OnStream(p, s) => c = b
    PROVE  Gapless(Append(q, p), s, a, c)
<1>1. PICK pos : Positions(q, s, a, b, pos)
  BY DEF Gapless
<1> DEFINE m == Len(q)
           pos2 == [j \in 0..(m + 1) |-> IF j = m + 1 THEN c ELSE pos[j]]
<1>2. m \in Nat /\ pos \in [0..m -> Nat] /\ pos[0] = a /\ pos[m] = b
  BY <1>1 DEF Positions
<1>3. Len(Append(q, p)) = m + 1 /\ Append(q, p)[m + 1] = p /\ \A j \in 1..m : Append(q, p)[j] = q[j]
  BY AppendProperties
<1>4. \A j \in 1..m :
          /\ OnStream(q[j], s) => From(q[j], pos[j - 1]) /\ pos[j] = pos[j - 1] + Len(q[j].bytes)
          /\ ~OnStream(q[j], s) => pos[j] = pos[j - 1]
  BY <1>1 DEF Positions
<1> HIDE DEF m
<1>5. pos2 \in [0..(m + 1) -> Nat] /\ pos2[0] = a /\ pos2[m + 1] = c
  BY <1>2
<1>6. \A j \in 1..m : pos2[j] = pos[j] /\ pos2[j - 1] = pos[j - 1]
  BY <1>2
<1>7. pos2[m] = b
  BY <1>2
<1> HIDE DEF pos2
<1>8. ASSUME NEW j \in 1..(m + 1)
      PROVE  /\ OnStream(Append(q, p)[j], s) => From(Append(q, p)[j], pos2[j - 1]) /\ pos2[j] = pos2[j - 1] + Len(Append(q, p)[j].bytes)
             /\ ~OnStream(Append(q, p)[j], s) => pos2[j] = pos2[j - 1]
  <2>1. CASE j \in 1..m
    <3>1. Append(q, p)[j] = q[j] /\ pos2[j] = pos[j] /\ pos2[j - 1] = pos[j - 1]
      BY <2>1, <1>3, <1>6
    <3>2. /\ OnStream(q[j], s) => From(q[j], pos[j - 1]) /\ pos[j] = pos[j - 1] + Len(q[j].bytes)
          /\ ~OnStream(q[j], s) => pos[j] = pos[j - 1]
      BY <2>1, <1>4
    <3> QED
      BY <3>1, <3>2
  <2>2. CASE j = m + 1
    <3>1. Append(q, p)[j] = p /\ pos2[j] = c /\ j - 1 = m /\ pos2[j - 1] = b
      BY <2>2, <1>2, <1>3, <1>5, <1>7
    <3> QED
      BY <3>1
  <2>3. j \in 1..m \/ j = m + 1
    BY <1>2
  <2> QED
    BY <2>1, <2>2, <2>3
<1>9. Positions(Append(q, p), s, a, c, pos2)
  BY <1>3, <1>5, <1>8 DEF Positions
<1> QED
  BY <1>9 DEF Gapless

(* The first packet continues the stream where it is.                      *)
LEMMA GaplessTail ==
    ASSUME NEW q \in Seq(Packet), q # <<>>, NEW s, NEW a \in Nat, NEW b \in Nat, Gapless(q, s, a, b)
    PROVE  /\ OnStream(Head(q), s) => From(Head(q), a) /\ a + Len(Head(q).bytes) \in Nat
                                      /\ Gapless(Tail(q), s, a + Len(Head(q).bytes), b)
           /\ ~OnStream(Head(q), s) => Gapless(Tail(q), s, a, b)
<1>1. PICK pos : Positions(q, s, a, b, pos)
  BY DEF Gapless
<1> DEFINE m == Len(q)
           pos2 == [j \in 0..(m - 1) |-> pos[j + 1]]
<1>2. m \in Nat /\ m # 0 /\ pos \in [0..m -> Nat] /\ pos[0] = a /\ pos[m] = b
  BY <1>1, EmptySeq DEF Positions
<1>3. Len(Tail(q)) = m - 1 /\ Head(q) = q[1] /\ \A j \in 1..(m - 1) : Tail(q)[j] = q[j + 1]
  BY HeadTailProperties
<1>4. \A j \in 1..m :
          /\ OnStream(q[j], s) => From(q[j], pos[j - 1]) /\ pos[j] = pos[j - 1] + Len(q[j].bytes)
          /\ ~OnStream(q[j], s) => pos[j] = pos[j - 1]
  BY <1>1 DEF Positions
<1> HIDE DEF m
<1>5. pos2 \in [0..(m - 1) -> Nat] /\ pos2[0] = pos[1] /\ pos2[m - 1] = b
  BY <1>2
<1>6. \A j \in 1..(m - 1) : pos2[j] = pos[j + 1] /\ pos2[j - 1] = pos[j]
  BY <1>2
<1> HIDE DEF pos2
<1>7. ASSUME NEW j \in 1..(m - 1)
      PROVE  /\ OnStream(Tail(q)[j], s) => From(Tail(q)[j], pos2[j - 1]) /\ pos2[j] = pos2[j - 1] + Len(Tail(q)[j].bytes)
             /\ ~OnStream(Tail(q)[j], s) => pos2[j] = pos2[j - 1]
  <2>1. j + 1 \in 1..m /\ (j + 1) - 1 = j
    BY <1>2
  <2>2. Tail(q)[j] = q[j + 1] /\ pos2[j] = pos[j + 1] /\ pos2[j - 1] = pos[j]
    BY <1>3, <1>6
  <2>3. /\ OnStream(q[j + 1], s) => From(q[j + 1], pos[j]) /\ pos[j + 1] = pos[j] + Len(q[j + 1].bytes)
        /\ ~OnStream(q[j + 1], s) => pos[j + 1] = pos[j]
    BY <1>4, <2>1
  <2> QED
    BY <2>2, <2>3
<1>8. Positions(Tail(q), s, pos[1], b, pos2)
  BY <1>3, <1>5, <1>7 DEF Positions
<1>9. Gapless(Tail(q), s, pos[1], b) /\ pos[1] \in Nat
  BY <1>2, <1>8 DEF Gapless
<1>10. 1 \in 1..m /\ 1 - 1 = 0
  BY <1>2
<1>11. /\ OnStream(Head(q), s) => From(Head(q), a) /\ pos[1] = a + Len(Head(q).bytes)
       /\ ~OnStream(Head(q), s) => pos[1] = a
  BY <1>2, <1>3, <1>4, <1>10
<1> QED
  BY <1>9, <1>11

(* The next byte of a stream that handleData has to see.                   *)
Arrived(s) == Len(r[s].got) + Len(buf[s].bytes)

(* What Read has returned and what the buffer holds are the first bytes.   *)
InOrder(g, b) ==
    /\ \A i \in 1..Len(g) : g[i] = i
    /\ \A i \in 1..Len(b) : b[i] = Len(g) + i
ReadInOrder == \A s \in Readable : InOrder(r[s].got, buf[s].bytes)

(* The link has the bytes from there to the last one sent.                 *)
SentInOrder == failed = "no" => \A s \in Readable : Gapless(link, s, Arrived(s), w[s].n)

Done(s) == w[s].pc = "eof" \/ (w[s].pc = "top" /\ w[s].n \in {0, Length[s]})

(* As long as this end did not close, its EOF is the last packet it sends: *)
(* no Write is half done when CloseWrite runs, and none starts afterwards. *)
EndIsLast ==
    ~sentClose =>
        /\ sentEOF => \A s \in Streams : Done(s)
        /\ \A j \in 1..Len(link) : link[j].t # "data" => link[j].t = "eof" /\ j = Len(link) /\ sentEOF

(* Nothing is on its way when the buffers are closed by that EOF.          *)
EndSeen ==
    open /\ ~sentClose => \A s \in Readable :
        /\ buf[s].closed => sentEOF /\ link = <<>> /\ failed = "no"
        /\ r[s].eof => buf[s].closed /\ buf[s].bytes = <<>>

OrderInv == ReadInOrder /\ SentInOrder /\ EndIsLast /\ EndSeen

(* Initially nothing has been written, so every stream is in order.        *)
LEMMA InitOrder == Init => OrderInv
<1> SUFFICES ASSUME Init PROVE OrderInv
  OBVIOUS
<1>1. ASSUME NEW s \in Readable
      PROVE  r[s].got = <<>> /\ buf[s].bytes = <<>> /\ buf[s].closed = FALSE /\ r[s].eof = FALSE /\ w[s].n = 0 /\ s \in Streams
  BY DEF Init, Readable
<1>2. ReadInOrder
  <2>1. InOrder(<<>>, <<>>)
    BY DEF InOrder
  <2> QED
    BY <1>1, <2>1 DEF ReadInOrder
<1>3. SentInOrder
  <2>1. ASSUME NEW s \in Readable PROVE Gapless(link, s, Arrived(s), w[s].n)
    <3>a. Arrived(s) = Len(<<>>) + Len(<<>>)
      BY <1>1, Zenon DEF Arrived
    <3>b. Arrived(s) = 0
      BY <3>a
    <3>1. link = <<>> /\ Arrived(s) = 0 /\ w[s].n = 0
      BY <1>1, <3>b DEF Init
    <3>2. Positions(<<>>, s, 0, 0, [j \in 0..0 |-> 0])
      BY DEF Positions
    <3> QED
      BY <3>1, <3>2 DEF Gapless
  <2> QED
    BY <2>1 DEF SentInOrder
<1>4. EndIsLast
  BY DEF Init, EndIsLast
<1>5. EndSeen
  BY <1>1 DEF EndSeen
<1> QED
  BY <1>2, <1>3, <1>4, <1>5 DEF OrderInv

(* The types of one stream's state at the readers' end.                    *)
LEMMA StreamFacts ==
    ASSUME Inv, NEW s \in Readable
    PROVE  /\ s \in Streams /\ s \in Nat /\ r[s].got \in Seq(Nat) /\ buf[s].bytes \in Seq(Nat)
           /\ Len(r[s].got) \in Nat /\ Len(buf[s].bytes) \in Nat /\ Arrived(s) \in Nat /\ w[s].n \in Nat
<1>1. s \in Streams /\ s \in Nat
  BY ChannelDataAssumption DEF Readable
<1>2. r[s] \in Reading /\ buf[s] \in Buffer
  BY DEF Inv, TypeOK
<1>3. r[s].got \in Seq(Nat) /\ buf[s].bytes \in Seq(Nat)
  BY <1>2 DEF Reading, Buffer
<1>4. Len(r[s].got) \in Nat /\ Len(buf[s].bytes) \in Nat
  BY <1>3
<1>5. Arrived(s) \in Nat
  <2> DEFINE a == Len(r[s].got)
             b == Len(buf[s].bytes)
  <2>1. a \in Nat /\ b \in Nat /\ Arrived(s) = a + b
    BY <1>4 DEF Arrived
  <2> HIDE DEF a, b
  <2> QED
    BY <2>1
<1>6. w[s].n \in Nat
  BY <1>1, WriterFacts
<1> QED
  BY <1>1, <1>3, <1>4, <1>5, <1>6

(* Steps that move no byte of the streams.                                 *)
LEMMA NothingMoves ==
    ASSUME Inv, OrderInv, UNCHANGED <<link, buf, r>>, failed' = "no" => failed = "no",
           \A s \in Streams : w'[s].n = w[s].n
    PROVE  ReadInOrder' /\ SentInOrder'
<1>1. ReadInOrder'
  BY DEF OrderInv, ReadInOrder
<1>2. ASSUME failed' = "no", NEW s \in Readable PROVE Gapless(link, s, Arrived(s), w[s].n)'
  <2>1. Gapless(link, s, Arrived(s), w[s].n)
    BY <1>2 DEF OrderInv, SentInOrder
  <2>2. link' = link /\ Arrived(s)' = Arrived(s) /\ w'[s].n = w[s].n
    BY StreamFacts DEF Arrived
  <2> QED
    BY <2>1, <2>2
<1> QED
  BY <1>1, <1>2 DEF SentInOrder

(* A packet put on the link that is not data of a stream that is read.     *)
LEMMA OtherSent ==
    ASSUME Inv, OrderInv, UNCHANGED <<buf, r, failed, w>>,
           NEW p \in Packet, p.t # "data", link' = Append(link, p)
    PROVE  ReadInOrder' /\ SentInOrder'
<1>1. ReadInOrder'
  BY DEF OrderInv, ReadInOrder
<1>2. ASSUME failed' = "no", NEW s \in Readable PROVE Gapless(link, s, Arrived(s), w[s].n)'
  <2>1. Gapless(link, s, Arrived(s), w[s].n)
    BY <1>2 DEF OrderInv, SentInOrder
  <2>2. Arrived(s)' = Arrived(s) /\ w'[s].n = w[s].n
    BY StreamFacts DEF Arrived
  <2>3. link \in Seq(Packet) /\ Arrived(s) \in Nat /\ w[s].n \in Nat /\ ~OnStream(p, s)
    BY StreamFacts DEF Inv, TypeOK, OnStream
  <2>4. Gapless(Append(link, p), s, Arrived(s), w[s].n)
    BY <2>1, <2>3, GaplessAppend
  <2> QED
    BY <2>2, <2>4
<1> QED
  BY <1>1, <1>2 DEF SentInOrder

(* Nothing is said of the end once this end has closed.                    *)
LEMMA ClosedEnd == ASSUME sentClose' PROVE EndIsLast' /\ EndSeen'
  BY DEF EndIsLast, EndSeen

(* reserve moves no byte and keeps the order.                              *)
LEMMA ReserveOrder == ASSUME Inv, OrderInv, NEW s \in Streams, Reserve(s) PROVE OrderInv'
<1>1. PICK got \in Nat :
        w' = [w EXCEPT ![s].space = got, ![s].pc = IF remoteWin.closed THEN "eof" ELSE "send"]
  BY ReserveEffect
<1>2. UNCHANGED <<sentEOF, sentClose, link, buf, r, open, failed>> /\ w[s].pc = "top" /\ w[s].n < Length[s]
      /\ (w[s].n = 0 => ~sentEOF)
  BY DEF Reserve
<1>3. PICK p \in {"eof", "send"} : w' = [w EXCEPT ![s].space = got, ![s].pc = p]
  BY <1>1, Zenon
<1>4. Wrote(s, p, w[s].n, got)
  BY <1>3, WritingUpdate DEF Inv
<1>5. \A q \in Streams : w'[q].n = w[q].n
  BY <1>4 DEF Wrote
<1>6. ReadInOrder' /\ SentInOrder'
  BY <1>2, <1>5, NothingMoves
<1>7. CASE sentClose
  BY <1>2, <1>6, <1>7, ClosedEnd DEF OrderInv
<1>8. CASE ~sentClose
  <2>1. ~sentEOF
    <3>1. w[s].n \in Nat /\ Length[s] \in Nat
      BY WriterFacts
    <3>2. sentEOF => w[s].n \in {0, Length[s]}
      BY <1>2, <1>8 DEF OrderInv, EndIsLast, Done
    <3> QED
      BY <1>2, <3>1, <3>2
  <2>2. EndIsLast'
    BY <1>2, <1>8, <2>1 DEF OrderInv, EndIsLast
  <2>3. EndSeen'
    BY <1>2, <1>8 DEF OrderInv, EndSeen
  <2> QED
    BY <1>6, <2>2, <2>3 DEF OrderInv
<1> QED
  BY <1>7, <1>8

(* writePacket continues the stream where the last one ended.              *)
LEMMA SendDataOrder == ASSUME Inv, OrderInv, NEW s \in Streams, SendData(s) PROVE OrderInv'
<1>1. UNCHANGED <<sentEOF, sentClose, buf, r, open, failed>> /\ w[s].pc = "send"
  BY DEF SendData
<1>2. s \in Nat /\ w[s].n \in Nat /\ w[s].space \in Nat
  BY WriterFacts
<1>3. CASE sentClose
  <2>1. w' = [w EXCEPT ![s].pc = "eof"] /\ link' = link
    BY <1>3 DEF SendData
  <2>2. Wrote(s, "eof", w[s].n, w[s].space)
    BY <2>1, <1>2, WritingUpdate DEF Inv
  <2>3. \A q \in Streams : w'[q].n = w[q].n
    BY <2>2 DEF Wrote
  <2>4. ReadInOrder' /\ SentInOrder'
    BY <1>1, <2>1, <2>3, NothingMoves
  <2> QED
    BY <1>1, <1>3, <2>4, ClosedEnd DEF OrderInv
<1>4. CASE ~sentClose
  <2> DEFINE k == w[s].n + w[s].space
             p == Data(s, w[s].n, w[s].space)
  <2>1. w' = [w EXCEPT ![s].pc = "top", ![s].n = k] /\ link' = Append(link, p)
    BY <1>4, Zenon DEF SendData
  <2>2. k \in Nat
    BY <1>2
  <2>3. p \in Packet /\ Len(p.bytes) = w[s].space /\ p.t = "data" /\ p.s = s
    BY <1>2, PacketTypes DEF Data
  <2>4. From(p, w[s].n)
    BY <1>2, <2>3 DEF From, Data
  <2> HIDE DEF p
  <2>5. k = w[s].n + Len(p.bytes)
    BY <2>3
  <2> HIDE DEF k
  <2>6. Wrote(s, "top", k, w[s].space)
    BY <2>1, <2>2, <1>2, WritingUpdate DEF Inv
  <2>7. link \in Seq(Packet)
    BY DEF Inv, TypeOK
  <2>8. ReadInOrder'
    BY <1>1 DEF OrderInv, ReadInOrder
  <2>9. SentInOrder'
    <3>1. ASSUME failed' = "no", NEW q \in Readable PROVE Gapless(link, q, Arrived(q), w[q].n)'
      <4>1. Gapless(link, q, Arrived(q), w[q].n)
        BY <1>1, <3>1 DEF OrderInv, SentInOrder
      <4>2. q \in Streams /\ Arrived(q) \in Nat /\ w[q].n \in Nat
        BY StreamFacts
      <4>3. Arrived(q)' = Arrived(q)
        BY <1>1 DEF Arrived
      <4>4. CASE q = s
        <5>1. Gapless(Append(link, p), q, Arrived(q), k)
          BY <2>2, <2>3, <2>4, <2>5, <2>7, <4>1, <4>2, <4>4, GaplessAppend DEF OnStream
        <5> QED
          BY <2>1, <2>6, <4>3, <4>4, <5>1 DEF Wrote
      <4>5. CASE q # s
        <5>1. Gapless(Append(link, p), q, Arrived(q), w[q].n)
          BY <2>3, <2>7, <4>1, <4>2, <4>5, GaplessAppend DEF OnStream
        <5> QED
          BY <2>1, <2>6, <4>2, <4>3, <4>5, <5>1 DEF Wrote
      <4> QED
        BY <4>4, <4>5
    <3> QED
      BY <3>1 DEF SentInOrder
  <2>10. ~sentEOF
    BY <1>1, <1>4 DEF OrderInv, EndIsLast, Done
  <2>11. EndIsLast'
    <3>1. \A j \in 1..Len(link) : link[j].t = "data"
      BY <1>4, <2>10 DEF OrderInv, EndIsLast
    <3>2. \A j \in 1..Len(link') : link'[j].t = "data"
      <4>1. Len(Append(link, p)) = Len(link) + 1 /\ Append(link, p)[Len(link) + 1] = p
            /\ \A j \in 1..Len(link) : Append(link, p)[j] = link[j]
        BY <2>3, <2>7, AppendProperties
      <4>2. Len(link) \in Nat
        BY <2>7
      <4>3. ASSUME NEW j \in 1..(Len(link) + 1) PROVE Append(link, p)[j].t = "data"
        <5>1. j \in 1..Len(link) \/ j = Len(link) + 1
          BY <4>2
        <5> QED
          BY <5>1, <4>1, <3>1, <2>3
      <4> QED
        BY <2>1, <4>1, <4>3
    <3> QED
      BY <1>1, <2>10, <3>2 DEF EndIsLast
  <2>12. EndSeen'
    BY <1>1, <1>4, <2>10 DEF OrderInv, EndSeen
  <2> QED
    BY <2>8, <2>9, <2>11, <2>12 DEF OrderInv
<1> QED
  BY <1>3, <1>4

(* A Write after CloseWrite moves no byte and keeps the order.             *)
LEMMA WriteAfterEOFOrder == ASSUME Inv, OrderInv, NEW s \in Streams, WriteAfterEOF(s) PROVE OrderInv'
<1>1. w' = [w EXCEPT ![s].pc = "eof"] /\ UNCHANGED <<sentEOF, sentClose, link, buf, r, open, failed>>
  BY DEF WriteAfterEOF
<1>2. w[s].n \in Nat
  BY WriterFacts
<1>3. Wrote(s, "eof", w[s].n, w[s].space)
  BY <1>1, <1>2, WritingUpdate DEF Inv
<1>4. \A q \in Streams : w'[q].n = w[q].n
  BY <1>3 DEF Wrote
<1>5. ReadInOrder' /\ SentInOrder'
  BY <1>1, <1>4, NothingMoves
<1>6. \A q \in Streams : Done(q) => Done(q)'
  BY <1>3 DEF Done, Wrote
<1>7. EndIsLast'
  BY <1>1, <1>6 DEF OrderInv, EndIsLast
<1>8. EndSeen'
  BY <1>1 DEF OrderInv, EndSeen
<1> QED
  BY <1>5, <1>7, <1>8 DEF OrderInv

(* CloseWrite puts the EOF behind every byte that was sent.                *)
LEMMA CloseWriteOrder == ASSUME Inv, OrderInv, CloseWrite PROVE OrderInv'
<1>1. ~sentEOF /\ ~sentClose /\ sentEOF' = TRUE /\ link' = Append(link, Msg("eof"))
      /\ UNCHANGED <<w, sentClose, buf, r, open, failed>>
  BY DEF CloseWrite
<1>2. Msg("eof") \in Packet /\ Msg("eof").t = "eof" /\ link \in Seq(Packet)
  BY PacketTypes DEF Msg, Inv, TypeOK
<1>3. ReadInOrder' /\ SentInOrder'
  BY <1>1, <1>2, OtherSent
<1>4. ASSUME NEW s \in Streams PROVE Done(s)'
  <2>1. w[s].n \in Nat /\ Length[s] \in Nat /\ w[s].space \in Nat /\ w[s].pc \in {"top", "send", "eof"}
        /\ (w[s].pc = "send" => w[s].space # 0 /\ w[s].n + w[s].space <= Length[s])
    BY WriterFacts
  <2>2. w[s].pc = "eof" \/ w[s].n = Length[s] \/ (w[s].n = 0 /\ w[s].pc = "top")
    BY DEF CloseWrite
  <2>3. w[s].pc = "send" => w[s].n # Length[s]
    BY <2>1
  <2>4. Done(s)
    BY <2>1, <2>2, <2>3 DEF Done
  <2> QED
    BY <1>1, <2>4 DEF Done
<1>5. EndIsLast'
  <2>1. Len(link') = Len(link) + 1 /\ Len(link) \in Nat /\ \A j \in 1..Len(link) : link'[j] = link[j]
    BY <1>1, <1>2, AppendProperties
  <2>2. \A j \in 1..Len(link) : link[j].t = "data"
    BY <1>1 DEF OrderInv, EndIsLast
  <2>3. link'[Len(link) + 1].t = "eof"
    BY <1>1, <1>2, AppendProperties
  <2>4. ASSUME NEW j \in 1..Len(link'), link'[j].t # "data" PROVE link'[j].t = "eof" /\ j = Len(link')
    <3>1. j \in 1..Len(link) \/ j = Len(link) + 1
      BY <2>1
    <3> QED
      BY <2>1, <2>2, <2>3, <2>4, <3>1
  <2> QED
    BY <1>1, <1>4, <2>4 DEF EndIsLast
<1>6. EndSeen'
  BY <1>1 DEF OrderInv, EndSeen
<1> QED
  BY <1>3, <1>5, <1>6 DEF OrderInv

(* Close puts the close behind everything that was sent.                   *)
LEMMA CloseOrder == ASSUME Inv, OrderInv, Close \/ HandleClose PROVE OrderInv'
<1>1. UNCHANGED <<w, buf, r, failed>> /\ sentClose' = TRUE
      /\ (link' = link \/ link' = Append(link, Msg("close")))
  BY DEF Close, HandleClose
<1>2. Msg("close") \in Packet /\ Msg("close").t # "data"
  BY PacketTypes DEF Msg
<1>3. ReadInOrder' /\ SentInOrder'
  BY <1>1, <1>2, OtherSent, NothingMoves
<1> QED
  BY <1>1, <1>3, ClosedEnd DEF OrderInv

(* A window adjustment moves no byte of the stream.                        *)
LEMMA AdjustOrder ==
    ASSUME Inv, OrderInv, HandleAdjust \/ \E n \in Adjustments : HandleOther(n) PROVE OrderInv'
<1>1. UNCHANGED <<w, sentEOF, link, buf, r, open>> /\ failed = "no"
  BY DEF HandleAdjust, HandleOther
<1>2. sentClose' = TRUE \/ UNCHANGED <<sentClose, failed>>
  BY DEF HandleAdjust, HandleOther, AdjustBy
<1>3. ReadInOrder' /\ SentInOrder'
  BY <1>1, NothingMoves
<1>4. CASE sentClose' = TRUE
  BY <1>3, <1>4, ClosedEnd DEF OrderInv
<1>5. CASE UNCHANGED <<sentClose, failed>>
  <2>1. EndIsLast'
    BY <1>1, <1>5 DEF OrderInv, EndIsLast, Done
  <2>2. EndSeen'
    BY <1>1, <1>5 DEF OrderInv, EndSeen
  <2> QED
    BY <1>3, <2>1, <2>2 DEF OrderInv
<1> QED
  BY <1>2, <1>4, <1>5

(* The end of the queue stays its end when its first packet is taken.      *)
LEMMA TakenEnd ==
    ASSUME Inv, OrderInv, link # <<>>, link' = Tail(link), UNCHANGED <<w, sentEOF, sentClose>>
    PROVE  EndIsLast'
<1>1. link \in Seq(Packet)
  BY DEF Inv, TypeOK
<1>2. Len(link') = Len(link) - 1 /\ Len(link) \in Nat /\ \A j \in 1..Len(link') : link'[j] = link[j + 1]
  BY <1>1, HeadTailProperties
<1>3. ASSUME ~sentClose, NEW j \in 1..Len(link'), link'[j].t # "data"
      PROVE  link'[j].t = "eof" /\ j = Len(link') /\ sentEOF
  <2>1. j + 1 \in 1..Len(link) /\ link'[j] = link[j + 1]
    BY <1>2
  <2>2. link[j + 1].t = "eof" /\ sentEOF
    BY <1>3, <2>1 DEF OrderInv, EndIsLast
  <2>a. j + 1 = Len(link)
    BY <1>3, <2>1 DEF OrderInv, EndIsLast
  <2>b. Len(link') = Len(link) - 1 /\ Len(link) \in Nat
    BY <1>2
  <2>c. j \in Int
    OBVIOUS
  <2>3. j = Len(link')
    BY <2>a, <2>b, <2>c
  <2> QED
    BY <2>1, <2>2, <2>3
<1>4. \A s \in Streams : Done(s)' <=> Done(s)
  BY DEF Done
<1> QED
  BY <1>3, <1>4 DEF OrderInv, EndIsLast

(* handleData appends the next bytes of the stream to its buffer.          *)
LEMMA HandleDataOrder == ASSUME Inv, OrderInv, HandleData PROVE OrderInv'
<1>1. link # <<>> /\ Head(link).t = "data" /\ failed = "no" /\ link' = Tail(link)
      /\ UNCHANGED <<w, sentEOF, sentClose, r, open>>
  BY DEF HandleData
<1>2. EndIsLast'
  BY <1>1, TakenEnd
<1>3. link \in Seq(Packet)
  BY DEF Inv, TypeOK
<1>4. PICK p \in Packet : p = Head(link)
  BY <1>1, <1>3, HeadTailProperties
<1>5. p.bytes \in Seq(Nat) /\ Len(p.bytes) \in Nat
  BY DEF Packet
<1>6. \A s \in Readable : open /\ ~sentClose => ~buf[s].closed /\ ~r[s].eof
  BY <1>1 DEF OrderInv, EndSeen
<1>7. CASE myWindow < Charge(p)
  <2>1. failed' = "too much" /\ buf' = buf
    BY <1>4, <1>7 DEF HandleData
  <2>2. ReadInOrder' /\ SentInOrder'
    BY <1>1, <2>1 DEF OrderInv, ReadInOrder, SentInOrder
  <2>3. EndSeen'
    BY <1>1, <1>6, <2>1 DEF EndSeen
  <2> QED
    BY <1>2, <2>2, <2>3 DEF OrderInv
<1>8. CASE ~(myWindow < Charge(p)) /\ p.s \notin Readable
  <2>1. buf' = buf /\ failed' = failed
    BY <1>4, <1>8 DEF HandleData
  <2>2. ASSUME NEW s \in Readable PROVE Gapless(link, s, Arrived(s), w[s].n)'
    <3>1. Gapless(link, s, Arrived(s), w[s].n) /\ Arrived(s) \in Nat /\ w[s].n \in Nat
      BY <1>1, StreamFacts DEF OrderInv, SentInOrder
    <3>2. ~OnStream(Head(link), s)
      BY <1>4, <1>8 DEF OnStream
    <3>3. Gapless(Tail(link), s, Arrived(s), w[s].n)
      BY <1>1, <1>3, <3>1, <3>2, GaplessTail
    <3> QED
      BY <1>1, <2>1, <3>3 DEF Arrived
  <2>3. ReadInOrder' /\ SentInOrder'
    BY <1>1, <2>1, <2>2 DEF OrderInv, ReadInOrder, SentInOrder
  <2>4. EndSeen'
    BY <1>1, <1>6, <2>1 DEF EndSeen
  <2> QED
    BY <1>2, <2>3, <2>4 DEF OrderInv
<1>9. CASE ~(myWindow < Charge(p)) /\ p.s \in Readable
  <2>1. PICK s \in Readable : s = p.s
    BY <1>9
  <2>2. r[s].got \in Seq(Nat) /\ buf[s].bytes \in Seq(Nat) /\ Arrived(s) \in Nat /\ w[s].n \in Nat
    BY StreamFacts
  <2>3. PICK g \in Seq(Nat), c \in Seq(Nat), b \in Seq(Nat) :
          g = r[s].got /\ c = buf[s].bytes /\ b = c \o p.bytes
    <3>1. buf[s].bytes \o p.bytes \in Seq(Nat)
      BY <1>5, <2>2, ConcatProperties
    <3> QED
      BY <2>2, <3>1, Zenon
  <2>4. failed' = failed /\ buf' = [buf EXCEPT ![s].bytes = b]
    BY <1>4, <1>9, <2>1, <2>3, Zenon DEF HandleData
  <2>5. Filled(s, b)
    BY <2>4, BufferUpdate
  <2>6. /\ Len(b) = Len(c) + Len(p.bytes)
        /\ \A i \in 1..(Len(c) + Len(p.bytes)) : b[i] = IF i <= Len(c) THEN c[i] ELSE p.bytes[i - Len(c)]
    BY <1>5, <2>3, ConcatProperties, ZenonT(40)
  <2>7. Arrived(s) = Len(g) + Len(c) /\ Len(g) \in Nat /\ Len(c) \in Nat
    BY <2>3 DEF Arrived
  <2>8. Gapless(link, s, Arrived(s), w[s].n) /\ OnStream(Head(link), s)
    BY <1>1, <1>4, <2>1 DEF OrderInv, SentInOrder, OnStream
  <2>9. From(p, Arrived(s)) /\ Gapless(Tail(link), s, Arrived(s) + Len(p.bytes), w[s].n)
    BY <1>1, <1>3, <1>4, <2>2, <2>8, GaplessTail
  <2>10. InOrder(g, b)
    <3> DEFINE u == p.bytes
               l == Len(p.bytes)
    <3>1. \A i \in 1..Len(c) : c[i] = Len(g) + i
      BY <2>3 DEF OrderInv, ReadInOrder, InOrder
    <3>2. \A i \in 1..Len(g) : g[i] = i
      BY <2>3 DEF OrderInv, ReadInOrder, InOrder
    <3>3. \A i \in 1..l : u[i] = Len(g) + Len(c) + i
      BY <2>7, <2>9 DEF From
    <3>4. l \in Nat /\ Len(b) = Len(c) + l /\ \A i \in 1..(Len(c) + l) : b[i] = IF i <= Len(c) THEN c[i] ELSE u[i - Len(c)]
      BY <1>5, <2>6
    <3> HIDE DEF u, l
    <3>5. ASSUME NEW i \in 1..Len(b) PROVE b[i] = Len(g) + i
      <4>1. CASE i <= Len(c)
        <5>1. i \in 1..Len(c) /\ i \in 1..(Len(c) + l)
          BY <2>7, <3>4, <4>1
        <5> QED
          BY <3>1, <3>4, <4>1, <5>1
      <4>2. CASE ~(i <= Len(c))
        <5>1. i - Len(c) \in 1..l
          BY <2>7, <3>4, <4>2
        <5>2. b[i] = u[i - Len(c)] /\ u[i - Len(c)] = Len(g) + Len(c) + (i - Len(c))
          BY <2>7, <3>3, <3>4, <4>2, <5>1
        <5> QED
          BY <2>7, <5>2
      <4> QED
        BY <4>1, <4>2
    <3> QED
      BY <3>2, <3>5 DEF InOrder
  <2>11. ReadInOrder'
    <3>1. ASSUME NEW q \in Readable PROVE InOrder(r[q].got, buf[q].bytes)'
      <4>1. CASE q = s
        BY <1>1, <2>3, <2>5, <2>10, <4>1 DEF Filled
      <4>2. CASE q # s
        BY <1>1, <2>5, <4>2 DEF Filled, OrderInv, ReadInOrder
      <4> QED
        BY <4>1, <4>2
    <3> QED
      BY <3>1 DEF ReadInOrder
  <2>12. SentInOrder'
    <3>1. ASSUME NEW q \in Readable PROVE Gapless(link, q, Arrived(q), w[q].n)'
      <4>1. CASE q = s
        <5>1. Arrived(s)' = Len(g) + Len(b)
          BY <1>1, <2>3, <2>5 DEF Arrived, Filled
        <5>2. Arrived(s)' = Arrived(s) + Len(p.bytes)
          <6> DEFINE l == Len(p.bytes)
          <6>1. l \in Nat /\ Len(b) = Len(c) + l
            BY <1>5, <2>6
          <6> HIDE DEF l
          <6>2. Arrived(s)' = Arrived(s) + l
            BY <5>1, <6>1, <2>7
          <6> QED
            BY <6>2 DEF l
        <5> QED
          BY <1>1, <2>9, <4>1, <5>2
      <4>2. CASE q # s
        <5>1. Gapless(link, q, Arrived(q), w[q].n) /\ Arrived(q) \in Nat /\ w[q].n \in Nat
          BY <1>1, StreamFacts DEF OrderInv, SentInOrder
        <5>2. ~OnStream(Head(link), q)
          BY <1>4, <2>1, <4>2 DEF OnStream
        <5>3. Gapless(Tail(link), q, Arrived(q), w[q].n)
          BY <1>1, <1>3, <5>1, <5>2, GaplessTail
        <5>4. Arrived(q)' = Arrived(q)
          BY <1>1, <2>5, <4>2 DEF Arrived, Filled
        <5> QED
          BY <1>1, <5>3, <5>4
      <4> QED
        BY <4>1, <4>2
    <3> QED
      BY <3>1 DEF SentInOrder
  <2>13. EndSeen'
    BY <1>1, <1>6, <2>5 DEF EndSeen, Filled
  <2> QED
    BY <1>2, <2>11, <2>12, <2>13 DEF OrderInv
<1> QED
  BY <1>7, <1>8, <1>9

(* EOF and close reach the reader after every byte sent before them.       *)
LEMMA HandleEndOrder == ASSUME Inv, OrderInv, HandleEnd PROVE OrderInv'
<1>1. link # <<>> /\ Head(link).t # "data" /\ failed = "no" /\ link' = Tail(link) /\ buf' = EndBuffers
      /\ UNCHANGED <<w, sentEOF, sentClose, r, failed>>
  BY DEF HandleEnd
<1>2. EndIsLast'
  BY <1>1, TakenEnd
<1>3. link \in Seq(Packet)
  BY DEF Inv, TypeOK
<1>4. \A s \in Readable : buf'[s].bytes = buf[s].bytes /\ buf'[s].closed = TRUE
  BY <1>1, EndBuffersEffect DEF Inv
<1>5. ReadInOrder'
  BY <1>1, <1>4 DEF OrderInv, ReadInOrder
<1>6. SentInOrder'
  <2>1. ASSUME NEW s \in Readable PROVE Gapless(link, s, Arrived(s), w[s].n)'
    <3>1. Gapless(link, s, Arrived(s), w[s].n) /\ Arrived(s) \in Nat /\ w[s].n \in Nat
      BY <1>1, StreamFacts DEF OrderInv, SentInOrder
    <3>2. ~OnStream(Head(link), s)
      BY <1>1 DEF OnStream
    <3>3. Gapless(Tail(link), s, Arrived(s), w[s].n)
      BY <1>1, <1>3, <3>1, <3>2, GaplessTail
    <3>4. Arrived(s)' = Arrived(s)
      BY <1>1, <1>4 DEF Arrived
    <3> QED
      BY <1>1, <3>3, <3>4
  <2> QED
    BY <2>1 DEF SentInOrder
<1>7. EndSeen'
  <2> SUFFICES ASSUME open', ~sentClose'
               PROVE  \A s \in Readable : /\ sentEOF' /\ link' = <<>> /\ failed' = "no"
                                          /\ r'[s].eof => buf'[s].closed /\ buf'[s].bytes = <<>>
    BY DEF EndSeen
  <2>1. open /\ ~sentClose
    <3>1. open' = open \/ open' = FALSE
      BY DEF HandleEnd
    <3> QED
      BY <1>1, <3>1
  <2>2. Len(link) \in Nat /\ Len(link) # 0 /\ Head(link) = link[1] /\ Tail(link) \in Seq(Packet) /\ Len(Tail(link)) = Len(link) - 1
    BY <1>1, <1>3, EmptySeq, HeadTailProperties
  <2>3. 1 \in 1..Len(link) /\ link[1].t # "data"
    BY <1>1, <2>2
  <2>4. sentEOF
    BY <2>1, <2>3 DEF OrderInv, EndIsLast
  <2>5. 1 = Len(link)
    BY <2>1, <2>3 DEF OrderInv, EndIsLast
  <2>6. link' = <<>>
    BY <1>1, <2>2, <2>5, EmptySeq
  <2>7. \A s \in Readable : ~r[s].eof
    BY <1>1, <2>1 DEF OrderInv, EndSeen
  <2> QED
    BY <1>1, <2>4, <2>6, <2>7
<1> QED
  BY <1>2, <1>5, <1>6, <1>7 DEF OrderInv

(* Read returns the first bytes of the buffer and leaves the others.       *)
LEMMA ReadExtendedOrder == ASSUME Inv, OrderInv, NEW s \in Readable, ReadExtended(s) PROVE OrderInv'
<1>1. PICK n \in 0..Len(buf[s].bytes) :
             /\ buf' = [buf EXCEPT ![s].bytes = SubSeq(buf[s].bytes, n + 1, Len(buf[s].bytes))]
             /\ r' = [r EXCEPT ![s].got = r[s].got \o SubSeq(buf[s].bytes, 1, n)]
  BY ReadEffect
<1>2. buf[s].bytes # <<>> /\ UNCHANGED <<w, sentEOF, sentClose, link, open, failed>>
  BY DEF ReadExtended
<1>3. r[s].got \in Seq(Nat) /\ buf[s].bytes \in Seq(Nat)
  BY StreamFacts
<1>4. PICK g \in Seq(Nat), b \in Seq(Nat) : g = r[s].got /\ b = buf[s].bytes
  BY <1>3
<1>5. n \in Nat /\ n <= Len(b) /\ Len(b) \in Nat /\ Len(g) \in Nat
  BY <1>4
<1>6. PICK b1 \in Seq(Nat), b2 \in Seq(Nat) :
         /\ b1 = SubSeq(b, 1, n) /\ b2 = SubSeq(b, n + 1, Len(b))
         /\ Len(b1) = n /\ Len(b2) = Len(b) - n
         /\ \A i \in 1..n : b1[i] = b[i]
         /\ \A i \in 1..(Len(b) - n) : b2[i] = b[n + i]
  BY <1>5, ReadParts
<1>7. PICK h \in Seq(Nat) :
         /\ h = g \o b1 /\ Len(h) = Len(g) + n
         /\ \A i \in 1..(Len(g) + n) : h[i] = IF i <= Len(g) THEN g[i] ELSE b1[i - Len(g)]
  <2>1. g \o b1 \in Seq(Nat) /\ Len(g \o b1) = Len(g) + Len(b1)
        /\ \A i \in 1..(Len(g) + Len(b1)) : (g \o b1)[i] = IF i <= Len(g) THEN g[i] ELSE b1[i - Len(g)]
    BY ConcatProperties
  <2>2. Len(b1) = n
    BY <1>6
  <2> QED
    BY <2>1, <2>2, Zenon
<1>8. Filled(s, b2)
  BY <1>1, <1>4, <1>6, BufferUpdate
<1>9. Got(s, h, r[s].eof)
  BY <1>1, <1>4, <1>6, <1>7, ReadingUpdate DEF Inv
<1>10. InOrder(g, b)
  BY <1>4 DEF OrderInv, ReadInOrder
<1>11. InOrder(h, b2)
  <2>1. ASSUME NEW i \in 1..Len(h) PROVE h[i] = i
    <3>1. CASE i <= Len(g)
      <4>1. i \in 1..Len(g) /\ i \in 1..(Len(g) + n)
        BY <1>5, <3>1, <1>7
      <4> QED
        BY <1>7, <1>10, <3>1, <4>1 DEF InOrder
    <3>2. CASE ~(i <= Len(g))
      <4>1. i \in 1..(Len(g) + n) /\ i - Len(g) \in 1..n /\ i - Len(g) \in 1..Len(b)
        BY <1>5, <1>7, <3>2
      <4>2. h[i] = b1[i - Len(g)] /\ b1[i - Len(g)] = b[i - Len(g)] /\ b[i - Len(g)] = Len(g) + (i - Len(g))
        BY <1>6, <1>7, <1>10, <3>2, <4>1 DEF InOrder
      <4> QED
        BY <1>5, <4>2
    <3> QED
      BY <3>1, <3>2
  <2>2. ASSUME NEW i \in 1..Len(b2) PROVE b2[i] = Len(h) + i
    <3>1. i \in 1..(Len(b) - n) /\ n + i \in 1..Len(b)
      BY <1>5, <1>6
    <3>2. b2[i] = b[n + i] /\ b[n + i] = Len(g) + (n + i)
      BY <1>6, <1>10, <3>1 DEF InOrder
    <3> QED
      BY <1>5, <1>7, <3>2
  <2> QED
    BY <2>1, <2>2 DEF InOrder
<1>12. ReadInOrder'
  <2>1. ASSUME NEW q \in Readable PROVE InOrder(r[q].got, buf[q].bytes)'
    <3>1. CASE q = s
      BY <1>8, <1>9, <1>11, <3>1 DEF Filled, Got
    <3>2. CASE q # s
      BY <1>8, <1>9, <3>2 DEF Filled, Got, OrderInv, ReadInOrder
    <3> QED
      BY <3>1, <3>2
  <2> QED
    BY <2>1 DEF ReadInOrder
<1>13. \A q \in Readable : Arrived(q)' = Arrived(q)
  <2>1. ASSUME NEW q \in Readable, q # s PROVE Arrived(q)' = Arrived(q)
    BY <1>8, <1>9, <2>1 DEF Filled, Got, Arrived
  <2>2. Arrived(s)' = Len(h) + Len(b2) /\ Arrived(s) = Len(g) + Len(b)
    BY <1>4, <1>8, <1>9 DEF Filled, Got, Arrived
  <2>3. Len(h) + Len(b2) = Len(g) + Len(b)
    BY <1>5, <1>6, <1>7
  <2> QED
    BY <2>1, <2>2, <2>3
<1>14. SentInOrder'
  BY <1>2, <1>13 DEF OrderInv, SentInOrder
<1>15. EndIsLast'
  BY <1>2 DEF OrderInv, EndIsLast, Done
<1>16. EndSeen'
  <2> SUFFICES ASSUME open', ~sentClose', NEW q \in Readable
               PROVE  /\ buf'[q].closed => sentEOF' /\ link' = <<>> /\ failed' = "no"
                      /\ r'[q].eof => buf'[q].closed /\ buf'[q].bytes = <<>>
    BY DEF EndSeen
  <2>1. /\ buf[q].closed => sentEOF /\ link = <<>> /\ failed = "no"
        /\ r[q].eof => buf[q].closed /\ buf[q].bytes = <<>>
    BY <1>2 DEF OrderInv, EndSeen
  <2>2. CASE q = s
    BY <1>2, <1>8, <1>9, <2>1, <2>2 DEF Filled, Got
  <2>3. CASE q # s
    BY <1>2, <1>8, <1>9, <2>1, <2>3 DEF Filled, Got
  <2> QED
    BY <2>2, <2>3
<1> QED
  BY <1>12, <1>14, <1>15, <1>16 DEF OrderInv

(* A Read returns io.EOF only when all that was sent has been read.        *)
LEMMA ReadEOFOrder == ASSUME Inv, OrderInv, NEW s \in Readable, ReadEOF(s) PROVE OrderInv'
<1>1. r' = [r EXCEPT ![s].eof = TRUE] /\ buf[s].closed /\ buf[s].bytes = <<>>
      /\ UNCHANGED <<w, sentEOF, sentClose, link, buf, open, failed>>
  BY DEF ReadEOF, AtEOF
<1>2. Got(s, r[s].got, TRUE)
  <2>1. r[s].got \in Seq(Nat)
    BY StreamFacts
  <2> QED
    BY <1>1, <2>1, ReadingUpdate DEF Inv
<1>3. \A q \in Readable : r'[q].got = r[q].got
  BY <1>2 DEF Got
<1>4. ReadInOrder'
  BY <1>1, <1>3 DEF OrderInv, ReadInOrder
<1>5. SentInOrder'
  <2>1. \A q \in Readable : Arrived(q)' = Arrived(q)
    BY <1>1, <1>3 DEF Arrived
  <2> QED
    BY <1>1, <2>1 DEF OrderInv, SentInOrder
<1>6. EndIsLast'
  BY <1>1 DEF OrderInv, EndIsLast, Done
<1>7. EndSeen'
  BY <1>1, <1>2 DEF OrderInv, EndSeen, Got
<1> QED
  BY <1>4, <1>5, <1>6, <1>7 DEF OrderInv

(* The reading side's Close moves no byte and keeps the order.             *)
LEMMA CloseReaderOrder == ASSUME Inv, OrderInv, CloseReader PROVE OrderInv'
<1>1. open' = FALSE /\ UNCHANGED <<w, sentEOF, sentClose, link, buf, r, failed>>
  BY DEF CloseReader
<1>2. ReadInOrder' /\ SentInOrder'
  BY <1>1, NothingMoves
<1>3. EndIsLast' /\ EndSeen'
  BY <1>1 DEF OrderInv, EndIsLast, EndSeen, Done
<1> QED
  BY <1>2, <1>3 DEF OrderInv

(* Every step keeps the order of the streams.                              *)
LEMMA NextOrder == ASSUME Inv, OrderInv, [Next]_vars PROVE OrderInv'
<1>1. ASSUME NEW s \in Streams, Writer(s) PROVE OrderInv'
  BY <1>1, ReserveOrder, SendDataOrder, WriteAfterEOFOrder DEF Writer
<1>2. ASSUME NEW s \in Readable, Reader(s) PROVE OrderInv'
  BY <1>2, ReadExtendedOrder, ReadEOFOrder DEF Reader
<1>3. CASE Muxes
  BY <1>3, AdjustOrder, CloseOrder, HandleDataOrder, HandleEndOrder DEF Muxes
<1>4. CASE CloseWrite \/ Close \/ CloseReader
  BY <1>4, CloseWriteOrder, CloseOrder, CloseReaderOrder
<1>5. CASE \E n \in Adjustments : HandleOther(n)
  BY <1>5, AdjustOrder
<1>6. CASE UNCHANGED vars
  <2>1. ReadInOrder' /\ SentInOrder'
    BY <1>6, NothingMoves DEF vars
  <2>2. EndIsLast' /\ EndSeen'
    BY <1>6 DEF vars, OrderInv, EndIsLast, EndSeen, Done
  <2> QED
    BY <2>1, <2>2 DEF OrderInv
<1> QED
  BY <1>1, <1>2, <1>3, <1>4, <1>5, <1>6 DEF Next

(* The ordering invariant implies StreamIntact.                            *)
LEMMA OrderIntact == ASSUME Inv, OrderInv PROVE StreamIntact
<1> SUFFICES ASSUME NEW s \in Readable
             PROVE  /\ r[s].got = [i \in 1..Len(r[s].got) |-> i]
                    /\ r[s].eof /\ open /\ ~sentClose => Len(r[s].got) = w[s].n
  BY DEF StreamIntact
<1>1. PICK g \in Seq(Nat), b \in Seq(Nat) : g = r[s].got /\ b = buf[s].bytes
  BY StreamFacts
<1>2. \A i \in 1..Len(g) : g[i] = i
  BY <1>1 DEF OrderInv, ReadInOrder, InOrder
<1>3. g = [i \in 1..Len(g) |-> i]
  BY <1>2
<1>4. ASSUME r[s].eof, open, ~sentClose PROVE Len(g) = w[s].n
  <2>1. b = <<>> /\ link = <<>> /\ failed = "no"
    BY <1>1, <1>4 DEF OrderInv, EndSeen
  <2>2. Gapless(<<>>, s, Arrived(s), w[s].n)
    BY <2>1 DEF OrderInv, SentInOrder
  <2>3. Arrived(s) = w[s].n
    BY <2>2 DEF Gapless, Positions
  <2>4. Arrived(s) = Len(g) + Len(b) /\ Len(g) \in Nat /\ Len(b) = 0
    BY <1>1, <2>1 DEF Arrived
  <2>5. Len(g) + Len(b) = Len(g)
    BY <2>4
  <2> QED
    BY <2>3, <2>4, <2>5
<1> QED
  BY <1>1, <1>3, <1>4

(* Whatever is read from a channel is what was written to it, whole and in *)
(* order, however the writes are cut into packets and the buffer into      *)
(* reads; and io.EOF comes after the last byte that was written, when the  *)
(* stream was ended by CloseWrite and nobody closed the channel.           *)
THEOREM StreamsIntact == Spec => []StreamIntact
<1>1. Init => Inv /\ OrderInv
  BY InitInv, InitOrder
<1>2. Inv /\ OrderInv /\ [Next]_vars => Inv' /\ OrderInv'
  BY NextInv, NextOrder
<1>3. Inv /\ OrderInv => StreamIntact
  BY OrderIntact
<1> QED
  BY <1>1, <1>2, <1>3, PTL DEF Spec

-----------------------------------------------------------------------------
(* Induction, and the sum of a sequence.                                   *)

(* A set of naturals that is not empty has a least element.                *)
LEMMA LeastElement ==
    ASSUME NEW T, T \subseteq Nat, T # {}
    PROVE  \E x \in T : \A y \in T : x <= y
<1>1. PICK x \in T : \A y \in T : <<y, x>> \notin OpToRel(<, Nat)
  BY NatLessThanWellFounded, WFMin
<1>2. \A y \in T : ~(y < x)
  BY <1>1 DEF OpToRel
<1>3. x \in Nat /\ \A y \in T : y \in Nat
  OBVIOUS
<1>4. \A y \in T : x <= y
  BY <1>2, <1>3, SMT
<1> QED
  BY <1>4, Zenon

(* A set with 0 and with every successor holds every natural number.       *)
LEMMA Induction ==
    ASSUME NEW S, 0 \in S, \A n \in Nat : n \in S => n + 1 \in S
    PROVE  \A n \in Nat : n \in S
<1> DEFINE T == {n \in Nat : n \notin S}
<1>1. SUFFICES ASSUME T # {} PROVE FALSE
  OBVIOUS
<1>2. PICK x \in T : \A y \in T : x <= y
  BY <1>1, LeastElement, T \subseteq Nat
<1>3. x \in Nat /\ x # 0
  BY <1>2
<1>4. x - 1 \in Nat /\ x - 1 \notin T
  BY <1>2, <1>3, SMT
<1>5. (x - 1) + 1 = x
  BY <1>3
<1> QED
  BY <1>2, <1>3, <1>4, <1>5

(* f adds up the first n elements of q, one at a time.                     *)
Adds(f, q, n) == f[0] = 0 /\ \A i \in 1..n : f[i] = f[i - 1] + q[i]

(* Such a function exists, and Total is its last value.                    *)
LEMMA TotalAdds ==
    ASSUME NEW q \in Seq(Nat)
    PROVE  \E f \in [0..Len(q) -> Nat] : Adds(f, q, Len(q)) /\ Total(q) = f[Len(q)]
<1> DEFINE S == {n \in Nat : n <= Len(q) => \E f \in [0..n -> Nat] : Adds(f, q, n)}
<1>1. 0 \in S
  <2>1. [i \in 0..0 |-> 0] \in [0..0 -> Nat] /\ Adds([i \in 0..0 |-> 0], q, 0)
    BY DEF Adds
  <2> QED
    BY <2>1
<1>2. ASSUME NEW n \in Nat, n \in S PROVE n + 1 \in S
  <2> SUFFICES ASSUME n + 1 <= Len(q) PROVE \E f \in [0..(n + 1) -> Nat] : Adds(f, q, n + 1)
    OBVIOUS
  <2>1. PICK f \in [0..n -> Nat] : Adds(f, q, n)
    BY <1>2
  <2> DEFINE g == [i \in 0..(n + 1) |-> IF i = n + 1 THEN f[n] + q[n + 1] ELSE f[i]]
  <2>2. q[n + 1] \in Nat /\ f[n] \in Nat
    OBVIOUS
  <2>3. \A i \in 0..(n + 1) : i = n + 1 \/ i \in 0..n
    OBVIOUS
  <2>4. g \in [0..(n + 1) -> Nat]
    BY <2>2, <2>3
  <2>5. g[0] = 0
    BY <2>1 DEF Adds
  <2>6. ASSUME NEW i \in 1..(n + 1) PROVE g[i] = g[i - 1] + q[i]
    <3>1. CASE i = n + 1
      BY <3>1
    <3>2. CASE i # n + 1
      <4>1. i \in 1..n /\ i - 1 \in 0..n /\ i \in 0..n
        BY <3>2
      <4> QED
        BY <2>1, <3>2, <4>1 DEF Adds
    <3> QED
      BY <3>1, <3>2
  <2> QED
    BY <2>4, <2>5, <2>6 DEF Adds
<1>3. Len(q) \in Nat /\ Len(q) \in S
  <2>1. Len(q) \in Nat
    OBVIOUS
  <2> HIDE DEF S
  <2> QED
    BY <2>1, <1>1, <1>2, Induction
<1>4. PICK f \in [0..Len(q) -> Nat] : Adds(f, q, Len(q))
  BY <1>3
<1> DEFINE F(sum) == [i \in 0..Len(q) |-> IF i = 0 THEN 0 ELSE sum[i - 1] + q[i]]
           sum == CHOOSE sum : sum = F(sum)
<1>5. f = F(f)
  BY <1>4 DEF Adds
<1>6. sum = F(sum)
  BY <1>5
<1>7. Total(q) = sum[Len(q)]
  BY DEF Total
<1> HIDE DEF sum
<1>8. Adds(sum, q, Len(q)) /\ DOMAIN sum = 0..Len(q)
  <2>1. \A i \in 0..Len(q) : sum[i] = IF i = 0 THEN 0 ELSE sum[i - 1] + q[i]
    BY <1>6
  <2>2. DOMAIN sum = 0..Len(q)
    BY <1>6
  <2>3. sum[0] = 0
    BY <2>1
  <2>4. \A i \in 1..Len(q) : i \in 0..Len(q) /\ i # 0
    OBVIOUS
  <2> QED
    BY <2>1, <2>2, <2>3, <2>4, Zenon DEF Adds
<1> DEFINE R == {n \in Nat : n <= Len(q) => sum[n] \in Nat}
<1>9. 0 \in R
  BY <1>8 DEF Adds
<1>10. ASSUME NEW n \in Nat, n \in R PROVE n + 1 \in R
  <2> SUFFICES ASSUME n + 1 <= Len(q) PROVE sum[n + 1] \in Nat
    OBVIOUS
  <2>1. sum[n + 1] = sum[n] + q[n + 1]
    BY <1>8 DEF Adds
  <2> QED
    BY <1>10, <2>1
<1>11. \A n \in Nat : n \in R
  <2> HIDE DEF R
  <2> QED
    BY <1>9, <1>10, Induction
<1>12. sum \in [0..Len(q) -> Nat]
  <2>1. sum = [i \in 0..Len(q) |-> sum[i]]
    BY <1>6, <1>8
  <2>2. \A i \in 0..Len(q) : sum[i] \in Nat
    BY <1>11
  <2> QED
    BY <2>1, <2>2
<1> QED
  BY <1>7, <1>8, <1>12

(* Up to n, f and g grow by the same amounts.                              *)
Alike(f, g, n) ==
    /\ \A i \in 0..n : f[i] \in Int /\ g[i] \in Int
    /\ \A i \in 1..n : \E e \in Int : f[i] = f[i - 1] + e /\ g[i] = g[i - 1] + e

(* Two functions that grow by the same amounts keep their distance.        *)
LEMMA SameGrowth ==
    ASSUME NEW f, NEW g, NEW n \in Nat, Alike(f, g, n), NEW d \in Int, f[0] = g[0] + d
    PROVE  f[n] = g[n] + d /\ f[n] \in Int /\ g[n] \in Int
<1> DEFINE S == {i \in Nat : i <= n => f[i] = g[i] + d}
<1>1. 0 \in S
  OBVIOUS
<1>2. ASSUME NEW i \in Nat, i \in S PROVE i + 1 \in S
  <2> SUFFICES ASSUME i + 1 <= n PROVE f[i + 1] = g[i + 1] + d
    OBVIOUS
  <2>1. f[i] = g[i] + d
    BY <1>2
  <2>2. i + 1 \in 1..n /\ i \in 0..n /\ i + 1 \in 0..n /\ (i + 1) - 1 = i
    OBVIOUS
  <2>3. \E e \in Int : f[i + 1] = f[(i + 1) - 1] + e /\ g[i + 1] = g[(i + 1) - 1] + e
    BY <2>2, Zenon DEF Alike
  <2>4. f[i] \in Int /\ g[i] \in Int /\ f[i + 1] \in Int /\ g[i + 1] \in Int
    BY <2>2, Zenon DEF Alike
  <2> QED
    BY <2>1, <2>2, <2>3, <2>4
<1>3. n \in S
  <2> HIDE DEF S
  <2> QED
    BY <1>1, <1>2, Induction
<1>4. n \in 0..n
  OBVIOUS
<1>5. f[n] \in Int /\ g[n] \in Int
  BY <1>4, Zenon DEF Alike
<1> QED
  BY <1>3, <1>5

(* p and q hold the same numbers up to place n.                            *)
Agree(p, q, n) == \A i \in 1..n : p[i] = q[i] /\ q[i] \in Nat

(* Numbers that are the same up to place n have the same sum up to there.  *)
LEMMA SameStart ==
    ASSUME NEW f, NEW g, NEW p, NEW q, NEW n \in Nat, NEW k \in Nat, NEW l \in Nat, n <= k, n <= l,
           f \in [0..k -> Nat], g \in [0..l -> Nat], Adds(f, p, k), Adds(g, q, l),
           Agree(p, q, n)
    PROVE  f[n] = g[n] /\ f[n] \in Nat
<1>1. \A i \in 0..n : f[i] \in Int /\ g[i] \in Int
  OBVIOUS
<1>2. f[0] = g[0] + 0
  BY DEF Adds
<1>3. ASSUME NEW i \in 1..n PROVE \E e \in Int : f[i] = f[i - 1] + e /\ g[i] = g[i - 1] + e
  <2>1. i \in 1..k /\ i \in 1..l
    OBVIOUS
  <2>2. p[i] = q[i] /\ q[i] \in Nat
    BY DEF Agree
  <2>3. f[i] = f[i - 1] + q[i] /\ g[i] = g[i - 1] + q[i]
    BY <2>1, <2>2 DEF Adds
  <2>4. q[i] \in Int
    BY <2>2
  <2> QED
    BY <2>3, <2>4
<1>4. 0 \in Int /\ n \in 0..k
  OBVIOUS
<1>5. Alike(f, g, n)
  BY <1>1, <1>3, Zenon DEF Alike
<1>6. f[n] = g[n] + 0 /\ f[n] \in Int /\ g[n] \in Int
  BY <1>2, <1>4, <1>5, SameGrowth
<1>7. f[n] \in Nat
  BY <1>4
<1> QED
  BY <1>6, <1>7

(* The sum grows by the number appended.                                   *)
LEMMA TotalAppend ==
    ASSUME NEW q \in Seq(Nat), NEW e \in Nat, NEW p, p = Append(q, e)
    PROVE  Total(p) = Total(q) + e /\ Total(q) \in Nat /\ p \in Seq(Nat)
<1>1. PICK n \in Nat : n = Len(q) /\ \A i \in 1..n : q[i] \in Nat
  OBVIOUS
<1>2. p \in Seq(Nat) /\ Len(p) = n + 1 /\ p[n + 1] = e /\ \A i \in 1..n : p[i] = q[i]
  BY <1>1
<1>3. PICK f \in [0..n -> Nat] : Adds(f, q, n) /\ Total(q) = f[n]
  BY <1>1, TotalAdds
<1>4. PICK g \in [0..(n + 1) -> Nat] : Adds(g, p, n + 1) /\ Total(p) = g[n + 1]
  BY <1>2, TotalAdds
<1>5. f[n] = g[n] /\ f[n] \in Nat
  <2>1. n + 1 \in Nat /\ n <= n /\ n <= n + 1
    OBVIOUS
  <2>2. Agree(q, p, n)
    BY <1>1, <1>2 DEF Agree
  <2> QED
    BY <1>3, <1>4, <2>1, <2>2, SameStart
<1>6. n + 1 \in 1..(n + 1) /\ (n + 1) - 1 = n
  OBVIOUS
<1>7. g[n + 1] = g[(n + 1) - 1] + p[n + 1]
  BY <1>4, <1>6, Zenon DEF Adds
<1> QED
  BY <1>2, <1>3, <1>4, <1>5, <1>6, <1>7

(* The sum without the first number.                                       *)
LEMMA TotalTail ==
    ASSUME NEW q \in Seq(Nat), q # <<>>, NEW p, p = Tail(q)
    PROVE  Total(q) = q[1] + Total(p) /\ q[1] \in Nat /\ Total(p) \in Nat /\ p \in Seq(Nat)
<1>1. PICK n \in Nat : n = Len(p) /\ Len(q) = n + 1
  OBVIOUS
<1>2. p \in Seq(Nat) /\ \A i \in 1..n : p[i] = q[i + 1] /\ p[i] \in Nat
  BY <1>1
<1>3. q[1] \in Nat
  BY <1>1
<1>4. PICK f \in [0..(n + 1) -> Nat] : Adds(f, q, n + 1) /\ Total(q) = f[n + 1]
  BY <1>1, TotalAdds
<1>5. PICK g \in [0..n -> Nat] : Adds(g, p, n) /\ Total(p) = g[n]
  BY <1>1, <1>2, TotalAdds
<1>6. PICK h : h = [i \in 0..n |-> f[i + 1]]
  OBVIOUS
<1>7. \A i \in 0..n : h[i] = f[i + 1] /\ h[i] \in Int /\ g[i] \in Int
  BY <1>6
<1>8. h[0] = g[0] + q[1]
  <2>1. f[1] = f[1 - 1] + q[1] /\ f[0] = 0 /\ g[0] = 0
    BY <1>4, <1>5 DEF Adds
  <2> QED
    BY <1>3, <1>7, <2>1
<1>9. ASSUME NEW i \in 1..n PROVE \E e \in Int : h[i] = h[i - 1] + e /\ g[i] = g[i - 1] + e
  <2>1. i + 1 \in 1..(n + 1) /\ (i + 1) - 1 = i /\ i - 1 \in 0..n /\ (i - 1) + 1 = i /\ i \in 0..n
    OBVIOUS
  <2>2. f[i + 1] = f[(i + 1) - 1] + q[i + 1] /\ g[i] = g[i - 1] + p[i]
    BY <1>4, <1>5, <2>1 DEF Adds
  <2>3. h[i] = f[i + 1] /\ h[i - 1] = f[i]
    BY <1>7, <2>1
  <2>4. p[i] = q[i + 1] /\ p[i] \in Nat
    BY <1>2
  <2>5. h[i] = h[i - 1] + p[i] /\ g[i] = g[i - 1] + p[i]
    BY <2>1, <2>2, <2>3, <2>4
  <2>6. p[i] \in Int
    BY <2>4, \A x \in Nat : x \in Int, Zenon
  <2> QED
    BY <2>5, <2>6
<1>a. Alike(h, g, n)
  BY <1>7, <1>9, Zenon DEF Alike
<1>10. PICK d \in Nat : d = q[1]
  BY <1>3, Zenon
<1>11. h[n] = g[n] + d
  <2>1. d \in Int /\ h[0] = g[0] + d
    BY <1>8, <1>10
  <2> QED
    BY ONLY <1>a, <2>1, n \in Nat, SameGrowth, ZenonT(60)
<1>12. n \in 0..n /\ g[n] \in Nat
  OBVIOUS
<1>13. Total(q) = Total(p) + d
  BY <1>4, <1>5, <1>7, <1>11, <1>12, Zenon
<1>14. Total(p) \in Nat
  BY <1>5, <1>12, Zenon
<1> QED
  BY <1>2, <1>10, <1>13, <1>14

(* The sum after one number has changed.                                   *)
LEMMA TotalUpdate ==
    ASSUME NEW p \in Seq(Nat), NEW q \in Seq(Nat), Len(p) = Len(q), NEW k \in 1..Len(q),
           \A i \in 1..Len(q) : i # k => p[i] = q[i]
    PROVE  Total(p) + q[k] = Total(q) + p[k] /\ Total(p) \in Nat /\ Total(q) \in Nat
<1>1. PICK n \in Nat : n = Len(q)
  OBVIOUS
<1>2. \A i \in 1..n : p[i] \in Nat /\ q[i] \in Nat
  BY <1>1
<1>3. PICK f \in [0..n -> Nat] : Adds(f, p, n) /\ Total(p) = f[n]
  BY <1>1, TotalAdds
<1>4. PICK g \in [0..n -> Nat] : Adds(g, q, n) /\ Total(q) = g[n]
  BY <1>1, TotalAdds
<1>5. k \in 1..n /\ \A i \in 1..n : i # k => p[i] = q[i]
  BY <1>1
<1>6. PICK x \in Nat : f[k - 1] = x /\ g[k - 1] = x
  <2>1. PICK m \in Nat : m = k - 1
    BY <1>5
  <2>2. m <= n /\ \A i \in 1..m : i \in 1..n /\ i # k
    BY <1>5, <2>1
  <2>4. Agree(p, q, m)
    BY <1>2, <1>5, <2>2, Zenon DEF Agree
  <2>3. f[m] = g[m] /\ f[m] \in Nat
    BY <1>3, <1>4, <2>2, <2>4, SameStart
  <2> QED
    BY <2>1, <2>3
<1>7. f[k] = g[k] + (p[k] - q[k])
  <2>1. f[k] = x + p[k] /\ g[k] = x + q[k]
    BY <1>3, <1>4, <1>5, <1>6 DEF Adds
  <2>2. p[k] \in Nat /\ q[k] \in Nat
    BY <1>2, <1>5
  <2>3. PICK a \in Nat, b \in Nat : a = p[k] /\ b = q[k]
    BY <2>2
  <2>4. f[k] = x + a /\ g[k] = x + b
    BY <2>1, <2>3
  <2>5. f[k] = g[k] + (a - b)
    BY ONLY <2>4, x \in Nat, a \in Nat, b \in Nat, SMT
  <2> QED
    BY <2>3, <2>5
<1>8. PICK m \in Nat, d \in Int : k + m = n /\ d = p[k] - q[k]
  <2>1. n - k \in Nat /\ k + (n - k) = n /\ p[k] - q[k] \in Int
    BY <1>2, <1>5
  <2> QED
    BY <2>1
<1>9. PICK u, v : u = [i \in 0..m |-> f[k + i]] /\ v = [i \in 0..m |-> g[k + i]]
  OBVIOUS
<1>10. \A i \in 0..m : k + i \in 0..n /\ u[i] = f[k + i] /\ v[i] = g[k + i]
  BY <1>5, <1>8, <1>9
<1>11. ASSUME NEW i \in 0..m PROVE u[i] \in Int /\ v[i] \in Int
  <2>1. k + i \in 0..n /\ u[i] = f[k + i] /\ v[i] = g[k + i]
    BY <1>10
  <2>2. f[k + i] \in Nat /\ g[k + i] \in Nat
    BY <2>1
  <2> QED
    BY <2>1, <2>2
<1>12. u[0] = v[0] + d
  <2>1. u[0] = f[k + 0] /\ v[0] = g[k + 0] /\ k + 0 = k
    BY <1>10
  <2> QED
    BY <1>7, <1>8, <2>1
<1>13. ASSUME NEW i \in 1..m PROVE \E e \in Int : u[i] = u[i - 1] + e /\ v[i] = v[i - 1] + e
  <2>1. k + i \in 1..n /\ k + i # k /\ (k + i) - 1 = k + (i - 1) /\ i - 1 \in 0..m /\ i \in 0..m
    BY <1>5, <1>8
  <2>2. f[k + i] = f[(k + i) - 1] + p[k + i] /\ g[k + i] = g[(k + i) - 1] + q[k + i]
    BY <1>3, <1>4, <2>1 DEF Adds
  <2>3. p[k + i] = q[k + i] /\ q[k + i] \in Nat
    BY <1>2, <1>5, <2>1, Zenon
  <2>4. u[i] = f[k + i] /\ v[i] = g[k + i] /\ u[i - 1] = f[k + (i - 1)] /\ v[i - 1] = g[k + (i - 1)]
    BY <1>10, <2>1
  <2>5. u[i] = u[i - 1] + q[k + i] /\ v[i] = v[i - 1] + q[k + i]
    BY <2>1, <2>2, <2>3, <2>4
  <2>6. q[k + i] \in Int
    BY <2>3
  <2> QED
    BY <2>5, <2>6, Zenon
<1>a. Alike(u, v, m)
  BY <1>11, <1>13, Zenon DEF Alike
<1>14. u[m] = v[m] + d
  <2>1. m \in Nat /\ d \in Int /\ Alike(u, v, m) /\ u[0] = v[0] + d
    BY <1>12, <1>a
  <2> QED
    BY ONLY <2>1, SameGrowth, SMTT(30)
<1>15. m \in 0..m /\ n \in 0..n
  OBVIOUS
<1>16. u[m] = f[n] /\ v[m] = g[n]
  BY <1>8, <1>10, <1>15
<1>17. f[n] \in Nat /\ g[n] \in Nat /\ p[k] \in Nat /\ q[k] \in Nat
  BY <1>2, <1>5, <1>15
<1>18. f[n] = g[n] + (p[k] - q[k])
  BY <1>8, <1>14, <1>16
<1>20. f[n] + q[k] = g[n] + p[k]
  <2>1. PICK a \in Nat, b \in Nat : a = f[n] /\ b = g[n]
    BY <1>17
  <2>2. PICK x1 \in Nat, y1 \in Nat : x1 = p[k] /\ y1 = q[k]
    BY <1>17
  <2>3. a = b + (x1 - y1)
    BY <1>18, <2>1, <2>2
  <2>4. a + y1 = b + x1
    BY ONLY <2>3, a \in Nat, b \in Nat, x1 \in Nat, y1 \in Nat, SMT
  <2> QED
    BY <2>1, <2>2, <2>4
<1> QED
  BY <1>3, <1>4, <1>17, <1>20, Zenon

(* Every stream has one place in the order of the streams.                 *)
LEMMA StreamPlaces ==
    /\ \E n \in Nat : StreamSeq \in [1..n -> Streams]
    /\ \A s \in Streams : \E k \in DOMAIN StreamSeq : StreamSeq[k] = s
    /\ \A i, j \in DOMAIN StreamSeq : StreamSeq[i] = StreamSeq[j] => i = j
<1>1. IsFiniteSet(Streams)
  BY ChannelDataAssumption
<1>2. PICK n \in Nat : n = Cardinality(Streams)
  BY <1>1, FS_CardinalityType
<1>3. \E f \in [1..n -> Streams] : IsInjective(f)
  BY <1>1, <1>2, FS_CardinalityType, Zenon DEF ExistsBijection, Bijection, Injection
<1>4. StreamSeq \in [1..n -> Streams] /\ IsInjective(StreamSeq)
  BY <1>2, <1>3, Zenon DEF StreamSeq, SetToSeq
<1>5. StreamSeq \in Injection(1..n, Streams)
  BY <1>4, Zenon DEF Injection
<1>6. Cardinality(1..n) = n
  BY FS_Interval
<1>7. StreamSeq \in Surjection(1..n, Streams)
  BY <1>1, <1>2, <1>5, <1>6, FS_Injection
<1> QED
  BY <1>4, <1>7, Zenon DEF Surjection, IsInjective

-----------------------------------------------------------------------------
(* The sums of Outstanding: what the Writes hold in state x of w, and the  *)
(* bytes of the packets in q.                                              *)
HeldIn(x, s) == IF x[s].pc = "send" THEN x[s].space ELSE 0
HeldSeq(x) == [i \in DOMAIN StreamSeq |-> HeldIn(x, StreamSeq[i])]
ByteSeq(q) == [i \in DOMAIN q |-> Len(q[i].bytes)]

(* What a Write holds is a number.                                         *)
LEMMA HeldType ==
    ASSUME NEW x \in [Streams -> Writing]
    PROVE  (\A s \in Streams : HeldIn(x, s) \in Nat) /\ HeldSeq(x) \in Seq(Nat)
<1>1. PICK n \in Nat : StreamSeq \in [1..n -> Streams]
  BY StreamPlaces
<1>2. ASSUME NEW s \in Streams PROVE HeldIn(x, s) \in Nat
  <2>1. x[s] \in Writing
    OBVIOUS
  <2>2. x[s].space \in Nat
    BY <2>1 DEF Writing
  <2> QED
    BY <2>2 DEF HeldIn
<1>3. DOMAIN StreamSeq = 1..n /\ \A i \in 1..n : HeldIn(x, StreamSeq[i]) \in Nat
  BY <1>1, <1>2
<1>4. HeldSeq(x) \in [1..n -> Nat]
  BY <1>3, Zenon DEF HeldSeq
<1> QED
  BY <1>2, <1>4

(* A step of one Write changes one of the numbers held.                    *)
LEMMA HeldStep ==
    ASSUME NEW x \in [Streams -> Writing], NEW y \in [Streams -> Writing], NEW s \in Streams,
           \A q \in Streams : q # s => y[q] = x[q]
    PROVE  /\ Total(HeldSeq(y)) + HeldIn(x, s) = Total(HeldSeq(x)) + HeldIn(y, s)
           /\ Total(HeldSeq(x)) \in Nat /\ Total(HeldSeq(y)) \in Nat
           /\ HeldIn(x, s) \in Nat /\ HeldIn(y, s) \in Nat
<1>1. PICK n \in Nat : StreamSeq \in [1..n -> Streams]
  BY StreamPlaces
<1>2. PICK k \in 1..n : StreamSeq[k] = s
  <2>1. PICK k \in DOMAIN StreamSeq : StreamSeq[k] = s
    BY StreamPlaces
  <2> QED
    BY <1>1, <2>1
<1>3. PICK a, b : a = HeldSeq(x) /\ b = HeldSeq(y)
  OBVIOUS
<1>4. a \in Seq(Nat) /\ b \in Seq(Nat)
  BY <1>3, HeldType
<1>5. DOMAIN a = 1..n /\ DOMAIN b = 1..n /\ \A i \in 1..n : a[i] = HeldIn(x, StreamSeq[i]) /\ b[i] = HeldIn(y, StreamSeq[i])
  BY <1>1, <1>3 DEF HeldSeq
<1>6. ASSUME NEW i \in 1..n, i # k PROVE b[i] = a[i]
  <2>1. PICK q \in Streams : q = StreamSeq[i] /\ q # s
    BY <1>1, <1>2, <1>6, StreamPlaces
  <2>2. y[q] = x[q]
    BY <2>1
  <2> QED
    BY <1>5, <2>1, <2>2 DEF HeldIn
<1>7. Len(a) = n /\ Len(b) = n
  BY <1>4, <1>5
<1>8. Total(b) + a[k] = Total(a) + b[k] /\ Total(b) \in Nat /\ Total(a) \in Nat
  BY <1>4, <1>6, <1>7, TotalUpdate
<1>9. a[k] = HeldIn(x, s) /\ b[k] = HeldIn(y, s)
  BY <1>2, <1>5
<1> QED
  BY <1>3, <1>8, <1>9, HeldType

(* The bytes of one more packet.                                           *)
LEMMA BytesAppend ==
    ASSUME NEW q \in Seq(Packet), NEW p \in Packet, NEW t, t = Append(q, p)
    PROVE  /\ Total(ByteSeq(t)) = Total(ByteSeq(q)) + Len(p.bytes)
           /\ Total(ByteSeq(q)) \in Nat /\ Len(p.bytes) \in Nat
<1>1. \A x \in Packet : Len(x.bytes) \in Nat
  BY DEF Packet
<1>2. PICK n \in Nat : n = Len(q) /\ DOMAIN q = 1..n /\ \A i \in 1..n : q[i] \in Packet
  OBVIOUS
<1>3. DOMAIN t = 1..(n + 1) /\ t[n + 1] = p /\ \A i \in 1..n : t[i] = q[i]
  BY <1>2
<1>4. PICK a, b, e : a = ByteSeq(q) /\ b = ByteSeq(t) /\ e = Len(p.bytes)
  OBVIOUS
<1>5. DOMAIN a = 1..n /\ \A i \in 1..n : a[i] = Len(q[i].bytes) /\ a[i] \in Nat
  BY <1>1, <1>2, <1>4 DEF ByteSeq
<1>6. a = [i \in 1..n |-> a[i]]
  BY <1>4, <1>5 DEF ByteSeq
<1>7. a \in Seq(Nat) /\ Len(a) = n
  BY <1>5, <1>6
<1>8. b = [i \in 1..(n + 1) |-> IF i = n + 1 THEN e ELSE a[i]]
  <2>1. b = [i \in 1..(n + 1) |-> Len(t[i].bytes)]
    BY <1>3, <1>4 DEF ByteSeq
  <2>2. ASSUME NEW i \in 1..(n + 1) PROVE Len(t[i].bytes) = IF i = n + 1 THEN e ELSE a[i]
    <3>1. CASE i = n + 1
      BY <3>1, <1>3, <1>4
    <3>2. CASE i # n + 1
      <4>1. i \in 1..n
        BY <3>2
      <4> QED
        BY <3>2, <4>1, <1>3, <1>5
    <3> QED
      BY <3>1, <3>2
  <2> QED
    BY <2>1, <2>2, Zenon
<1>9. e \in Nat
  BY <1>1, <1>4
<1>10. b = Append(a, e)
  BY <1>7, <1>8, <1>9
<1>11. Total(b) = Total(a) + e /\ Total(a) \in Nat
  BY <1>7, <1>9, <1>10, TotalAppend
<1> QED
  BY <1>4, <1>9, <1>11

(* The bytes without the first packet.                                     *)
LEMMA BytesTail ==
    ASSUME NEW q \in Seq(Packet), q # <<>>, NEW t, t = Tail(q), NEW p, p = Head(q)
    PROVE  /\ Total(ByteSeq(q)) = Total(ByteSeq(t)) + Len(p.bytes)
           /\ Total(ByteSeq(t)) \in Nat /\ Len(p.bytes) \in Nat
<1>1. \A x \in Packet : Len(x.bytes) \in Nat
  BY DEF Packet
<1>2. PICK n \in Nat : Len(q) = n + 1 /\ DOMAIN q = 1..(n + 1) /\ \A i \in 1..(n + 1) : q[i] \in Packet
  <2>1. Len(q) \in Nat /\ Len(q) # 0
    OBVIOUS
  <2>2. Len(q) - 1 \in Nat /\ Len(q) = (Len(q) - 1) + 1
    BY <2>1
  <2>3. DOMAIN q = 1..Len(q) /\ \A i \in 1..Len(q) : q[i] \in Packet
    OBVIOUS
  <2> QED
    BY <2>2, <2>3
<1>3. DOMAIN t = 1..n /\ q[1] = p /\ \A i \in 1..n : t[i] = q[i + 1]
  BY <1>2
<1>4. PICK a, b : a = ByteSeq(q) /\ b = ByteSeq(t)
  OBVIOUS
<1>5. DOMAIN a = 1..(n + 1) /\ \A i \in 1..(n + 1) : a[i] = Len(q[i].bytes) /\ a[i] \in Nat
  BY <1>1, <1>2, <1>4 DEF ByteSeq
<1>6. a = [i \in 1..(n + 1) |-> a[i]]
  BY <1>4, <1>5 DEF ByteSeq
<1>m. PICK m \in Nat : m = n + 1
  OBVIOUS
<1>f. a \in [1..m -> Nat]
  BY <1>5, <1>6, <1>m
<1>7. a \in Seq(Nat) /\ Len(a) = m
  BY <1>f
<1>n. a # <<>>
  BY <1>7, <1>m
<1>8. b = [i \in 1..n |-> a[i + 1]]
  <2>1. b = [i \in 1..n |-> Len(t[i].bytes)]
    BY <1>3, <1>4 DEF ByteSeq
  <2>2. ASSUME NEW i \in 1..n PROVE Len(t[i].bytes) = a[i + 1]
    <3>1. i + 1 \in 1..(n + 1) /\ t[i] = q[i + 1]
      BY <1>3
    <3> QED
      BY <3>1, <1>5
  <2> QED
    BY <2>1, <2>2, Zenon
<1>9. b = Tail(a)
  <2>1. Tail(a) \in Seq(Nat) /\ Len(Tail(a)) = m - 1 /\ \A i \in 1..Len(Tail(a)) : Tail(a)[i] = a[i + 1]
    BY <1>7, <1>n, HeadTailProperties
  <2>2. m - 1 = n
    BY <1>m
  <2>3. \A i \in 1..n : b[i] = a[i + 1] /\ b[i] \in Nat
    BY <1>5, <1>8
  <2>4. b \in [1..n -> Nat]
    BY <1>8, <2>3
  <2>5. b \in Seq(Nat) /\ Len(b) = n
    BY <2>4
  <2> QED
    BY <2>1, <2>2, <2>3, <2>5, SeqEqual
<1>10. Total(a) = a[1] + Total(b) /\ a[1] \in Nat /\ Total(b) \in Nat
  BY <1>7, <1>n, <1>9, TotalTail
<1>11. a[1] = Len(p.bytes)
  BY <1>3, <1>5
<1> QED
  BY <1>4, <1>10, <1>11

(* The packets that carry no data.                                         *)
Markers ==
    /\ remoteWin.closed => sentClose
    /\ \A i \in DOMAIN link : link[i].t # "data" => link[i].bytes = <<>>

Balance == Markers /\ WindowKept

(* Facts of arithmetic.                                                    *)
LEMMA Numbers ==
    /\ \A a, b, c, d \in Nat : a + b + c + d \in Nat
    /\ \A a, b, c, d \in Nat : a + b + c <= d => a <= d
    /\ \A a, b, c, d \in Nat : c <= d /\ a + d = c + b => a <= b
    /\ \A a, b, c, d \in Nat : c = d /\ a + d = c + b => a = b
    /\ \A a, b, c, d \in Nat : c <= d /\ a <= c /\ b >= d => a <= b
  OBVIOUS

(* Adjustments are numbers.                                                *)
LEMMA NumberSeq ==
    ASSUME NEW n \in Nat, NEW b \in Seq(0..n) PROVE b \in Seq(Nat)
<1>1. Len(b) \in Nat /\ \A i \in 1..Len(b) : b[i] \in 0..n
  OBVIOUS
<1>2. b \in [1..Len(b) -> Nat]
  BY <1>1
<1> QED
  BY <1>1, <1>2

(* The numbers whose sum is Outstanding.                                   *)
LEMMA SumTypes ==
    ASSUME NEW x \in [Streams -> Writing], NEW q \in Seq(Packet), NEW b \in Seq(0..WindowSize)
    PROVE  Total(HeldSeq(x)) \in Nat /\ Total(ByteSeq(q)) \in Nat /\ Total(b) \in Nat /\ b \in Seq(Nat)
<1>1. \A a \in Seq(Nat) : Total(a) \in Nat
  BY TotalAppend
<1>2. b \in Seq(Nat)
  BY ChannelDataAssumption, NumberSeq
<1>3. Total(ByteSeq(q)) \in Nat
  <2>1. Msg("eof") \in Packet
    BY PacketTypes
  <2> QED
    BY <2>1, BytesAppend
<1> QED
  BY <1>1, <1>2, <1>3, HeldType

(* Outstanding in terms of these sums, before and after a step.            *)
LEMMA OutstandingIs ==
    ASSUME Inv, Inv'
    PROVE  /\ Outstanding = remoteWin.win + Total(HeldSeq(w)) + Total(ByteSeq(link)) + Total(back)
           /\ Outstanding' = remoteWin'.win + Total(HeldSeq(w')) + Total(ByteSeq(link')) + Total(back')
           /\ remoteWin.win \in Nat /\ Total(HeldSeq(w)) \in Nat /\ Total(ByteSeq(link)) \in Nat /\ Total(back) \in Nat
           /\ remoteWin'.win \in Nat /\ Total(HeldSeq(w')) \in Nat /\ Total(ByteSeq(link')) \in Nat /\ Total(back') \in Nat
           /\ myWindow \in Nat /\ myWindow' \in Nat
<1>1. Outstanding = remoteWin.win + Total(HeldSeq(w)) + Total(ByteSeq(link)) + Total(back)
  BY Zenon DEF Outstanding, HeldSeq, ByteSeq, HeldIn, Held
<1>2. Outstanding' = remoteWin'.win + Total(HeldSeq(w')) + Total(ByteSeq(link')) + Total(back')
  BY Zenon DEF Outstanding, HeldSeq, ByteSeq, HeldIn, Held
<1>3. /\ w \in [Streams -> Writing] /\ link \in Seq(Packet) /\ back \in Seq(0..WindowSize) /\ myWindow \in Nat
      /\ w' \in [Streams -> Writing] /\ link' \in Seq(Packet) /\ back' \in Seq(0..WindowSize) /\ myWindow' \in Nat
  BY DEF Inv, TypeOK
<1>4. remoteWin.win \in Nat /\ remoteWin'.win \in Nat
  BY DEF Inv, TypeOK, Window
<1> QED
  BY <1>1, <1>2, <1>3, <1>4, SumTypes

(* A step keeps WindowKept if the sum and myWindow move together, or the   *)
(* sum falls on a channel that is being closed.                            *)
LEMMA KeptStep ==
    ASSUME Inv, Inv', WindowKept, extra' = 0 => extra = 0,
           extra = 0 => failed' # "too much", open' => open, sentClose => sentClose',
           extra = 0 => \/ Outstanding' = Outstanding /\ myWindow' = myWindow
                        \/ Outstanding' + myWindow = Outstanding + myWindow'
                        \/ Outstanding' <= Outstanding /\ myWindow' >= myWindow /\ (sentClose' \/ ~open')
    PROVE  WindowKept'
<1> SUFFICES ASSUME extra' = 0 PROVE WindowKept'
  BY DEF WindowKept
<1>1. extra = 0
  OBVIOUS
<1>2. Outstanding \in Nat /\ Outstanding' \in Nat /\ myWindow \in Nat /\ myWindow' \in Nat
  <2>1. PICK a \in Nat, b \in Nat, c \in Nat, d \in Nat : Outstanding = a + b + c + d
    BY OutstandingIs, Zenon
  <2>2. PICK a1 \in Nat, b1 \in Nat, c1 \in Nat, d1 \in Nat : Outstanding' = a1 + b1 + c1 + d1
    BY OutstandingIs, Zenon
  <2>3. myWindow \in Nat /\ myWindow' \in Nat
    BY OutstandingIs, Zenon
  <2>4. a + b + c + d \in Nat /\ a1 + b1 + c1 + d1 \in Nat
    BY Numbers, Zenon
  <2> QED
    BY <2>1, <2>2, <2>3, <2>4, Zenon
<1>3. Outstanding <= myWindow /\ (open /\ ~sentClose => Outstanding = myWindow)
  BY <1>1 DEF WindowKept
<1>4. myWindow' <= WindowSize
  <2>1. myWindow' + Pending(0)' + Pending(1)' <= WindowSize
    BY DEF Inv, RoomKept
  <2>2. Pending(0)' \in Nat /\ Pending(1)' \in Nat
    <3>1. ASSUME NEW s \in Readable PROVE Len(buf'[s].bytes) \in Nat
      <4>1. buf'[s] \in Buffer
        BY DEF Inv, TypeOK
      <4>2. PICK b \in Seq(Nat) : b = buf'[s].bytes
        BY <4>1 DEF Buffer
      <4> QED
        BY <4>2, LenProperties, Zenon
    <3> QED
      BY <3>1 DEF Pending
  <2>3. WindowSize \in Nat
    BY ReaderFacts
  <2> QED
    BY <1>2, <2>1, <2>2, <2>3, Numbers, Zenon
<1>5. Outstanding' <= myWindow' /\ (open' /\ ~sentClose' => Outstanding' = myWindow')
  <2>4. CASE Outstanding' = Outstanding /\ myWindow' = myWindow
    BY <1>3, <2>4, Zenon
  <2>5. CASE Outstanding' + myWindow = Outstanding + myWindow'
    BY <1>2, <1>3, <2>5, Numbers, Zenon
  <2>6. CASE Outstanding' <= Outstanding /\ myWindow' >= myWindow /\ (sentClose' \/ ~open')
    BY <1>2, <1>3, <2>6, Numbers, Zenon
  <2> QED
    BY <1>1, <2>4, <2>5, <2>6, Zenon
<1> QED
  BY <1>1, <1>4, <1>5 DEF WindowKept

(* A packet is appended that is data or empty.                             *)
LEMMA MarkersAppend ==
    ASSUME Inv, Markers, NEW p \in Packet, p.t # "data" => p.bytes = <<>>, link' = Append(link, p)
    PROVE  \A i \in DOMAIN link' : link'[i].t # "data" => link'[i].bytes = <<>>
<1>1. PICK n \in Nat : n = Len(link) /\ DOMAIN link = 1..n
  <2>1. link \in Seq(Packet)
    BY DEF Inv, TypeOK
  <2> QED
    BY <2>1, LenProperties
<1>2. link \in Seq(Packet)
  BY DEF Inv, TypeOK
<1>3. DOMAIN link' = 1..(n + 1) /\ \A i \in 1..(n + 1) : link'[i] = IF i = n + 1 THEN p ELSE link[i]
  BY <1>1, <1>2
<1>4. ASSUME NEW i \in 1..(n + 1) PROVE i = n + 1 \/ i \in 1..n
  OBVIOUS
<1> QED
  BY <1>1, <1>3, <1>4 DEF Markers

(* What is taken from the link leaves the others as they are.              *)
LEMMA MarkersTail ==
    ASSUME Inv, Markers, link # <<>>, link' = Tail(link)
    PROVE  \A i \in DOMAIN link' : link'[i].t # "data" => link'[i].bytes = <<>>
<1>1. link \in Seq(Packet)
  BY DEF Inv, TypeOK
<1>2. PICK n \in Nat : n = Len(link') /\ DOMAIN link' = 1..n /\ DOMAIN link = 1..(n + 1) /\ \A i \in 1..n : link'[i] = link[i + 1]
  <2>1. Tail(link) \in Seq(Packet) /\ Len(Tail(link)) = Len(link) - 1
        /\ \A i \in 1..Len(Tail(link)) : Tail(link)[i] = link[i + 1]
    BY <1>1, HeadTailProperties
  <2>2. DOMAIN link = 1..Len(link) /\ Len(link) \in Nat
    BY <1>1, LenProperties
  <2>3. DOMAIN Tail(link) = 1..Len(Tail(link)) /\ Len(Tail(link)) \in Nat
    BY <2>1, LenProperties
  <2>4. Len(link) = Len(Tail(link)) + 1
    BY <2>1, <2>2, <2>3
  <2> QED
    BY <2>1, <2>2, <2>3, <2>4
<1>3. ASSUME NEW i \in 1..n PROVE i + 1 \in 1..(n + 1)
  OBVIOUS
<1> QED
  BY <1>2, <1>3 DEF Markers

(* Every step keeps the markers empty.                                     *)
LEMMA MarkerSteps == ASSUME Inv, Markers, [Next]_vars PROVE Markers'
<1> DEFINE Empty == \A i \in DOMAIN link : link[i].t # "data" => link[i].bytes = <<>>
           Told == remoteWin.closed => sentClose
<1>1. Empty'
  <2>1. CASE link' = link
    BY <2>1 DEF Markers
  <2>2. CASE link # <<>> /\ link' = Tail(link)
    BY <2>2, MarkersTail
  <2>3. CASE \E p \in Packet : (p.t # "data" => p.bytes = <<>>) /\ link' = Append(link, p)
    BY <2>3, MarkersAppend
  <2>4. \A t \in {"eof", "close"} : Msg(t) \in Packet /\ Msg(t).bytes = <<>>
    BY PacketTypes DEF Msg
  <2>5. ASSUME NEW s \in Streams, Writer(s) PROVE Empty'
    <3>1. s \in Nat /\ w[s].n \in Nat /\ w[s].space \in Nat
      BY WriterFacts
    <3>2. Data(s, w[s].n, w[s].space) \in Packet /\ Data(s, w[s].n, w[s].space).t = "data"
      BY <3>1, PacketTypes DEF Data
    <3>3. link' = link \/ link' = Append(link, Data(s, w[s].n, w[s].space))
      BY <2>5, Zenon DEF Writer, Reserve, SendData, WriteAfterEOF
    <3> QED
      BY <2>1, <2>3, <3>2, <3>3
  <2>6. ASSUME NEW s \in Readable, Reader(s) PROVE Empty'
    <3>1. link' = link
      BY <2>6, Zenon DEF Reader, ReadExtended, ReadEOF
    <3> QED
      BY <2>1, <3>1
  <2>7. CASE Muxes
    <3>1. link' = link \/ link' = Append(link, Msg("close")) \/ (link # <<>> /\ link' = Tail(link))
      BY <2>7, Zenon DEF Muxes, HandleAdjust, HandleClose, HandleData, HandleEnd
    <3> QED
      BY <2>1, <2>2, <2>3, <2>4, <3>1
  <2>8. CASE CloseWrite \/ Close \/ CloseReader
    <3>1. link' = link \/ link' = Append(link, Msg("close")) \/ link' = Append(link, Msg("eof"))
      BY <2>8, Zenon DEF CloseWrite, Close, CloseReader
    <3> QED
      BY <2>1, <2>3, <2>4, <3>1
  <2>9. CASE \E n \in Adjustments : HandleOther(n)
    <3>1. link' = link
      BY <2>9, Zenon DEF HandleOther
    <3> QED
      BY <2>1, <3>1
  <2>10. CASE UNCHANGED vars
    BY <2>1, <2>10 DEF vars
  <2> HIDE DEF Empty
  <2> QED
    BY <2>5, <2>6, <2>7, <2>8, <2>9, <2>10 DEF Next
<1>2. Told'
  <2>0. Told
    BY DEF Markers
  <2>1. CASE sentClose'
    BY <2>1
  <2>2. CASE remoteWin'.closed = remoteWin.closed /\ (sentClose => sentClose')
    BY <2>0, <2>2, Zenon
  <2>3. ASSUME NEW k, remoteWin' = [remoteWin EXCEPT !.win = k] PROVE remoteWin'.closed = remoteWin.closed
    BY <2>3 DEF Inv, TypeOK, Window
  <2>4. ASSUME NEW s \in Streams, Writer(s) PROVE Told'
    <3>1. CASE Reserve(s)
      <4>1. \E k : remoteWin' = [remoteWin EXCEPT !.win = k]
        BY <3>1, Zenon DEF Reserve
      <4>2. sentClose' = sentClose
        BY <3>1 DEF Reserve
      <4> QED
        BY <2>2, <2>3, <4>1, <4>2
    <3>2. CASE SendData(s) \/ WriteAfterEOF(s)
      BY <2>2, <3>2 DEF SendData, WriteAfterEOF
    <3> QED
      BY <2>4, <3>1, <3>2 DEF Writer
  <2>5. ASSUME NEW n, AdjustBy(n) PROVE Told'
    <3>1. CASE n # 0 /\ Overflows(n)
      <4>1. sentClose'
        BY <2>5, <3>1 DEF AdjustBy
      <4> QED
        BY <2>1, <4>1
    <3>2. CASE ~(n # 0 /\ Overflows(n))
      <4>1. (\E k : remoteWin' = [remoteWin EXCEPT !.win = k]) /\ sentClose' = sentClose
        BY <2>5, <3>2, Zenon DEF AdjustBy
      <4> QED
        BY <2>2, <2>3, <4>1
    <3> QED
      BY <3>1, <3>2
  <2>6. CASE Muxes
    <3>1. CASE HandleAdjust
      BY <2>5, <3>1 DEF HandleAdjust
    <3>2. CASE HandleClose
      BY <2>1, <3>2 DEF HandleClose
    <3>3. CASE HandleData \/ HandleEnd
      BY <2>2, <3>3 DEF HandleData, HandleEnd
    <3> QED
      BY <2>6, <3>1, <3>2, <3>3 DEF Muxes
  <2>7. ASSUME NEW s \in Readable, Reader(s) PROVE Told'
    BY <2>2, <2>7 DEF Reader, ReadExtended, ReadEOF
  <2>8. CASE CloseWrite \/ Close \/ CloseReader
    BY <2>1, <2>2, <2>8 DEF CloseWrite, Close, CloseReader
  <2>9. CASE \E n \in Adjustments : HandleOther(n)
    BY <2>5, <2>9, Zenon DEF HandleOther
  <2>10. CASE UNCHANGED vars
    BY <2>2, <2>10 DEF vars
  <2> HIDE DEF Told
  <2> QED
    BY <2>4, <2>6, <2>7, <2>8, <2>9, <2>10 DEF Next
<1> QED
  BY <1>1, <1>2, Zenon DEF Markers

(* By how much a step changes each sum, and myWindow.                      *)
Moved(dw, dh, dl, db, e) ==
    /\ remoteWin'.win = remoteWin.win + dw /\ Total(HeldSeq(w')) = Total(HeldSeq(w)) + dh
    /\ Total(ByteSeq(link')) = Total(ByteSeq(link)) + dl /\ Total(back') = Total(back) + db
    /\ myWindow' = myWindow + e

(* What a step leaves alone moves by 0.                                    *)
LEMMA Still ==
    ASSUME Inv, Inv'
    PROVE  /\ remoteWin' = remoteWin => remoteWin'.win = remoteWin.win + 0
           /\ w' = w => Total(HeldSeq(w')) = Total(HeldSeq(w)) + 0
           /\ link' = link => Total(ByteSeq(link')) = Total(ByteSeq(link)) + 0
           /\ back' = back => Total(back') = Total(back) + 0
           /\ myWindow' = myWindow => myWindow' = myWindow + 0
<1>1. \A a \in Nat : a = a + 0
  OBVIOUS
<1> QED
  BY <1>1, OutstandingIs, Zenon

(* A step that moves bytes between the window, the Writes, the link and    *)
(* the adjustments: the two ends still agree if myWindow moves by as much  *)
(* as they do, or if bytes are only dropped on a channel being closed.     *)
LEMMA Moves ==
    ASSUME Inv, Inv', WindowKept, extra' = 0 => extra = 0, extra = 0 => failed' # "too much",
           open' => open, sentClose => sentClose',
           NEW dw \in Int, NEW dh \in Int, NEW dl \in Int, NEW db \in Int, NEW e \in Int, Moved(dw, dh, dl, db, e),
           dw + dh + dl + db = e \/ (dw + dh + dl + db <= 0 /\ e >= 0 /\ (sentClose' \/ ~open'))
    PROVE  WindowKept'
<1>1. PICK a \in Nat, b \in Nat, c \in Nat, d \in Nat :
        a = remoteWin.win /\ b = Total(HeldSeq(w)) /\ c = Total(ByteSeq(link)) /\ d = Total(back)
  BY OutstandingIs, Zenon
<1>2. PICK o, o1 : o = Outstanding /\ o1 = Outstanding'
  OBVIOUS
<1>3. o = a + b + c + d
  BY <1>1, <1>2, OutstandingIs, Zenon
<1>4. o1 = (a + dw) + (b + dh) + (c + dl) + (d + db)
  BY <1>1, <1>2, OutstandingIs, Zenon DEF Moved
<1>5. PICK m \in Nat, m1 \in Nat : m = myWindow /\ m1 = myWindow' /\ m1 = m + e
  BY OutstandingIs, Zenon DEF Moved
<1>6. o1 = o + (dw + dh + dl + db) /\ o \in Int
  BY ONLY <1>3, <1>4, a \in Nat, b \in Nat, c \in Nat, d \in Nat, dw \in Int, dh \in Int, dl \in Int, db \in Int, SMT
<1>7. PICK x \in Int : x = dw + dh + dl + db
  <2>1. dw + dh + dl + db \in Int
    BY ONLY dw \in Int, dh \in Int, dl \in Int, db \in Int, SMT
  <2> QED
    BY <2>1, Zenon
<1>8. x = e => o1 + m = o + m1
  BY ONLY <1>5, <1>6, <1>7, x \in Int, e \in Int, m \in Nat, SMT
<1>9. x <= 0 /\ e >= 0 => o1 <= o /\ m1 >= m
  BY ONLY <1>5, <1>6, <1>7, x \in Int, e \in Int, m \in Nat, SMT
<1>10. \/ Outstanding' + myWindow = Outstanding + myWindow'
       \/ Outstanding' <= Outstanding /\ myWindow' >= myWindow /\ (sentClose' \/ ~open')
  BY <1>2, <1>5, <1>7, <1>8, <1>9, Zenon
<1> QED
  BY <1>10, KeptStep, Zenon

(* The Write of s and the sum of what the Writes hold.                     *)
LEMMA HeldChange ==
    ASSUME Inv, Inv', NEW s \in Streams, \A q \in Streams : q # s => w'[q] = w[q],
           NEW a \in Nat, NEW b \in Nat, a = HeldIn(w, s), b = HeldIn(w', s)
    PROVE  Total(HeldSeq(w')) = Total(HeldSeq(w)) + (b - a)
<1>1. w \in [Streams -> Writing] /\ w' \in [Streams -> Writing]
  BY DEF Inv, TypeOK
<1>2. PICK x \in Nat, y \in Nat : x = Total(HeldSeq(w)) /\ y = Total(HeldSeq(w')) /\ y + a = x + b
  BY <1>1, HeldStep, Zenon
<1>3. y = x + (b - a)
  BY ONLY <1>2, x \in Nat, y \in Nat, a \in Nat, b \in Nat, SMT
<1> QED
  BY <1>2, <1>3, Zenon

(* window.reserve moves bytes from the window to the Write; on a closed    *)
(* window they are dropped.                                                *)
LEMMA ReserveKept == ASSUME Inv, Inv', Balance, NEW s \in Streams, Reserve(s) PROVE WindowKept'
<1>1. PICK got \in Nat :
             /\ got <= remoteWin.win /\ w[s].n + got <= Length[s]
             /\ ~remoteWin.closed => got # 0
             /\ remoteWin' = [remoteWin EXCEPT !.win = remoteWin.win - got]
             /\ w' = [w EXCEPT ![s].space = got, ![s].pc = IF remoteWin.closed THEN "eof" ELSE "send"]
             /\ reserved' = reserved + got
  BY ReserveEffect
<1>2. UNCHANGED <<sentEOF, sentClose, link, back, myWindow, buf, r, open, failed, extra, granted>> /\ w[s].pc = "top"
  BY DEF Reserve
<1>3. PICK p \in {"top", "send", "eof"} : p = IF remoteWin.closed THEN "eof" ELSE "send"
  BY Zenon
<1>4. Wrote(s, p, w[s].n, got)
  BY <1>1, <1>3, WritingUpdate DEF Inv
<1>5. HeldIn(w, s) = 0 /\ HeldIn(w', s) = IF remoteWin.closed THEN 0 ELSE got
  BY <1>2, <1>3, <1>4 DEF Wrote, HeldIn
<1>6. PICK b \in Nat : b = HeldIn(w', s) /\ (b = got \/ (remoteWin.closed /\ b = 0))
  BY <1>5, 0 \in Nat, Zenon
<1>7. Total(HeldSeq(w')) = Total(HeldSeq(w)) + (b - 0)
  BY <1>4, <1>5, <1>6, HeldChange DEF Wrote
<1>8. PICK k \in Nat : k = remoteWin.win /\ remoteWin.win - got = k - got /\ k - got \in Nat
  BY <1>1, OutstandingIs
<1>9. remoteWin'.win = remoteWin.win + (0 - got)
  <2>1. remoteWin'.win = k - got
    BY <1>1, <1>8, WindowUpdate DEF Inv
  <2> QED
    BY <1>8, <2>1
<1>11. Moved(0 - got, b - 0, 0, 0, 0)
  <2>1. UNCHANGED <<link, back, myWindow>>
    BY <1>2
  <2> QED
    BY <1>7, <1>9, <2>1, Still, Zenon DEF Moved
<1>12. 0 - got \in Int /\ b - 0 \in Int /\ 0 \in Int
  OBVIOUS
<1>13. (0 - got) + (b - 0) + 0 + 0 = 0 \/ ((0 - got) + (b - 0) + 0 + 0 <= 0 /\ 0 >= 0 /\ (sentClose' \/ ~open'))
  <2>1. CASE b = got
    BY ONLY <2>1, b \in Nat, got \in Nat, SMT
  <2>2. CASE remoteWin.closed /\ b = 0
    <3>1. sentClose'
      BY <1>2, <2>2 DEF Balance, Markers
    <3>2. (0 - got) + (b - 0) + 0 + 0 <= 0 /\ 0 >= 0
      BY ONLY <2>2, b \in Nat, got \in Nat, SMT
    <3> QED
      BY <3>1, <3>2, Zenon
  <2> QED
    BY <1>6, <2>1, <2>2
<1>14. WindowKept /\ (extra = 0 => failed # "too much")
  BY DEF Balance, WindowKept
<1> QED
  BY <1>2, <1>11, <1>12, <1>13, <1>14, Moves

(* A packet takes what the Write held to the link, or the Write fails on a *)
(* channel that is closed.                                                 *)
LEMMA SendDataKept == ASSUME Inv, Inv', Balance, NEW s \in Streams, SendData(s) PROVE WindowKept'
<1>1. w[s].pc = "send"
      /\ UNCHANGED <<remoteWin, sentEOF, sentClose, back, myWindow, buf, r, open, failed, extra, granted, reserved>>
  BY DEF SendData
<1>2. s \in Nat /\ w[s].n \in Nat /\ Length[s] \in Nat /\ w[s].n + w[s].space <= Length[s]
  BY <1>1, WriterFacts
<1>3. PICK k \in Nat : k = w[s].space /\ HeldIn(w, s) = k
  BY <1>1, WriterFacts DEF HeldIn
<1>4. WindowKept /\ (extra = 0 => failed # "too much")
  BY DEF Balance, WindowKept
<1>5. 0 - k \in Int /\ k \in Int /\ 0 \in Int /\ (0 - k) + k = 0
  OBVIOUS
<1>6. CASE sentClose
  <2>1. w' = [w EXCEPT ![s].pc = "eof"] /\ link' = link
    BY <1>6 DEF SendData
  <2>2. Wrote(s, "eof", w[s].n, w[s].space)
    BY <2>1, <1>2, WritingUpdate DEF Inv
  <2>3. HeldIn(w', s) = 0
    BY <2>2 DEF Wrote, HeldIn
  <2>4. Total(HeldSeq(w')) = Total(HeldSeq(w)) + (0 - k)
    BY <1>3, <2>2, <2>3, HeldChange DEF Wrote
  <2>5. Moved(0, 0 - k, 0, 0, 0)
    BY <1>1, <2>1, <2>4, Still, Zenon DEF Moved
  <2>6. 0 + (0 - k) + 0 + 0 <= 0 /\ 0 >= 0
    OBVIOUS
  <2> QED
    BY <1>1, <1>4, <1>5, <1>6, <2>5, <2>6, Moves
<1>7. CASE ~sentClose
  <2> DEFINE n == w[s].n + w[s].space
             p == Data(s, w[s].n, w[s].space)
  <2>1. w' = [w EXCEPT ![s].pc = "top", ![s].n = n] /\ link' = Append(link, p)
    BY <1>7, Zenon DEF SendData
  <2>2. n \in Nat
    BY <1>2, <1>3
  <2> HIDE DEF n
  <2>3. Wrote(s, "top", n, w[s].space)
    BY <2>1, <2>2, <1>2, WritingUpdate DEF Inv
  <2>4. HeldIn(w', s) = 0
    BY <2>3 DEF Wrote, HeldIn
  <2>5. Total(HeldSeq(w')) = Total(HeldSeq(w)) + (0 - k)
    BY <1>3, <2>3, <2>4, HeldChange DEF Wrote
  <2>6. p \in Packet /\ Len(p.bytes) = k
    BY <1>2, <1>3, PacketTypes
  <2> HIDE DEF p
  <2>7. link \in Seq(Packet)
    BY DEF Inv, TypeOK
  <2>8. Total(ByteSeq(link')) = Total(ByteSeq(link)) + k
    BY <2>1, <2>6, <2>7, BytesAppend
  <2>9. Moved(0, 0 - k, k, 0, 0)
    BY <1>1, <2>5, <2>8, Still, Zenon DEF Moved
  <2>10. 0 + (0 - k) + k + 0 = 0
    OBVIOUS
  <2> QED
    BY <1>1, <1>4, <1>5, <2>9, <2>10, Moves
<1> QED
  BY <1>6, <1>7

(* A Write after CloseWrite held nothing.                                  *)
LEMMA WriteAfterEOFKept == ASSUME Inv, Inv', Balance, NEW s \in Streams, WriteAfterEOF(s) PROVE WindowKept'
<1>1. w[s].pc = "top" /\ w' = [w EXCEPT ![s].pc = "eof"]
      /\ UNCHANGED <<remoteWin, sentEOF, sentClose, link, back, myWindow, buf, r, open, failed, extra, granted, reserved>>
  BY DEF WriteAfterEOF
<1>2. Wrote(s, "eof", w[s].n, w[s].space)
  BY <1>1, WriterFacts, WritingUpdate DEF Inv
<1>3. HeldIn(w, s) = 0 /\ HeldIn(w', s) = 0 /\ 0 \in Nat
  BY <1>1, <1>2 DEF Wrote, HeldIn
<1>4. Total(HeldSeq(w')) = Total(HeldSeq(w)) + (0 - 0)
  BY <1>2, <1>3, HeldChange DEF Wrote
<1>5. 0 - 0 = 0 /\ 0 \in Int /\ 0 + 0 + 0 + 0 = 0
  OBVIOUS
<1>6. Moved(0, 0, 0, 0, 0)
  BY <1>1, <1>4, <1>5, Still, Zenon DEF Moved
<1>7. WindowKept /\ (extra = 0 => failed # "too much")
  BY DEF Balance, WindowKept
<1> QED
  BY <1>1, <1>5, <1>6, <1>7, Moves

(* A message without bytes on the link.                                    *)
LEMMA MessageMoves ==
    ASSUME Inv, NEW t \in {"eof", "close"}, link' = Append(link, Msg(t))
    PROVE  Total(ByteSeq(link')) = Total(ByteSeq(link)) + 0
<1>1. PICK p \in Packet : p = Msg(t) /\ Len(p.bytes) = 0
  BY PacketTypes DEF Msg
<1>2. link \in Seq(Packet)
  BY DEF Inv, TypeOK
<1>3. Total(ByteSeq(link')) = Total(ByteSeq(link)) + Len(p.bytes)
  BY <1>1, <1>2, BytesAppend
<1> QED
  BY <1>1, <1>3, Zenon

(* The ends of the stream take no window.                                  *)
LEMMA EndingKept == ASSUME Inv, Inv', Balance, CloseWrite \/ Close PROVE WindowKept'
<1>1. UNCHANGED <<remoteWin, w, back, myWindow, buf, r, open, failed, extra, granted, reserved>> /\ (sentClose => sentClose')
  BY DEF CloseWrite, Close
<1>2. \E t \in {"eof", "close"} : link' = Append(link, Msg(t))
  BY DEF CloseWrite, Close
<1>3. Moved(0, 0, 0, 0, 0)
  BY <1>1, <1>2, MessageMoves, Still, Zenon DEF Moved
<1>4. 0 \in Int /\ 0 + 0 + 0 + 0 = 0
  OBVIOUS
<1>5. WindowKept /\ (extra = 0 => failed # "too much")
  BY DEF Balance, WindowKept
<1> QED
  BY <1>1, <1>3, <1>4, <1>5, Moves

(* An adjustment is taken off the way back.                                *)
LEMMA BackTail ==
    ASSUME Inv, back # <<>>, back' = Tail(back), NEW n, n = Head(back)
    PROVE  n \in 0..WindowSize /\ Total(back') = Total(back) + (0 - n)
<1>1. back \in Seq(0..WindowSize) /\ WindowSize \in Nat
  BY ReaderFacts DEF Inv, TypeOK
<1>2. back \in Seq(Nat)
  BY <1>1, NumberSeq
<1>3. Head(back) = back[1] /\ n \in 0..WindowSize
  BY <1>1, HeadTailProperties
<1>4. PICK x \in Nat, y \in Nat, k \in Nat : x = Total(back) /\ y = Total(back') /\ k = n /\ x = k + y
  <2>1. Total(back) = back[1] + Total(back') /\ back[1] \in Nat /\ Total(back') \in Nat
    BY <1>2, TotalTail
  <2>2. back[1] + Total(back') \in Nat
    BY <2>1
  <2> QED
    BY <1>3, <2>1, <2>2, Zenon
<1>5. y = x + (0 - k)
  BY ONLY <1>4, x \in Nat, y \in Nat, k \in Nat, SMT
<1> QED
  BY <1>3, <1>4, <1>5

(* window.add, what it does to the window.                                 *)
LEMMA AdjustMoves ==
    ASSUME Inv, Inv', NEW n \in 1..(Mod - 1), AdjustBy(n)
    PROVE  \/ remoteWin'.win = remoteWin.win + 0 /\ sentClose' /\ failed' = "adjust"
           \/ remoteWin'.win = remoteWin.win + n /\ sentClose' = sentClose /\ failed' = failed
<1>1. CASE Overflows(n)
  <2>1. n # 0
    OBVIOUS
  <2>2. failed' = "adjust" /\ sentClose' = TRUE /\ remoteWin' = [remoteWin EXCEPT !.closed = TRUE]
    BY <1>1, <2>1, Zenon DEF AdjustBy
  <2>3. remoteWin'.win = remoteWin.win
    BY <2>2, WindowUpdate DEF Inv
  <2>4. \A a \in Nat : a = a + 0
    OBVIOUS
  <2> QED
    BY <2>2, <2>3, <2>4, OutstandingIs, Zenon
<1>2. CASE ~Overflows(n)
  <2>1. PICK k : k = (remoteWin.win + n) % Mod
    OBVIOUS
  <2>2. remoteWin' = [remoteWin EXCEPT !.win = k] /\ failed' = failed /\ sentClose' = sentClose
    BY <1>2, <2>1, Zenon DEF AdjustBy
  <2>3. k = remoteWin.win + n
    BY <1>2, <2>1, OverflowsExactly DEF Inv
  <2>4. k \in Nat
    BY <2>3, OutstandingIs
  <2>5. remoteWin'.win = k
    BY <2>2, <2>4, WindowUpdate DEF Inv
  <2> QED
    BY <2>2, <2>3, <2>5, Zenon
<1> QED
  BY <1>1, <1>2

(* An adjustment goes from the way back into the window.                   *)
LEMMA HandleAdjustKept == ASSUME Inv, Inv', Balance, HandleAdjust PROVE WindowKept'
<1>1. back # <<>> /\ Head(back) # 0 /\ back' = Tail(back) /\ AdjustBy(Head(back)) /\ failed = "no"
      /\ UNCHANGED <<w, sentEOF, link, myWindow, buf, r, open, extra, reserved>>
  BY DEF HandleAdjust
<1>2. PICK n : n = Head(back)
  OBVIOUS
<1>3. n \in 0..WindowSize /\ Total(back') = Total(back) + (0 - n)
  BY <1>1, <1>2, BackTail
<1>4. WindowSize \in Nat /\ Mod \in Nat /\ WindowSize < Mod
  BY ChannelDataAssumption
<1>5. n \in 1..(Mod - 1)
  BY <1>1, <1>2, <1>3, <1>4
<1>6. \/ remoteWin'.win = remoteWin.win + 0 /\ sentClose' /\ failed' = "adjust"
      \/ remoteWin'.win = remoteWin.win + n /\ sentClose' = sentClose /\ failed' = failed
  BY <1>1, <1>2, <1>5, AdjustMoves
<1>7. WindowKept /\ failed' # "too much" /\ (sentClose => sentClose')
  <2>1. failed' = "adjust" \/ failed' = "no"
    BY <1>1, <1>6, Zenon
  <2>2. sentClose' \/ sentClose' = sentClose
    BY <1>6, Zenon
  <2>3. WindowKept
    BY DEF Balance
  <2>4. failed' # "too much"
    BY <2>1
  <2>5. (sentClose' = sentClose) => (sentClose => sentClose')
    OBVIOUS
  <2>7. sentClose => sentClose'
    BY <2>2, <2>5, Zenon
  <2> QED
    BY <2>3, <2>4, <2>7
<1>8. 0 \in Int /\ n \in Int /\ 0 - n \in Int
  BY <1>5
<1>9. CASE remoteWin'.win = remoteWin.win + 0 /\ sentClose'
  <2>1. Moved(0, 0, 0, 0 - n, 0)
    BY <1>1, <1>3, <1>9, Still, Zenon DEF Moved
  <2>2. 0 + 0 + 0 + (0 - n) <= 0 /\ 0 >= 0
    BY <1>5
  <2> QED
    BY <1>1, <1>7, <1>8, <1>9, <2>1, <2>2, Moves
<1>10. CASE remoteWin'.win = remoteWin.win + n
  <2>1. Moved(n, 0, 0, 0 - n, 0)
    BY <1>1, <1>3, <1>10, Still, Zenon DEF Moved
  <2>2. n + 0 + 0 + (0 - n) = 0
    BY <1>5
  <2> QED
    BY <1>1, <1>7, <1>8, <2>1, <2>2, Moves
<1> QED
  BY <1>6, <1>9, <1>10

(* The peer's close takes no window.                                       *)
LEMMA HandleCloseKept == ASSUME Inv, Inv', Balance, HandleClose PROVE WindowKept'
<1>1. back # <<>> /\ Head(back) = 0 /\ back' = Tail(back) /\ sentClose' = TRUE
      /\ remoteWin' = [remoteWin EXCEPT !.closed = TRUE]
      /\ (link' = link \/ link' = Append(link, Msg("close")))
      /\ UNCHANGED <<w, sentEOF, myWindow, buf, r, open, failed, extra, granted, reserved>>
  BY Zenon DEF HandleClose, CloseWindow
<1>2. Total(back') = Total(back) + (0 - 0)
  BY <1>1, BackTail
<1>3. remoteWin'.win = remoteWin.win + 0
  <2>1. remoteWin'.win = remoteWin.win
    BY <1>1, WindowUpdate DEF Inv
  <2>2. \A a \in Nat : a = a + 0
    OBVIOUS
  <2> QED
    BY <2>1, <2>2, OutstandingIs, Zenon
<1>4. Total(ByteSeq(link')) = Total(ByteSeq(link)) + 0
  BY <1>1, MessageMoves, Still, Zenon
<1>5. 0 - 0 = 0 /\ 0 \in Int /\ 0 + 0 + 0 + 0 = 0
  OBVIOUS
<1>6. Moved(0, 0, 0, 0, 0)
  BY <1>1, <1>2, <1>3, <1>4, <1>5, Still, Zenon DEF Moved
<1>7. WindowKept /\ (extra = 0 => failed # "too much")
  BY DEF Balance, WindowKept
<1> QED
  BY <1>1, <1>5, <1>6, <1>7, Moves

(* A data packet is charged to myWindow, which has room for it.            *)
LEMMA HandleDataKept == ASSUME Inv, Inv', Balance, HandleData PROVE WindowKept'
<1>1. link # <<>> /\ link' = Tail(link) /\ failed = "no"
      /\ UNCHANGED <<remoteWin, w, sentEOF, sentClose, back, r, open, extra, granted, reserved>>
  BY DEF HandleData
<1>2. PICK p : p = Head(link)
  OBVIOUS
<1>3. link \in Seq(Packet)
  BY DEF Inv, TypeOK
<1>4. PICK k \in Nat, x \in Nat, y \in Nat : /\ k = Len(p.bytes) /\ x = Total(ByteSeq(link)) /\ y = Total(ByteSeq(link'))
                                             /\ x = y + k
  <2>1. /\ Total(ByteSeq(link)) = Total(ByteSeq(link')) + Len(p.bytes)
        /\ Total(ByteSeq(link')) \in Nat /\ Len(p.bytes) \in Nat
    BY <1>1, <1>2, <1>3, BytesTail
  <2> QED
    BY <2>1, OutstandingIs, Zenon
<1>5. Total(ByteSeq(link')) = Total(ByteSeq(link)) + (0 - k)
  <2>1. y = x + (0 - k)
    BY ONLY <1>4, k \in Nat, x \in Nat, y \in Nat, SMT
  <2> QED
    BY <1>4, <2>1, Zenon
<1>6. CASE myWindow < Charge(p)
  <2> SUFFICES ASSUME extra' = 0 PROVE FALSE
    BY DEF WindowKept
  <2>1. Outstanding <= myWindow
    BY <1>1 DEF Balance, WindowKept
  <2>2. PICK a \in Nat, b \in Nat, d \in Nat, m \in Nat : Outstanding = a + b + x + d /\ m = myWindow
    BY <1>4, OutstandingIs, Zenon
  <2>3. a + b + x + d <= m /\ m < k /\ x = y + k
    BY <1>4, <1>6, <2>1, <2>2, Zenon DEF Charge
  <2> QED
    BY ONLY <2>3, a \in Nat, b \in Nat, d \in Nat, m \in Nat, k \in Nat, x \in Nat, y \in Nat, SMTT(40)
<1>7. CASE ~(myWindow < Charge(p))
  <2>1. failed' = failed /\ myWindow' = myWindow - k
    BY <1>2, <1>4, <1>7, Zenon DEF HandleData, Charge
  <2>2. myWindow' = myWindow + (0 - k)
    <3>1. PICK m \in Nat : m = myWindow
      BY OutstandingIs
    <3>2. m - k = m + (0 - k)
      BY ONLY m \in Nat, k \in Nat, SMT
    <3> QED
      BY <2>1, <3>1, <3>2, Zenon
  <2>3. Moved(0, 0, 0 - k, 0, 0 - k)
    BY <1>1, <1>5, <2>2, Still, Zenon DEF Moved
  <2>4. 0 \in Int /\ 0 - k \in Int /\ 0 + 0 + (0 - k) + 0 = 0 - k
    OBVIOUS
  <2>5. WindowKept /\ (extra = 0 => failed' # "too much")
    BY <2>1 DEF Balance, WindowKept
  <2> QED
    BY <1>1, <2>3, <2>4, <2>5, Moves
<1> QED
  BY <1>6, <1>7

(* A number is sent on the way back.                                       *)
LEMMA BackAppend ==
    ASSUME Inv, NEW n \in Nat, back' = Append(back, n)
    PROVE  Total(back') = Total(back) + n
<1>1. back \in Seq(0..WindowSize) /\ WindowSize \in Nat
  BY ReaderFacts DEF Inv, TypeOK
<1>2. back \in Seq(Nat)
  BY <1>1, NumberSeq
<1> QED
  BY <1>2, TotalAppend

(* The end of the stream takes no window, and neither does the answer.     *)
LEMMA HandleEndKept == ASSUME Inv, Inv', Balance, HandleEnd PROVE WindowKept'
<1>1. link # <<>> /\ link' = Tail(link) /\ Head(link).t # "data"
      /\ (back' = back \/ back' = Append(back, 0)) /\ (open' => open)
      /\ UNCHANGED <<remoteWin, w, sentEOF, sentClose, myWindow, r, failed, extra, granted, reserved>>
  BY Zenon DEF HandleEnd
<1>2. PICK p : p = Head(link)
  OBVIOUS
<1>3. link \in Seq(Packet)
  BY DEF Inv, TypeOK
<1>4. Len(p.bytes) = 0
  <2>1. 1 \in DOMAIN link /\ link[1] = p
    BY <1>1, <1>2, <1>3, HeadTailProperties
  <2>2. p.bytes = <<>>
    BY <1>1, <1>2, <2>1 DEF Balance, Markers
  <2> QED
    BY <2>2
<1>5. Total(ByteSeq(link')) = Total(ByteSeq(link)) + 0
  <2>1. Total(ByteSeq(link)) = Total(ByteSeq(link')) + 0
    BY <1>1, <1>2, <1>3, <1>4, BytesTail
  <2>2. \A a, b \in Nat : a = b + 0 => b = a + 0
    OBVIOUS
  <2> QED
    BY <2>1, <2>2, OutstandingIs, Zenon
<1>6. Total(back') = Total(back) + 0
  BY <1>1, BackAppend, Still, 0 \in Nat, Zenon
<1>7. Moved(0, 0, 0, 0, 0)
  BY <1>1, <1>5, <1>6, Still, Zenon DEF Moved
<1>8. 0 \in Int /\ 0 + 0 + 0 + 0 = 0
  OBVIOUS
<1>9. WindowKept /\ (extra = 0 => failed # "too much")
  BY DEF Balance, WindowKept
<1> QED
  BY <1>1, <1>7, <1>8, <1>9, Moves

(* What a Read takes from a buffer it gives back to both counts, or to     *)
(* myWindow only when this end is closed and sends no adjustment.          *)
LEMMA ReadExtendedKept == ASSUME Inv, Inv', Balance, NEW s \in Readable, ReadExtended(s) PROVE WindowKept'
<1>1. PICK n \in Nat : myWindow' = myWindow + n /\ back' = SendAdjust(n)
  <2>1. Len(buf[s].bytes) \in Nat
    BY ReaderFacts
  <2>2. \A k \in 0..Len(buf[s].bytes) : k \in Nat
    BY <2>1
  <2> QED
    BY <2>2, ReadEffect
<1>2. UNCHANGED <<remoteWin, w, sentEOF, sentClose, link, open, failed, extra, granted, reserved>>
  BY DEF ReadExtended
<1>3. WindowKept /\ (extra = 0 => failed # "too much")
  BY DEF Balance, WindowKept
<1>4. 0 \in Int /\ n \in Int
  OBVIOUS
<1>5. CASE open
  <2>1. Total(back') = Total(back) + n
    BY <1>1, <1>5, BackAppend DEF SendAdjust
  <2>2. Moved(0, 0, 0, n, n)
    BY <1>1, <1>2, <2>1, Still, Zenon DEF Moved
  <2>3. 0 + 0 + 0 + n = n
    OBVIOUS
  <2> QED
    BY <1>2, <1>3, <1>4, <2>2, <2>3, Moves
<1>6. CASE ~open
  <2>1. back' = back
    BY <1>1, <1>6 DEF SendAdjust
  <2>2. Moved(0, 0, 0, 0, n)
    BY <1>1, <1>2, <2>1, Still, Zenon DEF Moved
  <2>3. 0 + 0 + 0 + 0 <= 0 /\ n >= 0
    OBVIOUS
  <2> QED
    BY <1>2, <1>3, <1>4, <1>6, <2>2, <2>3, Moves
<1> QED
  BY <1>5, <1>6

(* The close of the readers' end takes no window.                          *)
LEMMA CloseReaderKept == ASSUME Inv, Inv', Balance, CloseReader PROVE WindowKept'
<1>1. open /\ back' = Append(back, 0)
      /\ UNCHANGED <<remoteWin, w, sentEOF, sentClose, link, myWindow, buf, r, failed, extra, granted, reserved>>
  BY DEF CloseReader
<1>2. Total(back') = Total(back) + 0
  BY <1>1, BackAppend, 0 \in Nat, Zenon
<1>3. Moved(0, 0, 0, 0, 0)
  BY <1>1, <1>2, Still, Zenon DEF Moved
<1>4. 0 \in Int /\ 0 + 0 + 0 + 0 = 0
  OBVIOUS
<1>5. WindowKept /\ (extra = 0 => failed # "too much")
  BY DEF Balance, WindowKept
<1> QED
  BY <1>1, <1>3, <1>4, <1>5, Moves

(* A step that leaves the counts and what is in flight alone.              *)
LEMMA NothingCounted ==
    ASSUME Inv, Inv', Balance, UNCHANGED <<remoteWin, w, sentClose, link, back, myWindow, open, failed, extra>>
    PROVE  WindowKept'
<1>1. Moved(0, 0, 0, 0, 0)
  BY Still, Zenon DEF Moved
<1>2. 0 \in Int /\ 0 + 0 + 0 + 0 = 0
  OBVIOUS
<1>3. WindowKept /\ (extra = 0 => failed # "too much")
  BY DEF Balance, WindowKept
<1> QED
  BY <1>1, <1>2, <1>3, Moves

(* Every step keeps the two counts together.                               *)
LEMMA NextBalance == ASSUME Inv, Inv', Balance, [Next]_vars PROVE Balance'
<1>1. Markers'
  BY MarkerSteps DEF Balance
<1>2. WindowKept'
  <2>1. ASSUME NEW s \in Streams, Writer(s) PROVE WindowKept'
    BY <2>1, ReserveKept, SendDataKept, WriteAfterEOFKept DEF Writer
  <2>2. ASSUME NEW s \in Readable, Reader(s) PROVE WindowKept'
    <3>1. CASE ReadExtended(s)
      BY <3>1, ReadExtendedKept
    <3>2. CASE ReadEOF(s)
      <4>1. UNCHANGED <<remoteWin, w, sentClose, link, back, myWindow, open, failed, extra>>
        BY <3>2 DEF ReadEOF
      <4> QED
        BY <4>1, NothingCounted
    <3> QED
      BY <2>2, <3>1, <3>2 DEF Reader
  <2>3. CASE Muxes
    BY <2>3, HandleAdjustKept, HandleCloseKept, HandleDataKept, HandleEndKept DEF Muxes
  <2>4. CASE CloseWrite \/ Close \/ CloseReader
    BY <2>4, EndingKept, CloseReaderKept
  <2>5. CASE \E n \in Adjustments : HandleOther(n)
    <3>1. extra' = extra + 1 /\ extra \in Nat
      BY <2>5 DEF HandleOther, Inv, TypeOK
    <3>2. extra' # 0
      BY <3>1
    <3> QED
      BY <3>2 DEF WindowKept
  <2>6. CASE UNCHANGED vars
    <3>1. UNCHANGED <<remoteWin, w, sentClose, link, back, myWindow, open, failed, extra>>
      BY <2>6 DEF vars
    <3> QED
      BY <3>1, NothingCounted
  <2> QED
    BY <2>1, <2>2, <2>3, <2>4, <2>5, <2>6 DEF Next
<1> QED
  BY <1>1, <1>2 DEF Balance

(* A sum of noughts.                                                       *)
LEMMA TotalOfNoughts ==
    ASSUME NEW q \in Seq(Nat), \A i \in 1..Len(q) : q[i] = 0
    PROVE  Total(q) = 0
<1>1. PICK n \in Nat : n = Len(q)
  OBVIOUS
<1>2. PICK f \in [0..n -> Nat] : Adds(f, q, n) /\ Total(q) = f[n]
  BY <1>1, TotalAdds
<1> DEFINE S == {i \in Nat : i <= n => f[i] = 0}
<1>3. 0 \in S
  BY <1>2 DEF Adds
<1>4. ASSUME NEW i \in Nat, i \in S PROVE i + 1 \in S
  <2> SUFFICES ASSUME i + 1 <= n PROVE f[i + 1] = 0
    OBVIOUS
  <2>1. i + 1 \in 1..n /\ (i + 1) - 1 = i /\ i <= n
    OBVIOUS
  <2>2. f[i + 1] = f[i] + q[i + 1]
    BY <1>2, <2>1 DEF Adds
  <2>3. q[i + 1] = 0 /\ f[i] = 0
    BY <1>1, <1>4, <2>1
  <2> QED
    BY <2>2, <2>3
<1>5. n \in S
  <2> HIDE DEF S
  <2> QED
    BY <1>3, <1>4, Induction
<1> QED
  BY <1>2, <1>5

(* At first the whole window is the writers', and nothing is in flight.    *)
LEMMA InitBalance == Init => Balance
<1> SUFFICES ASSUME Init PROVE Balance
  OBVIOUS
<1>1. remoteWin = [win |-> WindowSize, closed |-> FALSE] /\ sentClose = FALSE /\ link = <<>> /\ back = <<>>
      /\ myWindow = WindowSize /\ failed = "no"
  BY DEF Init
<1>2. Inv /\ WindowSize \in Nat
  BY InitInv, ChannelDataAssumption
<1>3. Markers
  BY <1>1 DEF Markers
<1>4. Total(HeldSeq(w)) = 0
  <2>1. w \in [Streams -> Writing]
    BY <1>2 DEF Inv, TypeOK
  <2>2. PICK n \in Nat : StreamSeq \in [1..n -> Streams]
    BY StreamPlaces
  <2>3. PICK a \in Seq(Nat) : a = HeldSeq(w)
    BY <2>1, HeldType
  <2>4. DOMAIN a = 1..n /\ \A i \in 1..n : a[i] = HeldIn(w, StreamSeq[i])
    BY <2>2, <2>3 DEF HeldSeq
  <2>5. \A s \in Streams : HeldIn(w, s) = 0
    BY DEF Init, HeldIn
  <2>6. \A i \in 1..n : a[i] = 0
    BY <2>2, <2>4, <2>5
  <2>7. Len(a) = n
    BY <2>4
  <2> QED
    BY <2>3, <2>6, <2>7, TotalOfNoughts
<1>5. ASSUME NEW a, a = <<>> PROVE Total(a) = 0
  <2>1. a \in Seq(Nat) /\ Len(a) = 0
    BY <1>5
  <2>2. \A i \in 1..0 : FALSE
    OBVIOUS
  <2>3. \A i \in 1..Len(a) : a[i] = 0
    BY <2>1, <2>2, Zenon
  <2> QED
    BY <2>1, <2>3, TotalOfNoughts
<1>6. ByteSeq(link) = <<>>
  BY <1>1 DEF ByteSeq
<1>7. Outstanding = remoteWin.win + Total(HeldSeq(w)) + Total(ByteSeq(link)) + Total(back)
  BY Zenon DEF Outstanding, HeldSeq, ByteSeq, HeldIn, Held
<1>8. Outstanding = WindowSize + 0 + 0 + 0
  BY <1>1, <1>4, <1>5, <1>6, <1>7
<1>9. Outstanding = myWindow /\ myWindow <= WindowSize
  BY <1>1, <1>2, <1>8
<1>10. Outstanding <= myWindow
  BY <1>1, <1>2, <1>9
<1> QED
  BY <1>1, <1>3, <1>9, <1>10 DEF Balance, WindowKept

(* The two ends never disagree about the window (WriteExtended,            *)
(* handleData, adjustWindow and ReadExtended, channel.go:230-366): what    *)
(* one end may still send, has reserved or has in flight, with the         *)
(* adjustments on their way, is what the other end is ready to take, for   *)
(* any number of streams, any sizes and any order of data, adjustments and *)
(* closes that cross.                                                      *)
THEOREM WindowsAgree == Spec => []WindowKept
<1>1. Inv /\ Balance /\ [Next]_vars => Balance'
  BY NextInv, NextBalance
<1>2. Balance => WindowKept
  BY DEF Balance
<1> QED
  BY InitBalance, CountsKept, <1>1, <1>2, PTL DEF Spec

=============================================================================
