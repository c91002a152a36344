--------------------------- MODULE HandshakeProofs --------------------------
(***************************************************************************)
(* Theorems about Handshake, for any thresholds, capacities and numbers of *)
(* writers' packets: both ends always use the same keys, and nothing but   *)
(* the messages of an exchange is sent during it.                          *)
(***************************************************************************)
EXTENDS Handshake, SequenceTheorems, TLAPS

Hashes == Nat \X Nat
Keys == [h : Hashes, dir : Peers \cup {"none"}]
Kinds == {"data", "kexInit", "dhInit", "dhReply", "newKeys"}
Message == [t : {"kexInit"}, arg : Nat, key : Keys] \cup [t : Kinds \ {"kexInit"}, arg : Hashes, key : Keys]
Transport == [rkey : Keys, wkey : Keys, pendR : Keys, pendW : Keys, sessionID : Hashes]
Steps == {"check", "request", "read", "push", "enter", "dhInit", "dhWait", "ready", "newKeys",
          "finish", "exited"}

HsShape(r) ==
    r = [mu |-> r.mu, sentInit |-> r.sentInit, inits |-> r.inits, written |-> r.written, read |-> r.read,
         writeError |-> r.writeError, incoming |-> r.incoming, closed |-> r.closed]
RlShape(r) == r = [pc |-> r.pc, pkt |-> r.pkt, theirs |-> r.theirs, err |-> r.err]

(* The records of the transport and of readLoop, as far as is needed here. *)
TypeOK ==
    /\ link \in [Peers -> Seq(Message)]
    /\ down = [p \in Peers |-> down[p]]
    /\ tr \in [Peers -> Transport]
    /\ hs = [p \in Peers |-> hs[p]] /\ rl = [p \in Peers |-> rl[p]]
    /\ \A p \in Peers : HsShape(hs[p]) /\ RlShape(rl[p])
    /\ \A p \in Peers : hs[p].inits \in Nat /\ rl[p].pc \in Steps

-----------------------------------------------------------------------------
(* Exchanges are numbered from 1.  A key's epoch is the number of the      *)
(* exchange that made it.                                                  *)
Epoch(k) == k.h[1]
KeyAt(e, dir) == IF e = 0 THEN NoKey ELSE Key(<<e, e>>, dir)

WEpoch(p) == Epoch(tr[p].wkey)
REpoch(p) == Epoch(tr[p].rkey)

(* Every stream of packets has the same course: in epoch e data, then the  *)
(* kexInit, then the end's Diffie-Hellman message, then msgNewKeys, with   *)
(* which epoch e + 1 begins.  Its stages are numbered 3e, 3e + 1, 3e + 2,  *)
(* 3(e + 1)...: a packet is due at one stage and leads to the next, except *)
(* data, which may be repeated.                                            *)
Stage(t) == IF t \in {"data", "kexInit"} THEN 0 ELSE IF t = "newKeys" THEN 2 ELSE 1
Due(m) == 3 * Epoch(m.key) + Stage(m.t)
Past(m) == IF m.t = "data" THEN Due(m) ELSE Due(m) + 1

(* The stage up to which p has written, by its variables.                  *)
WStage(p) ==
    IF hs[p].sentInit = 0 \/ WEpoch(p) = hs[p].inits THEN 0
    ELSE IF rl[p].pc = "ready" \/ (p = "client" /\ rl[p].pc = "dhWait") THEN 2 ELSE 1
Written(p) == 3 * WEpoch(p) + WStage(p)

(* And the stage up to which it has read.                                  *)
RStage(p) ==
    IF rl[p].pc \in {"enter", "dhInit", "dhWait"} THEN 1
    ELSE IF rl[p].pc \in {"ready", "newKeys"} THEN 2 ELSE 0
ReadUpTo(p) == 3 * REpoch(p) + RStage(p)

(* p's exchange has failed and will be given up.                           *)
Failed(p) == rl[p].pc = "finish" /\ rl[p].err

(* Nothing will be written by p any more.                                  *)
Dead(p) == down[p] \/ (Failed(p) /\ hs[p].sentInit # 0)

-----------------------------------------------------------------------------
(* The stream from p to the other end.                                     *)

Formed(p) ==
    \A i \in 1..Len(link[p]) :
        /\ link[p][i].key = KeyAt(Epoch(link[p][i].key), p)
        /\ link[p][i].t = "kexInit" => link[p][i].arg = Epoch(link[p][i].key) + 1

(* The stage at which the i-th packet is due, the next to be written       *)
(* included, if there will be one.                                         *)
Marked(p, i) == i \in 1..Len(link[p]) \/ (i = Len(link[p]) + 1 /\ ~Dead(p))
Mark(p, i) == IF i \in 1..Len(link[p]) THEN Due(link[p][i]) ELSE Written(p)

Chain(p) == \A i \in 1..Len(link[p]) : Marked(p, i + 1) => Mark(p, i + 1) = Past(link[p][i])

(* End q can read what is due at stage x.                                  *)
Meets(q, x) ==
    IF Failed(q) THEN 3 * REpoch(q) <= x /\ x <= 3 * REpoch(q) + 2
    ELSE rl[q].pc = "exited" \/ x = ReadUpTo(q)
Meet(p) == Marked(p, 1) => Meets(Other(p), Mark(p, 1))

(* While data may be written, every exchange in the stream is complete.    *)
InKex == {"kexInit", "dhInit", "dhReply"}
Settled(p) ==
    ~Dead(p) /\ WStage(p) = 0 =>
        \A i \in 1..Len(link[p]) :
            link[p][i].t \in InKex => \E n \in (i + 1)..Len(link[p]) : link[p][n].t = "newKeys"
Silence(p) ==
    \A i, j \in 1..Len(link[p]) :
        i < j /\ link[p][i].t \in InKex /\ link[p][j].t = "data"
            => \E n \in i..j : link[p][n].t = "newKeys"

Stream(p) == Formed(p) /\ Chain(p) /\ Meet(p) /\ Settled(p) /\ Silence(p)

-----------------------------------------------------------------------------
(* The variables of one end.                                               *)

Between == {"check", "request", "read", "push", "enter"}
Agreed(p) ==
    /\ tr[p].wkey = KeyAt(WEpoch(p), p) /\ tr[p].rkey = KeyAt(REpoch(p), Other(p))
    /\ tr[p].sessionID = IF WEpoch(p) = 0 THEN None ELSE <<1, 1>>
    /\ hs[p].sentInit \in {0, hs[p].inits}
Counts(p) ==
    /\ rl[p].pc \in Between \/ (rl[p].pc = "exited" /\ ~down[p]) =>
           /\ REpoch(p) = WEpoch(p)
           /\ hs[p].inits = IF hs[p].sentInit = 0 THEN WEpoch(p) ELSE WEpoch(p) + 1
    /\ rl[p].pc = "enter" => rl[p].theirs = REpoch(p) + 1
    /\ rl[p].pc \in {"dhInit", "dhWait", "ready"} =>
           /\ REpoch(p) = WEpoch(p) /\ hs[p].sentInit = WEpoch(p) + 1
           /\ hs[p].inits = WEpoch(p) + 1 /\ rl[p].theirs = WEpoch(p) + 1
    /\ rl[p].pc = "newKeys" =>
           /\ WEpoch(p) = REpoch(p) + 1 /\ hs[p].sentInit = WEpoch(p) /\ hs[p].inits = WEpoch(p)
           /\ tr[p].pendR = KeyAt(WEpoch(p), Other(p))
    /\ rl[p].pc = "finish" /\ ~rl[p].err =>
           /\ REpoch(p) = WEpoch(p) /\ WEpoch(p) # 0
           /\ hs[p].sentInit = WEpoch(p) /\ hs[p].inits = WEpoch(p)
    /\ Failed(p) /\ hs[p].sentInit = 0 => hs[p].inits = WEpoch(p)
End(p) == Agreed(p) /\ Counts(p)

Inv == TypeOK /\ \A p \in Peers : End(p) /\ Stream(p)

-----------------------------------------------------------------------------
(* Facts about the numbers.                                                *)

(* There are two ends.                                                     *)
LEMMA PeerFacts ==
    \A p \in Peers : Other(p) \in Peers /\ Other(p) # p /\ Other(Other(p)) = p
                     /\ \A q \in Peers : q = p \/ q = Other(p)
BY DEF Peers, Other

(* Epochs are numbers.                                                     *)
LEMMA KeyFacts == \A k \in Keys : Epoch(k) \in Nat
BY DEF Keys, Hashes, Epoch

(* The key of an epoch is a key, and of that epoch.                        *)
LEMMA KeyAtFacts ==
    ASSUME NEW e \in Nat, NEW p \in Peers
    PROVE  KeyAt(e, p) \in Keys /\ Epoch(KeyAt(e, p)) = e
BY DEF KeyAt, NoKey, Key, None, Keys, Hashes, Epoch

(* The parts of a packet.                                                  *)
LEMMA MessageFacts ==
    ASSUME NEW m \in Message
    PROVE  /\ m.t \in Kinds /\ m.key \in Keys /\ Epoch(m.key) \in Nat
           /\ Stage(m.t) \in {0, 1, 2} /\ Due(m) \in Nat /\ Past(m) \in Nat
<1>1. m.t \in Kinds /\ m.key \in Keys
  BY DEF Message, Kinds
<1>2. Epoch(m.key) \in Nat
  BY <1>1, KeyFacts
<1> QED
  BY <1>1, <1>2 DEF Stage, Due, Past

(* The parts of an end, and of what it has written.                        *)
LEMMA EndFacts ==
    ASSUME TypeOK, NEW p \in Peers
    PROVE  /\ WEpoch(p) \in Nat /\ REpoch(p) \in Nat /\ hs[p].inits \in Nat
           /\ WStage(p) \in {0, 1, 2} /\ RStage(p) \in {0, 1, 2}
           /\ Written(p) \in Nat /\ ReadUpTo(p) \in Nat
           /\ link[p] \in Seq(Message) /\ Len(link[p]) \in Nat
           /\ \A i \in 1..Len(link[p]) : link[p][i] \in Message
<1>1. tr[p].wkey \in Keys /\ tr[p].rkey \in Keys
  BY DEF TypeOK, Transport
<1>2. WEpoch(p) \in Nat /\ REpoch(p) \in Nat
  BY <1>1, KeyFacts DEF WEpoch, REpoch
<1>3. WStage(p) \in {0, 1, 2} /\ RStage(p) \in {0, 1, 2}
  BY DEF WStage, RStage
<1>4. Written(p) \in Nat /\ ReadUpTo(p) \in Nat
  BY <1>2, <1>3 DEF Written, ReadUpTo
<1>5. link[p] \in Seq(Message)
  BY DEF TypeOK
<1> QED
  BY <1>2, <1>3, <1>4, <1>5 DEF TypeOK

-----------------------------------------------------------------------------
(* The invariant holds when the connection is made.                        *)
LEMMA InitInv == ASSUME Init PROVE Inv
<1>1. NoKey \in Keys /\ Epoch(NoKey) = 0 /\ None \in Hashes
  BY DEF NoKey, Key, None, Keys, Hashes, Epoch
<1>2. TypeOK
  <2>1. link \in [Peers -> Seq(Message)]
    <3>1. <<>> \in Seq(Message)
      OBVIOUS
    <3> QED
      BY <3>1 DEF Init
  <2>2. tr \in [Peers -> Transport]
    BY <1>1 DEF Init, Transport
  <2>3. down = [p \in Peers |-> down[p]]
    BY DEF Init
  <2>4. hs = [p \in Peers |-> hs[p]] /\ \A p \in Peers : HsShape(hs[p])
    BY DEF Init, HsShape
  <2>5. rl = [p \in Peers |-> rl[p]] /\ \A p \in Peers : RlShape(rl[p])
    BY DEF Init, RlShape
  <2>6. \A p \in Peers : hs[p].inits \in Nat /\ rl[p].pc \in Steps
    BY DEF Init, Steps
  <2> QED
    BY <2>1, <2>2, <2>3, <2>4, <2>5, <2>6 DEF TypeOK
<1>3. ASSUME NEW p \in Peers
      PROVE  /\ WEpoch(p) = 0 /\ REpoch(p) = 0 /\ rl[p].pc = "check" /\ hs[p].sentInit = 0 /\ hs[p].inits = 0
             /\ tr[p].wkey = NoKey /\ tr[p].rkey = NoKey /\ tr[p].sessionID = None /\ link[p] = <<>>
  BY <1>1 DEF Init, WEpoch, REpoch
<1>4. ASSUME NEW p \in Peers PROVE End(p)
  BY <1>3 DEF End, Agreed, Counts, KeyAt, Failed, Between
<1>5. ASSUME NEW p \in Peers PROVE Stream(p)
  <2>1. Written(p) = 0 /\ ReadUpTo(Other(p)) = 0 /\ ~Failed(Other(p)) /\ Len(link[p]) = 0
    BY <1>3, PeerFacts DEF Written, WStage, ReadUpTo, RStage, Failed
  <2> QED
    BY <2>1 DEF Stream, Formed, Chain, Meet, Meets, Marked, Mark, Settled, Silence
<1> QED
  BY <1>2, <1>4, <1>5 DEF Inv

(* And after a step.                                                       *)
LEMMA NextFacts ==
    ASSUME TypeOK', NEW p \in Peers
    PROVE  WEpoch(p)' \in Nat /\ REpoch(p)' \in Nat /\ WStage(p)' \in {0, 1, 2}
<1>1. tr'[p].wkey \in Keys /\ tr'[p].rkey \in Keys
  BY DEF TypeOK, Transport
<1>2. WEpoch(p)' \in Nat /\ REpoch(p)' \in Nat
  BY <1>1, KeyFacts DEF WEpoch, REpoch
<1> QED
  BY <1>2 DEF WStage

-----------------------------------------------------------------------------
(* What happens to a stream.                                               *)

(* The writer's part of a step: it stays where it is, or stops.            *)
Stays(p) == ~Dead(p)' => ~Dead(p) /\ Written(p)' = Written(p)
(* The reader's part: what it can read, it still can.                      *)
Reads(q) == \A x : Meets(q, x) => Meets(q, x)'

(* A step that leaves the stream alone.                                    *)
LEMMA StayStream ==
    ASSUME TypeOK, TypeOK', NEW p \in Peers, Stream(p), link'[p] = link[p], Stays(p), Reads(Other(p))
    PROVE  Stream(p)'
<1>1. Formed(p)' /\ Silence(p)'
  BY DEF Stream, Formed, Silence
<1>2. \A i : Marked(p, i)' => Marked(p, i) /\ Mark(p, i)' = Mark(p, i)
  BY DEF Marked, Mark, Stays
<1>3. Chain(p)'
  BY <1>2 DEF Stream, Chain
<1>4. Meet(p)'
  BY <1>2 DEF Stream, Meet, Reads
<1>5. Settled(p)'
  <2>1. ~Dead(p)' /\ WStage(p)' = 0 => ~Dead(p) /\ WStage(p) = 0
    <3>1. /\ WEpoch(p) \in Nat /\ WStage(p) \in {0, 1, 2} /\ Written(p) = 3 * WEpoch(p) + WStage(p)
          /\ WEpoch(p)' \in Nat /\ WStage(p)' \in {0, 1, 2} /\ Written(p)' = 3 * WEpoch(p)' + WStage(p)'
      BY EndFacts, NextFacts DEF Written
    <3> QED
      BY <3>1 DEF Stays
  <2> QED
    BY <2>1 DEF Stream, Settled
<1> QED
  BY <1>1, <1>3, <1>4, <1>5 DEF Stream

(* A packet that is due is written at the end.                             *)
LEMMA SendStream ==
    ASSUME TypeOK, TypeOK', NEW p \in Peers, Stream(p), ~Dead(p), NEW m \in Message,
           link'[p] = Append(link[p], m),
           m.key = KeyAt(Epoch(m.key), p), m.t = "kexInit" => m.arg = Epoch(m.key) + 1,
           Due(m) = Written(p), ~Dead(p)' => Written(p)' = Past(m), Reads(Other(p))
    PROVE  Stream(p)'
<1> DEFINE n == Len(link[p])
<1>1. /\ n \in Nat /\ Len(link'[p]) = n + 1 /\ link'[p][n + 1] = m
      /\ \A i \in 1..n : link'[p][i] = link[p][i]
  BY EndFacts, AppendProperties
<1>2. \A i \in 1..(n + 1) : i \in 1..n \/ i = n + 1
  BY <1>1
<1>3. Formed(p)'
  BY <1>1, <1>2 DEF Stream, Formed
<1>4. \A i \in 1..(n + 1) : Marked(p, i) /\ Mark(p, i)' = Mark(p, i)
  BY <1>1 DEF Marked, Mark
<1>5. Chain(p)'
  <2>1. ASSUME NEW i \in 1..n, Marked(p, i + 1)' PROVE Mark(p, i + 1)' = Past(link'[p][i])
    BY <1>1, <1>4, <2>1 DEF Stream, Chain
  <2>3. ASSUME NEW i \in 1..(n + 1), Marked(p, i + 1)' PROVE Mark(p, i + 1)' = Past(link'[p][i])
    <3>1. CASE i \in 1..n
      BY <2>1, <2>3, <3>1
    <3>2. CASE i = n + 1
      <4>1. i + 1 = n + 2
        BY <1>1, <3>2
      <4> QED
        BY <1>1, <2>3, <3>2, <4>1 DEF Marked, Mark
    <3> QED
      BY <1>2, <3>1, <3>2
  <2> QED
    BY <1>1, <2>3 DEF Chain
<1>6. Meet(p)'
  BY <1>1, <1>4 DEF Stream, Meet, Reads
<1>7. /\ WEpoch(p) \in Nat /\ WStage(p) \in {0, 1, 2} /\ Written(p) = 3 * WEpoch(p) + WStage(p)
      /\ WEpoch(p)' \in Nat /\ WStage(p)' \in {0, 1, 2} /\ Written(p)' = 3 * WEpoch(p)' + WStage(p)'
  BY EndFacts, NextFacts DEF Written
<1>8. m.t \in Kinds /\ Epoch(m.key) \in Nat
  BY MessageFacts
<1>9. m.t = "data" => WStage(p) = 0
  BY <1>7, <1>8 DEF Due, Stage
<1>10. ~Dead(p)' /\ WStage(p)' = 0 => m.t \in {"data", "newKeys"}
  BY <1>7, <1>8 DEF Due, Past, Stage, Kinds
<1>11. WStage(p) = 0 =>
           \A i \in 1..n : link[p][i].t \in InKex => \E k \in (i + 1)..n : link[p][k].t = "newKeys"
  BY DEF Stream, Settled
<1>12. Settled(p)'
  <2>1. SUFFICES ASSUME ~Dead(p)', WStage(p)' = 0, NEW i \in 1..(n + 1), link'[p][i].t \in InKex
                 PROVE  \E k \in (i + 1)..(n + 1) : link'[p][k].t = "newKeys"
    BY <1>1 DEF Settled
  <2>2. i \in 1..n
    BY <1>1, <1>2, <1>10, <2>1 DEF InKex
  <2>3. CASE m.t = "newKeys"
    <3>1. n + 1 \in (i + 1)..(n + 1)
      BY <1>1, <2>2
    <3> QED
      BY <1>1, <2>3, <3>1
  <2>4. CASE m.t = "data"
    <3>1. PICK k \in (i + 1)..n : link[p][k].t = "newKeys"
      BY <1>1, <1>9, <1>11, <2>1, <2>2, <2>4
    <3>2. k \in 1..n /\ k \in (i + 1)..(n + 1)
      BY <1>1, <2>2, <3>1
    <3> QED
      BY <1>1, <3>1, <3>2
  <2> QED
    BY <1>10, <2>1, <2>3, <2>4
<1>13. Silence(p)'
  <2>1. SUFFICES ASSUME NEW i \in 1..(n + 1), NEW j \in 1..(n + 1), i < j,
                        link'[p][i].t \in InKex, link'[p][j].t = "data"
                 PROVE  \E k \in i..j : link'[p][k].t = "newKeys"
    BY <1>1 DEF Silence
  <2>2. i \in 1..n
    BY <1>1, <2>1
  <2>3. CASE j \in 1..n
    <3>1. PICK k \in i..j : link[p][k].t = "newKeys"
      BY <1>1, <2>1, <2>2, <2>3 DEF Stream, Silence
    <3>2. k \in 1..n
      BY <1>1, <2>2, <2>3, <3>1
    <3> QED
      BY <1>1, <3>1, <3>2
  <2>4. CASE j = n + 1
    <3>1. PICK k \in (i + 1)..n : link[p][k].t = "newKeys"
      BY <1>1, <1>9, <1>11, <2>1, <2>2, <2>4
    <3>2. k \in 1..n /\ k \in i..j
      BY <1>1, <2>2, <2>4, <3>1
    <3> QED
      BY <1>1, <3>1, <3>2
  <2> QED
    BY <1>2, <2>3, <2>4
<1> QED
  BY <1>3, <1>5, <1>6, <1>12, <1>13 DEF Stream

(* The first packet is read, and the reader is ready for what follows it.  *)
LEMMA TakeStream ==
    ASSUME TypeOK, TypeOK', NEW p \in Peers, Stream(p), link[p] # <<>>, link'[p] = Tail(link[p]),
           Stays(p), NEW x, x = Past(Head(link[p])), Meets(Other(p), x)'
    PROVE  Stream(p)'
<1> DEFINE n == Len(link[p])
<1>1. /\ n \in Nat \ {0} /\ Len(link'[p]) = n - 1 /\ Head(link[p]) = link[p][1]
      /\ \A i \in 1..(n - 1) : link'[p][i] = link[p][i + 1]
  BY EndFacts, HeadTailProperties, EmptySeq
<1>2. \A i \in 1..(n - 1) : i + 1 \in 1..n
  BY <1>1
<1>3. Formed(p)'
  BY <1>1, <1>2 DEF Stream, Formed
<1>4. ASSUME NEW i \in 1..n, Marked(p, i)' PROVE Marked(p, i + 1) /\ Mark(p, i)' = Mark(p, i + 1)
  <2>1. CASE i \in 1..(n - 1)
    BY <1>1, <1>2, <2>1 DEF Marked, Mark
  <2>2. CASE i = n
    BY <1>1, <1>4, <2>2 DEF Marked, Mark, Stays
  <2> QED
    BY <1>1, <2>1, <2>2
<1>5. Chain(p)'
  <2>1. SUFFICES ASSUME NEW i \in 1..(n - 1), Marked(p, i + 1)' PROVE Mark(p, i + 1)' = Past(link'[p][i])
    BY <1>1 DEF Chain
  <2>2. i + 1 \in 1..n
    BY <1>2
  <2>3. Marked(p, (i + 1) + 1) /\ Mark(p, i + 1)' = Mark(p, (i + 1) + 1)
    BY <1>4, <2>1, <2>2
  <2> QED
    BY <1>1, <2>2, <2>3 DEF Stream, Chain
<1>6. Meet(p)'
  <2>1. SUFFICES ASSUME Marked(p, 1)' PROVE Mark(p, 1)' = x
    BY DEF Meet, Meets
  <2>2. Marked(p, 1 + 1) /\ Mark(p, 1)' = Mark(p, 1 + 1)
    BY <1>1, <1>4, <2>1
  <2>3. Mark(p, 1 + 1) = Past(link[p][1])
    BY <1>1, <2>2 DEF Stream, Chain
  <2> QED
    BY <1>1, <2>2, <2>3
<1>7. Settled(p)'
  <2>1. ~Dead(p)' /\ WStage(p)' = 0 => ~Dead(p) /\ WStage(p) = 0
    <3>1. /\ WEpoch(p) \in Nat /\ WStage(p) \in {0, 1, 2} /\ Written(p) = 3 * WEpoch(p) + WStage(p)
          /\ WEpoch(p)' \in Nat /\ WStage(p)' \in {0, 1, 2} /\ Written(p)' = 3 * WEpoch(p)' + WStage(p)'
      BY EndFacts, NextFacts DEF Written
    <3> QED
      BY <3>1 DEF Stays
  <2>2. SUFFICES ASSUME ~Dead(p)', WStage(p)' = 0, NEW i \in 1..(n - 1), link'[p][i].t \in InKex
                 PROVE  \E k \in (i + 1)..(n - 1) : link'[p][k].t = "newKeys"
    BY <1>1 DEF Settled
  <2>3. PICK k \in (i + 2)..n : link[p][k].t = "newKeys"
    <3>1. \E k \in ((i + 1) + 1)..n : link[p][k].t = "newKeys"
      BY <1>1, <1>2, <2>1, <2>2 DEF Stream, Settled
    <3> QED
      BY <1>1, <3>1
  <2>4. k - 1 \in (i + 1)..(n - 1) /\ k - 1 \in 1..(n - 1) /\ (k - 1) + 1 = k
    BY <1>1, <2>3
  <2> QED
    BY <1>1, <2>3, <2>4
<1>8. Silence(p)'
  <2>1. SUFFICES ASSUME NEW i \in 1..(n - 1), NEW j \in 1..(n - 1), i < j,
                        link'[p][i].t \in InKex, link'[p][j].t = "data"
                 PROVE  \E k \in i..j : link'[p][k].t = "newKeys"
    BY <1>1 DEF Silence
  <2>2. PICK k \in (i + 1)..(j + 1) : link[p][k].t = "newKeys"
    <3>1. i + 1 < j + 1 /\ i + 1 \in 1..n /\ j + 1 \in 1..n
      BY <1>2, <2>1
    <3> QED
      BY <1>1, <2>1, <3>1 DEF Stream, Silence
  <2>3. k - 1 \in i..j /\ k - 1 \in 1..(n - 1) /\ (k - 1) + 1 = k
    BY <1>1, <2>2
  <2> QED
    BY <1>1, <2>2, <2>3
<1> QED
  BY <1>3, <1>5, <1>6, <1>7, <1>8 DEF Stream

-----------------------------------------------------------------------------
(* The types after a step, in which p may change its own records.          *)

HsOK(p) == /\ hs' = [q \in Peers |-> hs'[q]] /\ \A q \in Peers : HsShape(hs'[q]) /\ hs'[q].inits \in Nat
           /\ hs'[Other(p)] = hs[Other(p)]
RlOK(p) == /\ rl' = [q \in Peers |-> rl'[q]] /\ \A q \in Peers : RlShape(rl'[q]) /\ rl'[q].pc \in Steps
           /\ rl'[Other(p)] = rl[Other(p)]

(* p's handshakeTransport is replaced.                                     *)
LEMMA HsType ==
    ASSUME TypeOK, NEW p \in Peers, NEW r, HsShape(r), r.inits \in Nat, hs' = [hs EXCEPT ![p] = r]
    PROVE  HsOK(p) /\ hs'[p] = r
<1>1. hs'[p] = r /\ \A q \in Peers \ {p} : hs'[q] = hs[q]
  BY DEF TypeOK
<1>2. hs' = [q \in Peers |-> hs'[q]]
  BY DEF TypeOK
<1>3. \A q \in Peers \ {p} : HsShape(hs[q]) /\ hs[q].inits \in Nat
  BY DEF TypeOK
<1>4. ASSUME NEW q \in Peers PROVE HsShape(hs'[q]) /\ hs'[q].inits \in Nat
  <2>1. CASE q = p
    BY <1>1, <2>1
  <2>2. CASE q # p
    BY <1>1, <1>3, <2>2
  <2> QED
    BY <2>1, <2>2
<1> QED
  BY <1>1, <1>2, <1>4, PeerFacts DEF HsOK

(* The state of p's readLoop is replaced.                                  *)
LEMMA RlType ==
    ASSUME TypeOK, NEW p \in Peers, NEW r, RlShape(r), r.pc \in Steps, rl' = [rl EXCEPT ![p] = r]
    PROVE  RlOK(p) /\ rl'[p] = r
<1>1. rl'[p] = r /\ \A q \in Peers \ {p} : rl'[q] = rl[q]
  BY DEF TypeOK
<1>2. rl' = [q \in Peers |-> rl'[q]]
  BY DEF TypeOK
<1>3. \A q \in Peers \ {p} : RlShape(rl[q]) /\ rl[q].pc \in Steps
  BY DEF TypeOK
<1>4. ASSUME NEW q \in Peers PROVE RlShape(rl'[q]) /\ rl'[q].pc \in Steps
  <2>1. CASE q = p
    BY <1>1, <2>1
  <2>2. CASE q # p
    BY <1>1, <1>3, <2>2
  <2> QED
    BY <2>1, <2>2
<1> QED
  BY <1>1, <1>2, <1>4, PeerFacts DEF RlOK

(* readLoop moves to another place, with or without a result.              *)
LEMMA LoopType ==
    ASSUME TypeOK, NEW p \in Peers, NEW to \in Steps, rl' = [rl EXCEPT ![p].pc = to]
    PROVE  RlOK(p) /\ rl'[p].pc = to /\ rl'[p].theirs = rl[p].theirs /\ rl'[p].err = rl[p].err
<1> DEFINE r == [rl[p] EXCEPT !.pc = to]
<1>1. rl' = [rl EXCEPT ![p] = r]
  OBVIOUS
<1>2. RlShape(rl[p])
  BY DEF TypeOK
<1>3. RlShape(r) /\ r.pc = to /\ r.theirs = rl[p].theirs /\ r.err = rl[p].err
  BY <1>2 DEF RlShape
<1> HIDE DEF r
<1> QED
  BY <1>1, <1>3, RlType

(* It leaves an exchange, or enters it, with or without an error.          *)
LEMMA ResultType ==
    ASSUME TypeOK, NEW p \in Peers, NEW to \in Steps, NEW e,
           rl' = [rl EXCEPT ![p].pc = to, ![p].err = e] \/ rl' = [rl EXCEPT ![p].err = e, ![p].pc = to]
    PROVE  RlOK(p) /\ rl'[p].pc = to /\ rl'[p].theirs = rl[p].theirs /\ rl'[p].err = e
<1>1. PICK r : /\ rl' = [rl EXCEPT ![p] = r]
               /\ r = [rl[p] EXCEPT !.pc = to, !.err = e] \/ r = [rl[p] EXCEPT !.err = e, !.pc = to]
  <2>1. rl[p] = [pc |-> rl[p].pc, pkt |-> rl[p].pkt, theirs |-> rl[p].theirs, err |-> rl[p].err]
    BY DEF TypeOK, RlShape
  <2>2. rl = [q \in Peers |-> rl[q]]
    BY DEF TypeOK
  <2> QED
    BY <2>1, <2>2
<1>2. RlShape(rl[p])
  BY DEF TypeOK
<1>3. RlShape(r) /\ r.pc = to /\ r.theirs = rl[p].theirs /\ r.err = e
  BY <1>1, <1>2 DEF RlShape
<1> QED
  BY <1>1, <1>3, RlType

(* Packets are written at one end of a link.                               *)
LEMMA WriteType ==
    ASSUME TypeOK, NEW p \in Peers, NEW m \in Message, NEW s, s = Append(link[p], m),
           link' = [link EXCEPT ![p] = s]
    PROVE  /\ link' \in [Peers -> Seq(Message)]
           /\ link'[p] = Append(link[p], m) /\ link'[Other(p)] = link[Other(p)]
<1>1. Append(link[p], m) \in Seq(Message)
  BY EndFacts, AppendProperties
<1>2. link' \in [Peers -> Seq(Message)]
  BY <1>1 DEF TypeOK
<1>3. link'[p] = Append(link[p], m) /\ link'[Other(p)] = link[Other(p)]
  BY PeerFacts DEF TypeOK
<1> QED
  BY <1>2, <1>3

(* And read at the other.                                                  *)
LEMMA ReadType ==
    ASSUME TypeOK, NEW p \in Peers, Read(p)
    PROVE  /\ link' \in [Peers -> Seq(Message)] /\ link[Other(p)] # <<>>
           /\ link'[Other(p)] = Tail(link[Other(p)]) /\ link'[p] = link[p] /\ Next1(p) \in Message
<1>1. link[Other(p)] \in Seq(Message) /\ link[Other(p)] # <<>> /\ Other(p) \in Peers /\ Other(p) # p
  BY PeerFacts DEF TypeOK, Read
<1>2. Tail(link[Other(p)]) \in Seq(Message) /\ Head(link[Other(p)]) \in Message
  BY <1>1, HeadTailProperties, EmptySeq
<1>3. link' \in [Peers -> Seq(Message)]
  BY <1>1, <1>2 DEF TypeOK, Read
<1>4. link'[Other(p)] = Tail(link[Other(p)]) /\ link'[p] = link[p]
  BY <1>1 DEF TypeOK, Read
<1> QED
  BY <1>1, <1>2, <1>3, <1>4 DEF Next1

-----------------------------------------------------------------------------
(* Kinds of steps.                                                         *)

(* A step in which end q has no part, except that it may be closed.        *)
Fixed(q) == /\ tr'[q] = tr[q] /\ hs'[q].sentInit = hs[q].sentInit /\ hs'[q].inits = hs[q].inits
            /\ rl'[q] = rl[q]
Closes == \A q \in Peers : down[q] => down'[q]

(* Nothing changes for the stream it writes and the one it reads.          *)
LEMMA FixedEnd ==
    ASSUME NEW q \in Peers, End(q), Fixed(q), Closes
    PROVE  End(q)' /\ Stays(q) /\ Reads(q)
<1>1. WEpoch(q)' = WEpoch(q) /\ REpoch(q)' = REpoch(q) /\ (Failed(q)' <=> Failed(q))
  BY DEF Fixed, WEpoch, REpoch, Failed
<1>2. Written(q)' = Written(q) /\ ReadUpTo(q)' = ReadUpTo(q)
  BY <1>1 DEF Fixed, Written, WStage, ReadUpTo, RStage
<1>3. Agreed(q)'
  BY <1>1 DEF End, Agreed, Fixed
<1>4. Counts(q)'
  BY <1>1 DEF End, Counts, Fixed, Closes
<1>5. Stays(q)
  BY <1>1, <1>2 DEF Stays, Dead, Fixed, Closes
<1>6. Reads(q)
  BY <1>1, <1>2 DEF Reads, Meets, Fixed
<1> QED
  BY <1>3, <1>4, <1>5, <1>6 DEF End

(* All that is to be shown of a step of p.                                 *)
LEMMA StepInv ==
    ASSUME NEW p \in Peers, TypeOK', End(p)', End(Other(p))', Stream(p)', Stream(Other(p))'
    PROVE  Inv'
<1>1. ASSUME NEW q \in Peers PROVE End(q)' /\ Stream(q)'
  <2>1. CASE q = p
    BY <2>1
  <2>2. CASE q = Other(p)
    BY <2>2
  <2> QED
    BY <2>1, <2>2, PeerFacts
<1> QED
  BY <1>1 DEF Inv

(* Neither link changes: the invariant is a matter of end p.               *)
LEMMA AloneInv ==
    ASSUME Inv, TypeOK', NEW p \in Peers, link' = link, Fixed(Other(p)), Closes, End(p)', Stays(p), Reads(p)
    PROVE  Inv'
<1>1. Other(p) \in Peers /\ Other(Other(p)) = p
  BY PeerFacts
<1>2. End(Other(p))' /\ Stays(Other(p)) /\ Reads(Other(p))
  BY <1>1, FixedEnd DEF Inv
<1>3. Stream(p)'
  BY <1>2, StayStream DEF Inv
<1>4. Stream(Other(p))'
  BY <1>1, <1>2, StayStream DEF Inv
<1> QED
  BY <1>2, <1>3, <1>4, StepInv

(* End p writes m.                                                         *)
LEMMA WriteInv ==
    ASSUME Inv, TypeOK', NEW p \in Peers, Fixed(Other(p)), Closes, NEW m \in Message,
           ~Dead(p), link'[p] = Append(link[p], m), link'[Other(p)] = link[Other(p)],
           m.key = tr[p].wkey, m.t = "kexInit" => m.arg = WEpoch(p) + 1,
           Stage(m.t) = WStage(p), ~Dead(p)' => Written(p)' = Past(m),
           End(p)', Reads(p)
    PROVE  Inv'
<1>1. Other(p) \in Peers /\ Other(Other(p)) = p
  BY PeerFacts
<1>2. End(Other(p))' /\ Stays(Other(p)) /\ Reads(Other(p))
  BY <1>1, FixedEnd DEF Inv
<1>3. Due(m) = Written(p) /\ Epoch(m.key) = WEpoch(p)
  BY DEF Due, Written, WEpoch
<1>4. m.key = KeyAt(Epoch(m.key), p)
  BY <1>3 DEF Inv, End, Agreed
<1>5. Stream(p)'
  BY <1>2, <1>3, <1>4, SendStream DEF Inv
<1>6. Stream(Other(p))'
  BY <1>1, <1>2, StayStream DEF Inv
<1> QED
  BY <1>2, <1>5, <1>6, StepInv

(* End p reads a packet; what it knows of it.                              *)
LEMMA ReadFacts ==
    ASSUME Inv, NEW p \in Peers, link[Other(p)] # <<>>, ~Failed(p), rl[p].pc # "exited"
    PROVE  /\ Next1(p) \in Message /\ Due(Next1(p)) = ReadUpTo(p)
           /\ Epoch(Next1(p).key) = REpoch(p) /\ Stage(Next1(p).t) = RStage(p)
           /\ Next1(p).key = tr[p].rkey
           /\ Next1(p).t = "kexInit" => Next1(p).arg = REpoch(p) + 1
<1> DEFINE q == Other(p)
           m == Next1(p)
<1>1. q \in Peers /\ Other(q) = p /\ TypeOK /\ Stream(q) /\ End(p)
  BY PeerFacts DEF Inv
<1>2. link[q] \in Seq(Message) /\ 1 \in 1..Len(link[q]) /\ m = link[q][1] /\ m \in Message
  BY <1>1, EmptySeq, HeadTailProperties, EndFacts DEF Next1
<1>3. Due(m) = ReadUpTo(p)
  BY <1>1, <1>2 DEF Stream, Meet, Meets, Marked, Mark
<1>4. /\ Epoch(m.key) \in Nat /\ Stage(m.t) \in {0, 1, 2} /\ REpoch(p) \in Nat /\ RStage(p) \in {0, 1, 2}
  BY <1>1, <1>2, MessageFacts, EndFacts
<1>5. Epoch(m.key) = REpoch(p) /\ Stage(m.t) = RStage(p)
  BY <1>3, <1>4 DEF Due, ReadUpTo
<1>6. m.key = KeyAt(Epoch(m.key), q) /\ (m.t = "kexInit" => m.arg = Epoch(m.key) + 1)
  BY <1>1, <1>2 DEF Stream, Formed
<1>7. tr[p].rkey = KeyAt(REpoch(p), q)
  BY <1>1 DEF End, Agreed
<1> QED
  BY <1>2, <1>3, <1>5, <1>6, <1>7

(* Afterwards p is ready for what follows.                                 *)
LEMMA ReadInv ==
    ASSUME Inv, TypeOK', NEW p \in Peers, Fixed(Other(p)), Closes, link[Other(p)] # <<>>,
           link'[Other(p)] = Tail(link[Other(p)]), link'[p] = link[p],
           End(p)', Stays(p), NEW x, x = Past(Next1(p)), Meets(p, x)'
    PROVE  Inv'
<1>1. Other(p) \in Peers /\ Other(Other(p)) = p
  BY PeerFacts
<1>2. End(Other(p))' /\ Stays(Other(p)) /\ Reads(Other(p))
  BY <1>1, FixedEnd DEF Inv
<1>3. Stream(Other(p))'
  BY <1>1, <1>2, TakeStream DEF Inv, Next1
<1>4. Stream(p)'
  BY <1>2, StayStream DEF Inv
<1> QED
  BY <1>2, <1>3, <1>4, StepInv

-----------------------------------------------------------------------------
(* Steps between exchanges, or with no effect on them.                     *)
Calm == {"check", "request", "read", "push"}
Kept(p) == tr'[p] = tr[p] /\ hs'[p].sentInit = hs[p].sentInit /\ hs'[p].inits = hs[p].inits

(* They preserve the invariant.                                            *)
LEMMA CalmInv ==
    ASSUME Inv, TypeOK', NEW p \in Peers, link' = link, Fixed(Other(p)), Closes, Kept(p),
           rl'[p].theirs = rl[p].theirs, rl'[p].err = rl[p].err,
           rl'[p].pc = rl[p].pc \/ (rl[p].pc \in Calm /\ rl'[p].pc \in Calm)
    PROVE  Inv'
<1>1. End(p)
  BY DEF Inv
<1>2. WEpoch(p)' = WEpoch(p) /\ REpoch(p)' = REpoch(p) /\ (Failed(p)' <=> Failed(p))
  BY DEF Kept, WEpoch, REpoch, Failed, Calm
<1>3. Written(p)' = Written(p) /\ ReadUpTo(p)' = ReadUpTo(p)
  BY <1>2 DEF Kept, Written, WStage, ReadUpTo, RStage, Calm
<1>4. Agreed(p)'
  BY <1>1, <1>2 DEF End, Agreed, Kept
<1>5. Counts(p)'
  BY <1>1, <1>2 DEF End, Counts, Kept, Closes, Calm, Between
<1>6. Stays(p)
  BY <1>2, <1>3 DEF Stays, Dead, Kept, Closes
<1>7. Reads(p)
  BY <1>2, <1>3 DEF Reads, Meets, Calm
<1> QED
  BY <1>4, <1>5, <1>6, <1>7, AloneInv DEF End

(* readLoop ends.                                                          *)
LEMMA StopEnd ==
    ASSUME Inv, TypeOK', NEW p \in Peers, Kept(p), Closes, rl[p].pc \in Calm, rl'[p].pc = "exited"
    PROVE  End(p)' /\ Stays(p) /\ \A x : Meets(p, x)'
<1>1. End(p)
  BY DEF Inv
<1>2. WEpoch(p)' = WEpoch(p) /\ REpoch(p)' = REpoch(p) /\ ~Failed(p)' /\ ~Failed(p)
  BY DEF Kept, WEpoch, REpoch, Failed, Calm
<1>3. Written(p)' = Written(p)
  BY <1>2 DEF Kept, Written, WStage, Calm
<1>4. Agreed(p)'
  BY <1>1, <1>2 DEF End, Agreed, Kept
<1>5. Counts(p)'
  BY <1>1, <1>2 DEF End, Counts, Kept, Calm, Between
<1>6. Stays(p)
  BY <1>2, <1>3 DEF Stays, Dead, Closes
<1>7. \A x : Meets(p, x)'
  BY <1>2 DEF Meets
<1> QED
  BY <1>4, <1>5, <1>6, <1>7 DEF End

(* What is known of an end that has not sent its kexInit.                  *)
LEMMA OpenFacts ==
    ASSUME Inv, NEW p \in Peers, hs[p].sentInit = 0, ~down[p]
    PROVE  /\ hs[p].inits = WEpoch(p) /\ ~Dead(p) /\ WStage(p) = 0
           /\ rl[p].pc \in Between \cup {"exited"} \/ Failed(p)
           /\ ~Failed(p) => REpoch(p) = WEpoch(p)
<1>1. End(p) /\ WEpoch(p) \in Nat /\ REpoch(p) \in Nat /\ rl[p].pc \in Steps
  BY EndFacts DEF Inv, TypeOK
<1>2. rl[p].pc \in Between \cup {"exited"} \/ Failed(p)
  BY <1>1 DEF End, Counts, Failed, Steps, Between
<1>3. hs[p].inits = WEpoch(p) /\ (~Failed(p) => REpoch(p) = WEpoch(p))
  BY <1>1, <1>2 DEF End, Counts
<1> QED
  BY <1>2, <1>3 DEF Dead, WStage

(* A packet of data is written.                                            *)
LEMMA DataInv ==
    ASSUME Inv, TypeOK', NEW p \in Peers, Fixed(p), Fixed(Other(p)), Closes, ~down[p], hs[p].sentInit = 0,
           link' = [link EXCEPT ![p] = Append(@, Packet(p, "data", None))]
    PROVE  Inv'
<1>a. PICK m : m = Packet(p, "data", None)
  OBVIOUS
<1>1. TypeOK /\ End(p)
  BY DEF Inv
<1>2. "data" \in Kinds /\ "data" # "kexInit" /\ None \in Hashes
  BY DEF Kinds, None, Hashes
<1>3. /\ m \in Message /\ link'[p] = Append(link[p], m) /\ link'[Other(p)] = link[Other(p)]
      /\ m.t = "data" /\ m.key = tr[p].wkey
  <2>1. m.t = "data" /\ m.key = tr[p].wkey
    BY <1>1, <1>2, <1>a DEF Packet
  <2>2. m = [t |-> "data", arg |-> None, key |-> tr[p].wkey] /\ tr[p].wkey \in Keys
    BY <1>1, <1>a DEF TypeOK, Transport, Packet
  <2>3. m \in Message
    BY <1>2, <2>2 DEF Message, Kinds
  <2>4. PICK s : s = Append(link[p], m)
    OBVIOUS
  <2>5. link' = [link EXCEPT ![p] = s]
    BY <1>a, <2>4
  <2>6. link'[p] = Append(link[p], m) /\ link'[Other(p)] = link[Other(p)]
    BY <1>1, <2>3, <2>4, <2>5, WriteType
  <2> QED
    BY <2>1, <2>3, <2>6
<1>4. ~Dead(p) /\ WStage(p) = 0
  BY OpenFacts
<1>5. End(p)' /\ Stays(p) /\ Reads(p)
  BY <1>1, FixedEnd
<1>6. Stage(m.t) = 0 /\ Past(m) = Written(p)
  BY <1>3, <1>4 DEF Past, Due, Stage, Written, WEpoch
<1> QED
  BY <1>3, <1>4, <1>5, <1>6, WriteInv DEF Stays

Entered(p) == IF p = "client" THEN "dhInit" ELSE "dhWait"

(* The kexInit is written: by a writer or the first request, wherever      *)
(* readLoop is, or by readLoop on its way into the exchange.               *)
LEMMA KexInitInv ==
    ASSUME Inv, TypeOK', NEW p \in Peers, Fixed(Other(p)), Closes, ~down[p], hs[p].sentInit = 0,
           link' = [link EXCEPT ![p] = Append(@, Packet(p, "kexInit", hs[p].inits + 1))],
           tr'[p] = tr[p], hs'[p].sentInit = hs[p].inits + 1, hs'[p].inits = hs[p].inits + 1,
           rl'[p].theirs = rl[p].theirs,
           \/ rl'[p] = rl[p]
           \/ rl[p].pc = "request" /\ rl'[p].pc = "read"
           \/ rl[p].pc = "enter" /\ rl'[p].pc = Entered(p)
    PROVE  Inv'
<1>a. PICK m : m = Packet(p, "kexInit", hs[p].inits + 1)
  OBVIOUS
<1>1. TypeOK /\ End(p) /\ WEpoch(p) \in Nat /\ REpoch(p) \in Nat
  BY EndFacts DEF Inv
<1>2. /\ hs[p].inits = WEpoch(p) /\ ~Dead(p) /\ WStage(p) = 0
      /\ rl[p].pc \in Between \cup {"exited"} \/ Failed(p)
      /\ ~Failed(p) => REpoch(p) = WEpoch(p)
  BY OpenFacts
<1>3. "kexInit" \in Kinds /\ hs[p].inits + 1 \in Nat
  BY <1>1, <1>2 DEF Kinds
<1>4. /\ m \in Message /\ link'[p] = Append(link[p], m) /\ link'[Other(p)] = link[Other(p)]
      /\ m.t = "kexInit" /\ m.arg = WEpoch(p) + 1 /\ m.key = tr[p].wkey
  <2>1. m.t = "kexInit" /\ m.arg = WEpoch(p) + 1 /\ m.key = tr[p].wkey
    BY <1>1, <1>2, <1>a DEF Packet
  <2>2. m = [t |-> "kexInit", arg |-> hs[p].inits + 1, key |-> tr[p].wkey] /\ tr[p].wkey \in Keys
    BY <1>1, <1>a DEF TypeOK, Transport, Packet
  <2>3. m \in Message
    BY <1>3, <2>2 DEF Message, Kinds
  <2>4. PICK s : s = Append(link[p], m)
    OBVIOUS
  <2>5. link' = [link EXCEPT ![p] = s]
    BY <1>a, <2>4
  <2>6. link'[p] = Append(link[p], m) /\ link'[Other(p)] = link[Other(p)]
    BY <1>1, <2>3, <2>4, <2>5, WriteType, ZenonT(60)
  <2> QED
    BY <2>1, <2>3, <2>6
<1>5. WEpoch(p)' = WEpoch(p) /\ REpoch(p)' = REpoch(p)
  BY DEF WEpoch, REpoch
<1>6. Agreed(p)'
  BY <1>1, <1>2, <1>5 DEF End, Agreed
<1>7. Counts(p)'
  <2>1. CASE rl'[p] = rl[p]
    BY <1>1, <1>2, <1>5, <2>1 DEF End, Counts, Between, Failed
  <2>2. CASE rl[p].pc = "request" /\ rl'[p].pc = "read"
    BY <1>1, <1>2, <1>5, <2>2 DEF End, Counts, Between, Failed
  <2>3. CASE rl[p].pc = "enter" /\ rl'[p].pc = Entered(p)
    BY <1>1, <1>2, <1>5, <2>3 DEF End, Counts, Between, Failed, Entered
  <2> QED
    BY <2>1, <2>2, <2>3
<1>8. Reads(p)
  <2>1. CASE rl'[p] = rl[p]
    BY <1>5, <2>1 DEF Reads, Meets, Failed, ReadUpTo, RStage
  <2>2. CASE rl[p].pc = "request" /\ rl'[p].pc = "read"
    BY <1>5, <2>2 DEF Reads, Meets, Failed, ReadUpTo, RStage
  <2>3. CASE rl[p].pc = "enter" /\ rl'[p].pc = Entered(p)
    BY <1>5, <2>3 DEF Reads, Meets, Failed, ReadUpTo, RStage, Entered
  <2> QED
    BY <2>1, <2>2, <2>3
<1>9. Stage(m.t) = 0 /\ Past(m) = 3 * WEpoch(p) + 1
  BY <1>1, <1>4 DEF Past, Due, Stage, WEpoch
<1>10. ~Dead(p)' => WStage(p)' = 1
  <2>1. SUFFICES ASSUME ~Dead(p)' PROVE WStage(p)' = 1
    OBVIOUS
  <2>2. hs'[p].sentInit # 0 /\ WEpoch(p)' # hs'[p].inits
    BY <1>1, <1>2, <1>5
  <2>3. ~Failed(p)'
    BY <2>1, <2>2 DEF Dead
  <2>4. rl'[p].pc # "ready" /\ ~(p = "client" /\ rl'[p].pc = "dhWait")
    BY <1>2, <2>3 DEF Entered, Between, Failed
  <2> QED
    BY <2>2, <2>4 DEF WStage
<1>11. ~Dead(p)' => Written(p)' = Past(m)
  BY <1>5, <1>9, <1>10 DEF Written
<1> QED
  BY <1>2, <1>4, <1>6, <1>7, <1>8, <1>9, <1>11, WriteInv DEF End

(* readLoop enters the exchange, having sent the kexInit before.           *)
LEMMA EnterInv ==
    ASSUME Inv, TypeOK', NEW p \in Peers, link' = link, Fixed(Other(p)), Closes, Kept(p), hs[p].sentInit # 0,
           rl'[p].theirs = rl[p].theirs, rl[p].pc = "enter", rl'[p].pc = Entered(p)
    PROVE  Inv'
<1>1. End(p) /\ WEpoch(p) \in Nat /\ REpoch(p) \in Nat
  BY EndFacts DEF Inv
<1>2. WEpoch(p)' = WEpoch(p) /\ REpoch(p)' = REpoch(p) /\ ~Failed(p)' /\ ~Failed(p)
  BY DEF Kept, WEpoch, REpoch, Failed, Entered
<1>3. ReadUpTo(p)' = ReadUpTo(p)
  BY <1>2 DEF ReadUpTo, RStage, Entered
<1>4. Agreed(p)'
  BY <1>1, <1>2 DEF End, Agreed, Kept
<1>5. Counts(p)'
  BY <1>1, <1>2 DEF End, Counts, Agreed, Kept, Between, Entered
<1>6. Written(p)' = Written(p)
  BY <1>1, <1>2 DEF Kept, Written, WStage, Entered
<1>7. Stays(p)
  BY <1>2, <1>6 DEF Stays, Dead, Closes
<1>8. Reads(p)
  BY <1>2, <1>3 DEF Reads, Meets, Entered
<1> QED
  BY <1>4, <1>5, <1>7, <1>8, AloneInv DEF End

(* An exchange fails.                                                      *)
LEMMA FailInv ==
    ASSUME Inv, TypeOK', NEW p \in Peers, link' = link, Fixed(Other(p)), Closes, Kept(p),
           rl[p].pc \in {"dhInit", "dhWait", "ready", "newKeys"} \/ (rl[p].pc = "enter" /\ hs[p].sentInit = 0),
           rl'[p].pc = "finish", rl'[p].err
    PROVE  Inv'
<1>1. End(p) /\ WEpoch(p) \in Nat /\ REpoch(p) \in Nat
  BY EndFacts DEF Inv
<1>2. WEpoch(p)' = WEpoch(p) /\ REpoch(p)' = REpoch(p) /\ Failed(p)' /\ ~Failed(p)
  BY DEF Kept, WEpoch, REpoch, Failed
<1>3. Agreed(p)'
  BY <1>1, <1>2 DEF End, Agreed, Kept
<1>4. Counts(p)'
  BY <1>1, <1>2 DEF End, Counts, Kept, Between
<1>5. rl[p].pc # "enter" => hs[p].sentInit # 0
  BY <1>1 DEF End, Counts
<1>6. Stays(p)
  BY <1>2, <1>5 DEF Stays, Dead, Closes, Kept, Written, WStage
<1>7. Reads(p)
  BY <1>1, <1>2 DEF Reads, Meets, ReadUpTo, RStage
<1> QED
  BY <1>3, <1>4, <1>6, <1>7, AloneInv DEF End

-----------------------------------------------------------------------------
(* The steps of handshakeTransport, one by one.                            *)

(* The fields that the invariant does not speak of.                        *)
LEMMA MinorType ==
    ASSUME TypeOK, NEW p \in Peers, NEW v,
           \/ hs' = [hs EXCEPT ![p].read = v]
           \/ hs' = [hs EXCEPT ![p].incoming = v]
           \/ hs' = [hs EXCEPT ![p] = [hs[p] EXCEPT !.closed = v]]
           \/ hs' = [hs EXCEPT ![p] = [hs[p] EXCEPT !.mu = v]]
           \/ hs' = [hs EXCEPT ![p] = [hs[p] EXCEPT !.written = v]]
    PROVE  HsOK(p) /\ hs'[p].sentInit = hs[p].sentInit /\ hs'[p].inits = hs[p].inits
<1>1. HsShape(hs[p]) /\ hs[p].inits \in Nat
  BY DEF TypeOK
<1>2. PICK r : /\ hs' = [hs EXCEPT ![p] = r]
               /\ \/ r = [hs[p] EXCEPT !.read = v] \/ r = [hs[p] EXCEPT !.incoming = v]
                  \/ r = [hs[p] EXCEPT !.closed = v] \/ r = [hs[p] EXCEPT !.mu = v]
                  \/ r = [hs[p] EXCEPT !.written = v]
  OBVIOUS
<1>3. HsShape(r) /\ r.sentInit = hs[p].sentInit /\ r.inits = hs[p].inits
  BY <1>1, <1>2 DEF HsShape
<1> QED
  BY <1>1, <1>2, <1>3, HsType

(* The links, when p writes one of the packets whose contents are fixed.   *)
LEMMA PacketType ==
    ASSUME TypeOK, NEW p \in Peers, NEW m,
           m = Packet(p, "data", None) \/ m = Packet(p, "dhInit", None) \/ m = Packet(p, "newKeys", None),
           link' = [link EXCEPT ![p] = Append(@, m)]
    PROVE  /\ link' \in [Peers -> Seq(Message)] /\ m \in Message
           /\ link'[p] = Append(link[p], m) /\ link'[Other(p)] = link[Other(p)]
<1>1. tr[p].wkey \in Keys /\ None \in Hashes
  BY DEF TypeOK, Transport, None, Hashes
<1>2. m \in Message
  BY <1>1 DEF Packet, Message, Kinds
<1>3. PICK s : s = Append(link[p], m)
  OBVIOUS
<1>4. link' = [link EXCEPT ![p] = s]
  BY <1>3
<1> QED
  BY <1>2, <1>3, <1>4, WriteType

SendsKexInit(p) ==
    /\ ~down[p] /\ hs[p].sentInit = 0
    /\ link' = [link EXCEPT ![p] = Append(@, Packet(p, "kexInit", hs[p].inits + 1))]

(* sendKexInitLocked sends the kexInit, or does nothing.                   *)
LEMMA SendKexInit ==
    ASSUME TypeOK, NEW p \in Peers, NEW ok, NEW new, sendKexInitLocked(p, ok, new)
    PROVE  /\ HsShape(new) /\ new.inits \in Nat /\ link' \in [Peers -> Seq(Message)]
           /\ \/ link' = link /\ new = hs[p] /\ (ok <=> hs[p].sentInit # 0)
              \/ ok /\ SendsKexInit(p) /\ new.sentInit = hs[p].inits + 1 /\ new.inits = hs[p].inits + 1
<1>1. HsShape(hs[p]) /\ hs[p].inits \in Nat /\ link \in [Peers -> Seq(Message)]
  BY DEF TypeOK
<1>2. CASE link' = link /\ new = hs[p] /\ (ok <=> hs[p].sentInit # 0)
  BY <1>1, <1>2
<1>3. CASE /\ hs[p].sentInit = 0
           /\ ok /\ new = [hs[p] EXCEPT !.sentInit = hs[p].inits + 1, !.inits = hs[p].inits + 1]
           /\ Write(p, "kexInit", hs[p].inits + 1)
  <2>1. HsShape(new) /\ new.sentInit = hs[p].inits + 1 /\ new.inits = hs[p].inits + 1
    BY <1>1, <1>3 DEF HsShape
  <2>2. new.inits \in Nat
    BY <1>1, <2>1
  <2>3. PICK m : m = Packet(p, "kexInit", hs[p].inits + 1)
    OBVIOUS
  <2>4. tr[p].wkey \in Keys
    BY DEF TypeOK, Transport
  <2>5. m \in Message
    BY <1>1, <2>3, <2>4 DEF Packet, Message
  <2>6. PICK s : s = Append(link[p], m)
    OBVIOUS
  <2>7. link' = [link EXCEPT ![p] = s]
    BY <1>3, <2>3, <2>6 DEF Write
  <2>8. link' \in [Peers -> Seq(Message)]
    BY <2>5, <2>6, <2>7, WriteType
  <2> QED
    BY <1>3, <2>1, <2>2, <2>8 DEF SendsKexInit, Write
<1> QED
  BY <1>2, <1>3 DEF sendKexInitLocked

(* The frame of a step of p that changes no keys.                          *)
LEMMA Frame ==
    ASSUME TypeOK, NEW p \in Peers, link' \in [Peers -> Seq(Message)], tr' = tr,
           HsOK(p) \/ hs' = hs, RlOK(p) \/ rl' = rl, down' = [q \in Peers |-> down'[q]]
    PROVE  TypeOK' /\ Fixed(Other(p))
BY DEF TypeOK, HsOK, RlOK, Fixed

(* No end is opened again.                                                 *)
LEMMA DownFrame ==
    ASSUME TypeOK, NEW p \in Peers, NEW b, down' = down \/ down' = [down EXCEPT ![p] = b], down[p] => b
    PROVE  down' = [q \in Peers |-> down'[q]] /\ Closes
BY DEF TypeOK, Closes

(* The top of readOnePacket.                                               *)
LEMMA CheckThresholdInv == ASSUME Inv, NEW p \in Peers, CheckThreshold(p) PROVE Inv'
<1>1. PICK to : to \in {"request", "read"} /\ rl' = [rl EXCEPT ![p].pc = to]
  BY DEF CheckThreshold, Loop
<1>2. TypeOK /\ to \in Steps
  BY <1>1 DEF Inv, Steps
<1>3. RlOK(p) /\ rl'[p].pc = to /\ rl'[p].theirs = rl[p].theirs /\ rl'[p].err = rl[p].err
  BY <1>1, <1>2, LoopType
<1>4. link' = link /\ down' = down /\ tr' = tr /\ hs' = hs
  BY DEF CheckThreshold
<1>5. TypeOK' /\ Fixed(Other(p)) /\ Closes
  BY <1>2, <1>3, <1>4, Frame, DownFrame DEF TypeOK
<1>6. rl[p].pc \in Calm /\ rl'[p].pc \in Calm /\ Kept(p)
  BY <1>1, <1>3, <1>4 DEF CheckThreshold, Loop, Calm, Kept
<1> QED
  BY <1>3, <1>4, <1>5, <1>6, CalmInv

(* t.incoming <- p.                                                        *)
LEMMA PushInv == ASSUME Inv, NEW p \in Peers, Push(p) PROVE Inv'
<1>1. TypeOK /\ "check" \in Steps /\ rl' = [rl EXCEPT ![p].pc = "check"] /\ rl[p].pc = "push"
  BY DEF Inv, Steps, Push, Loop
<1>2. RlOK(p) /\ rl'[p].pc = "check" /\ rl'[p].theirs = rl[p].theirs /\ rl'[p].err = rl[p].err
  BY <1>1, LoopType
<1>3. PICK v : hs' = [hs EXCEPT ![p].incoming = v]
  BY DEF Push
<1>4. HsOK(p) /\ hs'[p].sentInit = hs[p].sentInit /\ hs'[p].inits = hs[p].inits
  BY <1>1, <1>3, MinorType
<1>5. link' = link /\ down' = down /\ tr' = tr
  BY DEF Push
<1>6. TypeOK' /\ Fixed(Other(p)) /\ Closes
  BY <1>1, <1>2, <1>4, <1>5, Frame, DownFrame DEF TypeOK
<1>7. rl[p].pc \in Calm /\ rl'[p].pc \in Calm /\ Kept(p)
  BY <1>1, <1>2, <1>4, <1>5 DEF Calm, Kept
<1> QED
  BY <1>2, <1>5, <1>6, <1>7, CalmInv

(* requestKeyChange by readLoop.                                           *)
LEMMA RequestKeyChangeInv == ASSUME Inv, NEW p \in Peers, RequestKeyChange(p) PROVE Inv'
<1>1. PICK ok, new :
          /\ sendKexInitLocked(p, ok, new) /\ rl[p].pc = "request"
          /\ \/ ok /\ rl' = [rl EXCEPT ![p].pc = "read"] /\ hs' = [hs EXCEPT ![p] = new]
             \/ /\ ~ok /\ rl' = [rl EXCEPT ![p].pc = "exited"]
                /\ hs' = [hs EXCEPT ![p] = [new EXCEPT !.closed = TRUE]]
  BY DEF RequestKeyChange, Loop, Exit
<1>2. down' = down /\ tr' = tr /\ TypeOK /\ "read" \in Steps /\ "exited" \in Steps
  BY DEF RequestKeyChange, Inv, Steps
<1>3. /\ HsShape(new) /\ new.inits \in Nat /\ link' \in [Peers -> Seq(Message)]
      /\ \/ link' = link /\ new = hs[p] /\ (ok <=> hs[p].sentInit # 0)
         \/ ok /\ SendsKexInit(p) /\ new.sentInit = hs[p].inits + 1 /\ new.inits = hs[p].inits + 1
  BY <1>1, <1>2, SendKexInit
<1>4. CASE ok
  <2>1. RlOK(p) /\ rl'[p].pc = "read" /\ rl'[p].theirs = rl[p].theirs /\ rl'[p].err = rl[p].err
    BY <1>1, <1>2, <1>4, LoopType
  <2>2. HsOK(p) /\ hs'[p] = new
    BY <1>1, <1>2, <1>3, <1>4, HsType
  <2>3. TypeOK' /\ Fixed(Other(p)) /\ Closes
    BY <1>2, <1>3, <2>1, <2>2, Frame, DownFrame DEF TypeOK
  <2>4. CASE link' = link /\ new = hs[p]
    <3>1. Kept(p) /\ rl[p].pc \in Calm /\ rl'[p].pc \in Calm
      BY <1>1, <1>2, <2>1, <2>2, <2>4 DEF Kept, Calm
    <3> QED
      BY <2>1, <2>3, <2>4, <3>1, CalmInv
  <2>5. CASE SendsKexInit(p) /\ new.sentInit = hs[p].inits + 1 /\ new.inits = hs[p].inits + 1
    BY <1>1, <1>2, <2>1, <2>2, <2>3, <2>5, KexInitInv DEF SendsKexInit
  <2> QED
    BY <1>3, <2>4, <2>5
<1>5. CASE ~ok
  <2>1. RlOK(p) /\ rl'[p].pc = "exited" /\ rl'[p].theirs = rl[p].theirs /\ rl'[p].err = rl[p].err
    BY <1>1, <1>2, <1>5, LoopType
  <2>2. link' = link /\ hs' = [hs EXCEPT ![p] = [hs[p] EXCEPT !.closed = TRUE]]
    BY <1>1, <1>3, <1>5
  <2>3. HsOK(p) /\ hs'[p].sentInit = hs[p].sentInit /\ hs'[p].inits = hs[p].inits
    BY <1>2, <2>2, MinorType
  <2>4. TypeOK' /\ Fixed(Other(p)) /\ Closes /\ Kept(p)
    BY <1>2, <1>3, <2>1, <2>3, Frame, DownFrame DEF TypeOK, Kept
  <2>5. rl[p].pc \in Calm
    BY <1>1 DEF Calm
  <2>6. End(p)' /\ Stays(p) /\ \A x : Meets(p, x)'
    BY <2>1, <2>4, <2>5, StopEnd
  <2>7. Reads(p)
    BY <2>6 DEF Reads
  <2> QED
    BY <2>2, <2>4, <2>6, <2>7, AloneInv
<1> QED
  BY <1>4, <1>5

(* A packet of data is read.                                               *)
LEMMA ReadOtherInv == ASSUME Inv, NEW p \in Peers, ReadOther(p) PROVE Inv'
<1>1. TypeOK /\ rl[p].pc = "read" /\ Read(p) /\ Next1(p).t \notin {"kexInit", "newKeys"}
  BY DEF Inv, ReadOther
<1>2. down' = down /\ tr' = tr
  BY DEF ReadOther
<1>3. RlOK(p) /\ rl'[p].pc = "push" /\ rl'[p].theirs = rl[p].theirs /\ rl'[p].err = rl[p].err
  <2>1. RlShape(rl[p]) /\ rl = [q \in Peers |-> rl[q]] /\ "push" \in Steps
    BY <1>1 DEF TypeOK, Steps
  <2>2. PICK r : rl' = [rl EXCEPT ![p] = r] /\ r = [rl[p] EXCEPT !.pc = "push", !.pkt = Next1(p).t]
    BY <2>1 DEF ReadOther, RlShape
  <2>3. RlShape(r) /\ r.pc = "push" /\ r.theirs = rl[p].theirs /\ r.err = rl[p].err
    BY <2>1, <2>2 DEF RlShape
  <2> QED
    BY <1>1, <2>1, <2>2, <2>3, RlType
<1>4. HsOK(p) /\ hs'[p].sentInit = hs[p].sentInit /\ hs'[p].inits = hs[p].inits
  <2>1. PICK v : hs' = [hs EXCEPT ![p].read = v]
    BY DEF ReadOther
  <2> QED
    BY <1>1, <2>1, MinorType
<1>5. /\ link' \in [Peers -> Seq(Message)] /\ link[Other(p)] # <<>>
      /\ link'[Other(p)] = Tail(link[Other(p)]) /\ link'[p] = link[p] /\ Next1(p) \in Message
  BY <1>1, ReadType
<1>6. TypeOK' /\ Fixed(Other(p)) /\ Closes /\ Kept(p)
  BY <1>1, <1>2, <1>3, <1>4, <1>5, Frame, DownFrame DEF TypeOK, Kept
<1>7. ~Failed(p) /\ ~Failed(p)'
  BY <1>1, <1>3 DEF Failed
<1>8. Due(Next1(p)) = ReadUpTo(p) /\ Stage(Next1(p).t) = RStage(p) /\ Next1(p).t \in Kinds
  BY <1>1, <1>5, <1>7, ReadFacts, MessageFacts
<1>9. RStage(p) = 0 /\ RStage(p)' = 0
  BY <1>1, <1>3 DEF RStage
<1>10. Next1(p).t = "data"
  BY <1>1, <1>8, <1>9 DEF Stage, Kinds
<1>11. PICK x : x = Past(Next1(p))
  OBVIOUS
<1>12. WEpoch(p)' = WEpoch(p) /\ REpoch(p)' = REpoch(p)
  BY <1>2 DEF WEpoch, REpoch
<1>13. Meets(p, x)'
  BY <1>7, <1>8, <1>9, <1>10, <1>11, <1>12 DEF Past, Meets, ReadUpTo
<1>14. Stays(p)
  BY <1>1, <1>3, <1>6, <1>7, <1>12 DEF Stays, Dead, Closes, Kept, Written, WStage
<1>15. End(p)'
  <2>1. End(p)
    BY DEF Inv
  <2>2. Agreed(p)'
    BY <1>6, <1>12, <2>1 DEF End, Agreed, Kept
  <2>3. Counts(p)'
    BY <1>1, <1>3, <1>6, <1>7, <1>12, <2>1 DEF End, Counts, Kept, Between
  <2> QED
    BY <2>2, <2>3 DEF End
<1> QED
  BY <1>5, <1>6, <1>11, <1>13, <1>14, <1>15, ReadInv

(* A kexInit is read, and it is that of the next epoch.                    *)
LEMMA ReadKexInitInv == ASSUME Inv, NEW p \in Peers, ReadKexInit(p) PROVE Inv'
<1>1. TypeOK /\ rl[p].pc = "read" /\ Read(p) /\ Next1(p).t = "kexInit"
  BY DEF Inv, ReadKexInit
<1>2. down' = down /\ tr' = tr
  BY DEF ReadKexInit
<1>3. RlOK(p) /\ rl'[p].pc = "enter" /\ rl'[p].theirs = Next1(p).arg
  <2>1. RlShape(rl[p]) /\ rl = [q \in Peers |-> rl[q]] /\ "enter" \in Steps
    BY <1>1 DEF TypeOK, Steps
  <2>2. PICK r : rl' = [rl EXCEPT ![p] = r] /\ r = [rl[p] EXCEPT !.pc = "enter", !.theirs = Next1(p).arg]
    BY <2>1 DEF ReadKexInit, RlShape
  <2>3. RlShape(r) /\ r.pc = "enter" /\ r.theirs = Next1(p).arg
    BY <2>1, <2>2 DEF RlShape
  <2> QED
    BY <1>1, <2>1, <2>2, <2>3, RlType
<1>4. HsOK(p) /\ hs'[p].sentInit = hs[p].sentInit /\ hs'[p].inits = hs[p].inits
  <2>1. PICK v : hs' = [hs EXCEPT ![p].read = v]
    BY DEF ReadKexInit
  <2> QED
    BY <1>1, <2>1, MinorType
<1>5. /\ link' \in [Peers -> Seq(Message)] /\ link[Other(p)] # <<>>
      /\ link'[Other(p)] = Tail(link[Other(p)]) /\ link'[p] = link[p] /\ Next1(p) \in Message
  BY <1>1, ReadType
<1>6. TypeOK' /\ Fixed(Other(p)) /\ Closes /\ Kept(p)
  BY <1>1, <1>2, <1>3, <1>4, <1>5, Frame, DownFrame DEF TypeOK, Kept
<1>7. ~Failed(p) /\ ~Failed(p)'
  BY <1>1, <1>3 DEF Failed
<1>8. /\ Due(Next1(p)) = ReadUpTo(p) /\ Next1(p).arg = REpoch(p) + 1
      /\ REpoch(p) \in Nat /\ WEpoch(p) \in Nat
  BY <1>1, <1>5, <1>7, ReadFacts, EndFacts
<1>9. RStage(p) = 0 /\ RStage(p)' = 1
  BY <1>1, <1>3 DEF RStage
<1>10. PICK x : x = Past(Next1(p))
  OBVIOUS
<1>11. WEpoch(p)' = WEpoch(p) /\ REpoch(p)' = REpoch(p)
  BY <1>2 DEF WEpoch, REpoch
<1>12. Meets(p, x)'
  BY <1>1, <1>7, <1>8, <1>9, <1>10, <1>11 DEF Past, Meets, ReadUpTo
<1>13. Stays(p)
  BY <1>1, <1>3, <1>6, <1>7, <1>11 DEF Stays, Dead, Closes, Kept, Written, WStage
<1>14. End(p)'
  <2>1. End(p)
    BY DEF Inv
  <2>2. Agreed(p)'
    BY <1>6, <1>11, <2>1 DEF End, Agreed, Kept
  <2>3. Counts(p)'
    BY <1>1, <1>3, <1>6, <1>7, <1>8, <1>11, <2>1 DEF End, Counts, Kept, Between
  <2> QED
    BY <2>2, <2>3 DEF End
<1> QED
  BY <1>5, <1>6, <1>10, <1>12, <1>13, <1>14, ReadInv

(* A read fails.                                                           *)
LEMMA ReadErrorInv == ASSUME Inv, NEW p \in Peers, ReadError(p) PROVE Inv'
<1>1. /\ TypeOK /\ "exited" \in Steps /\ rl[p].pc = "read" /\ rl' = [rl EXCEPT ![p].pc = "exited"]
      /\ hs' = [hs EXCEPT ![p] = [hs[p] EXCEPT !.closed = TRUE]]
  BY DEF Inv, ReadError, Exit, Loop, Steps
<1>2. down' = down /\ tr' = tr /\ (link' = link \/ Read(p))
  BY DEF ReadError
<1>3. RlOK(p) /\ rl'[p].pc = "exited"
  BY <1>1, LoopType
<1>4. HsOK(p) /\ hs'[p].sentInit = hs[p].sentInit /\ hs'[p].inits = hs[p].inits
  BY <1>1, MinorType
<1>5. Read(p) => /\ link' \in [Peers -> Seq(Message)] /\ link[Other(p)] # <<>>
                 /\ link'[Other(p)] = Tail(link[Other(p)]) /\ link'[p] = link[p]
  BY <1>1, ReadType
<1>6. link' \in [Peers -> Seq(Message)]
  BY <1>1, <1>2, <1>5 DEF TypeOK
<1>7. TypeOK' /\ Fixed(Other(p)) /\ Closes /\ Kept(p) /\ rl[p].pc \in Calm
  BY <1>1, <1>2, <1>3, <1>4, <1>6, Frame, DownFrame DEF TypeOK, Kept, Calm
<1>8. End(p)' /\ Stays(p) /\ \A x : Meets(p, x)'
  BY <1>3, <1>7, StopEnd
<1>9. Reads(p)
  BY <1>8 DEF Reads
<1>10. PICK x : x = Past(Next1(p))
  OBVIOUS
<1>11. Meets(p, x)'
  BY <1>8
<1>12. CASE link' = link
  BY <1>7, <1>8, <1>9, <1>12, AloneInv
<1>13. CASE Read(p)
  BY <1>5, <1>7, <1>8, <1>10, <1>11, <1>13, ReadInv
<1> QED
  BY <1>2, <1>12, <1>13

(* enterKeyExchange.                                                       *)
LEMMA EnterKeyExchangeInv == ASSUME Inv, NEW p \in Peers, EnterKeyExchange(p) PROVE Inv'
<1>1. PICK ok \in BOOLEAN : \E new :
          /\ sendKexInitLocked(p, ok, new) /\ hs' = [hs EXCEPT ![p] = new]
          /\ rl' = [rl EXCEPT ![p].err = ~ok,
                              ![p].pc = IF ~ok THEN "finish"
                                        ELSE IF p = "client" THEN "dhInit" ELSE "dhWait"]
  BY DEF EnterKeyExchange
<1>2. PICK new : sendKexInitLocked(p, ok, new) /\ hs' = [hs EXCEPT ![p] = new]
  BY <1>1
<1>3. down' = down /\ tr' = tr /\ TypeOK /\ rl[p].pc = "enter" /\ "finish" \in Steps /\ Entered(p) \in Steps
  BY DEF EnterKeyExchange, Inv, Steps, Entered
<1>4. /\ HsShape(new) /\ new.inits \in Nat /\ link' \in [Peers -> Seq(Message)]
      /\ \/ link' = link /\ new = hs[p] /\ (ok <=> hs[p].sentInit # 0)
         \/ ok /\ SendsKexInit(p) /\ new.sentInit = hs[p].inits + 1 /\ new.inits = hs[p].inits + 1
  BY <1>2, <1>3, SendKexInit
<1>5. HsOK(p) /\ hs'[p] = new
  BY <1>2, <1>3, <1>4, HsType
<1>6. CASE ok
  <2>1. rl' = [rl EXCEPT ![p].err = FALSE, ![p].pc = Entered(p)]
    BY <1>1, <1>6 DEF Entered
  <2>2. RlOK(p) /\ rl'[p].pc = Entered(p) /\ rl'[p].theirs = rl[p].theirs
    BY <1>3, <2>1, ResultType
  <2>3. TypeOK' /\ Fixed(Other(p)) /\ Closes
    BY <1>3, <1>4, <1>5, <2>2, Frame, DownFrame DEF TypeOK
  <2>4. CASE link' = link /\ new = hs[p] /\ hs[p].sentInit # 0
    <3>1. Kept(p)
      BY <1>3, <1>5, <2>4 DEF Kept
    <3> QED
      BY <1>3, <2>2, <2>3, <2>4, <3>1, EnterInv
  <2>5. CASE SendsKexInit(p) /\ new.sentInit = hs[p].inits + 1 /\ new.inits = hs[p].inits + 1
    BY <1>3, <1>5, <2>2, <2>3, <2>5, KexInitInv DEF SendsKexInit
  <2> QED
    BY <1>4, <1>6, <2>4, <2>5
<1>7. CASE ~ok
  <2>1. rl' = [rl EXCEPT ![p].err = TRUE, ![p].pc = "finish"]
    BY <1>1, <1>7
  <2>2. RlOK(p) /\ rl'[p].pc = "finish" /\ rl'[p].err = TRUE
    BY <1>3, <2>1, ResultType, ZenonT(60)
  <2>3. TypeOK' /\ Fixed(Other(p)) /\ Closes
    BY <1>3, <1>4, <1>5, <2>2, Frame, DownFrame DEF TypeOK
  <2>4. link' = link /\ hs[p].sentInit = 0 /\ Kept(p)
    BY <1>3, <1>4, <1>5, <1>7 DEF Kept
  <2> QED
    BY <1>3, <2>2, <2>3, <2>4, FailInv
<1> QED
  BY <1>6, <1>7

(* An exchange ends in an error.                                           *)
LEMMA KexErrorInv == ASSUME Inv, NEW p \in Peers, KexError(p) PROVE Inv'
<1>1. /\ TypeOK /\ "finish" \in Steps /\ rl' = [rl EXCEPT ![p].pc = "finish", ![p].err = TRUE]
      /\ rl[p].pc \in {"dhInit", "dhWait", "ready", "newKeys"}
  BY DEF Inv, KexError, Steps
<1>2. link' = link /\ down' = down /\ tr' = tr /\ hs' = hs
  BY DEF KexError
<1>3. RlOK(p) /\ rl'[p].pc = "finish" /\ rl'[p].err = TRUE
  BY <1>1, ResultType, ZenonT(60)
<1>4. TypeOK' /\ Fixed(Other(p)) /\ Closes /\ Kept(p)
  BY <1>1, <1>2, <1>3, Frame, DownFrame DEF TypeOK, Kept
<1> QED
  BY <1>1, <1>2, <1>3, <1>4, FailInv

(* In an exchange both ends have the same hash.                            *)
LEMMA HashFacts ==
    ASSUME Inv, NEW p \in Peers, rl[p].pc \in {"dhInit", "dhWait", "ready"}
    PROVE  /\ H(p) = <<WEpoch(p) + 1, WEpoch(p) + 1>> /\ REpoch(p) = WEpoch(p) /\ WEpoch(p) \in Nat
           /\ hs[p].sentInit = WEpoch(p) + 1 /\ hs[p].inits = WEpoch(p) + 1
           /\ rl[p].theirs = WEpoch(p) + 1
<1>1. End(p) /\ WEpoch(p) \in Nat
  BY EndFacts DEF Inv
<1>2. /\ REpoch(p) = WEpoch(p) /\ hs[p].sentInit = WEpoch(p) + 1 /\ hs[p].inits = WEpoch(p) + 1
      /\ rl[p].theirs = WEpoch(p) + 1
  BY <1>1 DEF End, Counts
<1> QED
  BY <1>1, <1>2 DEF H

(* Within the exchange, once a Diffie-Hellman message has been written or  *)
(* read, the numbers stay.                                                 *)
LEMMA DHEnd ==
    ASSUME Inv, NEW p \in Peers, rl[p].pc \in {"dhInit", "dhWait"}, rl'[p].pc \in {"dhWait", "ready"},
           rl'[p].theirs = rl[p].theirs, Kept(p)
    PROVE  /\ End(p)' /\ ~Failed(p) /\ ~Failed(p)'
           /\ WEpoch(p)' = WEpoch(p) /\ REpoch(p)' = REpoch(p)
<1>1. End(p)
  BY DEF Inv
<1>2. WEpoch(p)' = WEpoch(p) /\ REpoch(p)' = REpoch(p) /\ ~Failed(p)' /\ ~Failed(p)
  BY DEF Kept, WEpoch, REpoch, Failed
<1>3. Agreed(p)'
  BY <1>1, <1>2 DEF End, Agreed, Kept
<1>4. Counts(p)'
  BY <1>1, <1>2 DEF End, Counts, Kept, Between
<1> QED
  BY <1>2, <1>3, <1>4 DEF End

(* The client's public value is written.                                   *)
LEMMA ClientInitInv == ASSUME Inv, ClientInit PROVE Inv'
<1> DEFINE p == "client"
<1>a. PICK m : m = Packet(p, "dhInit", None)
  OBVIOUS
<1>1. /\ TypeOK /\ p \in Peers /\ "dhWait" \in Steps /\ rl[p].pc = "dhInit"
      /\ rl' = [rl EXCEPT ![p].pc = "dhWait"]
      /\ ~down[p] /\ link' = [link EXCEPT ![p] = Append(@, m)]
  BY <1>a DEF Inv, Peers, ClientInit, Loop, Write, Steps
<1>2. down' = down /\ tr' = tr /\ hs' = hs
  BY DEF ClientInit
<1>3. RlOK(p) /\ rl'[p].pc = "dhWait" /\ rl'[p].theirs = rl[p].theirs /\ rl'[p].err = rl[p].err
  BY <1>1, LoopType
<1>4. /\ link' \in [Peers -> Seq(Message)] /\ m \in Message
      /\ link'[p] = Append(link[p], m) /\ link'[Other(p)] = link[Other(p)]
  BY <1>1, <1>a, PacketType
<1>5. TypeOK' /\ Fixed(Other(p)) /\ Closes /\ Kept(p)
  BY <1>1, <1>2, <1>3, <1>4, Frame, DownFrame DEF TypeOK, Kept
<1>6. End(p)' /\ ~Failed(p) /\ ~Failed(p)' /\ WEpoch(p)' = WEpoch(p) /\ REpoch(p)' = REpoch(p)
  BY <1>1, <1>3, <1>5, DHEnd
<1>7. hs[p].sentInit = WEpoch(p) + 1 /\ hs[p].inits = WEpoch(p) + 1 /\ WEpoch(p) \in Nat
  BY <1>1, HashFacts
<1>8. WStage(p) = 1 /\ WStage(p)' = 2
  BY <1>1, <1>2, <1>3, <1>6, <1>7 DEF WStage
<1>9. m.t = "dhInit" /\ m.key = tr[p].wkey
  BY <1>a DEF Packet
<1>10. Stage(m.t) = 1 /\ Past(m) = 3 * WEpoch(p) + 2
  BY <1>7, <1>9 DEF Past, Due, Stage, WEpoch
<1>11. Written(p)' = Past(m) /\ ~Dead(p)
  BY <1>1, <1>6, <1>8, <1>10 DEF Written, Dead
<1>12. Reads(p)
  BY <1>1, <1>3, <1>6 DEF Reads, Meets, ReadUpTo, RStage
<1> HIDE DEF p
<1> QED
  BY <1>1, <1>4, <1>5, <1>6, <1>8, <1>9, <1>10, <1>11, <1>12, WriteInv

(* The server's reply is read.                                             *)
LEMMA ClientReplyInv == ASSUME Inv, ClientReply PROVE Inv'
<1> DEFINE p == "client"
<1>1. /\ TypeOK /\ p \in Peers /\ "ready" \in Steps /\ rl[p].pc = "dhWait"
      /\ rl' = [rl EXCEPT ![p].pc = "ready"] /\ Read(p) /\ Next1(p).t = "dhReply"
  BY DEF Inv, Peers, ClientReply, Loop, Steps
<1>2. down' = down /\ tr' = tr /\ hs' = hs
  BY DEF ClientReply
<1>3. RlOK(p) /\ rl'[p].pc = "ready" /\ rl'[p].theirs = rl[p].theirs /\ rl'[p].err = rl[p].err
  BY <1>1, LoopType
<1>4. /\ link' \in [Peers -> Seq(Message)] /\ link[Other(p)] # <<>>
      /\ link'[Other(p)] = Tail(link[Other(p)]) /\ link'[p] = link[p]
  BY <1>1, ReadType
<1>5. TypeOK' /\ Fixed(Other(p)) /\ Closes /\ Kept(p)
  BY <1>1, <1>2, <1>3, <1>4, Frame, DownFrame DEF TypeOK, Kept
<1>6. End(p)' /\ ~Failed(p) /\ ~Failed(p)' /\ WEpoch(p)' = WEpoch(p) /\ REpoch(p)' = REpoch(p)
  BY <1>1, <1>3, <1>5, DHEnd
<1>7. Due(Next1(p)) = ReadUpTo(p) /\ REpoch(p) \in Nat
  BY <1>1, <1>4, <1>6, ReadFacts, EndFacts
<1>8. RStage(p) = 1 /\ RStage(p)' = 2
  BY <1>1, <1>3 DEF RStage
<1>9. PICK x : x = Past(Next1(p))
  OBVIOUS
<1>10. Meets(p, x)'
  BY <1>1, <1>6, <1>7, <1>8, <1>9 DEF Past, Meets, ReadUpTo
<1>11. Stays(p)
  BY <1>1, <1>2, <1>3, <1>6 DEF Stays, Dead, Written, WStage
<1> HIDE DEF p
<1> QED
  BY <1>1, <1>4, <1>5, <1>6, <1>9, <1>10, <1>11, ReadInv

(* The client's value is read and the reply is written.                    *)
LEMMA ServerReplyInv == ASSUME Inv, ServerReply PROVE Inv'
<1> DEFINE p == "server"
           q == "client"
<1>a. PICK m : m = Packet(p, "dhReply", H(p))
  OBVIOUS
<1>1. /\ TypeOK /\ p \in Peers /\ q \in Peers /\ q = Other(p) /\ p = Other(q) /\ p # q
      /\ "ready" \in Steps /\ rl[p].pc = "dhWait" /\ rl' = [rl EXCEPT ![p].pc = "ready"]
      /\ ~down[p] /\ link[q] # <<>> /\ Next1(p).t = "dhInit"
  BY DEF Inv, Peers, Other, ServerReply, Loop, Steps
<1>2. down' = down /\ tr' = tr /\ hs' = hs
  BY DEF ServerReply
<1>3. link' = [link EXCEPT ![q] = Tail(@), ![p] = Append(@, m)]
  BY <1>a DEF ServerReply
<1>4. RlOK(p) /\ rl'[p].pc = "ready" /\ rl'[p].theirs = rl[p].theirs /\ rl'[p].err = rl[p].err
  BY <1>1, LoopType
<1>5. /\ H(p) = <<WEpoch(p) + 1, WEpoch(p) + 1>> /\ WEpoch(p) \in Nat
      /\ hs[p].sentInit = WEpoch(p) + 1 /\ hs[p].inits = WEpoch(p) + 1
  BY <1>1, HashFacts
<1>6. m.t = "dhReply" /\ m.key = tr[p].wkey
  BY <1>a DEF Packet
<1>7. m \in Message
  <2>1. tr[p].wkey \in Keys
    BY <1>1 DEF TypeOK, Transport
  <2>2. H(p) \in Hashes
    BY <1>5 DEF Hashes
  <2> HIDE DEF p
  <2>3. m = [t |-> "dhReply", arg |-> H(p), key |-> tr[p].wkey]
    BY <1>a DEF Packet
  <2> QED
    BY <2>1, <2>2, <2>3 DEF Message, Kinds
<1>8. link[p] \in Seq(Message) /\ link[q] \in Seq(Message) /\ link = [r \in Peers |-> link[r]]
  BY <1>1 DEF TypeOK
<1>9. Append(link[p], m) \in Seq(Message) /\ Tail(link[q]) \in Seq(Message)
  BY <1>1, <1>7, <1>8, AppendProperties, HeadTailProperties, EmptySeq
<1> HIDE DEF p, q
<1>10. link'[p] = Append(link[p], m) /\ link'[q] = Tail(link[q])
  BY <1>1, <1>3, <1>8
<1>11. link' \in [Peers -> Seq(Message)]
  <2>1. \A r \in Peers : link'[r] \in Seq(Message)
    BY <1>1, <1>9, <1>10, PeerFacts
  <2>2. link' = [r \in Peers |-> link'[r]]
    BY <1>3, <1>8
  <2> QED
    BY <2>1, <2>2
<1>12. TypeOK' /\ Fixed(q) /\ Closes /\ Kept(p)
  BY <1>1, <1>2, <1>4, <1>11, Frame, DownFrame DEF TypeOK, Kept
<1>13. End(p)' /\ ~Failed(p) /\ ~Failed(p)' /\ WEpoch(p)' = WEpoch(p) /\ REpoch(p)' = REpoch(p)
  BY <1>1, <1>4, <1>12, DHEnd
<1>14. End(q)' /\ Stays(q) /\ Reads(q)
  BY <1>1, <1>12, FixedEnd DEF Inv
<1>15. Stream(q)'
  <2>1. Due(Next1(p)) = ReadUpTo(p) /\ REpoch(p) \in Nat
    BY <1>1, <1>13, ReadFacts, EndFacts
  <2>2. RStage(p) = 1 /\ RStage(p)' = 2
    BY <1>1, <1>4 DEF RStage
  <2>3. PICK x : x = Past(Next1(p))
    OBVIOUS
  <2>4. Meets(p, x)'
    BY <1>1, <1>13, <2>1, <2>2, <2>3 DEF Past, Meets, ReadUpTo
  <2> QED
    BY <1>1, <1>10, <1>12, <1>14, <2>3, <2>4, TakeStream DEF Inv, Next1
<1>16. Stream(p)'
  <2>1. WStage(p) = 1 /\ WStage(p)' = 2
    BY <1>1, <1>2, <1>4, <1>5, <1>13 DEF WStage, p
  <2>2. Epoch(m.key) = WEpoch(p) /\ Due(m) = Written(p) /\ Past(m) = 3 * WEpoch(p) + 2
    BY <1>5, <1>6, <2>1 DEF Past, Due, Stage, WEpoch, Written
  <2>3. Written(p)' = Past(m) /\ ~Dead(p)
    BY <1>1, <1>13, <2>1, <2>2 DEF Written, Dead
  <2>4. m.key = KeyAt(Epoch(m.key), p)
    BY <1>1, <1>6, <2>2 DEF Inv, End, Agreed
  <2>5. Stream(p) /\ m.t # "kexInit" /\ Reads(Other(p))
    BY <1>1, <1>6, <1>14 DEF Inv
  <2> QED
    BY <1>1, <1>7, <1>10, <1>12, <2>2, <2>3, <2>4, <2>5, SendStream
<1> QED
  BY <1>1, <1>12, <1>13, <1>14, <1>15, <1>16, StepInv

(* Both keys are prepared, and the new one is used for writing.            *)
LEMMA WriteNewKeysInv == ASSUME Inv, NEW p \in Peers, WriteNewKeys(p) PROVE Inv'
<1>a. PICK m : m = Packet(p, "newKeys", None)
  OBVIOUS
<1>1. /\ TypeOK /\ "newKeys" \in Steps /\ rl[p].pc = "ready" /\ rl' = [rl EXCEPT ![p].pc = "newKeys"]
      /\ ~down[p] /\ link' = [link EXCEPT ![p] = Append(@, m)]
  BY <1>a DEF Inv, WriteNewKeys, Loop, Write, Steps
<1>2. down' = down /\ hs' = hs /\ tr' = [tr EXCEPT ![p] = ChangeWriteKey(prepareKeyChange(p, H(p)))]
  BY DEF WriteNewKeys
<1>3. RlOK(p) /\ rl'[p].pc = "newKeys" /\ rl'[p].theirs = rl[p].theirs /\ rl'[p].err = rl[p].err
  BY <1>1, LoopType
<1>4. /\ link' \in [Peers -> Seq(Message)] /\ m \in Message
      /\ link'[p] = Append(link[p], m) /\ link'[Other(p)] = link[Other(p)]
  BY <1>1, <1>a, PacketType
<1>5. PICK e \in Nat : e = WEpoch(p)
  BY <1>1, EndFacts
<1>6. /\ H(p) = <<e + 1, e + 1>> /\ REpoch(p) = e
      /\ hs[p].sentInit = e + 1 /\ hs[p].inits = e + 1
  BY <1>1, <1>5, HashFacts
<1>7. PICK h : h = H(p) /\ h = <<e + 1, e + 1>> /\ h \in Hashes
  BY <1>6 DEF Hashes
<1>8. tr[p] \in Transport /\ tr \in [Peers -> Transport] /\ Key(h, p) \in Keys /\ Key(h, Other(p)) \in Keys
      /\ NoKey \in Keys /\ None \in Hashes
  BY <1>1, <1>7, PeerFacts DEF TypeOK, Key, Keys, NoKey, None, Hashes
<1>9. PICK t : t = ChangeWriteKey(prepareKeyChange(p, h))
  OBVIOUS
<1>10. /\ t \in Transport /\ t.wkey = Key(h, p) /\ t.pendR = Key(h, Other(p)) /\ t.rkey = tr[p].rkey
       /\ t.sessionID = IF tr[p].sessionID = None THEN h ELSE tr[p].sessionID
  BY <1>7, <1>8, <1>9 DEF ChangeWriteKey, prepareKeyChange, ReadDir, WriteDir, Transport
<1>11. tr' = [tr EXCEPT ![p] = t]
  BY <1>2, <1>7, <1>9
<1>12. tr' \in [Peers -> Transport] /\ tr'[p] = t /\ tr'[Other(p)] = tr[Other(p)]
  BY <1>8, <1>10, <1>11, PeerFacts
<1>13. TypeOK' /\ Fixed(Other(p)) /\ Closes
  BY <1>1, <1>2, <1>3, <1>4, <1>12 DEF TypeOK, RlOK, Fixed, Closes
<1>14. WEpoch(p)' = e + 1 /\ REpoch(p)' = e
  <2>1. Epoch(t.wkey) = e + 1
    BY <1>5, <1>7, <1>10 DEF Epoch, Key
  <2>2. Epoch(t.rkey) = e
    BY <1>6, <1>10 DEF REpoch
  <2> QED
    BY <1>12, <2>1, <2>2 DEF WEpoch, REpoch
<1>15. End(p)'
  <2>1. End(p)
    BY DEF Inv
  <2>2. Key(h, p) = KeyAt(e + 1, p) /\ Key(h, Other(p)) = KeyAt(e + 1, Other(p))
    BY <1>5, <1>7 DEF KeyAt
  <2>3. tr'[p].wkey = KeyAt(WEpoch(p)', p) /\ tr'[p].rkey = KeyAt(REpoch(p)', Other(p))
    BY <1>6, <1>10, <1>12, <1>14, <2>1, <2>2 DEF End, Agreed
  <2>4. tr'[p].sessionID = <<1, 1>>
    <3>1. CASE e = 0
      BY <1>5, <1>7, <1>10, <1>12, <2>1, <3>1 DEF End, Agreed
    <3>2. CASE e # 0
      <4>1. tr[p].sessionID = <<1, 1>> /\ <<1, 1>> # None
        BY <1>5, <2>1, <3>2 DEF End, Agreed, None
      <4> QED
        BY <1>10, <1>12, <4>1
    <3> QED
      BY <3>1, <3>2
  <2>5. Agreed(p)'
    BY <1>2, <1>5, <1>14, <2>1, <2>3, <2>4 DEF End, Agreed
  <2>6. Counts(p)'
    BY <1>2, <1>3, <1>5, <1>6, <1>10, <1>12, <1>14, <2>2 DEF Counts, Between, Failed
  <2> QED
    BY <2>5, <2>6 DEF End
<1>16. WStage(p) = 2 /\ WStage(p)' = 0 /\ ~Failed(p) /\ ~Failed(p)'
  BY <1>1, <1>2, <1>3, <1>5, <1>6, <1>14 DEF WStage, Failed
<1>17. m.t = "newKeys" /\ m.key = tr[p].wkey
  BY <1>a DEF Packet
<1>18. Stage(m.t) = 2 /\ Past(m) = 3 * e + 3
  BY <1>5, <1>17 DEF Past, Due, Stage, WEpoch
<1>19. Written(p)' = Past(m) /\ ~Dead(p)
  BY <1>1, <1>5, <1>14, <1>16, <1>18 DEF Written, Dead
<1>20. Reads(p)
  BY <1>1, <1>3, <1>6, <1>14, <1>16 DEF Reads, Meets, ReadUpTo, RStage
<1> QED
  BY <1>4, <1>13, <1>15, <1>16, <1>17, <1>18, <1>19, <1>20, WriteInv

(* The new key is used for reading.                                        *)
LEMMA ReadNewKeysInv == ASSUME Inv, NEW p \in Peers, ReadNewKeys(p) PROVE Inv'
<1>1. /\ TypeOK /\ "finish" \in Steps /\ rl[p].pc = "newKeys"
      /\ rl' = [rl EXCEPT ![p].pc = "finish", ![p].err = FALSE] /\ Read(p) /\ Next1(p).t = "newKeys"
  BY DEF Inv, ReadNewKeys, Steps
<1>2. down' = down /\ hs' = hs /\ tr' = [tr EXCEPT ![p] = ChangeReadKey(@)]
  BY DEF ReadNewKeys
<1>3. RlOK(p) /\ rl'[p].pc = "finish" /\ rl'[p].err = FALSE
  BY <1>1, ResultType, ZenonT(60)
<1>4. /\ link' \in [Peers -> Seq(Message)] /\ link[Other(p)] # <<>>
      /\ link'[Other(p)] = Tail(link[Other(p)]) /\ link'[p] = link[p]
  BY <1>1, ReadType
<1>5. PICK e \in Nat : e = REpoch(p)
  BY <1>1, EndFacts
<1>6. End(p)
  BY DEF Inv
<1>7. /\ WEpoch(p) = e + 1 /\ hs[p].sentInit = e + 1 /\ hs[p].inits = e + 1
      /\ tr[p].pendR = KeyAt(e + 1, Other(p))
  BY <1>1, <1>5, <1>6 DEF End, Counts
<1>8. tr[p] \in Transport /\ tr \in [Peers -> Transport] /\ NoKey \in Keys
  BY <1>1 DEF TypeOK, Key, Keys, NoKey, None, Hashes
<1>9. PICK t : t = ChangeReadKey(tr[p])
  OBVIOUS
<1>10. t \in Transport /\ t.wkey = tr[p].wkey /\ t.rkey = tr[p].pendR /\ t.sessionID = tr[p].sessionID
  BY <1>8, <1>9 DEF ChangeReadKey, Transport
<1>11. tr' = [tr EXCEPT ![p] = t]
  BY <1>2, <1>9
<1>12. tr' \in [Peers -> Transport] /\ tr'[p] = t /\ tr'[Other(p)] = tr[Other(p)]
  BY <1>8, <1>10, <1>11, PeerFacts
<1>13. TypeOK' /\ Fixed(Other(p)) /\ Closes
  BY <1>1, <1>2, <1>3, <1>4, <1>12 DEF TypeOK, RlOK, Fixed, Closes
<1>14. WEpoch(p)' = e + 1 /\ REpoch(p)' = e + 1
  <2>1. Epoch(t.rkey) = e + 1
    BY <1>7, <1>10, KeyAtFacts, PeerFacts
  <2> QED
    BY <1>7, <1>10, <1>12, <2>1 DEF WEpoch, REpoch
<1>15. ~Failed(p) /\ ~Failed(p)'
  BY <1>1, <1>3 DEF Failed
<1>16. End(p)'
  <2>1. Agreed(p)'
    BY <1>2, <1>6, <1>7, <1>10, <1>12, <1>14 DEF End, Agreed
  <2>2. Counts(p)'
    BY <1>2, <1>3, <1>7, <1>14 DEF Counts, Between, Failed
  <2> QED
    BY <2>1, <2>2 DEF End
<1>17. Due(Next1(p)) = ReadUpTo(p)
  BY <1>1, <1>4, <1>15, ReadFacts
<1>18. RStage(p) = 2 /\ RStage(p)' = 0
  BY <1>1, <1>3 DEF RStage
<1>19. PICK x : x = Past(Next1(p))
  OBVIOUS
<1>20. Meets(p, x)'
  BY <1>1, <1>5, <1>14, <1>15, <1>17, <1>18, <1>19 DEF Past, Meets, ReadUpTo
<1>21. Stays(p)
  BY <1>2, <1>7, <1>14, <1>15 DEF Stays, Dead, Written, WStage
<1> QED
  BY <1>4, <1>13, <1>16, <1>19, <1>20, <1>21, ReadInv

(* The end of readOnePacket after an exchange.                             *)
LEMMA FinishKeyExchangeInv == ASSUME Inv, NEW p \in Peers, FinishKeyExchange(p) PROVE Inv'
<1>1. TypeOK /\ End(p) /\ rl[p].pc = "finish" /\ "exited" \in Steps /\ "push" \in Steps
  BY DEF Inv, FinishKeyExchange, Steps
<1>2. link' = link /\ tr' = tr
  BY DEF FinishKeyExchange
<1>3. WEpoch(p)' = WEpoch(p) /\ REpoch(p)' = REpoch(p) /\ WEpoch(p) \in Nat /\ REpoch(p) \in Nat
  BY <1>1, <1>2, EndFacts DEF WEpoch, REpoch
<1>4. HsShape(hs[p]) /\ hs[p].inits \in Nat /\ RlShape(rl[p]) /\ rl = [q \in Peers |-> rl[q]]
  BY <1>1 DEF TypeOK
<1> DEFINE new == [hs[p] EXCEPT !.sentInit = 0, !.written = 0, !.writeError = @ \/ rl[p].err,
                                !.read = IF rl[p].err THEN @ ELSE 0]
<1>5. HsShape(new) /\ new.sentInit = 0 /\ new.inits = hs[p].inits
  <2>1. PICK a, b : new = [hs[p] EXCEPT !.sentInit = 0, !.written = 0, !.writeError = a, !.read = b]
    OBVIOUS
  <2> HIDE DEF new
  <2> QED
    BY <1>4, <2>1 DEF HsShape
<1>6. CASE rl[p].err
  <2>1. /\ hs' = [hs EXCEPT ![p] = [new EXCEPT !.closed = TRUE]] /\ rl' = [rl EXCEPT ![p].pc = "exited"]
        /\ down' = [down EXCEPT ![p] = TRUE]
    BY <1>6 DEF FinishKeyExchange, Exit, Loop
  <2>2. PICK r : r = [new EXCEPT !.closed = TRUE]
    OBVIOUS
  <2> HIDE DEF new
  <2>3. HsShape(r) /\ r.sentInit = 0 /\ r.inits = hs[p].inits
    BY <1>5, <2>2 DEF HsShape
  <2>4. hs' = [hs EXCEPT ![p] = r]
    BY <2>1, <2>2
  <2>5. HsOK(p) /\ hs'[p].sentInit = 0 /\ hs'[p].inits = hs[p].inits
    BY <1>1, <1>4, <2>3, <2>4, HsType
  <2>6. RlOK(p) /\ rl'[p].pc = "exited"
    BY <1>1, <2>1, LoopType
  <2>7. down' = [q \in Peers |-> down'[q]] /\ Closes /\ down'[p]
    BY <1>1, <2>1, DownFrame DEF TypeOK
  <2>8. TypeOK' /\ Fixed(Other(p))
    BY <1>1, <1>2, <2>5, <2>6, <2>7, Frame DEF TypeOK
  <2>9. Stays(p) /\ Reads(p)
    BY <2>6, <2>7 DEF Stays, Dead, Reads, Meets, Failed
  <2>10. Agreed(p)'
    BY <1>1, <1>2, <1>3, <2>5 DEF End, Agreed
  <2>11. Counts(p)'
    BY <2>6, <2>7 DEF Counts, Between, Failed
  <2> QED
    BY <1>2, <2>7, <2>8, <2>9, <2>10, <2>11, AloneInv DEF End
<1>7. CASE ~rl[p].err
  <2>1. /\ hs' = [hs EXCEPT ![p] = new] /\ rl' = [rl EXCEPT ![p].pc = "push", ![p].pkt = "newKeys"]
        /\ down' = down
    BY <1>7 DEF FinishKeyExchange
  <2> HIDE DEF new
  <2>2. HsOK(p) /\ hs'[p].sentInit = 0 /\ hs'[p].inits = hs[p].inits
    BY <1>1, <1>4, <1>5, <2>1, HsType
  <2>3. RlOK(p) /\ rl'[p].pc = "push"
    <3>1. PICK r : rl' = [rl EXCEPT ![p] = r] /\ r = [rl[p] EXCEPT !.pc = "push", !.pkt = "newKeys"]
      BY <1>4, <2>1 DEF RlShape
    <3>2. RlShape(r) /\ r.pc = "push"
      BY <1>4, <3>1 DEF RlShape
    <3>3. r.pc \in Steps
      BY <3>2 DEF Steps
    <3>4. RlOK(p) /\ rl'[p] = r
      BY <1>1, <3>1, <3>2, <3>3, RlType
    <3> QED
      BY <3>2, <3>4
  <2>4. TypeOK' /\ Fixed(Other(p)) /\ Closes
    BY <1>1, <1>2, <2>1, <2>2, <2>3, Frame, DownFrame DEF TypeOK
  <2>5. ~Failed(p) /\ ~Failed(p)'
    BY <1>7, <2>3 DEF Failed
  <2>6. REpoch(p) = WEpoch(p) /\ hs[p].inits = WEpoch(p)
    BY <1>1, <1>7 DEF End, Counts
  <2>7. Stays(p)
    BY <1>3, <2>1, <2>2, <2>5, <2>6 DEF Stays, Dead, Written, WStage
  <2>8. Reads(p)
    BY <1>1, <1>3, <2>3, <2>5 DEF Reads, Meets, ReadUpTo, RStage
  <2>9. Agreed(p)'
    BY <1>1, <1>2, <1>3, <2>2 DEF End, Agreed
  <2>10. Counts(p)'
    BY <1>3, <2>2, <2>3, <2>5, <2>6 DEF Counts, Between
  <2> QED
    BY <1>2, <2>4, <2>7, <2>8, <2>9, <2>10, AloneInv DEF End
<1> QED
  BY <1>6, <1>7

-----------------------------------------------------------------------------
(* The steps of the goroutines that use it.                                *)

(* They leave readLoop alone, and most of them the keys and the kexInit.   *)
LEMMA UserInv ==
    ASSUME Inv, NEW p \in Peers, rl' = rl, tr' = tr, link' = link, down' = [q \in Peers |-> down'[q]], Closes,
           hs' = hs \/ (HsOK(p) /\ hs'[p].sentInit = hs[p].sentInit /\ hs'[p].inits = hs[p].inits)
    PROVE  Inv'
<1>1. TypeOK
  BY DEF Inv
<1>2. TypeOK' /\ Fixed(Other(p)) /\ Kept(p)
  BY <1>1, Frame DEF TypeOK, Kept
<1> QED
  BY <1>2, CalmInv

(* The first exchange is requested.                                        *)
LEMMA FirstRequestInv == ASSUME Inv, NEW p \in Peers, FirstRequest(p) PROVE Inv'
<1>1. PICK ok \in BOOLEAN : \E new :
          /\ sendKexInitLocked(p, ok, new) /\ hs' = [hs EXCEPT ![p] = new]
          /\ down' = [down EXCEPT ![p] = @ \/ ~ok]
  BY DEF FirstRequest
<1>2. PICK new : sendKexInitLocked(p, ok, new) /\ hs' = [hs EXCEPT ![p] = new]
  BY <1>1
<1>3. TypeOK /\ tr' = tr /\ rl' = rl
  BY DEF FirstRequest, Inv
<1>4. /\ HsShape(new) /\ new.inits \in Nat /\ link' \in [Peers -> Seq(Message)]
      /\ \/ link' = link /\ new = hs[p]
         \/ ok /\ SendsKexInit(p) /\ new.sentInit = hs[p].inits + 1 /\ new.inits = hs[p].inits + 1
  BY <1>2, <1>3, SendKexInit
<1>5. HsOK(p) /\ hs'[p] = new
  BY <1>2, <1>3, <1>4, HsType
<1>6. PICK b : down' = [down EXCEPT ![p] = b] /\ (down[p] => b)
  BY <1>1
<1>7. down' = [q \in Peers |-> down'[q]] /\ Closes
  BY <1>3, <1>6, DownFrame
<1>8. CASE link' = link /\ new = hs[p]
  BY <1>3, <1>5, <1>7, <1>8, UserInv
<1>9. CASE SendsKexInit(p) /\ new.sentInit = hs[p].inits + 1 /\ new.inits = hs[p].inits + 1
  <2>1. TypeOK' /\ Fixed(Other(p))
    BY <1>3, <1>4, <1>5, <1>7, Frame
  <2> QED
    BY <1>3, <1>5, <1>7, <1>9, <2>1, KexInitInv DEF SendsKexInit
<1> QED
  BY <1>4, <1>8, <1>9

(* Packets are taken from incoming, or a write begins.                     *)
LEMMA ReceiveInv ==
    ASSUME Inv, NEW p \in Peers, FirstKeys(p) \/ TakePacket(p) \/ EndOfPackets(p) \/ StartWrite(p)
    PROVE  Inv'
<1>1. TypeOK /\ rl' = rl /\ tr' = tr /\ link' = link
  BY DEF Inv, FirstKeys, TakePacket, EndOfPackets, StartWrite
<1>2. down' = down \/ down' = [down EXCEPT ![p] = TRUE]
  BY DEF FirstKeys, TakePacket, EndOfPackets, StartWrite
<1>3. down' = [q \in Peers |-> down'[q]] /\ Closes
  BY <1>1, <1>2, DownFrame
<1>4. CASE hs' = hs
  BY <1>1, <1>3, <1>4, UserInv
<1>5. CASE Receive(p)
  <2>1. PICK v : hs' = [hs EXCEPT ![p].incoming = v]
    BY <1>5 DEF Receive
  <2>2. HsOK(p) /\ hs'[p].sentInit = hs[p].sentInit /\ hs'[p].inits = hs[p].inits
    BY <1>1, <2>1, MinorType
  <2> QED
    BY <1>1, <1>3, <2>2, UserInv
<1> QED
  BY <1>4, <1>5 DEF FirstKeys, TakePacket, EndOfPackets, StartWrite

(* The end of writePacket when no kexInit is sent.                         *)
LEMMA WriteDataInv ==
    ASSUME Inv, NEW p \in Peers, NEW g, NEW from, WriteData(p, hs[p]), Finish(p, g, from, hs[p]),
           down' = down, tr' = tr, rl' = rl
    PROVE  Inv'
<1>1. TypeOK /\ Closes /\ down' = [q \in Peers |-> down'[q]]
  BY DEF Inv, TypeOK, Closes
<1>2. \/ hs' = [hs EXCEPT ![p] = hs[p]]
      \/ hs' = [hs EXCEPT ![p] = [hs[p] EXCEPT !.mu = g]]
      \/ \E v : hs' = [hs EXCEPT ![p] = [hs[p] EXCEPT !.written = v]]
  BY DEF Finish
<1>3. HsOK(p) /\ hs'[p].sentInit = hs[p].sentInit /\ hs'[p].inits = hs[p].inits
  <2>1. CASE hs' = [hs EXCEPT ![p] = hs[p]]
    <3>1. HsShape(hs[p]) /\ hs[p].inits \in Nat
      BY <1>1 DEF TypeOK
    <3> QED
      BY <1>1, <2>1, <3>1, HsType
  <2>2. CASE hs' = [hs EXCEPT ![p] = [hs[p] EXCEPT !.mu = g]]
    BY <1>1, <2>2, MinorType
  <2>3. ASSUME NEW v, hs' = [hs EXCEPT ![p] = [hs[p] EXCEPT !.written = v]]
        PROVE  HsOK(p) /\ hs'[p].sentInit = hs[p].sentInit /\ hs'[p].inits = hs[p].inits
    BY <1>1, <2>3, MinorType
  <2> QED
    BY <1>2, <2>1, <2>2, <2>3
<1>4. CASE link' = link
  BY <1>1, <1>3, <1>4, UserInv
<1>5. CASE hs[p].sentInit = 0 /\ Write(p, "data", None)
  <2>1. PICK m : m = Packet(p, "data", None)
    OBVIOUS
  <2>2. link' = [link EXCEPT ![p] = Append(@, m)] /\ ~down[p]
    BY <1>5, <2>1 DEF Write
  <2>3. link' \in [Peers -> Seq(Message)]
    BY <1>1, <2>1, <2>2, PacketType
  <2>4. TypeOK' /\ Fixed(Other(p))
    BY <1>1, <1>3, <2>3, Frame
  <2>5. Fixed(p)
    BY <1>3 DEF Fixed
  <2> QED
    BY <1>1, <1>5, <2>4, <2>5, DataInv DEF Write
<1> QED
  BY <1>4, <1>5 DEF WriteData

(* writePacket, which may send the kexInit first.                          *)
LEMMA WritePacketInv == ASSUME Inv, NEW p \in Peers, NEW g \in Goroutines, WritePacket(p, g) PROVE Inv'
<1>1. TypeOK /\ down' = down /\ tr' = tr /\ rl' = rl /\ Closes /\ down' = [q \in Peers |-> down'[q]]
  BY DEF Inv, WritePacket, TypeOK, Closes
<1>2. CASE WriteData(p, hs[p]) /\ Finish(p, g, "lock", hs[p])
  BY <1>1, <1>2, WriteDataInv
<1>3. CASE \E ok \in BOOLEAN, new \in AfterKexInit(p) :
               sendKexInitLocked(p, ok, new) /\ new.sentInit # 0 /\ Finish(p, g, "lock", new)
  <2>1. PICK ok, new : sendKexInitLocked(p, ok, new) /\ hs' = [hs EXCEPT ![p] = new]
    BY <1>3 DEF Finish
  <2>2. /\ HsShape(new) /\ new.inits \in Nat /\ link' \in [Peers -> Seq(Message)]
        /\ \/ link' = link /\ new = hs[p]
           \/ ok /\ SendsKexInit(p) /\ new.sentInit = hs[p].inits + 1 /\ new.inits = hs[p].inits + 1
    BY <1>1, <2>1, SendKexInit
  <2>3. HsOK(p) /\ hs'[p] = new
    BY <1>1, <2>1, <2>2, HsType
  <2>4. CASE link' = link /\ new = hs[p]
    BY <1>1, <2>3, <2>4, UserInv
  <2>5. CASE SendsKexInit(p) /\ new.sentInit = hs[p].inits + 1 /\ new.inits = hs[p].inits + 1
    <3>1. TypeOK' /\ Fixed(Other(p))
      BY <1>1, <2>2, <2>3, Frame
    <3> QED
      BY <1>1, <2>3, <2>5, <3>1, KexInitInv DEF SendsKexInit
  <2> QED
    BY <2>2, <2>4, <2>5
<1> QED
  BY <1>2, <1>3 DEF WritePacket

(* writePacket after its wait.                                             *)
LEMMA RewriteInv == ASSUME Inv, NEW p \in Peers, NEW g \in Goroutines, Rewrite(p, g) PROVE Inv'
BY WriteDataInv DEF Rewrite

(* The network fails, or nothing happens.                                  *)
LEMMA DropInv == ASSUME Inv, Drop \/ UNCHANGED vars PROVE Inv'
<1>1. PICK p \in Peers : TRUE
  BY DEF Peers
<1>2. rl' = rl /\ tr' = tr /\ link' = link /\ hs' = hs
  BY DEF Drop, vars
<1>3. down' = [q \in Peers |-> down'[q]] /\ Closes
  BY DEF Drop, vars, Inv, TypeOK, Closes
<1> QED
  BY <1>1, <1>2, <1>3, UserInv

-----------------------------------------------------------------------------
(* Both ends take the same course through every exchange of a connection,  *)
(* the packets between them being those that one has written and the other *)
(* has yet to read: readLoop, the writers and the first request may send   *)
(* the kexInit at any time, and an exchange, a read or a write may fail.   *)
THEOREM SameCourse == Spec => []Inv
<1>1. Init => Inv
  BY InitInv
<1>2. Inv /\ [Next]_vars => Inv'
  <2> SUFFICES ASSUME Inv, [Next]_vars PROVE Inv'
    OBVIOUS
  <2>1. ASSUME NEW p \in Peers, ReadLoop(p) PROVE Inv'
    <3>1. CASE CheckThreshold(p) \/ RequestKeyChange(p) \/ ReadOther(p) \/ ReadKexInit(p) \/ ReadError(p)
      BY <3>1, CheckThresholdInv, RequestKeyChangeInv, ReadOtherInv, ReadKexInitInv, ReadErrorInv
    <3>2. CASE EnterKeyExchange(p) \/ WriteNewKeys(p) \/ ReadNewKeys(p) \/ KexError(p)
      BY <3>2, EnterKeyExchangeInv, WriteNewKeysInv, ReadNewKeysInv, KexErrorInv
    <3>3. CASE ClientInit \/ ClientReply \/ ServerReply
      BY <3>3, ClientInitInv, ClientReplyInv, ServerReplyInv
    <3>4. CASE FinishKeyExchange(p) \/ Push(p)
      BY <3>4, FinishKeyExchangeInv, PushInv
    <3> QED
      BY <2>1, <3>1, <3>2, <3>3, <3>4 DEF ReadLoop
  <2>2. ASSUME NEW p \in Peers, Mux(p) \/ StartWrite(p) PROVE Inv'
    BY <2>2, FirstRequestInv, ReceiveInv DEF Mux
  <2>3. ASSUME NEW p \in Peers, NEW g \in Goroutines, WritePacket(p, g) \/ Rewrite(p, g) PROVE Inv'
    BY <2>3, WritePacketInv, RewriteInv
  <2>4. CASE Drop \/ UNCHANGED vars
    BY <2>4, DropInv
  <2> QED
    BY <2>1, <2>2, <2>3, <2>4 DEF Next, Quiet
<1> QED
  BY <1>1, <1>2, PTL DEF Spec

(* Every packet that arrives is under the key its reader uses, msgNewKeys  *)
(* comes only within an exchange, and the session ID is that of the first. *)
THEOREM KeysAgree == Spec => []KeysMatch
<1>1. Inv => KeysMatch
  <2> SUFFICES ASSUME Inv PROVE KeysMatch
    OBVIOUS
  <2>1. ASSUME NEW p \in Peers, rl[p].pc # "exited", link[Other(p)] # <<>>, ~Failed(p)
        PROVE  Authentic(p) /\ (rl[p].pc = "read" => Next1(p).t # "newKeys")
    <3>1. Next1(p).key = tr[p].rkey /\ Stage(Next1(p).t) = RStage(p)
      BY <2>1, ReadFacts
    <3>2. rl[p].pc = "read" => RStage(p) = 0
      BY DEF RStage
    <3>3. Stage("newKeys") = 2
      BY DEF Stage
    <3> QED
      BY <3>1, <3>2, <3>3 DEF Authentic
  <2>2. ASSUME NEW p \in Peers, link[Other(p)] # <<>>, Failed(p)
        PROVE  Authentic(p) /\ rl[p].pc # "read"
    <3>1. Other(p) \in Peers /\ Other(Other(p)) = p /\ TypeOK /\ Stream(Other(p)) /\ End(p)
      BY PeerFacts DEF Inv
    <3>2. PICK m \in Message : m = Next1(p) /\ m = link[Other(p)][1] /\ 1 \in 1..Len(link[Other(p)])
      BY <2>2, <3>1, EmptySeq, HeadTailProperties, EndFacts DEF Next1
    <3>3. 3 * REpoch(p) <= Due(m) /\ Due(m) <= 3 * REpoch(p) + 2
      BY <2>2, <3>1, <3>2 DEF Stream, Meet, Meets, Marked, Mark
    <3>4. Epoch(m.key) \in Nat /\ Stage(m.t) \in {0, 1, 2} /\ REpoch(p) \in Nat
      BY <3>1, MessageFacts, EndFacts
    <3>5. Epoch(m.key) = REpoch(p)
      BY <3>3, <3>4 DEF Due
    <3>6. m.key = tr[p].rkey
      BY <3>1, <3>2, <3>5 DEF Stream, Formed, End, Agreed
    <3> QED
      BY <2>2, <3>2, <3>6 DEF Authentic, Failed
  <2>3. ASSUME NEW p \in Peers PROVE tr[p].sessionID \in {None, <<1, 1>>}
    BY DEF Inv, End, Agreed
  <2> QED
    BY <2>1, <2>2, <2>3 DEF KeysMatch
<1> QED
  BY <1>1, SameCourse, PTL

(* No data comes between a kexInit and the msgNewKeys that follows it.     *)
THEOREM SilentExchange == Spec => []KexSilence
<1>1. ASSUME Inv, NEW p \in Peers, rl[Other(p)].pc \in InExchange, link[p] # <<>>
      PROVE  Head(link[p]).t # "data"
  <2>1. Other(p) \in Peers /\ Other(Other(p)) = p
    BY PeerFacts
  <2>2. ~Failed(Other(p)) /\ rl[Other(p)].pc # "exited" /\ RStage(Other(p)) # 0
    BY <1>1 DEF Failed, InExchange, RStage
  <2>3. Stage(Next1(Other(p)).t) = RStage(Other(p))
    BY <1>1, <2>1, <2>2, ReadFacts
  <2>4. Stage("data") = 0
    BY DEF Stage
  <2> QED
    BY <2>1, <2>2, <2>3, <2>4 DEF Next1
<1>2. ASSUME Inv, NEW p \in Peers
      PROVE  \A i, j \in DOMAIN link[p] :
                 i < j /\ link[p][i].t \in {"kexInit", "dhInit", "dhReply"} /\ link[p][j].t = "data"
                     => \E n \in i..j : link[p][n].t = "newKeys"
  <2>1. DOMAIN link[p] = 1..Len(link[p])
    BY <1>2, EndFacts DEF Inv
  <2>2. Silence(p)
    BY <1>2 DEF Inv, Stream
  <2> QED
    BY <2>1, <2>2 DEF Silence, InKex
<1>3. Inv => KexSilence
  BY <1>1, <1>2 DEF KexSilence
<1> QED
  BY <1>3, SameCourse, PTL

=============================================================================
