--------------------------- MODULE ChannelsProofs ---------------------------
(***************************************************************************)
(* Theorems about Channels, for any number of channels and requesters: no  *)
(* packet arrives for a channel other than the one it was sent for, and    *)
(* no SendRequest returns another one's answer.                            *)
(***************************************************************************)
EXTENDS Channels, TLAPS, SequenceTheorems, WellFoundedInduction, NaturalsInduction

(* The end that opens the channel.                                         *)
Opener(c) == c[1]

Entries == Names \cup {Free}
Askers == UNION {UNION {Requesters[p][c] : c \in Names} : p \in Peers}
Senders == Askers \cup {Nobody}
Words == Askers \cup {"confirm", "failure"}
Object == [state : {"none", "opening", "offered", "ready", "refused"}, remoteId : Nat,
           sentClose : BOOLEAN, closed : BOOLEAN, msg : Seq(Words), late : BOOLEAN]
Kinds == {"open", "confirm", "failure", "request", "answer", "close"}
Message == [t : Kinds, to : Nat, from : Nat, c : Names, who : Senders]

TypeOK ==
    /\ chanList \in [Peers -> Seq(Entries)]
    /\ ch \in [Peers -> [Names -> Object]]
    /\ rq = [p \in Peers |-> [c \in Names |-> [g \in Requesters[p][c] |-> rq[p][c][g]]]]
    /\ reqMu = [p \in Peers |-> [c \in Names |-> reqMu[p][c]]]
    /\ asked \in [Peers -> [Names -> Seq(Senders)]]
    /\ link \in [Peers -> Seq(Message)]
    /\ broken \in BOOLEAN
    /\ loop \in [Peers -> {"run", "dropped", "end"}]

-----------------------------------------------------------------------------
(* The packets on their way.                                               *)

(* Number id is channel c's at p.                                          *)
Listed(p, id, c) == id \in DOMAIN chanList[p] /\ chanList[p][id] = c

IsListed(p, c) == \E id \in DOMAIN chanList[p] : chanList[p][id] = c

(* What may follow what among the packets of one channel: nothing comes    *)
(* after a close or a refusal, nothing before an open or its answer, and   *)
(* there is one request and one answer at a time.                          *)
Follows(m, n, reads) ==
    /\ m.t \notin {"close", "failure"} /\ n.t \notin {"open", "confirm", "failure"}
    /\ ~(m.t = "request" /\ n.t = "request")
    /\ reads => ~(m.t = "answer" /\ n.t = "answer")

Reads(p) == loop[p] = "run"

Order(p) ==
    \A i, j \in DOMAIN link[p] :
        i < j /\ link[p][i].c = link[p][j].c => Follows(link[p][i], link[p][j], Reads(Other(p)))

(* While an end reads, a packet m on its way there from p has the number   *)
(* under which that end lists the channel.                                 *)
Addressed(p, m) == Reads(Other(p)) /\ m.t # "open" => Listed(Other(p), m.to, m.c)

(* The number that an end announces is the channel's.                      *)
Announced(p, m) ==
    m.t \in {"open", "confirm"} => m.from # 0 /\ (Reads(p) => Listed(p, m.from, m.c))

(* A request and its answer name the goroutine that holds sentRequestMu.   *)
Held(p, m) ==
    /\ m.t = "request" /\ ~ch[p][m.c].closed => m.who = reqMu[p][m.c]
    /\ m.t = "answer" /\ ~ch[Other(p)][m.c].closed => m.who = reqMu[Other(p)][m.c]

Right(p, m) == Addressed(p, m) /\ Announced(p, m) /\ Held(p, m)

AllRight == \A p \in Peers : \A m \in ToSet(link[p]) : Right(p, m)

-----------------------------------------------------------------------------
(* The two ends of one channel.                                            *)

(* A packet of channel c and of kind t is on its way from p.               *)
Has(p, c, t) == \E m \in ToSet(link[p]) : m.c = c /\ m.t = t
Silent(p, c) == \A t \in Kinds : ~Has(p, c, t)

(* What packets on their way say of the two ends.                          *)
Opening(p, c) ==
    Has(p, c, "open") => p = Opener(c) /\ ch[p][c].state # "none" /\ ch[Other(p)][c].state = "none"
Confirming(p, c) ==
    Has(p, c, "confirm") => p # Opener(c) /\ ch[p][c].state = "ready" /\ ch[Other(p)][c].remoteId = 0
Refusing(p, c) ==
    Has(p, c, "failure") => p # Opener(c) /\ ch[p][c].state = "refused" /\ ch[p][c].remoteId # 0
Answered(p, c) ==
    (Has(p, c, "confirm") \/ Has(p, c, "failure")) /\ Reads(Other(p)) =>
        ch[Other(p)][c].state = "opening" /\ ch[Other(p)][c].msg = <<>>
Using(p, c) ==
    Has(p, c, "request") \/ Has(p, c, "answer") => ch[p][c].state = "ready"
Closing(p, c) ==
    Has(p, c, "close") => /\ ch[p][c].sentClose /\ ch[p][c].remoteId # 0
                          /\ p # Opener(c) => ch[p][c].state = "ready"
Introduced(p, c) ==
    Has(p, c, "request") \/ Has(p, c, "answer") \/ Has(p, c, "close") =>
        ch[Other(p)][c].remoteId # 0 \/ Has(p, c, "open") \/ Has(p, c, "confirm")

(* Each end's channel object.                                              *)
Own(p, c) ==
    /\ ch[p][c].state = "none" => ch[p][c] = NoChannel
    /\ ch[p][c].state \in {"offered", "ready"} => ch[p][c].remoteId # 0
    /\ ch[p][c].state = "opening" => p = Opener(c)
    /\ ch[p][c].state = "offered" => p # Opener(c)
    /\ ch[p][c].closed => ch[p][c].sentClose
    /\ IsListed(p, c) => ch[p][c].state # "none"

(* The number that the other end has learnt and may still use.             *)
Learnt(p, c) ==
    LET obj == ch[Other(p)][c] IN
    Reads(p) /\ obj.remoteId # 0 /\ ~obj.sentClose /\ obj.state # "refused" => Listed(p, obj.remoteId, c)

(* The other end of a ready channel knows it, or will before anything else *)
(* reaches it; nothing reaches a channel that was closed.                  *)
Reach(p, c) ==
    /\ ch[p][c].state = "ready" /\ ~broken => ch[Other(p)][c].remoteId # 0 \/ Has(p, c, "confirm")
    /\ ch[p][c].closed /\ Reads(p) => ch[Other(p)][c].sentClose /\ Silent(Other(p), c)

(* The objects of the two ends, where p is the one that opens.             *)
Pair(p, q, c) ==
    /\ ch[p][c].state = "none" => ch[q][c].state = "none" /\ Silent(p, c) /\ Silent(q, c)
    /\ ch[p][c].remoteId # 0 \/ (ch[p][c].closed /\ Reads(p)) => ch[q][c].state = "ready"
    /\ ch[q][c].state \in {"none", "offered"} /\ ch[p][c].state # "none" /\ Reads(p) =>
           ch[p][c].state = "opening" /\ ch[p][c].msg = <<>>
    /\ ch[p][c].state = "opening" =>
           \/ ch[p][c].msg = <<>>
           \/ ch[p][c].msg = <<"confirm">> /\ ch[p][c].remoteId # 0
           \/ ch[p][c].msg = <<"failure">> /\ ch[q][c].state = "refused"
    /\ ch[p][c].state = "refused" /\ ~ch[p][c].sentClose /\ Reads(p) => ch[q][c].state = "refused"

(* Who holds sentRequestMu, and what c.msg brings.                         *)
Caller(p, c) ==
    /\ reqMu[p][c] # "free" => reqMu[p][c] \in Requesters[p][c]
    /\ \A g \in Requesters[p][c] :
           /\ rq[p][c][g] \in {"idle", "lock", "wait", "error", g}
           /\ rq[p][c][g] = "wait" <=> reqMu[p][c] = g
           /\ rq[p][c][g] # "idle" => ch[p][c].state = "ready"
    /\ ch[p][c].state # "opening" =>
           ch[p][c].msg = <<>> \/ (reqMu[p][c] # "free" /\ ch[p][c].msg = <<reqMu[p][c]>>)

(* A request is in one place only: on its way, with the other end, or      *)
(* answered and on its way back; and then the mutex is held.               *)
Asking(p, q, c) ==
    ~ch[p][c].closed =>
        /\ Has(p, c, "request") =>
               reqMu[p][c] # "free" /\ asked[q][c] = <<>> /\ ~Has(q, c, "answer") /\ ch[p][c].msg = <<>>
        /\ asked[q][c] # <<>> =>
               reqMu[p][c] # "free" /\ asked[q][c] = <<reqMu[p][c]>> /\ ~Has(q, c, "answer") /\ ch[p][c].msg = <<>>
        /\ Has(q, c, "answer") => reqMu[p][c] # "free" /\ ch[p][c].msg = <<>>

Carried(p, c) == Opening(p, c) /\ Confirming(p, c) /\ Refusing(p, c) /\ Answered(p, c)
                 /\ Using(p, c) /\ Closing(p, c) /\ Introduced(p, c)
Ends(p, c) == Own(p, c) /\ Learnt(p, c) /\ Reach(p, c)
Asks(p, c) == Caller(p, c) /\ Asking(p, Other(p), c)

Local(c) ==
    /\ Pair(Opener(c), Other(Opener(c)), c)
    /\ \A p \in Peers : Carried(p, c) /\ Ends(p, c) /\ Asks(p, c)

InOrder == \A p \in Peers : Order(p)

Inv == TypeOK /\ InOrder /\ AllRight /\ \A c \in Names : Local(c)

-----------------------------------------------------------------------------
(* The constants.                                                          *)

(* The two ends.                                                           *)
LEMMA PeerFacts ==
    ASSUME NEW p \in Peers
    PROVE  /\ Other(p) \in Peers /\ Other(p) # p /\ Other(Other(p)) = p
           /\ \A r \in Peers : r = p \/ r = Other(p)
BY DEF Peers, Other

(* Every channel that an end may open has a name, and no name is Free.     *)
LEMMA NameFacts ==
    /\ \A c \in Names : Opener(c) \in Peers /\ c # Free
    /\ \A p \in Peers : \A k \in 1..MaxOpens[p] : <<p, k>> \in Names /\ Opener(<<p, k>>) = p
<1> DEFINE S == {MaxOpens[p] : p \in Peers}
<1>1. S = {MaxOpens["client"], MaxOpens["server"]} /\ MaxOpens["client"] \in Nat /\ MaxOpens["server"] \in Nat
  BY ChannelsAssumption DEF Peers
<1>2. \E x \in S : \A y \in S : x >= y
  BY <1>1
<1>3. Max(S) \in S /\ \A y \in S : Max(S) >= y
  BY <1>2 DEF Max
<1>4. \A p \in Peers : MaxOpens[p] <= Max(S) /\ MaxOpens[p] \in Nat /\ Max(S) \in Nat
  BY <1>1, <1>3 DEF Peers
<1>n. PICK n \in Nat : n = Max(S)
  BY <1>4 DEF Peers
<1>m. Names = {<<p, k>> : p \in Peers, k \in 1..n}
  BY <1>n DEF Names
<1>5. ASSUME NEW p \in Peers, NEW k \in 1..MaxOpens[p] PROVE <<p, k>> \in Names
  <2>1. k \in 1..n
    BY <1>4, <1>n
  <2> QED
    BY <1>m, <2>1
<1>6. \A c \in Names : \E p \in Peers, k \in 1..n : c = <<p, k>>
  BY <1>m
<1>7. \A c \in Names : Opener(c) \in Peers /\ c # Free
  BY <1>6 DEF Opener, Free, Peers
<1> QED
  BY <1>5, <1>7 DEF Opener

(* The length of the larger of two.                                        *)
LEMMA LargerOfTwo ==
    ASSUME NEW a \in Nat, NEW b \in Nat
    PROVE  Max({a, b}) \in Nat /\ Max({a, b}) >= a /\ Max({a, b}) >= b /\ Max({a, b}) \in {a, b}
<1>1. \E x \in {a, b} : \A y \in {a, b} : x >= y
  OBVIOUS
<1> QED
  BY <1>1 DEF Max

(* chanList.add takes a number that stands for no channel.                 *)
LEMMA SlotFree ==
    ASSUME NEW list \in Seq(Entries)
    PROVE  /\ Slot(list) \in Nat \ {0} /\ Slot(list) <= Len(list) + 1
           /\ Slot(list) \in DOMAIN list => list[Slot(list)] = Free
<1> DEFINE S == {i \in DOMAIN list : list[i] = Free}
<1>1. CASE \E i \in DOMAIN list : list[i] = Free
  <2>1. S # {} /\ S \subseteq Nat
    BY <1>1
  <2>2. PICK x \in S : \A y \in S : <<y, x>> \notin OpToRel(<, Nat)
    BY <2>1, NatLessThanWellFounded, WFMin
  <2>3. \A y \in S : ~(y < x)
    BY <2>1, <2>2 DEF OpToRel
  <2>4. Min(S) \in S
    <3>1. Min(S) = CHOOSE z \in S : \A y \in S : z <= y
      BY DEF Min
    <3>2. \A y \in S : x <= y
      BY <2>1, <2>3
    <3> HIDE DEF S
    <3> QED
      BY <2>2, <3>1, <3>2
  <2> QED
    BY <1>1, <2>4 DEF Slot
<1>2. CASE ~\E i \in DOMAIN list : list[i] = Free
  BY <1>2 DEF Slot
<1> QED
  BY <1>1, <1>2

(* The list after chanList.add.                                            *)
LEMMA ListAdds ==
    ASSUME NEW list \in Seq(Entries), NEW c \in Names
    PROVE  /\ List(list, c) \in Seq(Entries)
           /\ Slot(list) \in DOMAIN List(list, c) /\ List(list, c)[Slot(list)] = c
           /\ \A i \in DOMAIN list : list[i] # Free => i \in DOMAIN List(list, c) /\ List(list, c)[i] = list[i]
           /\ \A i \in DOMAIN List(list, c) : List(list, c)[i] = c \/ (i \in DOMAIN list /\ List(list, c)[i] = list[i])
<1> DEFINE n == Max({Len(list), Slot(list)})
<1>1. Slot(list) \in Nat \ {0} /\ Slot(list) <= Len(list) + 1 /\ (Slot(list) \in DOMAIN list => list[Slot(list)] = Free)
  BY SlotFree
<1>2. n \in Nat /\ n >= Len(list) /\ n >= Slot(list) /\ n \in {Len(list), Slot(list)}
  BY <1>1, LargerOfTwo
<1>3. List(list, c) = [i \in 1..n |-> IF i = Slot(list) THEN c ELSE list[i]]
  BY DEF List
<1> HIDE DEF n
<1>4. \A i \in 1..n : i # Slot(list) => i \in DOMAIN list
  BY <1>1, <1>2
<1>5. List(list, c) \in Seq(Entries)
  BY <1>2, <1>3, <1>4 DEF Entries
<1> QED
  BY <1>1, <1>2, <1>3, <1>4, <1>5

-----------------------------------------------------------------------------
(* What a step does to the packets on their way from one end.              *)

(* The packets after one was written.                                      *)
LEMMA PacketAdded ==
    ASSUME TypeOK, NEW p \in Peers, NEW m \in Message, link'[p] = Append(link[p], m)
    PROVE  /\ link'[p] \in Seq(Message)
           /\ \A n : n \in ToSet(link[p])' <=> n \in ToSet(link[p]) \/ n = m
           /\ \A c, t : Has(p, c, t)' <=> Has(p, c, t) \/ (m.c = c /\ m.t = t)
<1>1. link[p] \in Seq(Message)
  BY DEF TypeOK
<1>2. \A n : n \in ToSet(link[p])' <=> n \in ToSet(link[p]) \/ n = m
  BY <1>1 DEF ToSet
<1> QED
  BY <1>1, <1>2 DEF Has

(* The packets after the first was read.                                   *)
LEMMA PacketRead ==
    ASSUME TypeOK, NEW p \in Peers, link[p] # <<>>, link'[p] = Tail(link[p])
    PROVE  /\ link'[p] \in Seq(Message) /\ Head(link[p]) \in Message
           /\ Head(link[p]) \in ToSet(link[p])
           /\ \A n : n \in ToSet(link[p])' => n \in ToSet(link[p])
           /\ \A n : n \in ToSet(link[p]) => n \in ToSet(link[p])' \/ n = Head(link[p])
<1>1. link[p] \in Seq(Message) /\ Len(link[p]) \in Nat /\ Len(link[p]) # 0
  BY DEF TypeOK
<1>2. link'[p] \in Seq(Message) /\ Head(link[p]) \in Message /\ Head(link[p]) = link[p][1]
  BY <1>1
<1>3. Len(link'[p]) = Len(link[p]) - 1 /\ \A i \in 1..Len(link'[p]) : link'[p][i] = link[p][i + 1]
  BY <1>1
<1>4. ASSUME NEW n, n \in ToSet(link[p])' PROVE n \in ToSet(link[p])
  <2>1. PICK i \in DOMAIN link'[p] : n = link'[p][i]
    BY <1>4 DEF ToSet
  <2>2. i + 1 \in DOMAIN link[p] /\ n = link[p][i + 1]
    BY <1>1, <1>2, <1>3, <2>1
  <2> QED
    BY <2>2 DEF ToSet
<1>5. ASSUME NEW n, n \in ToSet(link[p]), n # Head(link[p]) PROVE n \in ToSet(link[p])'
  <2>1. PICK i \in DOMAIN link[p] : n = link[p][i]
    BY <1>5 DEF ToSet
  <2>2. i - 1 \in DOMAIN link'[p] /\ n = link'[p][i - 1]
    BY <1>1, <1>2, <1>3, <1>5, <2>1
  <2> QED
    BY <2>2 DEF ToSet
<1>6. Head(link[p]) \in ToSet(link[p])
  BY <1>1, <1>2 DEF ToSet
<1> QED
  BY <1>2, <1>4, <1>5, <1>6

(* The same said of kinds: those of the channel of the packet that was     *)
(* read may still be there if they may follow it.                          *)
LEMMA KindRead ==
    ASSUME TypeOK, NEW p \in Peers, Order(p), link[p] # <<>>, link'[p] = Tail(link[p]), NEW h, h = Head(link[p])
    PROVE  /\ h \in Message /\ Has(p, h.c, h.t)
           /\ \A c, t : Has(p, c, t)' => Has(p, c, t)
           /\ \A c, t : Has(p, c, t) => Has(p, c, t)' \/ (h.c = c /\ h.t = t)
           /\ \A t : Has(p, h.c, t)' =>
                  /\ h.t \notin {"close", "failure"} /\ t \notin {"open", "confirm", "failure"}
                  /\ ~(h.t = "request" /\ t = "request")
                  /\ Reads(Other(p)) => ~(h.t = "answer" /\ t = "answer")
<1>1. link[p] \in Seq(Message) /\ Len(link[p]) \in Nat /\ Len(link[p]) # 0
  BY DEF TypeOK
<1>2. link'[p] \in Seq(Message) /\ h = link[p][1] /\ h \in Message
  BY <1>1
<1>3. Len(link'[p]) = Len(link[p]) - 1 /\ \A i \in 1..Len(link'[p]) : link'[p][i] = link[p][i + 1]
  BY <1>1
<1>4. ASSUME NEW t, Has(p, h.c, t)' PROVE \E n : n.t = t /\ Follows(h, n, Reads(Other(p)))
  <2>1. PICK i \in DOMAIN link'[p] : link'[p][i].c = h.c /\ link'[p][i].t = t
    BY <1>4 DEF Has, ToSet
  <2>2. i \in 1..Len(link'[p]) /\ i + 1 \in 2..Len(link[p]) /\ 1 \in DOMAIN link[p] /\ i + 1 \in DOMAIN link[p]
    BY <1>1, <1>2, <1>3, <2>1
  <2>3. link'[p][i] = link[p][i + 1] /\ 1 < i + 1
    BY <1>3, <2>2
  <2>4. Follows(h, link[p][i + 1], Reads(Other(p)))
    BY <1>2, <2>1, <2>2, <2>3 DEF Order
  <2> QED
    BY <2>1, <2>3, <2>4
<1>5. \A c, t : Has(p, c, t)' => Has(p, c, t)
  BY PacketRead DEF Has
<1>6. \A c, t : Has(p, c, t) => Has(p, c, t)' \/ (h.c = c /\ h.t = t)
  BY PacketRead DEF Has
<1>7. Has(p, h.c, h.t)
  BY PacketRead DEF Has
<1> QED
  BY <1>2, <1>4, <1>5, <1>6, <1>7 DEF Follows

(* The order after a packet was written and after one was read.            *)
LEMMA OrderAdded ==
    ASSUME TypeOK, NEW p \in Peers, NEW m \in Message, Order(p), link'[p] = Append(link[p], m),
           Reads(Other(p))' => Reads(Other(p)),
           ~Has(p, m.c, "close"), ~Has(p, m.c, "failure"),
           m.t \in {"open", "confirm", "failure"} => Silent(p, m.c),
           m.t = "request" => ~Has(p, m.c, "request"),
           m.t = "answer" /\ Reads(Other(p)) => ~Has(p, m.c, "answer")
    PROVE  Order(p)'
<1>1. link[p] \in Seq(Message) /\ Len(link[p]) \in Nat
  BY DEF TypeOK
<1>2. Len(link'[p]) = Len(link[p]) + 1 /\ link'[p][Len(link[p]) + 1] = m
      /\ (\A i \in 1..Len(link[p]) : link'[p][i] = link[p][i] /\ link[p][i] \in Message)
      /\ DOMAIN link'[p] = 1..(Len(link[p]) + 1) /\ DOMAIN link[p] = 1..Len(link[p])
  BY <1>1
<1>3. ASSUME NEW i \in 1..Len(link[p]), link[p][i].c = m.c PROVE Follows(link[p][i], m, Reads(Other(p)))
  <2>1. link[p][i] \in ToSet(link[p]) /\ link[p][i].t \in Kinds
    BY <1>2 DEF ToSet, Message
  <2>2. Has(p, m.c, link[p][i].t)
    BY <1>3, <2>1 DEF Has
  <2> QED
    BY <2>1, <2>2 DEF Follows, Silent
<1>4. ASSUME NEW i \in 1..(Len(link[p]) + 1), NEW j \in 1..(Len(link[p]) + 1), i < j, link'[p][i].c = link'[p][j].c
      PROVE  Follows(link'[p][i], link'[p][j], Reads(Other(p)))
  <2>1. i \in 1..Len(link[p]) /\ (j \in 1..Len(link[p]) \/ j = Len(link[p]) + 1)
    BY <1>1, <1>4
  <2> QED
    BY <1>2, <1>3, <1>4, <2>1 DEF Order
<1> QED
  BY <1>2, <1>4 DEF Order, Follows

(* The order is kept when the first packet is read.                        *)
LEMMA OrderRead ==
    ASSUME TypeOK, NEW p \in Peers, Order(p), link[p] # <<>>, link'[p] = Tail(link[p]),
           Reads(Other(p))' => Reads(Other(p))
    PROVE  Order(p)'
<1>1. link[p] \in Seq(Message) /\ Len(link[p]) \in Nat /\ Len(link[p]) # 0
  BY DEF TypeOK
<1>3. Len(link'[p]) = Len(link[p]) - 1 /\ DOMAIN link'[p] = 1..(Len(link[p]) - 1)
      /\ \A i \in 1..(Len(link[p]) - 1) : link'[p][i] = link[p][i + 1] /\ i + 1 \in DOMAIN link[p]
  BY <1>1
<1>4. \A i, j \in DOMAIN link'[p] : i < j => i + 1 < j + 1
  BY <1>1, <1>3
<1> QED
  BY <1>3, <1>4 DEF Order, Follows

(* The order is kept when nothing is sent; the end that reads may stop.    *)
LEMMA OrderSame ==
    ASSUME NEW p \in Peers, Order(p), link'[p] = link[p], Reads(Other(p))' => Reads(Other(p))
    PROVE  Order(p)'
BY DEF Order, Follows

-----------------------------------------------------------------------------
(* What a step does to the numbers.                                        *)

(* chanList.add: the new number is the channel's, and the others stay.     *)
LEMMA NumberAdded ==
    ASSUME TypeOK, NEW p \in Peers, NEW c \in Names, NEW n, n = Slot(chanList[p]),
           chanList' = [chanList EXCEPT ![p] = List(@, c)]
    PROVE  /\ chanList' \in [Peers -> Seq(Entries)]
           /\ n \in Nat \ {0} /\ Listed(p, n, c)'
           /\ \A r \in Peers, d \in Names : \A x : Listed(r, x, d) => Listed(r, x, d)'
           /\ \A r \in Peers, d \in Names : IsListed(r, d)' => IsListed(r, d) \/ (r = p /\ d = c)
<1>1. chanList \in [Peers -> Seq(Entries)] /\ chanList[p] \in Seq(Entries)
  BY DEF TypeOK
<1>2. PICK list \in Seq(Entries) : list = chanList[p]
  BY <1>1
<1>3. PICK new \in Seq(Entries) : new = List(list, c)
  BY <1>2, ListAdds
<1>4. chanList'[p] = new /\ \A r \in Peers : r # p => chanList'[r] = chanList[r]
  BY <1>1, <1>2, <1>3
<1>5. n \in Nat \ {0} /\ n \in DOMAIN new /\ new[n] = c
  BY <1>2, <1>3, ListAdds, SlotFree
<1>6. /\ \A i \in DOMAIN list : list[i] # Free => i \in DOMAIN new /\ new[i] = list[i]
      /\ \A i \in DOMAIN new : new[i] = c \/ (i \in DOMAIN list /\ new[i] = list[i])
  BY <1>3, ListAdds
<1>7. \A d \in Names : d # Free
  BY NameFacts
<1>8. chanList' \in [Peers -> Seq(Entries)]
  BY <1>1, <1>2, <1>3
<1>9. \A r \in Peers, d \in Names : \A x : Listed(r, x, d) => Listed(r, x, d)'
  BY <1>2, <1>4, <1>6, <1>7 DEF Listed
<1>10. \A r \in Peers, d \in Names : IsListed(r, d)' => IsListed(r, d) \/ (r = p /\ d = c)
  BY <1>2, <1>4, <1>6 DEF IsListed
<1> QED
  BY <1>4, <1>5, <1>8, <1>9, <1>10 DEF Listed

(* chanList.remove: only the number of the removed channel is free.        *)
LEMMA NumberRemoved ==
    ASSUME TypeOK, NEW p \in Peers, NEW c \in Names, NEW n, Listed(p, n, c),
           chanList' = [chanList EXCEPT ![p] = Unlist(@, n)]
    PROVE  /\ chanList' \in [Peers -> Seq(Entries)]
           /\ \A r \in Peers, d \in Names : \A x : Listed(r, x, d) /\ ~(r = p /\ d = c) => Listed(r, x, d)'
           /\ \A r \in Peers, d \in Names : IsListed(r, d)' => IsListed(r, d)
<1>1. chanList \in [Peers -> Seq(Entries)] /\ chanList[p] \in Seq(Entries)
  BY DEF TypeOK
<1>2. PICK list \in Seq(Entries) : list = chanList[p]
  BY <1>1
<1>3. Unlist(list, n) = [i \in 1..Len(list) |-> IF i = n THEN Free ELSE list[i]] /\ Len(list) \in Nat
  BY <1>2 DEF Unlist
<1>4. Unlist(list, n) \in Seq(Entries)
  BY <1>2, <1>3 DEF Entries
<1>5. PICK new \in Seq(Entries) : new = Unlist(list, n)
  BY <1>4
<1>6. DOMAIN new = DOMAIN list /\ \A i \in DOMAIN list : new[i] = IF i = n THEN Free ELSE list[i]
  BY <1>3, <1>5
<1>7. chanList'[p] = new /\ \A r \in Peers : r # p => chanList'[r] = chanList[r]
  BY <1>1, <1>2, <1>5
<1>8. \A d \in Names : d # Free
  BY NameFacts
<1>9. chanList' \in [Peers -> Seq(Entries)]
  BY <1>1, <1>2, <1>5
<1>10. \A r \in Peers, d \in Names : \A x : Listed(r, x, d) /\ ~(r = p /\ d = c) => Listed(r, x, d)'
  BY <1>2, <1>6, <1>7 DEF Listed
<1>11. \A r \in Peers, d \in Names : IsListed(r, d)' => IsListed(r, d)
  BY <1>2, <1>6, <1>7, <1>8 DEF IsListed
<1> QED
  BY <1>9, <1>10, <1>11

-----------------------------------------------------------------------------
(* What a step does to the channels it is not about.                       *)

(* Nothing that Local(d) speaks of is touched, except that an end may stop *)
(* reading and the connection may break.                                   *)
Same(d) ==
    /\ broken => broken'
    /\ \A p \in Peers :
           /\ ch'[p][d] = ch[p][d] /\ asked'[p][d] = asked[p][d]
           /\ rq'[p][d] = rq[p][d] /\ reqMu'[p][d] = reqMu[p][d]
           /\ \A t : Has(p, d, t)' <=> Has(p, d, t)
           /\ Reads(p)' => Reads(p) /\ \A x : Listed(p, x, d) => Listed(p, x, d)'
           /\ IsListed(p, d)' => IsListed(p, d)

(* A channel that a step is not about stays as it is.                      *)
LEMMA SameLocal ==
    ASSUME NEW d \in Names, Local(d), Same(d)
    PROVE  Local(d)'
<1>1. Opener(d) \in Peers /\ Other(Opener(d)) \in Peers
  BY NameFacts, PeerFacts
<1>2. \A p \in Peers : Other(p) \in Peers
  BY PeerFacts
<1>3. \A p \in Peers : Silent(p, d)' <=> Silent(p, d)
  BY DEF Silent, Same
<1>4. Pair(Opener(d), Other(Opener(d)), d)'
  <2>1. Pair(Opener(d), Other(Opener(d)), d)
    BY DEF Local
  <2> QED
    BY <1>1, <1>3, <2>1 DEF Pair, Same
<1>5. ASSUME NEW p \in Peers PROVE Carried(p, d)'
  <2>1. Carried(p, d)
    BY DEF Local
  <2> QED
    BY <1>2, <2>1 DEF Carried, Opening, Confirming, Refusing, Answered, Using, Closing, Introduced, Same
<1>6. ASSUME NEW p \in Peers PROVE Own(p, d)' /\ Learnt(p, d)' /\ Reach(p, d)'
  <2>1. Own(p, d) /\ Learnt(p, d) /\ Reach(p, d)
    BY DEF Local, Ends
  <2>2. Own(p, d)'
    BY <2>1 DEF Own, Same
  <2>3. Learnt(p, d)'
    BY <1>2, <2>1 DEF Learnt, Same
  <2>4. Reach(p, d)'
    BY <1>2, <1>3, <2>1 DEF Reach, Same
  <2> QED
    BY <2>2, <2>3, <2>4
<1>7. ASSUME NEW p \in Peers PROVE Caller(p, d)' /\ Asking(p, Other(p), d)'
  <2>1. Caller(p, d) /\ Asking(p, Other(p), d)
    BY DEF Local, Asks
  <2>2. Caller(p, d)'
    BY <2>1 DEF Caller, Same
  <2>3. Asking(p, Other(p), d)'
    BY <1>2, <2>1 DEF Asking, Same
  <2> QED
    BY <2>2, <2>3
<1> QED
  BY <1>4, <1>5, <1>6, <1>7 DEF Local, Ends, Asks

-----------------------------------------------------------------------------
(* What a step does to one channel object.                                 *)

Elsewhere(p, c) == \A r \in Peers, d \in Names : r # p \/ d # c => ch'[r][d] = ch[r][d]

(* All of the object but how far it is closed.                             *)
Turned(p, c, s, id, w) ==
    /\ ch' \in [Peers -> [Names -> Object]]
    /\ ch'[p][c].state = s /\ ch'[p][c].remoteId = id /\ ch'[p][c].msg = w
    /\ Elsewhere(p, c)

Kept(p, c) == ch'[p][c].sentClose = ch[p][c].sentClose /\ ch'[p][c].closed = ch[p][c].closed

(* A channel object is replaced, and no other.                             *)
LEMMA ObjectStored ==
    ASSUME TypeOK, NEW p \in Peers, NEW c \in Names, NEW o \in Object, ch' = [ch EXCEPT ![p][c] = o]
    PROVE  ch' \in [Peers -> [Names -> Object]] /\ ch'[p][c] = o /\ Elsewhere(p, c)
<1>1. ch \in [Peers -> [Names -> Object]]
  BY DEF TypeOK
<1> QED
  BY <1>1 DEF Elsewhere

(* What each kind of assignment in the actions does to a channel object.   *)
LEMMA ObjectUpdates ==
    ASSUME TypeOK, NEW p \in Peers, NEW c \in Names,
           NEW s \in {"none", "opening", "offered", "ready", "refused"}, NEW n \in Nat, NEW w \in Seq(Words)
    PROVE  /\ ch' = [ch EXCEPT ![p][c].state = s] =>
                  Turned(p, c, s, ch[p][c].remoteId, ch[p][c].msg) /\ Kept(p, c)
           /\ ch' = [ch EXCEPT ![p][c].msg = w] =>
                  Turned(p, c, ch[p][c].state, ch[p][c].remoteId, w) /\ Kept(p, c)
           /\ ch' = [ch EXCEPT ![p][c].msg = w, ![p][c].state = s] =>
                  Turned(p, c, s, ch[p][c].remoteId, w) /\ Kept(p, c)
           /\ ch' = [ch EXCEPT ![p][c].state = s, ![p][c].remoteId = n] =>
                  Turned(p, c, s, n, ch[p][c].msg) /\ Kept(p, c)
           /\ ch' = [ch EXCEPT ![p][c].remoteId = n, ![p][c].msg = w] =>
                  Turned(p, c, ch[p][c].state, n, w) /\ Kept(p, c)
           /\ ch' = [ch EXCEPT ![p][c].sentClose = TRUE] =>
                  Turned(p, c, ch[p][c].state, ch[p][c].remoteId, ch[p][c].msg)
                  /\ ch'[p][c].sentClose = TRUE /\ ch'[p][c].closed = ch[p][c].closed
           /\ ch' = [ch EXCEPT ![p][c] = Closed(@)] =>
                  Turned(p, c, ch[p][c].state, ch[p][c].remoteId, ch[p][c].msg)
                  /\ ch'[p][c].sentClose = TRUE /\ ch'[p][c].closed = TRUE
<1>1. ch \in [Peers -> [Names -> Object]]
  BY DEF TypeOK
<1>2. PICK o \in Object : o = ch[p][c]
  BY <1>1
<1>3. ASSUME ch' = [ch EXCEPT ![p][c].state = s] PROVE ch' = [ch EXCEPT ![p][c] = [o EXCEPT !.state = s]]
  BY <1>1, <1>2, <1>3
<1>4. ASSUME ch' = [ch EXCEPT ![p][c].msg = w] PROVE ch' = [ch EXCEPT ![p][c] = [o EXCEPT !.msg = w]]
  BY <1>1, <1>2, <1>4
<1>5. ASSUME ch' = [ch EXCEPT ![p][c].msg = w, ![p][c].state = s]
      PROVE  ch' = [ch EXCEPT ![p][c] = [o EXCEPT !.msg = w, !.state = s]]
  BY <1>1, <1>2, <1>5
<1>6. ASSUME ch' = [ch EXCEPT ![p][c].state = s, ![p][c].remoteId = n]
      PROVE  ch' = [ch EXCEPT ![p][c] = [o EXCEPT !.state = s, !.remoteId = n]]
  BY <1>1, <1>2, <1>6
<1>7. ASSUME ch' = [ch EXCEPT ![p][c].remoteId = n, ![p][c].msg = w]
      PROVE  ch' = [ch EXCEPT ![p][c] = [o EXCEPT !.remoteId = n, !.msg = w]]
  BY <1>1, <1>2, <1>7
<1>8. ASSUME ch' = [ch EXCEPT ![p][c].sentClose = TRUE] PROVE ch' = [ch EXCEPT ![p][c] = [o EXCEPT !.sentClose = TRUE]]
  BY <1>1, <1>2, <1>8
<1>9. ASSUME ch' = [ch EXCEPT ![p][c] = Closed(@)]
      PROVE  ch' = [ch EXCEPT ![p][c] = [o EXCEPT !.closed = TRUE, !.sentClose = TRUE]]
  BY <1>1, <1>2, <1>9 DEF Closed
<1>o. /\ [o EXCEPT !.state = s] \in Object /\ [o EXCEPT !.msg = w] \in Object
      /\ [o EXCEPT !.msg = w, !.state = s] \in Object /\ [o EXCEPT !.state = s, !.remoteId = n] \in Object
      /\ [o EXCEPT !.remoteId = n, !.msg = w] \in Object /\ [o EXCEPT !.sentClose = TRUE] \in Object
      /\ [o EXCEPT !.closed = TRUE, !.sentClose = TRUE] \in Object
  BY DEF Object
<1>a. ASSUME ch' = [ch EXCEPT ![p][c].state = s]
      PROVE  Turned(p, c, s, ch[p][c].remoteId, ch[p][c].msg) /\ Kept(p, c)
  <2>1. PICK new \in Object : new = [o EXCEPT !.state = s]
    BY <1>o
  <2>2. ch' \in [Peers -> [Names -> Object]] /\ ch'[p][c] = new /\ Elsewhere(p, c)
    BY <1>a, <1>3, <2>1, ObjectStored
  <2> QED
    BY <1>2, <2>1, <2>2 DEF Turned, Kept, Object
<1>b. ASSUME ch' = [ch EXCEPT ![p][c].msg = w]
      PROVE  Turned(p, c, ch[p][c].state, ch[p][c].remoteId, w) /\ Kept(p, c)
  <2>1. PICK new \in Object : new = [o EXCEPT !.msg = w]
    BY <1>o
  <2>2. ch' \in [Peers -> [Names -> Object]] /\ ch'[p][c] = new /\ Elsewhere(p, c)
    BY <1>b, <1>4, <2>1, ObjectStored
  <2> QED
    BY <1>2, <2>1, <2>2 DEF Turned, Kept, Object
<1>c. ASSUME ch' = [ch EXCEPT ![p][c].msg = w, ![p][c].state = s]
      PROVE  Turned(p, c, s, ch[p][c].remoteId, w) /\ Kept(p, c)
  <2>1. PICK new \in Object : new = [o EXCEPT !.msg = w, !.state = s]
    BY <1>o
  <2>2. ch' \in [Peers -> [Names -> Object]] /\ ch'[p][c] = new /\ Elsewhere(p, c)
    BY <1>c, <1>5, <2>1, ObjectStored
  <2> QED
    BY <1>2, <2>1, <2>2 DEF Turned, Kept, Object
<1>d. ASSUME ch' = [ch EXCEPT ![p][c].state = s, ![p][c].remoteId = n]
      PROVE  Turned(p, c, s, n, ch[p][c].msg) /\ Kept(p, c)
  <2>1. PICK new \in Object : new = [o EXCEPT !.state = s, !.remoteId = n]
    BY <1>o
  <2>2. ch' \in [Peers -> [Names -> Object]] /\ ch'[p][c] = new /\ Elsewhere(p, c)
    BY <1>d, <1>6, <2>1, ObjectStored
  <2> QED
    BY <1>2, <2>1, <2>2 DEF Turned, Kept, Object
<1>e. ASSUME ch' = [ch EXCEPT ![p][c].remoteId = n, ![p][c].msg = w]
      PROVE  Turned(p, c, ch[p][c].state, n, w) /\ Kept(p, c)
  <2>1. PICK new \in Object : new = [o EXCEPT !.remoteId = n, !.msg = w]
    BY <1>o
  <2>2. ch' \in [Peers -> [Names -> Object]] /\ ch'[p][c] = new /\ Elsewhere(p, c)
    BY <1>e, <1>7, <2>1, ObjectStored
  <2> QED
    BY <1>2, <2>1, <2>2 DEF Turned, Kept, Object
<1>f. ASSUME ch' = [ch EXCEPT ![p][c].sentClose = TRUE]
      PROVE  Turned(p, c, ch[p][c].state, ch[p][c].remoteId, ch[p][c].msg)
             /\ ch'[p][c].sentClose = TRUE /\ ch'[p][c].closed = ch[p][c].closed
  <2>1. PICK new \in Object : new = [o EXCEPT !.sentClose = TRUE]
    BY <1>o
  <2>2. ch' \in [Peers -> [Names -> Object]] /\ ch'[p][c] = new /\ Elsewhere(p, c)
    BY <1>f, <1>8, <2>1, ObjectStored
  <2> QED
    BY <1>2, <2>1, <2>2 DEF Turned, Kept, Object
<1>g. ASSUME ch' = [ch EXCEPT ![p][c] = Closed(@)]
      PROVE  Turned(p, c, ch[p][c].state, ch[p][c].remoteId, ch[p][c].msg)
             /\ ch'[p][c].sentClose = TRUE /\ ch'[p][c].closed = TRUE
  <2>1. PICK new \in Object : new = [o EXCEPT !.closed = TRUE, !.sentClose = TRUE]
    BY <1>o
  <2>2. ch' \in [Peers -> [Names -> Object]] /\ ch'[p][c] = new /\ Elsewhere(p, c)
    BY <1>g, <1>9, <2>1, ObjectStored
  <2> QED
    BY <1>2, <2>1, <2>2 DEF Turned, Kept, Object
<1> QED
  BY <1>a, <1>b, <1>c, <1>d, <1>e, <1>f, <1>g

(* What a step does to one call, one mutex, one queue of requests.         *)
CallIs(p, c, g, x) ==
    /\ rq' = [r \in Peers |-> [d \in Names |-> [h \in Requesters[r][d] |-> rq'[r][d][h]]]]
    /\ rq'[p][c][g] = x /\ \A h \in Requesters[p][c] : h # g => rq'[p][c][h] = rq[p][c][h]
    /\ \A r \in Peers, d \in Names : r # p \/ d # c => rq'[r][d] = rq[r][d]

(* One call changes its state, and no other.                               *)
LEMMA CallUpdate ==
    ASSUME TypeOK, NEW p \in Peers, NEW c \in Names, NEW g \in Requesters[p][c], NEW x,
           rq' = [rq EXCEPT ![p][c][g] = x]
    PROVE  CallIs(p, c, g, x)
<1>1. rq = [r \in Peers |-> [d \in Names |-> [h \in Requesters[r][d] |-> rq[r][d][h]]]]
  BY DEF TypeOK
<1>2. PICK f : f = rq
  OBVIOUS
<1>3. /\ DOMAIN f = Peers /\ \A r \in Peers : DOMAIN f[r] = Names
      /\ \A r \in Peers, d \in Names : DOMAIN f[r][d] = Requesters[r][d]
  BY <1>1, <1>2
<1>4. rq' = [r \in Peers |-> IF r = p THEN [d \in Names |-> IF d = c
                 THEN [h \in Requesters[p][c] |-> IF h = g THEN x ELSE f[p][c][h]] ELSE f[p][d]] ELSE f[r]]
  BY <1>2, <1>3, ZenonT(40)
<1>5. \A r \in Peers, d \in Names : f[r][d] = [h \in Requesters[r][d] |-> f[r][d][h]]
  BY <1>1, <1>2
<1>6. \A r \in Peers : f[r] = [d \in Names |-> f[r][d]]
  BY <1>1, <1>2
<1>7. rq'[p][c][g] = x /\ \A h \in Requesters[p][c] : h # g => rq'[p][c][h] = f[p][c][h]
  BY <1>4
<1>8. \A r \in Peers, d \in Names : r # p \/ d # c => rq'[r][d] = f[r][d]
  BY <1>4
<1>9. \A r \in Peers, d \in Names : rq'[r][d] = [h \in Requesters[r][d] |-> rq'[r][d][h]]
  BY <1>4, <1>5, <1>8
<1>10. \A r \in Peers : rq'[r] = [d \in Names |-> rq'[r][d]]
  BY <1>4, <1>6
<1>11. rq' = [r \in Peers |-> [d \in Names |-> [h \in Requesters[r][d] |-> rq'[r][d][h]]]]
  BY <1>4, <1>9, <1>10, ZenonT(40)
<1> QED
  BY <1>2, <1>7, <1>8, <1>11 DEF CallIs

MutexIs(p, c, x) ==
    /\ reqMu' = [r \in Peers |-> [d \in Names |-> reqMu'[r][d]]]
    /\ reqMu'[p][c] = x /\ \A r \in Peers, d \in Names : r # p \/ d # c => reqMu'[r][d] = reqMu[r][d]

(* One mutex changes its holder, and no other.                             *)
LEMMA MutexUpdate ==
    ASSUME TypeOK, NEW p \in Peers, NEW c \in Names, NEW x, reqMu' = [reqMu EXCEPT ![p][c] = x]
    PROVE  MutexIs(p, c, x)
<1>1. reqMu = [r \in Peers |-> [d \in Names |-> reqMu[r][d]]]
  BY DEF TypeOK
<1>2. PICK f : f = reqMu
  OBVIOUS
<1>3. DOMAIN f = Peers /\ \A r \in Peers : DOMAIN f[r] = Names
  BY <1>1, <1>2
<1>4. reqMu' = [r \in Peers |-> IF r = p THEN [d \in Names |-> IF d = c THEN x ELSE f[p][d]] ELSE f[r]]
  BY <1>2, <1>3
<1>5. \A r \in Peers : f[r] = [d \in Names |-> f[r][d]]
  BY <1>1, <1>2
<1>6. \A r \in Peers : reqMu'[r] = [d \in Names |-> reqMu'[r][d]]
  BY <1>4, <1>5
<1>7. reqMu' = [r \in Peers |-> [d \in Names |-> reqMu'[r][d]]]
  BY <1>4, <1>6
<1>8. reqMu'[p][c] = x /\ \A r \in Peers, d \in Names : r # p \/ d # c => reqMu'[r][d] = f[r][d]
  BY <1>4
<1> QED
  BY <1>2, <1>7, <1>8 DEF MutexIs

AskedIs(p, c, x) ==
    /\ asked' \in [Peers -> [Names -> Seq(Senders)]]
    /\ asked'[p][c] = x /\ \A r \in Peers, d \in Names : r # p \/ d # c => asked'[r][d] = asked[r][d]

(* One queue of requests changes, and no other.                            *)
LEMMA AskedUpdate ==
    ASSUME TypeOK, NEW p \in Peers, NEW c \in Names, NEW x \in Seq(Senders), asked' = [asked EXCEPT ![p][c] = x]
    PROVE  AskedIs(p, c, x)
<1>1. asked \in [Peers -> [Names -> Seq(Senders)]]
  BY DEF TypeOK
<1> QED
  BY <1>1 DEF AskedIs

(* The invariant after a step on channel c, from what the step does to c.  *)
LEMMA Assembled ==
    ASSUME Inv, NEW c \in Names, TypeOK', \A d \in Names : d # c => Same(d), Local(c)', InOrder',
           \A p \in Peers : \A m : m \in ToSet(link[p])' => m \in Message,
           \A p \in Peers : \A m : m \in ToSet(link[p])' /\ m.c # c => m \in ToSet(link[p]),
           \A p \in Peers : \A m : m \in ToSet(link[p])' /\ m.c = c => Right(p, m)'
    PROVE  Inv'
<1>1. \A p \in Peers : Other(p) \in Peers
  BY PeerFacts
<1>2. \A d \in Names : Local(d)'
  BY SameLocal DEF Inv
<1>3. ASSUME NEW p \in Peers, NEW m, m \in ToSet(link[p])' PROVE Right(p, m)'
  <2>1. CASE m.c # c
    <3>1. m.c \in Names /\ m \in ToSet(link[p]) /\ Same(m.c)
      BY <1>3, <2>1 DEF Message
    <3>2. Addressed(p, m) /\ Announced(p, m) /\ Held(p, m)
      BY <3>1 DEF Inv, AllRight, Right
    <3>3. Addressed(p, m)' /\ Announced(p, m)' /\ Held(p, m)'
      BY <1>1, <3>1, <3>2 DEF Same, Addressed, Announced, Held
    <3> QED
      BY <3>3 DEF Right
  <2> QED
    BY <1>3, <2>1
<1>4. AllRight'
  BY <1>3 DEF AllRight
<1> QED
  BY <1>2, <1>4 DEF Inv

-----------------------------------------------------------------------------
(* The steps.                                                              *)

(* The invariant of channel c, seen from end p.                            *)
Seen(p, q, c) ==
    /\ Carried(p, c) /\ Carried(q, c) /\ Own(p, c) /\ Own(q, c) /\ Learnt(p, c) /\ Learnt(q, c)
    /\ Reach(p, c) /\ Reach(q, c) /\ Caller(p, c) /\ Caller(q, c) /\ Asking(p, q, c) /\ Asking(q, p, c)
    /\ p = Opener(c) => Pair(p, q, c)
    /\ q = Opener(c) => Pair(q, p, c)

(* Local(c), from either end.                                              *)
LEMMA LocalSeen ==
    ASSUME NEW c \in Names, NEW p \in Peers, NEW q \in Peers, q = Other(p)
    PROVE  /\ p = Other(q) /\ p # q /\ Opener(c) \in {p, q} /\ \A r \in Peers : r = p \/ r = q
           /\ Local(c) => Seen(p, q, c)
           /\ Seen(p, q, c)' => Local(c)'
<1>1. p = Other(q) /\ p # q /\ Opener(c) \in {p, q} /\ \A r \in Peers : r = p \/ r = q
  BY PeerFacts, NameFacts
<1>2. Local(c) => Seen(p, q, c)
  BY <1>1 DEF Local, Seen, Ends, Asks
<1>3. Seen(p, q, c)' => Local(c)'
  BY <1>1 DEF Local, Seen, Ends, Asks
<1> QED
  BY <1>1, <1>2, <1>3

(* A step that neither sends nor reads, lists nor unlists.                 *)
LEMMA QuietStep ==
    ASSUME Inv, UNCHANGED <<chanList, link, broken, loop>>
    PROVE  /\ InOrder' /\ UNCHANGED broken
           /\ \A p \in Peers : /\ Reads(p)' <=> Reads(p)
                               /\ \A m : m \in ToSet(link[p])' <=> m \in ToSet(link[p])
                               /\ \A m : m \in ToSet(link[p]) => m \in Message
                               /\ \A d, t : Has(p, d, t)' <=> Has(p, d, t)
                               /\ \A d : Silent(p, d)' <=> Silent(p, d)
                               /\ \A d, x : Listed(p, x, d)' <=> Listed(p, x, d)
                               /\ \A d : IsListed(p, d)' <=> IsListed(p, d)
<1>1. \A p \in Peers : Reads(p)' <=> Reads(p)
  BY DEF Reads
<1>2. \A p \in Peers : Other(p) \in Peers
  BY PeerFacts
<1>3. InOrder'
  BY <1>1, <1>2, OrderSame DEF Inv, InOrder
<1>4. ASSUME NEW p \in Peers
      PROVE  /\ \A m : m \in ToSet(link[p])' <=> m \in ToSet(link[p])
             /\ \A d, t : Has(p, d, t)' <=> Has(p, d, t)
             /\ \A d : Silent(p, d)' <=> Silent(p, d)
             /\ \A d, x : Listed(p, x, d)' <=> Listed(p, x, d)
             /\ \A d : IsListed(p, d)' <=> IsListed(p, d)
  BY DEF Has, Silent, Listed, IsListed
<1>5. ASSUME NEW p \in Peers PROVE \A m : m \in ToSet(link[p]) => m \in Message
  BY DEF Inv, TypeOK, ToSet
<1> QED
  BY <1>1, <1>3, <1>4, <1>5

(* openChannel's return keeps the invariant: c.msg has brought the one     *)
(* answer to the open, or was closed.                                      *)
LEMMA OpenReturnsInv == ASSUME Inv, NEW p \in Peers, NEW c \in Names, OpenReturns(p, c) PROVE Inv'
<1>u. UNCHANGED <<chanList, rq, reqMu, asked, link, broken, loop>> /\ ch[p][c].state = "opening"
  BY DEF OpenReturns
<1>q. PICK q \in Peers : q = Other(p)
  BY PeerFacts
<1>s. Seen(p, q, c) /\ p = Other(q) /\ p # q /\ Opener(c) \in {p, q} /\ \A r \in Peers : r = p \/ r = q
  BY <1>q, LocalSeen DEF Inv
<1>o. p = Opener(c) /\ q # Opener(c) /\ Pair(p, q, c)
  BY <1>u, <1>s DEF Seen, Own
<1>t. TypeOK /\ ch[p][c].msg \in Seq(Words)
  BY DEF Inv, TypeOK, Object
<1>1. PICK s \in {"ready", "refused"} :
          /\ Turned(p, c, s, ch[p][c].remoteId, <<>>) /\ Kept(p, c)
          /\ \/ s = "ready" /\ ch[p][c].remoteId # 0 /\ ch[p][c].msg # <<>>
             \/ s = "refused" /\ ch[q][c].state = "refused" /\ ch[p][c].msg # <<>>
             \/ s = "refused" /\ ch[p][c].closed
  <2>1. CASE ch[p][c].msg = <<"confirm">> /\ ch[p][c].remoteId # 0
    <3>1. Head(ch[p][c].msg) = "confirm" /\ Tail(ch[p][c].msg) = <<>> /\ ch[p][c].msg # <<>>
      BY <2>1
    <3>2. ch' = [ch EXCEPT ![p][c].msg = <<>>, ![p][c].state = "ready"]
      BY <3>1, <1>t DEF OpenReturns, TypeOK
    <3>3. Turned(p, c, "ready", ch[p][c].remoteId, <<>>) /\ Kept(p, c)
      BY <3>2, <1>t, ObjectUpdates, EmptySeq, 0 \in Nat
    <3> QED
      BY <2>1, <3>1, <3>3
  <2>2. CASE ch[p][c].msg = <<"failure">> /\ ch[q][c].state = "refused"
    <3>1. Head(ch[p][c].msg) # "confirm" /\ Tail(ch[p][c].msg) = <<>> /\ ch[p][c].msg # <<>>
      BY <2>2
    <3>2. ch' = [ch EXCEPT ![p][c].msg = <<>>, ![p][c].state = "refused"]
      BY <3>1, <1>t DEF OpenReturns, TypeOK
    <3>3. Turned(p, c, "refused", ch[p][c].remoteId, <<>>) /\ Kept(p, c)
      BY <3>2, <1>t, ObjectUpdates, EmptySeq, 0 \in Nat
    <3> QED
      BY <2>2, <3>1, <3>3
  <2>3. CASE ch[p][c].msg = <<>>
    BY <2>3, <1>t, ObjectUpdates DEF OpenReturns
  <2> QED
    BY <1>o, <1>u, <2>1, <2>2, <2>3 DEF Pair
<1>2. TypeOK'
  BY <1>u, <1>1 DEF Turned, TypeOK, Inv
<1>3. \A d \in Names : d # c => Same(d)
  BY <1>u, <1>1, QuietStep DEF Same, Turned, Elsewhere
<1>4. Seen(p, q, c)'
  <2> USE <1>u, <1>q, <1>s, <1>o, <1>1, QuietStep DEF Turned, Elsewhere, Kept
  <2>1. Carried(p, c)' /\ Carried(q, c)'
    <3>1. Opening(p, c)' /\ Opening(q, c)'
      BY DEF Seen, Carried, Opening
    <3>2. Confirming(p, c)' /\ Confirming(q, c)'
      BY DEF Seen, Carried, Confirming
    <3>3. Refusing(p, c)' /\ Refusing(q, c)'
      BY DEF Seen, Carried, Refusing
    <3>4. Answered(p, c)' /\ Answered(q, c)'
      BY DEF Seen, Carried, Answered, Reach, Silent, Kinds
    <3>5. Using(p, c)' /\ Using(q, c)'
      BY DEF Seen, Carried, Using
    <3>6. Closing(p, c)' /\ Closing(q, c)' /\ Introduced(p, c)' /\ Introduced(q, c)'
      BY DEF Seen, Carried, Closing, Introduced
    <3> QED
      BY <3>1, <3>2, <3>3, <3>4, <3>5, <3>6 DEF Carried
  <2>2. Own(p, c)' /\ Own(q, c)'
    BY DEF Seen, Own
  <2>3. Learnt(p, c)' /\ Learnt(q, c)'
    BY DEF Seen, Learnt
  <2>4. Reach(p, c)' /\ Reach(q, c)'
    BY DEF Seen, Reach, Own, Pair
  <2>5. Caller(p, c)' /\ Caller(q, c)'
    BY DEF Seen, Caller
  <2>6. Asking(p, q, c)' /\ Asking(q, p, c)'
    BY DEF Seen, Asking
  <2>7. Pair(p, q, c)'
    BY DEF Pair, Own, Seen
  <2> QED
    BY <2>1, <2>2, <2>3, <2>4, <2>5, <2>6, <2>7 DEF Seen
<1>5. \A r \in Peers : \A m : m \in ToSet(link[r])' /\ m.c = c => Right(r, m)'
  <2> USE <1>u, <1>q, <1>s, <1>1, QuietStep DEF Turned, Elsewhere, Kept
  <2> QED
    BY DEF Inv, AllRight, Right, Addressed, Announced, Held
<1>6. Local(c)'
  BY <1>4, <1>q, LocalSeen
<1>7. \A r \in Peers : \A m : m \in ToSet(link[r])' => m \in Message /\ m \in ToSet(link[r])
  BY <1>u, QuietStep
<1>8. InOrder'
  BY <1>u, QuietStep
<1> QED
  BY <1>2, <1>3, <1>5, <1>6, <1>7, <1>8, Assembled

(* A call that has not got sentRequestMu, or fails before it sends.        *)
LEMMA CallMovesInv ==
    ASSUME Inv, NEW p \in Peers, NEW c \in Names, NEW g \in Requesters[p][c], NEW x \in {"lock", "error"},
           ch[p][c].state = "ready", rq[p][c][g] \in {"idle", "lock"}, rq' = [rq EXCEPT ![p][c][g] = x],
           UNCHANGED <<chanList, ch, reqMu, asked, link, broken, loop>>
    PROVE  Inv'
<1>q. PICK q \in Peers : q = Other(p)
  BY PeerFacts
<1>s. Seen(p, q, c) /\ p = Other(q) /\ p # q /\ \A r \in Peers : r = p \/ r = q
  BY <1>q, LocalSeen DEF Inv
<1>1. CallIs(p, c, g, x)
  BY CallUpdate DEF Inv
<1>2. TypeOK'
  <2>1. TypeOK
    BY DEF Inv
  <2>2. (rq = [r \in Peers |-> [d \in Names |-> [h \in Requesters[r][d] |-> rq[r][d][h]]]])'
    BY <1>1, Zenon DEF CallIs
  <2>3. (reqMu = [r \in Peers |-> [d \in Names |-> reqMu[r][d]]])'
    BY <2>1, Zenon DEF TypeOK
  <2> QED
    BY <2>1, <2>2, <2>3, Zenon DEF TypeOK
<1>3. \A d \in Names : d # c => Same(d)
  BY <1>1, QuietStep DEF Same, CallIs
<1>4. Seen(p, q, c)'
  <2> USE <1>q, <1>s, QuietStep
  <2>1. Carried(p, c)' /\ Carried(q, c)'
    BY DEF Seen, Carried, Opening, Confirming, Refusing, Answered, Using, Closing, Introduced
  <2>2. Own(p, c)' /\ Own(q, c)' /\ Learnt(p, c)' /\ Learnt(q, c)' /\ Reach(p, c)' /\ Reach(q, c)'
    BY DEF Seen, Own, Learnt, Reach
  <2>3. Caller(p, c)' /\ Caller(q, c)'
    <3>1. reqMu[p][c] # g
      BY DEF Seen, Caller
    <3>2. Caller(p, c)'
      BY <1>1, <3>1 DEF Seen, Caller, CallIs
    <3>3. Caller(q, c)'
      BY <1>1, SMTT(40) DEF Seen, Caller, CallIs
    <3> QED
      BY <3>2, <3>3
  <2>4. Asking(p, q, c)' /\ Asking(q, p, c)'
    BY DEF Seen, Asking
  <2>5. (p = Opener(c) => Pair(p, q, c)') /\ (q = Opener(c) => Pair(q, p, c)')
    BY DEF Seen, Pair
  <2> QED
    BY <2>1, <2>2, <2>3, <2>4, <2>5 DEF Seen
<1>5. \A r \in Peers : \A m : m \in ToSet(link[r])' /\ m.c = c => Right(r, m)'
  <2> USE <1>q, <1>s, QuietStep
  <2> QED
    BY DEF Inv, AllRight, Right, Addressed, Announced, Held
<1>6. Local(c)'
  BY <1>4, <1>q, LocalSeen
<1>7. \A r \in Peers : \A m : m \in ToSet(link[r])' => m \in Message /\ m \in ToSet(link[r])
  BY QuietStep
<1>8. InOrder'
  BY QuietStep
<1> QED
  BY <1>2, <1>3, <1>5, <1>6, <1>7, <1>8, Assembled

(* SendRequest's return keeps the invariant: what c.msg brings the holder  *)
(* of sentRequestMu is the answer to its request, and no other is under    *)
(* way then.                                                               *)
LEMMA RequestReturnsInv ==
    ASSUME Inv, NEW p \in Peers, NEW c \in Names, NEW g \in Requesters[p][c], RequestReturns(p, c, g) PROVE Inv'
<1>u. UNCHANGED <<chanList, asked, link, broken, loop>> /\ rq[p][c][g] = "wait"
  BY DEF RequestReturns
<1>q. PICK q \in Peers : q = Other(p)
  BY PeerFacts
<1>s. Seen(p, q, c) /\ p = Other(q) /\ p # q /\ \A r \in Peers : r = p \/ r = q
  BY <1>q, LocalSeen DEF Inv
<1>r. ch[p][c].state = "ready" /\ reqMu[p][c] = g
  BY <1>u, <1>s DEF Seen, Caller
<1>t. TypeOK /\ ch[p][c].msg \in Seq(Words) /\ ch \in [Peers -> [Names -> Object]]
  BY DEF Inv, TypeOK, Object
<1>m. MutexIs(p, c, "free")
  BY <1>t, MutexUpdate DEF RequestReturns
<1>a. "free" \notin Requesters[p][c] /\ "wait" \notin Requesters[p][c] /\ "idle" \notin Requesters[p][c]
  BY RequestersAssumption
<1>1. PICK x \in {g, "error"} :
          /\ CallIs(p, c, g, x)
          /\ Turned(p, c, "ready", ch[p][c].remoteId, <<>>) /\ Kept(p, c)
          /\ ch[p][c].msg # <<>> \/ ch[p][c].closed
  <2>1. CASE ch[p][c].msg # <<>>
    <3>0. ch[p][c].msg = <<g>>
      BY <1>s, <1>r, <2>1 DEF Seen, Caller
    <3>1. Head(ch[p][c].msg) = g /\ Tail(ch[p][c].msg) = <<>>
      BY <3>0
    <3>2. ch' = [ch EXCEPT ![p][c].msg = <<>>] /\ rq' = [rq EXCEPT ![p][c][g] = g]
      BY <2>1, <3>1, <1>t DEF RequestReturns
    <3>3. Turned(p, c, "ready", ch[p][c].remoteId, <<>>) /\ Kept(p, c)
      BY <3>2, <1>t, <1>r, ObjectUpdates, EmptySeq, 0 \in Nat
    <3>4. CallIs(p, c, g, g)
      BY <3>2, <1>t, CallUpdate
    <3> QED
      BY <2>1, <3>3, <3>4
  <2>2. CASE ch[p][c].msg = <<>>
    <3>1. ch[p][c].closed /\ ch' = ch /\ rq' = [rq EXCEPT ![p][c][g] = "error"]
      BY <2>2 DEF RequestReturns
    <3>2. Turned(p, c, "ready", ch[p][c].remoteId, <<>>) /\ Kept(p, c)
      BY <2>2, <3>1, <1>t, <1>r DEF Turned, Kept, Elsewhere
    <3>3. CallIs(p, c, g, "error")
      BY <3>1, <1>t, CallUpdate
    <3> QED
      BY <3>1, <3>2, <3>3
  <2> QED
    BY <2>1, <2>2
<1>2. TypeOK'
  BY <1>u, <1>1, <1>m DEF CallIs, MutexIs, Turned, TypeOK, Inv
<1>3. \A d \in Names : d # c => Same(d)
  BY <1>u, <1>1, <1>m, QuietStep DEF Same, CallIs, MutexIs, Turned, Elsewhere
<1>h. \A h \in Requesters[p][c] : /\ rq'[p][c][h] \in {"idle", "lock", "wait", "error", h}
                                  /\ rq'[p][c][h] # "wait" /\ h # "free"
  <2>1. \A h \in Requesters[p][c] : /\ rq[p][c][h] \in {"idle", "lock", "wait", "error", h}
                                    /\ rq[p][c][h] = "wait" <=> h = g
    BY <1>s, <1>r DEF Seen, Caller
  <2>2. \A h \in Requesters[p][c] : rq'[p][c][h] = IF h = g THEN x ELSE rq[p][c][h]
    BY <1>1 DEF CallIs
  <2>3. x \in {g, "error"} /\ x # "wait"
    BY <1>1, <1>a
  <2> QED
    BY <1>a, <2>1, <2>2, <2>3
<1>4. Seen(p, q, c)'
  <2> USE <1>u, <1>q, <1>s, <1>r, <1>1, QuietStep DEF Turned, Elsewhere, Kept
  <2>1. Carried(p, c)' /\ Carried(q, c)'
    BY DEF Seen, Carried, Opening, Confirming, Refusing, Answered, Using, Closing, Introduced
  <2>2. Own(p, c)' /\ Own(q, c)' /\ Learnt(p, c)' /\ Learnt(q, c)' /\ Reach(p, c)' /\ Reach(q, c)'
    BY DEF Seen, Own, Learnt, Reach
  <2>3. Caller(p, c)'
    BY <1>m, <1>h DEF Caller, MutexIs
  <2>4. Caller(q, c)'
    <3>1. rq'[q][c] = rq[q][c] /\ reqMu'[q][c] = reqMu[q][c] /\ ch'[q][c] = ch[q][c]
      BY <1>m DEF CallIs, MutexIs
    <3> QED
      BY <3>1 DEF Seen, Caller
  <2>5. Asking(p, q, c)' /\ Asking(q, p, c)'
    BY <1>m DEF Seen, Asking, MutexIs
  <2>6. (p = Opener(c) => Pair(p, q, c)') /\ (q = Opener(c) => Pair(q, p, c)')
    BY DEF Seen, Pair, Own
  <2> QED
    BY <2>1, <2>2, <2>3, <2>4, <2>5, <2>6 DEF Seen
<1>5. \A r \in Peers : \A m : m \in ToSet(link[r])' /\ m.c = c => Right(r, m)'
  <2> SUFFICES ASSUME NEW r \in Peers, NEW m \in ToSet(link[r]), m.c = c PROVE Right(r, m)'
    BY <1>u, QuietStep
  <2> USE <1>u, <1>q, <1>s, <1>r, <1>1, QuietStep DEF Turned, Elsewhere, Kept
  <2>1. Addressed(r, m)' /\ Announced(r, m)'
    BY DEF Inv, AllRight, Right, Addressed, Announced
  <2>2. CASE r = p
    <3>1. m.t = "request" => Has(p, c, "request")
      BY <2>2 DEF Has
    <3> QED
      BY <2>1, <2>2, <3>1, <1>m DEF Inv, AllRight, Right, Held, Seen, Asking, MutexIs
  <2>3. CASE r = q
    <3>1. m.t = "answer" => Has(q, c, "answer")
      BY <2>3 DEF Has
    <3> QED
      BY <2>1, <2>3, <3>1, <1>m, SMTT(40) DEF Inv, AllRight, Right, Held, Seen, Asking, MutexIs
  <2> QED
    BY <2>2, <2>3
<1>6. Local(c)'
  BY <1>4, <1>q, LocalSeen
<1>7. \A r \in Peers : \A m : m \in ToSet(link[r])' => m \in Message /\ m \in ToSet(link[r])
  BY <1>u, QuietStep
<1>8. InOrder'
  BY <1>u, QuietStep
<1> QED
  BY <1>2, <1>3, <1>5, <1>6, <1>7, <1>8, Assembled

(* A step that leaves the numbers alone.                                   *)
LEMMA NumbersSame ==
    ASSUME UNCHANGED chanList, NEW r \in Peers
    PROVE  (\A d, x : Listed(r, x, d)' <=> Listed(r, x, d)) /\ (\A d : IsListed(r, d)' <=> IsListed(r, d))
BY DEF Listed, IsListed

(* A packet that may follow those of its channel that are on their way.    *)
MayFollow(p, m) ==
    /\ ~Has(p, m.c, "close") /\ ~Has(p, m.c, "failure")
    /\ m.t \in {"open", "confirm", "failure"} => Silent(p, m.c)
    /\ m.t = "request" => ~Has(p, m.c, "request")
    /\ m.t = "answer" /\ Reads(Other(p)) => ~Has(p, m.c, "answer")

(* What a step that sends packet m, of channel c and kind k, does to the   *)
(* packets on their way.  It is lost if the connection is broken.          *)
Delivered(p, m, c, k) ==
    /\ \A r \in Peers : Reads(r)' <=> Reads(r)
    /\ \A r \in Peers : \A n : n \in ToSet(link[r])' =>
           n \in Message /\ (n \in ToSet(link[r]) \/ (r = p /\ ~broken /\ n = m))
    /\ \A r \in Peers : \A d, t : Has(r, d, t)' <=> Has(r, d, t) \/ (r = p /\ ~broken /\ c = d /\ k = t)

(* A packet is sent: the order is kept if the packet may follow.           *)
LEMMA SendStep ==
    ASSUME Inv, NEW p \in Peers, NEW m \in Message, Sends(p, m), UNCHANGED loop
    PROVE  /\ link' \in [Peers -> Seq(Message)]
           /\ MayFollow(p, m) => InOrder'
           /\ Delivered(p, m, m.c, m.t)
<1>1. TypeOK /\ link \in [Peers -> Seq(Message)] /\ \A r \in Peers : Order(r)
  BY DEF Inv, TypeOK, InOrder
<1>2. \A r \in Peers : Reads(r)' <=> Reads(r)
  BY DEF Reads
<1>3. \A r \in Peers : Other(r) \in Peers
  BY PeerFacts
<1>4. \A r \in Peers : \A n : n \in ToSet(link[r]) => n \in Message
  BY <1>1 DEF ToSet
<1>5. ASSUME NEW r \in Peers, link'[r] = link[r]
      PROVE  /\ Order(r)'
             /\ \A n : n \in ToSet(link[r])' <=> n \in ToSet(link[r])
             /\ \A d, t : Has(r, d, t)' <=> Has(r, d, t)
  <2>1. Order(r)'
    BY <1>1, <1>2, <1>3, <1>5, OrderSame
  <2>2. \A n : n \in ToSet(link[r])' <=> n \in ToSet(link[r])
    BY <1>5
  <2> QED
    BY <2>1, <2>2 DEF Has
<1>6. CASE broken
  <2>1. link' = link
    BY <1>6 DEF Sends
  <2> QED
    BY <1>1, <1>2, <1>4, <1>5, <1>6, <2>1 DEF InOrder, Delivered
<1>7. CASE ~broken
  <2>1. link'[p] = Append(link[p], m) /\ \A r \in Peers : r # p => link'[r] = link[r]
    BY <1>1, <1>7 DEF Sends
  <2>2. /\ \A n : n \in ToSet(link[p])' <=> n \in ToSet(link[p]) \/ n = m
        /\ \A c, t : Has(p, c, t)' <=> Has(p, c, t) \/ (m.c = c /\ m.t = t)
    BY <1>1, <2>1, PacketAdded
  <2>3. link' \in [Peers -> Seq(Message)]
    BY <1>1, <1>7 DEF Sends
  <2>4. MayFollow(p, m) => Order(p)'
    BY <1>1, <1>2, <1>3, <2>1, OrderAdded DEF MayFollow
  <2>5. MayFollow(p, m) => InOrder'
    BY <1>5, <2>1, <2>4 DEF InOrder
  <2> QED
    BY <1>2, <1>4, <1>5, <1>7, <2>1, <2>2, <2>3, <2>5 DEF Delivered
<1> QED
  BY <1>6, <1>7

(* What is known of a channel that was offered and not answered yet.       *)
LEMMA OfferedFacts ==
    ASSUME NEW c \in Names, NEW p \in Peers, NEW q \in Peers, q = Other(p), p = Other(q), p # q,
           Opener(c) \in {p, q}, Seen(p, q, c), ch[p][c].state = "offered"
    PROVE  /\ p # Opener(c) /\ q = Opener(c) /\ Silent(p, c) /\ ch[p][c].remoteId # 0
           /\ ch[q][c].remoteId = 0 /\ ~(ch[q][c].closed /\ Reads(q)) /\ ch[q][c].state # "none"
           /\ Reads(q) => ch[q][c].state = "opening" /\ ch[q][c].msg = <<>>
<1>1. p # Opener(c) /\ q = Opener(c) /\ ch[p][c].remoteId # 0 /\ Pair(q, p, c)
  BY DEF Seen, Own
<1>2. Silent(p, c)
  BY <1>1 DEF Seen, Carried, Opening, Confirming, Refusing, Using, Closing, Silent, Kinds
<1>3. ch[q][c].remoteId = 0 /\ ~(ch[q][c].closed /\ Reads(q)) /\ ch[q][c].state # "none"
  BY <1>1 DEF Pair
<1>4. Reads(q) => ch[q][c].state = "opening" /\ ch[q][c].msg = <<>>
  BY <1>1, <1>3 DEF Pair
<1> QED
  BY <1>1, <1>2, <1>3, <1>4

(* An offered channel is turned down without a packet: this end has closed *)
(* it or can write no more.                                                *)
LEMMA TurnedDownInv ==
    ASSUME Inv, NEW p \in Peers, NEW c \in Names, ch[p][c].state = "offered",
           ch' = [ch EXCEPT ![p][c].state = "refused"],
           UNCHANGED <<chanList, rq, reqMu, asked, link, broken, loop>>
    PROVE  Inv'
<1>q. PICK q \in Peers : q = Other(p)
  BY PeerFacts
<1>s. Seen(p, q, c) /\ p = Other(q) /\ p # q /\ Opener(c) \in {p, q} /\ \A r \in Peers : r = p \/ r = q
  BY <1>q, LocalSeen DEF Inv
<1>o. /\ p # Opener(c) /\ q = Opener(c) /\ Silent(p, c) /\ ch[p][c].remoteId # 0
      /\ ch[q][c].remoteId = 0 /\ ~(ch[q][c].closed /\ Reads(q)) /\ ch[q][c].state # "none"
      /\ Reads(q) => ch[q][c].state = "opening" /\ ch[q][c].msg = <<>>
  BY <1>q, <1>s, OfferedFacts
<1>1. Turned(p, c, "refused", ch[p][c].remoteId, ch[p][c].msg) /\ Kept(p, c)
  BY ObjectUpdates, EmptySeq, 0 \in Nat DEF Inv
<1>2. TypeOK'
  BY <1>1 DEF Turned, TypeOK, Inv
<1>3. \A d \in Names : d # c => Same(d)
  BY <1>1, QuietStep DEF Same, Turned, Elsewhere
<1>4. Seen(p, q, c)'
  <2> USE <1>q, <1>s, <1>o, <1>1, QuietStep DEF Turned, Elsewhere, Kept
  <2>1. Carried(p, c)' /\ Carried(q, c)'
    <3>1. Opening(p, c)' /\ Opening(q, c)'
      BY DEF Seen, Carried, Opening, Silent, Kinds
    <3>2. Confirming(p, c)' /\ Confirming(q, c)'
      BY DEF Seen, Carried, Confirming, Silent, Kinds
    <3>3. Refusing(p, c)' /\ Refusing(q, c)'
      BY DEF Seen, Carried, Refusing, Silent, Kinds
    <3>4. Answered(p, c)' /\ Answered(q, c)'
      BY DEF Seen, Carried, Answered
    <3>5. Using(p, c)' /\ Using(q, c)'
      BY DEF Seen, Carried, Using, Silent, Kinds
    <3>6. Closing(p, c)' /\ Closing(q, c)'
      BY DEF Seen, Carried, Closing, Silent, Kinds
    <3>7. Introduced(p, c)' /\ Introduced(q, c)'
      BY DEF Seen, Carried, Introduced
    <3> QED
      BY <3>1, <3>2, <3>3, <3>4, <3>5, <3>6, <3>7 DEF Carried
  <2>2. Own(p, c)' /\ Own(q, c)'
    BY DEF Seen, Own
  <2>3. Learnt(p, c)' /\ Learnt(q, c)'
    BY DEF Seen, Learnt
  <2>4. Reach(p, c)' /\ Reach(q, c)'
    BY DEF Seen, Reach
  <2>5. Caller(p, c)' /\ Caller(q, c)'
    BY DEF Seen, Caller
  <2>6. Asking(p, q, c)' /\ Asking(q, p, c)'
    BY DEF Seen, Asking
  <2>7. Pair(q, p, c)'
    BY DEF Seen, Pair
  <2> QED
    BY <2>1, <2>2, <2>3, <2>4, <2>5, <2>6, <2>7 DEF Seen
<1>5. \A r \in Peers : \A m : m \in ToSet(link[r])' /\ m.c = c => Right(r, m)'
  <2> USE <1>q, <1>s, <1>1, QuietStep DEF Turned, Elsewhere, Kept
  <2> QED
    BY DEF Inv, AllRight, Right, Addressed, Announced, Held
<1>6. Local(c)'
  BY <1>4, <1>q, LocalSeen
<1>7. \A r \in Peers : \A m : m \in ToSet(link[r])' => m \in Message /\ m \in ToSet(link[r])
  BY QuietStep
<1>8. InOrder'
  BY QuietStep
<1> QED
  BY <1>2, <1>3, <1>5, <1>6, <1>7, <1>8, Assembled

(* An offered channel is confirmed or refused.                             *)
LEMMA AnswersOpenInv ==
    ASSUME Inv, NEW p \in Peers, NEW c \in Names, NEW t, NEW s, NEW id, ch[p][c].state = "offered", ~ch[p][c].sentClose,
           \/ t = "confirm" /\ s = "ready" /\ Listed(p, id, c)
           \/ t = "failure" /\ s = "refused" /\ id = 0,
           Sends(p, Packet(t, ch[p][c].remoteId, id, c, Nobody)),
           ch' = [ch EXCEPT ![p][c].state = s],
           UNCHANGED <<chanList, rq, reqMu, asked, broken, loop>>
    PROVE  Inv'
<1>q. PICK q \in Peers : q = Other(p)
  BY PeerFacts
<1>s. Seen(p, q, c) /\ p = Other(q) /\ p # q /\ Opener(c) \in {p, q} /\ \A r \in Peers : r = p \/ r = q
  BY <1>q, LocalSeen DEF Inv
<1>o. /\ p # Opener(c) /\ q = Opener(c) /\ Silent(p, c) /\ ch[p][c].remoteId # 0
      /\ ch[q][c].remoteId = 0 /\ ~(ch[q][c].closed /\ Reads(q)) /\ ch[q][c].state # "none"
      /\ Reads(q) => ch[q][c].state = "opening" /\ ch[q][c].msg = <<>>
  BY <1>q, <1>s, OfferedFacts
<1>1. Turned(p, c, s, ch[p][c].remoteId, ch[p][c].msg) /\ Kept(p, c) /\ s \in {"ready", "refused"}
  BY ObjectUpdates, EmptySeq, 0 \in Nat DEF Inv
<1>m. PICK m \in Message : /\ m = Packet(t, ch[p][c].remoteId, id, c, Nobody)
                           /\ m.t = t /\ m.to = ch[p][c].remoteId /\ m.from = id /\ m.c = c
  <2>1. id \in Nat /\ ch[p][c].remoteId \in Nat /\ t \in Kinds
    BY DEF Listed, Inv, TypeOK, Object, Kinds
  <2> QED
    BY <2>1 DEF Packet, Message, Senders
<1>f. MayFollow(p, m)
  BY <1>o, <1>m DEF MayFollow, Silent, Kinds
<1>g. Sends(p, m) /\ loop' = loop
  BY <1>m
<1>n. InOrder' /\ link' \in [Peers -> Seq(Message)] /\ Delivered(p, m, c, t)
  BY <1>m, <1>f, <1>g, SendStep
<1>2. TypeOK'
  BY <1>1, <1>n DEF Turned, TypeOK, Inv
<1>3. \A d \in Names : d # c => Same(d)
  BY <1>1, <1>n, NumbersSame DEF Same, Turned, Elsewhere, Delivered
<1>4. Seen(p, q, c)'
  <2>0. Silent(q, c)' <=> Silent(q, c)
    BY <1>n, <1>s DEF Silent, Delivered
  <2> USE <1>q, <1>s, <1>o, <1>1, <1>n, <2>0, NumbersSame DEF Turned, Elsewhere, Kept, Delivered
  <2>1. Carried(p, c)' /\ Carried(q, c)'
    <3>1. Opening(p, c)' /\ Opening(q, c)'
      BY DEF Seen, Carried, Opening, Silent, Kinds
    <3>2. Confirming(p, c)' /\ Confirming(q, c)'
      BY DEF Seen, Carried, Confirming, Silent, Kinds
    <3>3. Refusing(p, c)' /\ Refusing(q, c)'
      BY DEF Seen, Carried, Refusing, Silent, Kinds
    <3>4. Answered(p, c)' /\ Answered(q, c)'
      BY DEF Seen, Carried, Answered
    <3>5. Using(p, c)' /\ Using(q, c)'
      BY DEF Seen, Carried, Using, Silent, Kinds
    <3>6. Closing(p, c)' /\ Closing(q, c)'
      BY DEF Seen, Carried, Closing, Silent, Kinds
    <3>7. Introduced(p, c)' /\ Introduced(q, c)'
      BY DEF Seen, Carried, Introduced, Silent, Kinds
    <3> QED
      BY <3>1, <3>2, <3>3, <3>4, <3>5, <3>6, <3>7 DEF Carried
  <2>2. Own(p, c)' /\ Own(q, c)'
    BY DEF Seen, Own
  <2>3. Learnt(p, c)' /\ Learnt(q, c)'
    BY DEF Seen, Learnt
  <2>4. Reach(p, c)' /\ Reach(q, c)'
    BY DEF Seen, Reach
  <2>5. Caller(p, c)' /\ Caller(q, c)'
    BY DEF Seen, Caller
  <2>6. Asking(p, q, c)' /\ Asking(q, p, c)'
    BY DEF Seen, Asking
  <2>7. Pair(q, p, c)'
    BY DEF Seen, Pair
  <2> QED
    BY <2>1, <2>2, <2>3, <2>4, <2>5, <2>6, <2>7 DEF Seen
<1>5. \A r \in Peers : \A n : n \in ToSet(link[r])' /\ n.c = c => Right(r, n)'
  <2>1. ASSUME NEW r \in Peers, NEW n \in ToSet(link[r]), n.c = c PROVE Right(r, n)'
    <3>1. Addressed(r, n) /\ Announced(r, n) /\ Held(r, n)
      BY DEF Inv, AllRight, Right
    <3>2. Addressed(r, n)' /\ Announced(r, n)'
      BY <3>1, <1>q, <1>s, <1>n, NumbersSame DEF Delivered, Addressed, Announced
    <3>3. Held(r, n)'
      BY <2>1, <3>1, <1>q, <1>s, <1>1 DEF Turned, Elsewhere, Kept, Held
    <3> QED
      BY <3>2, <3>3 DEF Right
  <2>2. Right(p, m)'
    <3>1. Reads(q) => Listed(q, m.to, c)
      BY <1>q, <1>s, <1>o, <1>m DEF Seen, Learnt
    <3>2. Addressed(p, m)'
      BY <3>1, <1>q, <1>m, <1>n, NumbersSame DEF Delivered, Addressed
    <3>3. m.t = "confirm" => m.from # 0 /\ Listed(p, m.from, c)
      BY <1>m DEF Listed, Inv, TypeOK
    <3>4. Announced(p, m)'
      BY <3>3, <1>m, NumbersSame DEF Announced
    <3>5. Held(p, m)'
      BY <1>m DEF Held
    <3> QED
      BY <3>2, <3>4, <3>5 DEF Right
  <2> QED
    BY <1>n, <2>1, <2>2 DEF Delivered
<1>6. Local(c)'
  BY <1>4, <1>q, LocalSeen
<1> QED
  BY <1>2, <1>3, <1>5, <1>6, <1>n, <1>m, Assembled DEF Delivered

(* Accept and Reject keep the invariant.                                   *)
LEMMA ServeInv == ASSUME Inv, NEW p \in Peers, NEW c \in Names, Serve(p, c) PROVE Inv'
<1>1. CASE Accept(p, c)
  <2>1. CASE ch[p][c].sentClose \/ ~CanWrite(p)
    BY <1>1, <2>1, TurnedDownInv DEF Accept
  <2>2. CASE ~(ch[p][c].sentClose \/ ~CanWrite(p))
    <3>1. PICK id \in DOMAIN chanList[p] :
              chanList[p][id] = c /\ Sends(p, Packet("confirm", ch[p][c].remoteId, id, c, Nobody))
      BY <1>1, <2>2 DEF Accept
    <3>2. ch' = [ch EXCEPT ![p][c].state = "ready"] /\ ch[p][c].state = "offered" /\ ~ch[p][c].sentClose
          /\ UNCHANGED <<chanList, rq, reqMu, asked, broken, loop>>
      BY <1>1, <2>2 DEF Accept
    <3> QED
      BY <3>1, <3>2, AnswersOpenInv DEF Listed
  <2> QED
    BY <2>1, <2>2
<1>2. CASE Reject(p, c)
  <2>1. CASE ch[p][c].sentClose \/ ~CanWrite(p)
    BY <1>2, <2>1, TurnedDownInv DEF Reject
  <2>2. CASE ~(ch[p][c].sentClose \/ ~CanWrite(p))
    <3>1. Sends(p, Packet("failure", ch[p][c].remoteId, 0, c, Nobody))
      BY <1>2, <2>2 DEF Reject, ToPeer
    <3>2. ch' = [ch EXCEPT ![p][c].state = "refused"] /\ ch[p][c].state = "offered" /\ ~ch[p][c].sentClose
          /\ UNCHANGED <<chanList, rq, reqMu, asked, broken, loop>>
      BY <1>2, <2>2 DEF Reject
    <3> QED
      BY <3>1, <3>2, AnswersOpenInv
  <2> QED
    BY <2>1, <2>2
<1> QED
  BY <1>1, <1>2 DEF Serve

(* A packet for a ready channel that is not closed has the number that the *)
(* other end gave it.                                                      *)
LEMMA ReadyPacket ==
    ASSUME Inv, NEW c \in Names, NEW p \in Peers, NEW q \in Peers, q = Other(p), p = Other(q), Seen(p, q, c),
           ch[p][c].state = "ready", ~ch[p][c].sentClose, NEW t \in {"request", "answer", "close"},
           NEW who \in Senders, NEW m, m = ToPeer(p, c, t, who)
    PROVE  /\ m \in Message /\ m.t = t /\ m.c = c /\ m.who = who
           /\ Reads(q) => Listed(q, m.to, c)
           /\ ~Has(p, c, "close") /\ ~Has(p, c, "failure")
<1>1. ch[p][c].remoteId \in Nat /\ t \in Kinds
  BY DEF Inv, TypeOK, Object, Kinds
<1>2. m \in Message /\ m.t = t /\ m.c = c /\ m.who = who /\ m.to = ch[p][c].remoteId
  BY <1>1 DEF ToPeer, Packet, Message
<1>3. Reads(q) => Listed(q, m.to, c)
  BY <1>2 DEF Seen, Learnt, Own
<1>4. ~Has(p, c, "close") /\ ~Has(p, c, "failure")
  BY DEF Seen, Carried, Closing, Refusing
<1> QED
  BY <1>2, <1>3, <1>4

(* Close by the user keeps the invariant.                                  *)
LEMMA CloseInv == ASSUME Inv, NEW p \in Peers, NEW c \in Names, Close(p, c) PROVE Inv'
<1>u. /\ UNCHANGED <<chanList, rq, reqMu, asked, broken, loop>>
      /\ ch[p][c].state = "ready" /\ ~ch[p][c].sentClose /\ Sends(p, ToPeer(p, c, "close", Nobody))
      /\ ch' = [ch EXCEPT ![p][c].sentClose = TRUE]
  BY DEF Close
<1>q. PICK q \in Peers : q = Other(p)
  BY PeerFacts
<1>s. Seen(p, q, c) /\ p = Other(q) /\ p # q /\ Opener(c) \in {p, q} /\ \A r \in Peers : r = p \/ r = q
  BY <1>q, LocalSeen DEF Inv
<1>1. /\ Turned(p, c, "ready", ch[p][c].remoteId, ch[p][c].msg)
      /\ ch'[p][c].sentClose = TRUE /\ ch'[p][c].closed = ch[p][c].closed
  BY <1>u, ObjectUpdates, EmptySeq, 0 \in Nat DEF Inv
<1>m. PICK m \in Message : /\ m = ToPeer(p, c, "close", Nobody) /\ m.t = "close" /\ m.c = c
                           /\ (Reads(q) => Listed(q, m.to, c)) /\ ~Has(p, c, "close") /\ ~Has(p, c, "failure")
  BY <1>u, <1>q, <1>s, ReadyPacket DEF Senders
<1>n. InOrder' /\ link' \in [Peers -> Seq(Message)] /\ Delivered(p, m, c, "close")
  <2>1. MayFollow(p, m)
    BY <1>m DEF MayFollow
  <2> QED
    BY <1>u, <1>m, <2>1, SendStep
<1>2. TypeOK'
  BY <1>u, <1>1, <1>n DEF Turned, TypeOK, Inv
<1>3. \A d \in Names : d # c => Same(d)
  BY <1>u, <1>1, <1>n, NumbersSame DEF Same, Turned, Elsewhere, Delivered
<1>4. Seen(p, q, c)'
  <2>0. Silent(q, c)' <=> Silent(q, c)
    BY <1>n, <1>s DEF Silent, Delivered
  <2> USE <1>u, <1>q, <1>s, <1>1, <1>n, <2>0, NumbersSame DEF Turned, Elsewhere, Delivered
  <2>1. Carried(p, c)' /\ Carried(q, c)'
    <3>1. Opening(p, c)' /\ Opening(q, c)'
      BY DEF Seen, Carried, Opening
    <3>2. Confirming(p, c)' /\ Confirming(q, c)'
      BY DEF Seen, Carried, Confirming
    <3>3. Refusing(p, c)' /\ Refusing(q, c)'
      BY DEF Seen, Carried, Refusing
    <3>4. Answered(p, c)' /\ Answered(q, c)'
      BY DEF Seen, Carried, Answered
    <3>5. Using(p, c)' /\ Using(q, c)'
      BY DEF Seen, Carried, Using
    <3>6. Closing(p, c)' /\ Closing(q, c)'
      BY DEF Seen, Carried, Closing, Own
    <3>7. Introduced(p, c)' /\ Introduced(q, c)'
      BY DEF Seen, Carried, Introduced, Reach
    <3> QED
      BY <3>1, <3>2, <3>3, <3>4, <3>5, <3>6, <3>7 DEF Carried
  <2>2. Own(p, c)' /\ Own(q, c)'
    BY DEF Seen, Own
  <2>3. Learnt(p, c)' /\ Learnt(q, c)'
    BY DEF Seen, Learnt
  <2>4. Reach(p, c)' /\ Reach(q, c)'
    BY DEF Seen, Reach
  <2>5. Caller(p, c)' /\ Caller(q, c)'
    BY DEF Seen, Caller
  <2>6. Asking(p, q, c)' /\ Asking(q, p, c)'
    BY DEF Seen, Asking
  <2>7. (p = Opener(c) => Pair(p, q, c)') /\ (q = Opener(c) => Pair(q, p, c)')
    BY DEF Seen, Pair, Own
  <2> QED
    BY <2>1, <2>2, <2>3, <2>4, <2>5, <2>6, <2>7 DEF Seen
<1>5. \A r \in Peers : \A n : n \in ToSet(link[r])' /\ n.c = c => Right(r, n)'
  <2>1. ASSUME NEW r \in Peers, NEW n \in ToSet(link[r]), n.c = c PROVE Right(r, n)'
    <3>1. Addressed(r, n) /\ Announced(r, n) /\ Held(r, n)
      BY DEF Inv, AllRight, Right
    <3>2. Addressed(r, n)' /\ Announced(r, n)'
      BY <3>1, <1>q, <1>s, <1>n, NumbersSame, <1>u DEF Delivered, Addressed, Announced
    <3>3. Held(r, n)'
      BY <1>u, <2>1, <3>1, <1>q, <1>s, <1>1 DEF Turned, Elsewhere, Held
    <3> QED
      BY <3>2, <3>3 DEF Right
  <2>2. Right(p, m)'
    BY <1>u, <1>q, <1>m, <1>n, NumbersSame DEF Right, Addressed, Announced, Held, Delivered
  <2> QED
    BY <1>n, <2>1, <2>2 DEF Delivered
<1>6. Local(c)'
  BY <1>4, <1>q, LocalSeen
<1> QED
  BY <1>2, <1>3, <1>5, <1>6, <1>n, <1>m, Assembled DEF Delivered

(* SendRequest sends when nobody else waits for an answer on c.            *)
LEMMA SendRequestInv ==
    ASSUME Inv, NEW p \in Peers, NEW c \in Names, NEW g \in Requesters[p][c], SendRequest(p, c, g),
           ~ch[p][c].sentClose, CanWrite(p)
    PROVE  Inv'
<1>u. /\ UNCHANGED <<chanList, ch, asked, broken, loop>> /\ rq[p][c][g] = "lock" /\ reqMu[p][c] = "free"
      /\ Sends(p, ToPeer(p, c, "request", g))
      /\ rq' = [rq EXCEPT ![p][c][g] = "wait"] /\ reqMu' = [reqMu EXCEPT ![p][c] = g]
  BY DEF SendRequest, MayLock
<1>q. PICK q \in Peers : q = Other(p)
  BY PeerFacts
<1>s. Seen(p, q, c) /\ p = Other(q) /\ p # q /\ Opener(c) \in {p, q} /\ \A r \in Peers : r = p \/ r = q
  BY <1>q, LocalSeen DEF Inv
<1>r. ch[p][c].state = "ready" /\ ~ch[p][c].closed /\ ch[p][c].msg = <<>>
  BY <1>u, <1>s DEF Seen, Caller, Own
<1>a. g # "free" /\ g \in Askers /\ \A h \in Requesters[p][c] : h # "free"
  BY RequestersAssumption DEF Askers
<1>b. ~Has(p, c, "request") /\ asked[q][c] = <<>> /\ ~Has(q, c, "answer")
  BY <1>u, <1>s, <1>r DEF Seen, Asking
<1>1. CallIs(p, c, g, "wait") /\ MutexIs(p, c, g)
  BY <1>u, CallUpdate, MutexUpdate DEF Inv
<1>m. PICK m \in Message : /\ m = ToPeer(p, c, "request", g) /\ m.t = "request" /\ m.c = c /\ m.who = g
                           /\ (Reads(q) => Listed(q, m.to, c)) /\ ~Has(p, c, "close") /\ ~Has(p, c, "failure")
  BY <1>r, <1>q, <1>s, <1>a, ReadyPacket DEF Senders
<1>n. InOrder' /\ link' \in [Peers -> Seq(Message)] /\ Delivered(p, m, c, "request")
  <2>1. MayFollow(p, m)
    BY <1>m, <1>b DEF MayFollow
  <2> QED
    BY <1>u, <1>m, <2>1, SendStep
<1>2. TypeOK'
  BY <1>u, <1>1, <1>n DEF CallIs, MutexIs, TypeOK, Inv
<1>3. \A d \in Names : d # c => Same(d)
  BY <1>u, <1>1, <1>n, NumbersSame DEF Same, CallIs, MutexIs, Delivered
<1>4. Seen(p, q, c)'
  <2>0. Silent(q, c)' <=> Silent(q, c)
    BY <1>n, <1>s DEF Silent, Delivered
  <2> USE <1>u, <1>q, <1>s, <1>r, <1>a, <1>b, <1>1, <1>n, <2>0, NumbersSame DEF Delivered
  <2>1. Carried(p, c)' /\ Carried(q, c)'
    <3>1. Opening(p, c)' /\ Opening(q, c)'
      BY DEF Seen, Carried, Opening
    <3>2. Confirming(p, c)' /\ Confirming(q, c)'
      BY DEF Seen, Carried, Confirming
    <3>3. Refusing(p, c)' /\ Refusing(q, c)'
      BY DEF Seen, Carried, Refusing
    <3>4. Answered(p, c)' /\ Answered(q, c)'
      BY DEF Seen, Carried, Answered
    <3>5. Using(p, c)' /\ Using(q, c)'
      BY DEF Seen, Carried, Using
    <3>6. Closing(p, c)' /\ Closing(q, c)'
      BY DEF Seen, Carried, Closing
    <3>7. Introduced(p, c)' /\ Introduced(q, c)'
      BY DEF Seen, Carried, Introduced, Reach
    <3> QED
      BY <3>1, <3>2, <3>3, <3>4, <3>5, <3>6, <3>7 DEF Carried
  <2>2. Own(p, c)' /\ Own(q, c)'
    BY DEF Seen, Own
  <2>3. Learnt(p, c)' /\ Learnt(q, c)'
    BY DEF Seen, Learnt
  <2>4. Reach(p, c)' /\ Reach(q, c)'
    BY DEF Seen, Reach, Silent, Kinds, Own
  <2>5. Caller(p, c)' /\ Caller(q, c)'
    <3>1. ASSUME NEW h \in Requesters[p][c]
          PROVE  /\ rq'[p][c][h] \in {"idle", "lock", "wait", "error", h}
                 /\ rq'[p][c][h] = "wait" <=> g = h
      <4>1. CASE h = g
        BY <4>1, <1>1 DEF CallIs
      <4>2. CASE h # g
        BY <4>2, <1>1 DEF CallIs, Seen, Caller
      <4> QED
        BY <4>1, <4>2
    <3>2. Caller(p, c)'
      BY <1>1, <3>1 DEF Caller, MutexIs
    <3>3. rq'[q][c] = rq[q][c] /\ reqMu'[q][c] = reqMu[q][c]
      BY <1>1 DEF CallIs, MutexIs
    <3> QED
      BY <3>2, <3>3, SMTT(40) DEF Seen, Caller
  <2>6. Asking(p, q, c)' /\ Asking(q, p, c)'
    BY DEF Seen, Asking, MutexIs
  <2>7. (p = Opener(c) => Pair(p, q, c)') /\ (q = Opener(c) => Pair(q, p, c)')
    BY DEF Seen, Pair
  <2> QED
    BY <2>1, <2>2, <2>3, <2>4, <2>5, <2>6, <2>7 DEF Seen
<1>5. \A r \in Peers : \A n : n \in ToSet(link[r])' /\ n.c = c => Right(r, n)'
  <2>1. ASSUME NEW r \in Peers, NEW n \in ToSet(link[r]), n.c = c PROVE Right(r, n)'
    <3>1. Addressed(r, n) /\ Announced(r, n) /\ Held(r, n)
      BY DEF Inv, AllRight, Right
    <3>2. Addressed(r, n)' /\ Announced(r, n)'
      BY <3>1, <1>q, <1>s, <1>n, NumbersSame, <1>u DEF Delivered, Addressed, Announced
    <3>3. Held(r, n)'
      <4>1. (r = p => n.t # "request") /\ (r = q => n.t # "answer")
        BY <2>1, <1>b DEF Has
      <4> QED
        BY <1>u, <2>1, <3>1, <4>1, <1>q, <1>s, <1>1 DEF MutexIs, Held
    <3> QED
      BY <3>2, <3>3 DEF Right
  <2>2. Right(p, m)'
    BY <1>u, <1>1, <1>q, <1>m, <1>n, NumbersSame DEF Right, Addressed, Announced, Held, MutexIs, Delivered
  <2> QED
    BY <1>n, <2>1, <2>2 DEF Delivered
<1>6. Local(c)'
  BY <1>4, <1>q, LocalSeen
<1> QED
  BY <1>2, <1>3, <1>5, <1>6, <1>n, <1>m, Assembled DEF Delivered

(* SendRequest keeps the invariant, whether it can send or not.            *)
LEMMA RequestInv ==
    ASSUME Inv, NEW p \in Peers, NEW c \in Names, NEW g \in Requesters[p][c], Request(p, c, g) PROVE Inv'
<1>1. CASE RequestReturns(p, c, g)
  BY <1>1, RequestReturnsInv
<1>2. CASE SendRequest(p, c, g) /\ ~(ch[p][c].sentClose \/ ~CanWrite(p))
  BY <1>2, SendRequestInv
<1>3. CASE SendRequest(p, c, g) /\ (ch[p][c].sentClose \/ ~CanWrite(p))
  <2>1. /\ rq[p][c][g] = "lock" /\ rq' = [rq EXCEPT ![p][c][g] = "error"]
        /\ UNCHANGED <<chanList, ch, reqMu, asked, link, broken, loop>>
    BY <1>3 DEF SendRequest
  <2>2. Caller(p, c)
    BY DEF Inv, Local, Asks
  <2>3. ch[p][c].state = "ready"
    BY <2>1, <2>2 DEF Caller
  <2> QED
    BY <2>1, <2>3, CallMovesInv
<1> QED
  BY <1>1, <1>2, <1>3 DEF Request

(* Request.Reply keeps the invariant: the request was the only one, and so *)
(* is its answer.                                                          *)
LEMMA ReplyInv == ASSUME Inv, NEW p \in Peers, NEW c \in Names, Reply(p, c) PROVE Inv'
<1>u. /\ UNCHANGED <<chanList, ch, rq, reqMu, broken, loop>> /\ ch[p][c].state = "ready" /\ asked[p][c] # <<>>
      /\ asked' = [asked EXCEPT ![p][c] = Tail(@)]
      /\ IF ch[p][c].sentClose \/ ~CanWrite(p) THEN UNCHANGED link
         ELSE Sends(p, ToPeer(p, c, "answer", Head(asked[p][c])))
  BY DEF Reply
<1>q. PICK q \in Peers : q = Other(p)
  BY PeerFacts
<1>s. Seen(p, q, c) /\ p = Other(q) /\ p # q /\ Opener(c) \in {p, q} /\ \A r \in Peers : r = p \/ r = q
  BY <1>q, LocalSeen DEF Inv
<1>t. asked \in [Peers -> [Names -> Seq(Senders)]] /\ asked[p][c] \in Seq(Senders)
  BY DEF Inv, TypeOK
<1>a. PICK rest \in Seq(Senders) : rest = Tail(asked[p][c])
  BY <1>u, <1>t, HeadTailProperties
<1>h. PICK g \in Senders : g = Head(asked[p][c])
  BY <1>u, <1>t, HeadTailProperties
<1>1. AskedIs(p, c, rest)
  <2>1. asked' = [asked EXCEPT ![p][c] = rest]
    BY <1>u, <1>a, <1>t
  <2> QED
    BY <2>1, AskedUpdate DEF Inv
<1>b. ~ch[q][c].closed =>
          /\ reqMu[q][c] # "free" /\ asked[p][c] = <<reqMu[q][c]>> /\ ~Has(p, c, "answer")
          /\ ch[q][c].msg = <<>> /\ ~Has(q, c, "request")
  BY <1>u, <1>s DEF Seen, Asking
<1>c. ~ch[q][c].closed => rest = <<>> /\ g = reqMu[q][c]
  <2>1. ASSUME NEW x, asked[p][c] = <<x>> PROVE rest = <<>> /\ g = x
    BY <2>1, <1>a, <1>h
  <2> QED
    BY <1>b, <2>1
<1>x. CASE ch[p][c].sentClose \/ ~CanWrite(p)
  <2>l. UNCHANGED link
    BY <1>u, <1>x
  <2>2. TypeOK'
    BY <1>u, <1>1, <2>l DEF AskedIs, TypeOK, Inv
  <2>3. \A d \in Names : d # c => Same(d)
    BY <1>u, <1>1, <2>l, QuietStep DEF Same, AskedIs
  <2>4. Seen(p, q, c)'
    <3> USE <1>u, <1>q, <1>s, <2>l, QuietStep
    <3>1. Carried(p, c)' /\ Carried(q, c)'
      BY DEF Seen, Carried, Opening, Confirming, Refusing, Answered, Using, Closing, Introduced
    <3>2. Own(p, c)' /\ Own(q, c)' /\ Learnt(p, c)' /\ Learnt(q, c)' /\ Reach(p, c)' /\ Reach(q, c)'
      BY DEF Seen, Own, Learnt, Reach
    <3>3. Caller(p, c)' /\ Caller(q, c)'
      BY DEF Seen, Caller
    <3>4. Asking(p, q, c)' /\ Asking(q, p, c)'
      BY <1>1, <1>c DEF Seen, Asking, AskedIs
    <3>5. (p = Opener(c) => Pair(p, q, c)') /\ (q = Opener(c) => Pair(q, p, c)')
      BY DEF Seen, Pair
    <3> QED
      BY <3>1, <3>2, <3>3, <3>4, <3>5 DEF Seen
  <2>5. \A r \in Peers : \A m : m \in ToSet(link[r])' /\ m.c = c => Right(r, m)'
    <3> USE <1>u, <1>q, <1>s, <2>l, QuietStep
    <3> QED
      BY DEF Inv, AllRight, Right, Addressed, Announced, Held
  <2>6. Local(c)'
    BY <2>4, <1>q, LocalSeen
  <2>7. \A r \in Peers : \A m : m \in ToSet(link[r])' => m \in Message /\ m \in ToSet(link[r])
    BY <1>u, <2>l, QuietStep
  <2>8. InOrder'
    BY <1>u, <2>l, QuietStep
  <2> QED
    BY <2>2, <2>3, <2>5, <2>6, <2>7, <2>8, Assembled
<1>y. CASE ~(ch[p][c].sentClose \/ ~CanWrite(p))
  <2>r. Sends(p, ToPeer(p, c, "answer", g)) /\ ~ch[p][c].sentClose
    BY <1>u, <1>y, <1>h
  <2>k. ~(ch[q][c].closed /\ Reads(q))
    BY <1>q, <1>s, <2>r DEF Seen, Reach
  <2>m. PICK m \in Message : /\ m = ToPeer(p, c, "answer", g) /\ m.t = "answer" /\ m.c = c /\ m.who = g
                             /\ (Reads(q) => Listed(q, m.to, c)) /\ ~Has(p, c, "close") /\ ~Has(p, c, "failure")
    BY <1>u, <1>q, <1>s, <2>r, ReadyPacket
  <2>n. InOrder' /\ link' \in [Peers -> Seq(Message)] /\ Delivered(p, m, c, "answer")
    <3>1. MayFollow(p, m)
      BY <1>q, <2>m, <1>b, <2>k DEF MayFollow
    <3> QED
      BY <1>u, <2>r, <2>m, <3>1, SendStep
  <2>2. TypeOK'
    BY <1>u, <1>1, <2>n DEF AskedIs, TypeOK, Inv
  <2>3. \A d \in Names : d # c => Same(d)
    BY <1>u, <1>1, <2>n, NumbersSame DEF Same, AskedIs, Delivered
  <2>4. Seen(p, q, c)'
    <3>0. Silent(q, c)' <=> Silent(q, c)
      BY <2>n, <1>s DEF Silent, Delivered
    <3> USE <1>u, <1>q, <1>s, <2>k, <2>n, <3>0, NumbersSame DEF Delivered
    <3>1. Carried(p, c)' /\ Carried(q, c)'
      <4>1. Opening(p, c)' /\ Opening(q, c)'
        BY DEF Seen, Carried, Opening
      <4>2. Confirming(p, c)' /\ Confirming(q, c)'
        BY DEF Seen, Carried, Confirming
      <4>3. Refusing(p, c)' /\ Refusing(q, c)'
        BY DEF Seen, Carried, Refusing
      <4>4. Answered(p, c)' /\ Answered(q, c)'
        BY DEF Seen, Carried, Answered
      <4>5. Using(p, c)' /\ Using(q, c)'
        BY DEF Seen, Carried, Using
      <4>6. Closing(p, c)' /\ Closing(q, c)'
        BY DEF Seen, Carried, Closing
      <4>7. Introduced(p, c)' /\ Introduced(q, c)'
        BY DEF Seen, Carried, Introduced, Reach
      <4> QED
        BY <4>1, <4>2, <4>3, <4>4, <4>5, <4>6, <4>7 DEF Carried
    <3>2. Own(p, c)' /\ Own(q, c)'
      BY DEF Seen, Own
    <3>3. Learnt(p, c)' /\ Learnt(q, c)'
      BY DEF Seen, Learnt
    <3>4. Reach(p, c)' /\ Reach(q, c)'
      BY DEF Seen, Reach
    <3>5. Caller(p, c)' /\ Caller(q, c)'
      BY DEF Seen, Caller
    <3>6. Asking(p, q, c)' /\ Asking(q, p, c)'
      BY <1>1, <1>b, <1>c DEF Seen, Asking, AskedIs
    <3>7. (p = Opener(c) => Pair(p, q, c)') /\ (q = Opener(c) => Pair(q, p, c)')
      BY DEF Seen, Pair
    <3> QED
      BY <3>1, <3>2, <3>3, <3>4, <3>5, <3>6, <3>7 DEF Seen
  <2>5. \A r \in Peers : \A n : n \in ToSet(link[r])' /\ n.c = c => Right(r, n)'
    <3>1. ASSUME NEW r \in Peers, NEW n \in ToSet(link[r]), n.c = c PROVE Right(r, n)'
      BY <1>u, <1>q, <1>s, <2>n, NumbersSame DEF Inv, AllRight, Right, Addressed, Announced, Held, Delivered
    <3>2. Right(p, m)'
      BY <1>u, <1>c, <1>q, <2>m, <2>n, NumbersSame DEF Right, Addressed, Announced, Held, Delivered
    <3> QED
      BY <2>n, <3>1, <3>2 DEF Delivered
  <2>6. Local(c)'
    BY <2>4, <1>q, LocalSeen
  <2> QED
    BY <2>2, <2>3, <2>5, <2>6, <2>n, <2>m, Assembled DEF Delivered
<1> QED
  BY <1>x, <1>y

(* openChannel's first half keeps the invariant: the number is free, and   *)
(* nothing was ever sent for the channel.                                  *)
LEMMA OpenChannelInv == ASSUME Inv, NEW p \in Peers, NEW k \in 1..MaxOpens[p], OpenChannel(p, k) PROVE Inv'
<1>c. PICK c \in Names : c = <<p, k>> /\ p = Opener(c)
  BY NameFacts
<1>b. PICK late \in BOOLEAN : late = (loop[p] # "run")
  OBVIOUS
<1>v. PICK s \in {"opening", "refused"} : s = IF CanWrite(p) THEN "opening" ELSE "refused"
  OBVIOUS
<1>u. /\ UNCHANGED <<rq, reqMu, asked, broken, loop>> /\ ch[p][c].state = "none"
      /\ chanList' = [chanList EXCEPT ![p] = List(@, c)]
      /\ ch' = [ch EXCEPT ![p][c].state = s, ![p][c].late = late]
  BY <1>c, <1>b, <1>v DEF OpenChannel
<1>q. PICK q \in Peers : q = Other(p)
  BY PeerFacts
<1>s. Seen(p, q, c) /\ p = Other(q) /\ p # q /\ Opener(c) \in {p, q} /\ \A r \in Peers : r = p \/ r = q
  BY <1>q, LocalSeen DEF Inv
<1>o. q # Opener(c) /\ Pair(p, q, c) /\ Silent(p, c) /\ Silent(q, c)
      /\ ch[p][c] = NoChannel /\ ch[q][c] = NoChannel
  BY <1>c, <1>s, <1>u DEF Seen, Pair, Own
<1>1. Turned(p, c, s, 0, <<>>) /\ Kept(p, c) /\ ~ch[p][c].closed /\ ~ch[p][c].sentClose
  <2>1. ch \in [Peers -> [Names -> Object]] /\ TypeOK
    BY DEF Inv, TypeOK
  <2>2. PICK o \in Object : o = ch[p][c]
    BY <2>1
  <2>3. PICK new \in Object : new = [o EXCEPT !.state = s, !.late = late]
    BY DEF Object
  <2>4. ch' = [ch EXCEPT ![p][c] = new]
    BY <1>u, <2>1, <2>2, <2>3
  <2>5. ch' \in [Peers -> [Names -> Object]] /\ ch'[p][c] = new /\ Elsewhere(p, c)
    BY <2>1, <2>4, ObjectStored
  <2>6. /\ new.state = s /\ new.remoteId = o.remoteId /\ new.msg = o.msg
        /\ new.sentClose = o.sentClose /\ new.closed = o.closed
    BY <2>3 DEF Object
  <2>7. o.remoteId = 0 /\ o.msg = <<>> /\ ~o.closed /\ ~o.sentClose
    BY <1>o, <2>2 DEF NoChannel
  <2> QED
    BY <2>2, <2>5, <2>6, <2>7 DEF Turned, Kept
<1>l. PICK n : n = Slot(chanList[p])
  OBVIOUS
<1>a. /\ chanList' \in [Peers -> Seq(Entries)]
      /\ n \in Nat \ {0} /\ Listed(p, n, c)'
      /\ \A r \in Peers, d \in Names : \A x : Listed(r, x, d) => Listed(r, x, d)'
      /\ \A r \in Peers, d \in Names : IsListed(r, d)' => IsListed(r, d) \/ (r = p /\ d = c)
  BY <1>u, <1>l, NumberAdded DEF Inv
<1>m. PICK m \in Message : /\ m = Packet("open", 0, n, c, Nobody)
                           /\ m.t = "open" /\ m.from = n /\ m.c = c
  <2>1. PICK t \in Kinds, x \in Nat, id \in Nat, who \in Senders :
            t = "open" /\ x = 0 /\ id = n /\ who = Nobody
    BY <1>a DEF Kinds, Senders
  <2>2. PICK m : m = [t |-> t, to |-> x, from |-> id, c |-> c, who |-> who]
    OBVIOUS
  <2>3. m \in Message /\ m.t = t /\ m.from = id /\ m.c = c
    BY <2>2 DEF Message
  <2>4. m = Packet("open", 0, n, c, Nobody)
    BY <2>1, <2>2 DEF Packet
  <2> QED
    BY <2>1, <2>3, <2>4
<1>n. /\ InOrder' /\ link' \in [Peers -> Seq(Message)]
      /\ \A r \in Peers : Reads(r)' <=> Reads(r)
      /\ \A r \in Peers : \A x : x \in ToSet(link[r])' =>
             x \in Message /\ (x \in ToSet(link[r]) \/ (r = p /\ x = m))
      /\ \A r \in Peers : \A d, t : Has(r, d, t) => Has(r, d, t)'
      /\ \A r \in Peers : \A d, t : Has(r, d, t)' => Has(r, d, t) \/ (r = p /\ d = c /\ t = "open")
      /\ s = "refused" => ~Reads(p)
  <2>1. CASE CanWrite(p)
    <3>1. Sends(p, m) /\ s = "opening"
      BY <2>1, <1>c, <1>l, <1>m, <1>v DEF OpenChannel
    <3>2. MayFollow(p, m)
      BY <1>m, <1>o DEF MayFollow, Silent, Kinds
    <3>3. InOrder' /\ link' \in [Peers -> Seq(Message)] /\ Delivered(p, m, c, "open")
      BY <1>u, <1>m, <3>1, <3>2, SendStep
    <3> QED
      BY <3>1, <3>3 DEF Delivered
  <2>2. CASE ~CanWrite(p)
    <3>1. UNCHANGED link /\ s = "refused" /\ ~Reads(p) /\ UNCHANGED loop
      BY <2>2, <1>c, <1>v DEF OpenChannel, CanWrite, Reads
    <3>2. link \in [Peers -> Seq(Message)]
      BY DEF Inv, TypeOK
    <3>3. \A r \in Peers : Reads(r)' <=> Reads(r)
      BY <3>1 DEF Reads
    <3>4. InOrder'
      BY <3>1, <3>3, OrderSame, PeerFacts DEF Inv, InOrder
    <3>5. \A r \in Peers : \A x : x \in ToSet(link[r])' => x \in Message /\ x \in ToSet(link[r])
      BY <3>1, <3>2 DEF ToSet
    <3>6. \A r \in Peers : \A d, t : Has(r, d, t)' <=> Has(r, d, t)
      BY <3>1 DEF Has
    <3> QED
      BY <3>1, <3>2, <3>3, <3>4, <3>5, <3>6
  <2> QED
    BY <2>1, <2>2
<1>2. TypeOK'
  BY <1>u, <1>1, <1>a, <1>n DEF Turned, TypeOK, Inv
<1>3. \A d \in Names : d # c => Same(d)
  BY <1>u, <1>1, <1>a, <1>n DEF Same, Turned, Elsewhere
<1>k. /\ ~Has(q, c, "open")' /\ ~Has(q, c, "confirm")' /\ ~Has(q, c, "failure")'
      /\ ~Has(q, c, "request")' /\ ~Has(q, c, "answer")' /\ ~Has(q, c, "close")'
      /\ ~Has(p, c, "confirm")' /\ ~Has(p, c, "failure")'
      /\ ~Has(p, c, "request")' /\ ~Has(p, c, "answer")' /\ ~Has(p, c, "close")'
  BY <1>n, <1>o, <1>s DEF Silent, Kinds
<1>w. Caller(p, c)' /\ Caller(q, c)'
  <2>1. UNCHANGED <<rq, reqMu>> /\ Caller(p, c) /\ Caller(q, c)
    BY <1>u, <1>s DEF Seen
  <2>2. ch'[q][c] = ch[q][c] /\ ch'[p][c].msg = <<>>
    BY <1>1, <1>q, <1>s DEF Turned, Elsewhere
  <2>0. ch[p][c].state # "ready"
    BY <1>u
  <2>3. \A g \in Requesters[p][c] : rq[p][c][g] = "idle"
    BY <2>0, <2>1, Zenon DEF Caller
  <2>4. Caller(p, c)'
    BY <2>1, <2>2, <2>3 DEF Caller
  <2>5. Caller(q, c)'
    BY <2>1, <2>2, Zenon DEF Caller
  <2> QED
    BY <2>4, <2>5
<1>4. Seen(p, q, c)'
  <2>0. Silent(q, c)' /\ ch[q][c].remoteId = 0 /\ ch[q][c].state = "none" /\ ~ch[q][c].closed
    BY <1>k, <1>o DEF Silent, Kinds, NoChannel
  <2> USE <1>u, <1>q, <1>s, <1>c, <1>o, <1>1, <1>a, <1>n, <1>k, <2>0 DEF Turned, Elsewhere, Kept
  <2>1. Carried(p, c)' /\ Carried(q, c)'
    <3>1. Opening(p, c)' /\ Opening(q, c)'
      BY DEF Seen, Carried, Opening
    <3>2. Confirming(p, c)' /\ Confirming(q, c)'
      BY DEF Seen, Carried, Confirming
    <3>3. Refusing(p, c)' /\ Refusing(q, c)'
      BY DEF Seen, Carried, Refusing
    <3>4. Answered(p, c)' /\ Answered(q, c)'
      BY DEF Seen, Carried, Answered
    <3>5. Using(p, c)' /\ Using(q, c)'
      BY DEF Seen, Carried, Using
    <3>6. Closing(p, c)' /\ Closing(q, c)'
      BY DEF Seen, Carried, Closing
    <3>7. Introduced(p, c)' /\ Introduced(q, c)'
      BY DEF Seen, Carried, Introduced
    <3> QED
      BY <3>1, <3>2, <3>3, <3>4, <3>5, <3>6, <3>7 DEF Carried
  <2>2. Own(p, c)' /\ Own(q, c)'
    BY DEF Seen, Own
  <2>3. Learnt(p, c)' /\ Learnt(q, c)'
    BY DEF Seen, Learnt
  <2>4. Reach(p, c)' /\ Reach(q, c)'
    BY DEF Seen, Reach
  <2>5. Caller(p, c)' /\ Caller(q, c)'
    BY <1>w
  <2>6. Asking(p, q, c)' /\ Asking(q, p, c)'
    BY DEF Seen, Asking, Silent, Kinds
  <2>7. Pair(p, q, c)'
    BY DEF Seen, Pair
  <2> QED
    BY <2>1, <2>2, <2>3, <2>4, <2>5, <2>6, <2>7 DEF Seen
<1>5. \A r \in Peers : \A x : x \in ToSet(link[r])' /\ x.c = c => Right(r, x)'
  <2>1. ASSUME NEW r \in Peers, NEW x \in ToSet(link[r]), x.c = c PROVE FALSE
    <3>0. link[r] \in Seq(Message)
      BY DEF Inv, TypeOK
    <3>1. x \in Message
      BY <3>0 DEF ToSet
    <3> QED
      BY <2>1, <3>1, <1>o, <1>s DEF Silent, Has, Message
  <2>2. Right(p, m)'
    BY <1>m, <1>a DEF Right, Addressed, Announced, Held
  <2> QED
    BY <1>n, <2>1, <2>2
<1>6. Local(c)'
  BY <1>4, <1>q, LocalSeen
<1> QED
  BY <1>2, <1>3, <1>5, <1>6, <1>n, <1>m, Assembled

-----------------------------------------------------------------------------
(* mux.loop.                                                               *)

(* What a step that reads packet h from q does to the packets on their     *)
(* way.                                                                    *)
Taken(q, h) ==
    /\ \A r \in Peers : Reads(r)' <=> Reads(r)
    /\ \A r \in Peers : \A n : n \in ToSet(link[r])' => n \in Message /\ n \in ToSet(link[r])
    /\ \A r \in Peers : \A d, t : Has(r, d, t)' => Has(r, d, t)
    /\ \A r \in Peers : \A d, t : Has(r, d, t) => Has(r, d, t)' \/ (r = q /\ d = h.c /\ t = h.t)
    /\ \A t : Has(q, h.c, t)' =>
           /\ h.t \notin {"close", "failure"} /\ t \notin {"open", "confirm", "failure"}
           /\ ~(h.t = "request" /\ t = "request") /\ ~(h.t = "answer" /\ t = "answer")

(* What is known when mux.loop of p has read h, a packet of kind k, from q: *)
(* the packet is right, so that onePacket finds the channel it is for.     *)
Fetched(p, q, h, k) ==
    /\ Order(q)' /\ link'[q] \in Seq(Message) /\ Reads(p) /\ \A r \in Peers : Reads(r)' <=> Reads(r)
    /\ \A n : n \in ToSet(link[q])' => n \in ToSet(link[q])
    /\ \A r \in Peers : \A n : n \in ToSet(link[r]) => n \in Message
    /\ \A d, t : Has(q, d, t)' => Has(q, d, t)
    /\ \A d, t : Has(q, d, t) => Has(q, d, t)' \/ (d = h.c /\ t = h.t)
    /\ \A t : Has(q, h.c, t)' =>
           /\ h.t \notin {"close", "failure"} /\ t \notin {"open", "confirm", "failure"}
           /\ ~(h.t = "request" /\ t = "request") /\ ~(h.t = "answer" /\ t = "answer")
    /\ h \in Message /\ h.t = k /\ h.c \in Names /\ Has(q, h.c, h.t) /\ Right(q, h)
    /\ h.t # "open" => Known(p) /\ Target(p) = h.c /\ Listed(p, h.to, h.c)

(* This holds of every packet that is read.                                *)
LEMMA HeadRead ==
    ASSUME Inv, NEW p \in Peers, NEW q \in Peers, q = Other(p), NEW k, Receives(p, k),
           NEW h, h = Head(link[q]), link'[q] = Tail(link[q]), UNCHANGED loop
    PROVE  Fetched(p, q, h, k)
<1>1. TypeOK /\ link \in [Peers -> Seq(Message)] /\ \A r \in Peers : Order(r)
  BY DEF Inv, TypeOK, InOrder
<1>2. Reads(p) /\ link[q] # <<>> /\ h.t = k /\ \A r \in Peers : Reads(r)' <=> Reads(r)
  BY DEF Receives, Incoming, Reads
<1>3. p = Other(q)
  BY PeerFacts
<1>4. /\ link'[q] \in Seq(Message) /\ h \in ToSet(link[q])
      /\ \A n : n \in ToSet(link[q])' => n \in ToSet(link[q])
  BY <1>1, <1>2, PacketRead
<1>5. \A r \in Peers : \A n : n \in ToSet(link[r]) => n \in Message
  BY <1>1 DEF ToSet
<1>6. /\ h \in Message /\ Has(q, h.c, h.t)
      /\ \A c, t : Has(q, c, t)' => Has(q, c, t)
      /\ \A c, t : Has(q, c, t) => Has(q, c, t)' \/ (h.c = c /\ h.t = t)
      /\ \A t : Has(q, h.c, t)' =>
             /\ h.t \notin {"close", "failure"} /\ t \notin {"open", "confirm", "failure"}
             /\ ~(h.t = "request" /\ t = "request")
             /\ Reads(Other(q)) => ~(h.t = "answer" /\ t = "answer")
  <2>1. TypeOK /\ Order(q) /\ link[q] # <<>> /\ link'[q] = Tail(link[q])
    BY <1>1, <1>2
  <2> QED
    BY <2>1, KindRead, ZenonT(40)
<1>7. Order(q)'
  BY <1>1, <1>2, <1>3, OrderRead
<1>8. Right(q, h)
  BY <1>4 DEF Inv, AllRight
<1>9. h.c \in Names
  BY <1>6 DEF Message
<1>10. h.t # "open" => Listed(p, h.to, h.c)
  BY <1>2, <1>3, <1>8 DEF Right, Addressed
<1>11. h.t # "open" => Known(p) /\ Target(p) = h.c
  BY <1>9, <1>10, NameFacts DEF Listed, Known, Target, Incoming
<1> QED
  BY <1>2, <1>3, <1>4, <1>5, <1>6, <1>7, <1>8, <1>9, <1>10, <1>11 DEF Fetched

(* The same of a step that sends nothing.                                  *)
LEMMA ReadStep ==
    ASSUME Inv, NEW p \in Peers, NEW q \in Peers, q = Other(p), NEW k, Receives(p, k),
           NEW h, h = Head(link[q]), Take(p), UNCHANGED loop
    PROVE  /\ InOrder' /\ link' \in [Peers -> Seq(Message)] /\ Taken(q, h) /\ Reads(p)
           /\ h \in Message /\ h.t = k /\ h.c \in Names /\ Has(q, h.c, h.t) /\ Right(q, h)
           /\ h.t # "open" => Known(p) /\ Target(p) = h.c /\ Listed(p, h.to, h.c)
<1>1. TypeOK /\ link \in [Peers -> Seq(Message)] /\ \A r \in Peers : Order(r)
  BY DEF Inv, TypeOK, InOrder
<1>2. p = Other(q) /\ q # p /\ \A r \in Peers : r = p \/ r = q
  BY PeerFacts
<1>3. link'[q] = Tail(link[q]) /\ link'[p] = link[p]
  BY <1>1, <1>2 DEF Take
<1>4. Fetched(p, q, h, k)
  BY <1>3, HeadRead
<1>5. link' \in [Peers -> Seq(Message)]
  BY <1>1, <1>3, <1>4 DEF Take, Fetched
<1>6. \A d, t : Has(p, d, t)' <=> Has(p, d, t)
  BY <1>3 DEF Has
<1>7. \A n : n \in ToSet(link[p])' <=> n \in ToSet(link[p])
  BY <1>3
<1>8. Taken(q, h)
  BY <1>2, <1>4, <1>6, <1>7, SMTT(40) DEF Taken, Fetched
<1>9. Order(p)'
  BY <1>1, <1>2, <1>3, <1>4, OrderSame DEF Fetched
<1> QED
  BY <1>2, <1>4, <1>5, <1>8, <1>9 DEF InOrder, Fetched

(* An incoming request keeps the invariant: it is the only one on its      *)
(* channel that is not answered, and from the holder of sentRequestMu.     *)
LEMMA HandleRequestInv == ASSUME Inv, NEW p \in Peers, HandleRequest(p) PROVE Inv'
<1>u. /\ UNCHANGED <<chanList, ch, rq, reqMu, broken, loop>> /\ Receives(p, "request") /\ Take(p)
      /\ asked' = [asked EXCEPT ![p][Target(p)] = Append(@, Head(Incoming(p)).who)]
  BY DEF HandleRequest
<1>q. PICK q \in Peers : q = Other(p)
  BY PeerFacts
<1>h. PICK h : h = Head(link[q])
  OBVIOUS
<1>f. /\ InOrder' /\ link' \in [Peers -> Seq(Message)] /\ Taken(q, h) /\ Reads(p)
      /\ h \in Message /\ h.t = "request" /\ h.c \in Names /\ Has(q, h.c, h.t) /\ Right(q, h)
      /\ h.t # "open" => Known(p) /\ Target(p) = h.c /\ Listed(p, h.to, h.c)
  BY <1>u, <1>q, <1>h, ReadStep
<1>c. PICK c \in Names : c = h.c
  BY <1>f
<1>s. Seen(p, q, c) /\ p = Other(q) /\ p # q /\ Opener(c) \in {p, q} /\ \A r \in Peers : r = p \/ r = q
  BY <1>q, LocalSeen DEF Inv
<1>o. ~ch[q][c].closed => reqMu[q][c] # "free" /\ asked[p][c] = <<>> /\ ~Has(p, c, "answer")
                          /\ ch[q][c].msg = <<>> /\ h.who = reqMu[q][c]
  BY <1>s, <1>c, <1>f DEF Seen, Asking, Right, Held
<1>a. PICK all \in Seq(Senders) : all = Append(asked[p][c], h.who)
  <2>1. asked[p][c] \in Seq(Senders) /\ h.who \in Senders
    BY <1>f DEF Inv, TypeOK, Message
  <2>2. Append(asked[p][c], h.who) \in Seq(Senders)
    BY <2>1, AppendProperties
  <2> QED
    BY <2>2
<1>b. ~ch[q][c].closed => all = <<reqMu[q][c]>>
  <2>1. ASSUME asked[p][c] = <<>> PROVE all = <<h.who>>
    BY <1>a, <2>1
  <2> QED
    BY <1>o, <2>1
<1>1. AskedIs(p, c, all)
  <2>1. asked \in [Peers -> [Names -> Seq(Senders)]] /\ h = Head(Incoming(p)) /\ Target(p) = c
    BY <1>h, <1>q, <1>f, <1>c DEF Inv, TypeOK, Incoming
  <2>2. asked' = [asked EXCEPT ![p][c] = all]
    BY <1>u, <1>a, <2>1
  <2> QED
    BY <2>2, AskedUpdate DEF Inv
<1>2. TypeOK'
  BY <1>u, <1>1, <1>f DEF AskedIs, TypeOK, Inv
<1>3. \A d \in Names : d # c => Same(d)
  BY <1>u, <1>1, <1>c, <1>f, NumbersSame DEF Same, AskedIs, Taken
<1>k. /\ \A r \in Peers : \A t : Has(r, c, t)' => Has(r, c, t)
      /\ \A t : Has(p, c, t)' <=> Has(p, c, t)
      /\ \A t : t # "request" => (Has(q, c, t)' <=> Has(q, c, t))
      /\ ~Has(q, c, "request")'
  BY <1>c, <1>f, <1>s DEF Taken
<1>r. Has(q, c, "request") /\ \A r \in Peers : Reads(r)' <=> Reads(r)
  BY <1>c, <1>f DEF Taken
<1>4. Seen(p, q, c)'
  <2>0. \A r \in Peers : Silent(r, c) => Silent(r, c)'
    BY <1>k DEF Silent
  <2> USE <1>u, <1>q, <1>s, <1>k, <1>r, <2>0, NumbersSame
  <2>1. Carried(p, c)' /\ Carried(q, c)'
    <3>1. Opening(p, c)' /\ Opening(q, c)'
      BY DEF Seen, Carried, Opening
    <3>2. Confirming(p, c)' /\ Confirming(q, c)'
      BY DEF Seen, Carried, Confirming
    <3>3. Refusing(p, c)' /\ Refusing(q, c)'
      BY DEF Seen, Carried, Refusing
    <3>4. Answered(p, c)' /\ Answered(q, c)'
      BY DEF Seen, Carried, Answered
    <3>5. Using(p, c)' /\ Using(q, c)'
      BY DEF Seen, Carried, Using
    <3>6. Closing(p, c)' /\ Closing(q, c)'
      BY DEF Seen, Carried, Closing
    <3>7. Introduced(p, c)' /\ Introduced(q, c)'
      BY DEF Seen, Carried, Introduced
    <3> QED
      BY <3>1, <3>2, <3>3, <3>4, <3>5, <3>6, <3>7 DEF Carried
  <2>2. Own(p, c)' /\ Own(q, c)'
    BY DEF Seen, Own
  <2>3. Learnt(p, c)' /\ Learnt(q, c)'
    BY DEF Seen, Learnt
  <2>4. Reach(p, c)' /\ Reach(q, c)'
    BY DEF Seen, Reach
  <2>5. Caller(p, c)' /\ Caller(q, c)'
    BY DEF Seen, Caller
  <2>6. Asking(p, q, c)' /\ Asking(q, p, c)'
    BY <1>1, <1>b, <1>o DEF Seen, Asking, AskedIs
  <2>7. (p = Opener(c) => Pair(p, q, c)') /\ (q = Opener(c) => Pair(q, p, c)')
    BY DEF Seen, Pair
  <2> QED
    BY <2>1, <2>2, <2>3, <2>4, <2>5, <2>6, <2>7 DEF Seen
<1>5. \A r \in Peers : \A n : n \in ToSet(link[r])' /\ n.c = c => Right(r, n)'
  BY <1>u, <1>q, <1>s, <1>f, <1>r, NumbersSame DEF Taken, Inv, AllRight, Right, Addressed, Announced, Held
<1>6. Local(c)'
  BY <1>4, <1>q, LocalSeen
<1>7. \A r \in Peers : \A n : n \in ToSet(link[r])' => n \in Message /\ n \in ToSet(link[r])
  BY <1>f DEF Taken
<1> QED
  BY <1>2, <1>3, <1>5, <1>6, <1>7, <1>f, Assembled

(* An incoming answer keeps the invariant: it is for the holder of         *)
(* sentRequestMu, which waits for it, and c.msg is empty.                  *)
LEMMA HandleAnswerInv == ASSUME Inv, NEW p \in Peers, HandleAnswer(p) PROVE Inv'
<1>u. UNCHANGED <<chanList, rq, reqMu, asked, broken, loop>>
  BY DEF HandleAnswer
<1>v. /\ Receives(p, "answer") /\ Take(p)
      /\ ch' = [ch EXCEPT ![p][Target(p)].msg = Append(@, Head(Incoming(p)).who)]
  BY DEF HandleAnswer
<1>q. PICK q \in Peers : q = Other(p)
  BY PeerFacts
<1>h. PICK h : h = Head(link[q])
  OBVIOUS
<1>f. /\ InOrder' /\ link' \in [Peers -> Seq(Message)] /\ Taken(q, h) /\ Reads(p)
      /\ h \in Message /\ h.t = "answer" /\ h.c \in Names /\ Has(q, h.c, h.t) /\ Right(q, h)
      /\ h.t # "open" => Known(p) /\ Target(p) = h.c /\ Listed(p, h.to, h.c)
  BY <1>u, <1>v, <1>q, <1>h, ReadStep
<1>c. PICK c \in Names : c = h.c
  BY <1>f
<1>s. Seen(p, q, c) /\ p = Other(q) /\ p # q /\ Opener(c) \in {p, q} /\ \A r \in Peers : r = p \/ r = q
  BY <1>q, LocalSeen DEF Inv
<1>k. /\ \A r \in Peers : \A t : Has(r, c, t)' => Has(r, c, t)
      /\ \A t : Has(p, c, t)' <=> Has(p, c, t)
      /\ \A t : t # "answer" => (Has(q, c, t)' <=> Has(q, c, t))
      /\ ~Has(q, c, "answer")'
  BY <1>c, <1>f, <1>s DEF Taken
<1>r. Has(q, c, "answer") /\ \A r \in Peers : Reads(r)' <=> Reads(r)
  BY <1>c, <1>f DEF Taken
<1>o. ~ch[p][c].closed /\ ch[q][c].state = "ready"
  BY <1>q, <1>s, <1>f, <1>r DEF Seen, Reach, Silent, Kinds, Carried, Using
<1>b. /\ reqMu[p][c] # "free" /\ ch[p][c].msg = <<>> /\ h.who = reqMu[p][c]
      /\ ~Has(p, c, "request") /\ asked[q][c] = <<>>
  BY <1>s, <1>c, <1>f, <1>o, <1>r DEF Seen, Asking, Right, Held
<1>e. ch[p][c].state = "ready" /\ h.who \in Words
  BY <1>s, <1>b DEF Seen, Caller, Words, Askers
<1>a. PICK w \in Seq(Words) : w = <<h.who>>
  <2>1. PICK x \in Words : x = h.who
    BY <1>e
  <2>2. <<x>> \in Seq(Words)
    OBVIOUS
  <2> QED
    BY <2>1, <2>2
<1>1. Turned(p, c, ch[p][c].state, ch[p][c].remoteId, w) /\ Kept(p, c)
  <2>1. ch \in [Peers -> [Names -> Object]] /\ h = Head(Incoming(p)) /\ Target(p) = c
    BY <1>h, <1>q, <1>f, <1>c DEF Inv, TypeOK, Incoming
  <2>2. Append(ch[p][c].msg, h.who) = w
    BY <1>b, <1>a
  <2>3. ch' = [ch EXCEPT ![p][c].msg = w]
    BY <1>v, <2>1, <2>2
  <2> QED
    BY <2>3, ObjectUpdates, 0 \in Nat DEF Inv
<1>2. TypeOK'
  BY <1>u, <1>1, <1>f DEF Turned, TypeOK, Inv
<1>3. \A d \in Names : d # c => Same(d)
  BY <1>u, <1>1, <1>c, <1>f, NumbersSame DEF Same, Turned, Elsewhere, Taken
<1>4. Seen(p, q, c)'
  <2>0. \A r \in Peers : Silent(r, c) => Silent(r, c)'
    BY <1>k DEF Silent
  <2> USE <1>u, <1>q, <1>s, <1>k, <1>r, <1>o, <1>b, <1>e, <1>1, <2>0, NumbersSame DEF Turned, Elsewhere, Kept
  <2>1. Carried(p, c)' /\ Carried(q, c)'
    <3>1. Opening(p, c)' /\ Opening(q, c)'
      BY DEF Seen, Carried, Opening
    <3>2. Confirming(p, c)' /\ Confirming(q, c)'
      BY DEF Seen, Carried, Confirming
    <3>3. Refusing(p, c)' /\ Refusing(q, c)'
      BY DEF Seen, Carried, Refusing
    <3>4. Answered(p, c)' /\ Answered(q, c)'
      BY <1>c, <1>f DEF Seen, Carried, Answered, Taken
    <3>5. Using(p, c)' /\ Using(q, c)'
      BY DEF Seen, Carried, Using
    <3>6. Closing(p, c)' /\ Closing(q, c)'
      BY DEF Seen, Carried, Closing
    <3>7. Introduced(p, c)' /\ Introduced(q, c)'
      BY DEF Seen, Carried, Introduced
    <3> QED
      BY <3>1, <3>2, <3>3, <3>4, <3>5, <3>6, <3>7 DEF Carried
  <2>2. Own(p, c)' /\ Own(q, c)'
    BY DEF Seen, Own
  <2>3. Learnt(p, c)' /\ Learnt(q, c)'
    BY DEF Seen, Learnt
  <2>4. Reach(p, c)' /\ Reach(q, c)'
    BY DEF Seen, Reach
  <2>5. Caller(p, c)' /\ Caller(q, c)'
    BY <1>a DEF Seen, Caller
  <2>6. Asking(p, q, c)' /\ Asking(q, p, c)'
    BY DEF Seen, Asking
  <2>7. (p = Opener(c) => Pair(p, q, c)') /\ (q = Opener(c) => Pair(q, p, c)')
    BY DEF Seen, Pair
  <2> QED
    BY <2>1, <2>2, <2>3, <2>4, <2>5, <2>6, <2>7 DEF Seen
<1>5. \A r \in Peers : \A n : n \in ToSet(link[r])' /\ n.c = c => Right(r, n)'
  <2> SUFFICES ASSUME NEW r \in Peers, NEW n, n \in ToSet(link[r])', n.c = c PROVE Right(r, n)'
    OBVIOUS
  <2>1. n \in ToSet(link[r]) /\ Addressed(r, n) /\ Announced(r, n) /\ Held(r, n) /\ Has(r, c, n.t)'
    BY <1>f DEF Taken, Inv, AllRight, Right, Has
  <2>2. Addressed(r, n)' /\ Announced(r, n)'
    BY <2>1, <1>q, <1>s, <1>r, <1>u, NumbersSame DEF Addressed, Announced
  <2>3. Held(r, n)'
    BY <2>1, <1>u, <1>q, <1>s, <1>1 DEF Turned, Elsewhere, Kept, Held
  <2> QED
    BY <2>2, <2>3 DEF Right
<1>6. Local(c)'
  BY <1>4, <1>q, LocalSeen
<1>7. \A r \in Peers : \A n : n \in ToSet(link[r])' => n \in Message /\ n \in ToSet(link[r])
  BY <1>f DEF Taken
<1> QED
  BY <1>2, <1>3, <1>5, <1>6, <1>7, <1>f, Assembled

(* A confirmation keeps the invariant: it comes once, openChannel waits    *)
(* for it, and it brings the number of the channel at the other end.       *)
LEMMA HandleConfirmInv == ASSUME Inv, NEW p \in Peers, HandleConfirm(p) PROVE Inv'
<1>u. UNCHANGED <<chanList, rq, reqMu, asked, broken, loop>>
  BY DEF HandleConfirm
<1>v. /\ Receives(p, "confirm") /\ Take(p)
      /\ ch' = [ch EXCEPT ![p][Target(p)].remoteId = Head(Incoming(p)).from,
                          ![p][Target(p)].msg = Append(@, "confirm")]
  BY DEF HandleConfirm
<1>q. PICK q \in Peers : q = Other(p)
  BY PeerFacts
<1>h. PICK h : h = Head(link[q])
  OBVIOUS
<1>f. /\ InOrder' /\ link' \in [Peers -> Seq(Message)] /\ Taken(q, h) /\ Reads(p)
      /\ h \in Message /\ h.t = "confirm" /\ h.c \in Names /\ Has(q, h.c, h.t) /\ Right(q, h)
      /\ h.t # "open" => Known(p) /\ Target(p) = h.c /\ Listed(p, h.to, h.c)
  BY <1>u, <1>v, <1>q, <1>h, ReadStep
<1>c. PICK c \in Names : c = h.c
  BY <1>f
<1>s. Seen(p, q, c) /\ p = Other(q) /\ p # q /\ Opener(c) \in {p, q} /\ \A r \in Peers : r = p \/ r = q
  BY <1>q, LocalSeen DEF Inv
<1>k. /\ \A r \in Peers : \A t : Has(r, c, t)' => Has(r, c, t)
      /\ \A t : Has(p, c, t)' <=> Has(p, c, t)
      /\ \A t : t # "confirm" => (Has(q, c, t)' <=> Has(q, c, t))
      /\ ~Has(q, c, "confirm")'
  BY <1>c, <1>f, <1>s DEF Taken
<1>r. Has(q, c, "confirm") /\ \A r \in Peers : Reads(r)' <=> Reads(r)
  BY <1>c, <1>f DEF Taken
<1>o. ~ch[p][c].closed /\ ch[q][c].state = "ready" /\ ch[p][c].state = "opening" /\ ch[p][c].msg = <<>>
      /\ q # Opener(c) /\ p = Opener(c) /\ ch[p][c].remoteId = 0
  BY <1>q, <1>s, <1>f, <1>r DEF Seen, Reach, Silent, Kinds, Carried, Confirming, Answered
<1>b. reqMu[p][c] = "free" /\ ~Has(p, c, "request") /\ ~Has(p, c, "answer")
      /\ asked[q][c] = <<>> /\ ~Has(q, c, "answer")
  <2>1. reqMu[p][c] = "free"
    BY <1>s, <1>o DEF Seen, Caller
  <2> QED
    BY <2>1, <1>s, <1>o DEF Seen, Asking, Carried, Using
<1>e. PICK id \in Nat : id = h.from /\ id # 0 /\ (Reads(q) => Listed(q, id, c))
  BY <1>c, <1>f DEF Right, Announced, Message
<1>l. ~Has(q, c, "failure")'
  BY <1>c, <1>f DEF Taken
<1>a. PICK w \in Seq(Words) : w = <<"confirm">>
  <2>1. PICK x \in Words : x = "confirm"
    BY DEF Words
  <2>2. <<x>> \in Seq(Words)
    OBVIOUS
  <2> QED
    BY <2>1, <2>2
<1>1. Turned(p, c, ch[p][c].state, id, w) /\ Kept(p, c)
  <2>1. ch \in [Peers -> [Names -> Object]] /\ h = Head(Incoming(p)) /\ Target(p) = c
    BY <1>h, <1>q, <1>f, <1>c DEF Inv, TypeOK, Incoming
  <2>2. Append(ch[p][c].msg, "confirm") = w
    BY <1>o, <1>a
  <2>3. ch' = [ch EXCEPT ![p][c].remoteId = id, ![p][c].msg = w]
    BY <1>v, <1>e, <2>1, <2>2
  <2> QED
    BY <2>3, <1>e, <1>o, ObjectUpdates DEF Inv
<1>2. TypeOK'
  BY <1>u, <1>1, <1>f, <1>e DEF Turned, TypeOK, Inv
<1>3. \A d \in Names : d # c => Same(d)
  BY <1>u, <1>1, <1>c, <1>f, NumbersSame DEF Same, Turned, Elsewhere, Taken
<1>4. Seen(p, q, c)'
  <2>0. \A r \in Peers : Silent(r, c) => Silent(r, c)'
    BY <1>k DEF Silent
  <2> USE <1>u, <1>q, <1>s, <1>k, <1>r, <1>o, <1>b, <1>e, <1>l, <1>1, <2>0, NumbersSame DEF Turned, Elsewhere, Kept
  <2>1. Carried(p, c)' /\ Carried(q, c)'
    <3>1. Opening(p, c)' /\ Opening(q, c)'
      BY DEF Seen, Carried, Opening
    <3>2. Confirming(p, c)' /\ Confirming(q, c)'
      BY DEF Seen, Carried, Confirming
    <3>3. Refusing(p, c)' /\ Refusing(q, c)'
      BY DEF Seen, Carried, Refusing
    <3>4. Answered(p, c)' /\ Answered(q, c)'
      BY DEF Seen, Carried, Answered
    <3>5. Using(p, c)' /\ Using(q, c)'
      BY DEF Seen, Carried, Using
    <3>6. Closing(p, c)' /\ Closing(q, c)'
      BY DEF Seen, Carried, Closing
    <3>7. Introduced(p, c)' /\ Introduced(q, c)'
      BY DEF Seen, Carried, Introduced
    <3> QED
      BY <3>1, <3>2, <3>3, <3>4, <3>5, <3>6, <3>7 DEF Carried
  <2>2. Own(p, c)' /\ Own(q, c)'
    BY DEF Seen, Own
  <2>3. Learnt(p, c)' /\ Learnt(q, c)'
    BY DEF Seen, Learnt
  <2>4. Reach(p, c)' /\ Reach(q, c)'
    BY DEF Seen, Reach
  <2>5. Caller(p, c)' /\ Caller(q, c)'
    BY DEF Seen, Caller
  <2>6. Asking(p, q, c)' /\ Asking(q, p, c)'
    BY DEF Seen, Asking
  <2>7. Pair(p, q, c)'
    BY <1>a DEF Seen, Pair
  <2> QED
    BY <2>1, <2>2, <2>3, <2>4, <2>5, <2>6, <2>7 DEF Seen
<1>5. \A r \in Peers : \A n : n \in ToSet(link[r])' /\ n.c = c => Right(r, n)'
  <2> SUFFICES ASSUME NEW r \in Peers, NEW n, n \in ToSet(link[r])', n.c = c PROVE Right(r, n)'
    OBVIOUS
  <2>1. n \in ToSet(link[r]) /\ Addressed(r, n) /\ Announced(r, n) /\ Held(r, n) /\ Has(r, c, n.t)'
    BY <1>f DEF Taken, Inv, AllRight, Right, Has
  <2>2. Addressed(r, n)' /\ Announced(r, n)'
    BY <2>1, <1>q, <1>s, <1>r, <1>u, NumbersSame DEF Addressed, Announced
  <2>3. Held(r, n)'
    BY <2>1, <1>u, <1>q, <1>s, <1>1 DEF Turned, Elsewhere, Kept, Held
  <2> QED
    BY <2>2, <2>3 DEF Right
<1>6. Local(c)'
  BY <1>4, <1>q, LocalSeen
<1>7. \A r \in Peers : \A n : n \in ToSet(link[r])' => n \in Message /\ n \in ToSet(link[r])
  BY <1>f DEF Taken
<1> QED
  BY <1>2, <1>3, <1>5, <1>6, <1>7, <1>f, Assembled

(* A refusal keeps the invariant: openChannel waits for it, nothing of the *)
(* channel is on its way any more, and its number is free.                 *)
LEMMA HandleFailureInv == ASSUME Inv, NEW p \in Peers, HandleFailure(p) PROVE Inv'
<1>u. UNCHANGED <<rq, reqMu, asked, broken, loop>>
  BY DEF HandleFailure
<1>v. /\ Receives(p, "failure") /\ Take(p)
      /\ chanList' = [chanList EXCEPT ![p] = Unlist(@, Head(Incoming(p)).to)]
      /\ ch' = [ch EXCEPT ![p][Target(p)].msg = Append(@, "failure")]
  BY DEF HandleFailure
<1>q. PICK q \in Peers : q = Other(p)
  BY PeerFacts
<1>h. PICK h : h = Head(link[q])
  OBVIOUS
<1>f. /\ InOrder' /\ link' \in [Peers -> Seq(Message)] /\ Taken(q, h) /\ Reads(p)
      /\ h \in Message /\ h.t = "failure" /\ h.c \in Names /\ Has(q, h.c, h.t) /\ Right(q, h)
      /\ h.t # "open" => Known(p) /\ Target(p) = h.c /\ Listed(p, h.to, h.c)
  BY <1>u, <1>v, <1>q, <1>h, ReadStep
<1>c. PICK c \in Names : c = h.c
  BY <1>f
<1>s. Seen(p, q, c) /\ p = Other(q) /\ p # q /\ Opener(c) \in {p, q} /\ \A r \in Peers : r = p \/ r = q
  BY <1>q, LocalSeen DEF Inv
<1>k. /\ \A r \in Peers : \A t : Has(r, c, t)' => Has(r, c, t)
      /\ \A t : Has(p, c, t)' <=> Has(p, c, t)
      /\ \A t : t # "failure" => (Has(q, c, t)' <=> Has(q, c, t))
      /\ ~Has(q, c, "failure")'
  BY <1>c, <1>f, <1>s DEF Taken
<1>r. Has(q, c, "failure") /\ \A r \in Peers : Reads(r)' <=> Reads(r)
  BY <1>c, <1>f DEF Taken
<1>o. ~ch[p][c].closed /\ ch[q][c].state = "refused" /\ ch[p][c].state = "opening" /\ ch[p][c].msg = <<>>
      /\ q # Opener(c) /\ p = Opener(c) /\ ch[q][c].remoteId # 0
  BY <1>q, <1>s, <1>f, <1>r DEF Seen, Reach, Silent, Kinds, Carried, Refusing, Answered
<1>b. reqMu[p][c] = "free" /\ ~Has(p, c, "request") /\ ~Has(p, c, "answer")
      /\ asked[q][c] = <<>> /\ ~Has(q, c, "answer")
  <2>1. reqMu[p][c] = "free"
    BY <1>s, <1>o DEF Seen, Caller
  <2> QED
    BY <2>1, <1>s, <1>o DEF Seen, Asking, Carried, Using
<1>l. (\A t : ~Has(q, c, t)') /\ ~Has(p, c, "open")' /\ ~Has(p, c, "confirm")'
  <2>1. \A t : ~Has(q, c, t)'
    BY <1>c, <1>f DEF Taken
  <2>2. ~Has(p, c, "open") /\ ~Has(p, c, "confirm")
    BY <1>q, <1>s, <1>o DEF Seen, Carried, Opening, Confirming
  <2> QED
    BY <2>1, <2>2, <1>k
<1>a. PICK w \in Seq(Words) : w = <<"failure">>
  <2>1. PICK x \in Words : x = "failure"
    BY DEF Words
  <2>2. <<x>> \in Seq(Words)
    OBVIOUS
  <2> QED
    BY <2>1, <2>2
<1>1. Turned(p, c, "opening", ch[p][c].remoteId, w) /\ Kept(p, c)
  <2>1. ch \in [Peers -> [Names -> Object]] /\ h = Head(Incoming(p)) /\ Target(p) = c
    BY <1>h, <1>q, <1>f, <1>c DEF Inv, TypeOK, Incoming
  <2>2. Append(ch[p][c].msg, "failure") = w
    BY <1>o, <1>a
  <2>3. ch' = [ch EXCEPT ![p][c].msg = w]
    BY <1>v, <2>1, <2>2
  <2> QED
    BY <2>3, <1>o, ObjectUpdates, 0 \in Nat, ZenonT(40) DEF Inv
<1>n. /\ chanList' \in [Peers -> Seq(Entries)]
      /\ \A r \in Peers, d \in Names : \A x : Listed(r, x, d) /\ ~(r = p /\ d = c) => Listed(r, x, d)'
      /\ \A r \in Peers, d \in Names : IsListed(r, d)' => IsListed(r, d)
  <2>1. Listed(p, h.to, c) /\ chanList' = [chanList EXCEPT ![p] = Unlist(@, h.to)]
    BY <1>v, <1>h, <1>q, <1>c, <1>f DEF Incoming
  <2> QED
    BY <2>1, NumberRemoved DEF Inv
<1>2. TypeOK'
  BY <1>u, <1>1, <1>f, <1>n DEF Turned, TypeOK, Inv
<1>3. \A d \in Names : d # c => Same(d)
  BY <1>u, <1>1, <1>c, <1>f, <1>n DEF Same, Turned, Elsewhere, Taken
<1>4. Seen(p, q, c)'
  <2>0. \A r \in Peers : Silent(r, c) => Silent(r, c)'
    BY <1>k DEF Silent
  <2> USE <1>u, <1>q, <1>s, <1>k, <1>r, <1>o, <1>b, <1>l, <1>1, <1>n, <2>0 DEF Turned, Elsewhere, Kept
  <2>1. Carried(p, c)' /\ Carried(q, c)'
    <3>1. Opening(p, c)' /\ Opening(q, c)'
      BY DEF Seen, Carried, Opening
    <3>2. Confirming(p, c)' /\ Confirming(q, c)'
      BY DEF Seen, Carried, Confirming
    <3>3. Refusing(p, c)' /\ Refusing(q, c)'
      BY DEF Seen, Carried, Refusing
    <3>4. Answered(p, c)' /\ Answered(q, c)'
      BY DEF Seen, Carried, Answered
    <3>5. Using(p, c)' /\ Using(q, c)'
      BY DEF Seen, Carried, Using
    <3>6. Closing(p, c)' /\ Closing(q, c)'
      BY DEF Seen, Carried, Closing
    <3>7. Introduced(p, c)' /\ Introduced(q, c)'
      BY DEF Seen, Carried, Introduced
    <3> QED
      BY <3>1, <3>2, <3>3, <3>4, <3>5, <3>6, <3>7 DEF Carried
  <2>2. Own(p, c)' /\ Own(q, c)'
    BY DEF Seen, Own
  <2>3. Learnt(p, c)' /\ Learnt(q, c)'
    BY DEF Seen, Learnt
  <2>4. Reach(p, c)' /\ Reach(q, c)'
    BY DEF Seen, Reach
  <2>5. Caller(p, c)' /\ Caller(q, c)'
    BY DEF Seen, Caller
  <2>6. Asking(p, q, c)' /\ Asking(q, p, c)'
    BY DEF Seen, Asking
  <2>7. Pair(p, q, c)'
    BY <1>a DEF Seen, Pair
  <2> QED
    BY <2>1, <2>2, <2>3, <2>4, <2>5, <2>6, <2>7 DEF Seen
<1>5. \A r \in Peers : \A n : n \in ToSet(link[r])' /\ n.c = c => Right(r, n)'
  <2> SUFFICES ASSUME NEW r \in Peers, NEW n, n \in ToSet(link[r])', n.c = c PROVE Right(r, n)'
    OBVIOUS
  <2>1. n \in ToSet(link[r]) /\ Addressed(r, n) /\ Announced(r, n) /\ Held(r, n) /\ Has(r, c, n.t)'
    BY <1>f DEF Taken, Inv, AllRight, Right, Has
  <2>2. Addressed(r, n)' /\ Announced(r, n)'
    BY <2>1, <1>q, <1>s, <1>r, <1>n, <1>l DEF Addressed, Announced
  <2>3. Held(r, n)'
    BY <2>1, <1>u, <1>q, <1>s, <1>1 DEF Turned, Elsewhere, Kept, Held
  <2> QED
    BY <2>2, <2>3 DEF Right
<1>6. Local(c)'
  BY <1>4, <1>q, LocalSeen
<1>7. \A r \in Peers : \A n : n \in ToSet(link[r])' => n \in Message /\ n \in ToSet(link[r])
  BY <1>f DEF Taken
<1> QED
  BY <1>2, <1>3, <1>5, <1>6, <1>7, <1>f, Assembled

(* An incoming open keeps the invariant: the channel is new here, and gets *)
(* a free number.                                                          *)
LEMMA HandleOpenInv == ASSUME Inv, NEW p \in Peers, HandleOpen(p) PROVE Inv'
<1>u. UNCHANGED <<rq, reqMu, asked, broken, loop>>
  BY DEF HandleOpen
<1>v. /\ Receives(p, "open") /\ Take(p)
      /\ chanList' = [chanList EXCEPT ![p] = List(@, Head(Incoming(p)).c)]
      /\ ch' = [ch EXCEPT ![p][Head(Incoming(p)).c].state = "offered",
                          ![p][Head(Incoming(p)).c].remoteId = Head(Incoming(p)).from]
  BY DEF HandleOpen
<1>q. PICK q \in Peers : q = Other(p)
  BY PeerFacts
<1>h. PICK h : h = Head(link[q])
  OBVIOUS
<1>f. /\ InOrder' /\ link' \in [Peers -> Seq(Message)] /\ Taken(q, h) /\ Reads(p)
      /\ h \in Message /\ h.t = "open" /\ h.c \in Names /\ Has(q, h.c, h.t) /\ Right(q, h)
      /\ h.t # "open" => Known(p) /\ Target(p) = h.c /\ Listed(p, h.to, h.c)
  BY <1>u, <1>v, <1>q, <1>h, ReadStep
<1>c. PICK c \in Names : c = h.c
  BY <1>f
<1>s. Seen(p, q, c) /\ p = Other(q) /\ p # q /\ Opener(c) \in {p, q} /\ \A r \in Peers : r = p \/ r = q
  BY <1>q, LocalSeen DEF Inv
<1>k. /\ \A r \in Peers : \A t : Has(r, c, t)' => Has(r, c, t)
      /\ \A t : Has(p, c, t)' <=> Has(p, c, t)
      /\ \A t : t # "open" => (Has(q, c, t)' <=> Has(q, c, t))
      /\ ~Has(q, c, "open")'
  BY <1>c, <1>f, <1>s DEF Taken
<1>r. Has(q, c, "open") /\ \A r \in Peers : Reads(r)' <=> Reads(r)
  BY <1>c, <1>f DEF Taken
<1>o. q = Opener(c) /\ p # Opener(c) /\ ch[q][c].state # "none" /\ ch[p][c].state = "none"
      /\ ch[p][c].msg = <<>> /\ ~ch[p][c].closed /\ ~ch[p][c].sentClose
  <2>1. q = Opener(c) /\ ch[q][c].state # "none" /\ ch[p][c].state = "none"
    BY <1>q, <1>s, <1>r DEF Seen, Carried, Opening
  <2>2. ch[p][c] = NoChannel
    BY <2>1, <1>s DEF Seen, Own
  <2> QED
    BY <2>1, <2>2, <1>s DEF NoChannel
<1>b. /\ ~Has(p, c, "open") /\ ~Has(p, c, "confirm") /\ ~Has(p, c, "failure")
      /\ ~Has(p, c, "request") /\ ~Has(p, c, "answer") /\ ~Has(p, c, "close")
  BY <1>s, <1>o DEF Seen, Carried, Opening, Confirming, Refusing, Using, Closing
<1>d. Pair(q, p, c) /\ ch[q][c].remoteId = 0 /\ ~(ch[q][c].closed /\ Reads(q)) /\ ch[q][c].state # "ready"
  BY <1>s, <1>o DEF Seen, Pair, Own
<1>e. PICK id \in Nat : id = h.from /\ id # 0 /\ (Reads(q) => Listed(q, id, c))
  BY <1>c, <1>f DEF Right, Announced, Message
<1>l. ~Has(q, c, "confirm")' /\ ~Has(q, c, "failure")'
  BY <1>c, <1>f DEF Taken
<1>1. Turned(p, c, "offered", id, ch[p][c].msg) /\ Kept(p, c)
  <2>1. h = Head(Incoming(p))
    BY <1>h, <1>q DEF Incoming
  <2>2. ch' = [ch EXCEPT ![p][c].state = "offered", ![p][c].remoteId = id]
    BY <1>v, <1>e, <1>c, <2>1
  <2> QED
    BY <2>2, <1>e, ObjectUpdates, EmptySeq DEF Inv
<1>n. /\ chanList' \in [Peers -> Seq(Entries)]
      /\ \A r \in Peers, d \in Names : \A x : Listed(r, x, d) => Listed(r, x, d)'
      /\ \A r \in Peers, d \in Names : IsListed(r, d)' => IsListed(r, d) \/ (r = p /\ d = c)
  <2>1. chanList' = [chanList EXCEPT ![p] = List(@, c)]
    BY <1>v, <1>h, <1>q, <1>c DEF Incoming
  <2>2. PICK n : n = Slot(chanList[p])
    OBVIOUS
  <2> QED
    BY <2>1, <2>2, NumberAdded DEF Inv
<1>2. TypeOK'
  BY <1>u, <1>1, <1>f, <1>n DEF Turned, TypeOK, Inv
<1>3. \A d \in Names : d # c => Same(d)
  BY <1>u, <1>1, <1>c, <1>f, <1>n DEF Same, Turned, Elsewhere, Taken
<1>4. Seen(p, q, c)'
  <2>0. \A r \in Peers : Silent(r, c) => Silent(r, c)'
    BY <1>k DEF Silent
  <2> USE <1>u, <1>q, <1>s, <1>k, <1>r, <1>o, <1>b, <1>d, <1>e, <1>l, <1>1, <1>n, <2>0 DEF Turned, Elsewhere, Kept
  <2>1. Carried(p, c)' /\ Carried(q, c)'
    <3>1. Opening(p, c)' /\ Opening(q, c)'
      BY DEF Seen, Carried, Opening
    <3>2. Confirming(p, c)' /\ Confirming(q, c)'
      BY DEF Seen, Carried, Confirming
    <3>3. Refusing(p, c)' /\ Refusing(q, c)'
      BY DEF Seen, Carried, Refusing
    <3>4. Answered(p, c)' /\ Answered(q, c)'
      BY DEF Seen, Carried, Answered
    <3>5. Using(p, c)' /\ Using(q, c)'
      BY DEF Seen, Carried, Using
    <3>6. Closing(p, c)' /\ Closing(q, c)'
      BY DEF Seen, Carried, Closing
    <3>7. Introduced(p, c)' /\ Introduced(q, c)'
      BY DEF Seen, Carried, Introduced
    <3> QED
      BY <3>1, <3>2, <3>3, <3>4, <3>5, <3>6, <3>7 DEF Carried
  <2>2. Own(p, c)' /\ Own(q, c)'
    BY DEF Seen, Own
  <2>3. Learnt(p, c)' /\ Learnt(q, c)'
    BY DEF Seen, Learnt
  <2>4. Reach(p, c)' /\ Reach(q, c)'
    BY DEF Seen, Reach
  <2>5. Caller(p, c)' /\ Caller(q, c)'
    BY DEF Seen, Caller
  <2>6. Asking(p, q, c)' /\ Asking(q, p, c)'
    BY DEF Seen, Asking
  <2>7. Pair(q, p, c)'
    BY DEF Seen, Pair
  <2> QED
    BY <2>1, <2>2, <2>3, <2>4, <2>5, <2>6, <2>7 DEF Seen
<1>5. \A r \in Peers : \A n : n \in ToSet(link[r])' /\ n.c = c => Right(r, n)'
  <2> SUFFICES ASSUME NEW r \in Peers, NEW n, n \in ToSet(link[r])', n.c = c PROVE Right(r, n)'
    OBVIOUS
  <2>1. n \in ToSet(link[r]) /\ Addressed(r, n) /\ Announced(r, n) /\ Held(r, n) /\ Has(r, c, n.t)'
    BY <1>f DEF Taken, Inv, AllRight, Right, Has
  <2>2. Addressed(r, n)' /\ Announced(r, n)'
    BY <2>1, <1>q, <1>s, <1>r, <1>n DEF Addressed, Announced
  <2>3. Held(r, n)'
    BY <2>1, <1>u, <1>q, <1>s, <1>1 DEF Turned, Elsewhere, Kept, Held
  <2> QED
    BY <2>2, <2>3 DEF Right
<1>6. Local(c)'
  BY <1>4, <1>q, LocalSeen
<1>7. \A r \in Peers : \A n : n \in ToSet(link[r])' => n \in Message /\ n \in ToSet(link[r])
  BY <1>f DEF Taken
<1> QED
  BY <1>2, <1>3, <1>5, <1>6, <1>7, <1>f, Assembled

(* An incoming close keeps the invariant: it is the last packet of the     *)
(* channel, our own close goes out unless it has already, and the number   *)
(* is free for another channel.                                            *)
LEMMA HandleCloseInv == ASSUME Inv, NEW p \in Peers, HandleClose(p) PROVE Inv'
<1>u. UNCHANGED <<rq, reqMu, asked, broken, loop>>
  BY DEF HandleClose
<1>q. PICK q \in Peers : q = Other(p)
  BY PeerFacts
<1>h. PICK h : h = Head(link[q])
  OBVIOUS
<1>v. Receives(p, "close") /\ link'[q] = Tail(link[q]) /\ link[q] # <<>>
  BY <1>q, PeerFacts DEF HandleClose, Inv, TypeOK, Receives, Incoming
<1>f. Fetched(p, q, h, "close")
  BY <1>u, <1>q, <1>h, <1>v, HeadRead
<1>c. PICK c \in Names : c = h.c
  BY <1>f DEF Fetched
<1>s. Seen(p, q, c) /\ p = Other(q) /\ p # q /\ Opener(c) \in {p, q} /\ \A r \in Peers : r = p \/ r = q
  BY <1>q, LocalSeen DEF Inv
<1>k. Has(q, c, "close") /\ \A t : ~Has(q, c, t)'
  BY <1>c, <1>f DEF Fetched
<1>o. /\ ch[q][c].sentClose /\ ch[q][c].remoteId # 0 /\ ch[p][c].remoteId # 0 /\ ~ch[p][c].closed
      /\ ch[p][c].state # "none" /\ ch[q][c].state # "none"
      /\ p = Opener(c) => ch[q][c].state = "ready"
      /\ p # Opener(c) => ch[p][c].state = "ready"
      /\ ~ch[p][c].sentClose => ch[p][c].state # "refused" /\ ~(ch[q][c].closed /\ Reads(q))
      /\ ~Has(p, c, "open") /\ ~Has(p, c, "confirm")
  <2>1. ch[q][c].sentClose /\ ch[q][c].remoteId # 0 /\ (q # Opener(c) => ch[q][c].state = "ready")
    BY <1>s, <1>k DEF Seen, Carried, Closing
  <2>2. ~Has(q, c, "open") /\ ~Has(q, c, "confirm")
    BY <1>c, <1>f, <1>k DEF Fetched
  <2>3. ch[p][c].remoteId # 0
    BY <1>s, <1>k, <2>2 DEF Seen, Carried, Introduced
  <2>4. ~ch[p][c].closed
    BY <1>q, <1>s, <1>f, <1>k DEF Seen, Reach, Silent, Kinds, Fetched
  <2>5. ch[p][c].state # "none" /\ ch[q][c].state # "none"
    BY <1>s, <2>1, <2>3 DEF Seen, Own, NoChannel
  <2>6. p # Opener(c) => ch[p][c].state = "ready"
    BY <1>s, <2>1 DEF Seen, Pair
  <2>7. ~ch[p][c].sentClose => ch[p][c].state # "refused"
    BY <1>s, <1>f, <2>1, <2>3, <2>6 DEF Seen, Pair, Fetched
  <2>8. ~ch[p][c].sentClose => ~(ch[q][c].closed /\ Reads(q))
    BY <1>s DEF Seen, Reach
  <2>9. ~Has(p, c, "open") /\ ~Has(p, c, "confirm")
    BY <1>q, <1>s, <2>1, <2>5 DEF Seen, Carried, Opening, Confirming
  <2> QED
    BY <1>s, <2>1, <2>3, <2>4, <2>5, <2>6, <2>7, <2>8, <2>9
<1>m. PICK m \in Message : /\ m = ToPeer(p, c, "close", Nobody) /\ m.t = "close" /\ m.c = c
                           /\ m.to = ch[p][c].remoteId
  <2>1. PICK t \in Kinds, id \in Nat, x \in Nat, who \in Senders :
            t = "close" /\ id = ch[p][c].remoteId /\ x = 0 /\ who = Nobody
    <3>1. ch[p][c].remoteId \in Nat
      BY DEF Inv, TypeOK, Object
    <3> QED
      BY <3>1 DEF Kinds, Senders
  <2>2. PICK m : m = [t |-> t, to |-> id, from |-> x, c |-> c, who |-> who]
    OBVIOUS
  <2>3. m \in Message /\ m.t = t /\ m.to = id /\ m.c = c
    BY <2>2 DEF Message
  <2>4. m = ToPeer(p, c, "close", Nobody)
    BY <2>1, <2>2 DEF ToPeer, Packet
  <2> QED
    BY <2>1, <2>3, <2>4
<1>d. h = Head(Incoming(p)) /\ Target(p) = c /\ Listed(p, h.to, c)
  BY <1>h, <1>q, <1>c, <1>f DEF Incoming, Fetched
<1>1. /\ Turned(p, c, ch[p][c].state, ch[p][c].remoteId, ch[p][c].msg)
      /\ ch'[p][c].sentClose = TRUE /\ ch'[p][c].closed = TRUE
  <2>1. ch' = [ch EXCEPT ![p][c] = Closed(@)]
    BY <1>d DEF HandleClose
  <2>2. TypeOK
    BY DEF Inv
  <2>3. ch[p][c].state \in {"none", "opening", "offered", "ready", "refused"}
    BY <2>2 DEF TypeOK, Object
  <2> QED
    BY <2>1, <2>2, <2>3, ObjectUpdates, EmptySeq, 0 \in Nat
<1>n. /\ chanList' \in [Peers -> Seq(Entries)]
      /\ \A r \in Peers, d \in Names : \A x : Listed(r, x, d) /\ ~(r = p /\ d = c) => Listed(r, x, d)'
      /\ \A r \in Peers, d \in Names : IsListed(r, d)' => IsListed(r, d)
  <2>1. chanList' = [chanList EXCEPT ![p] = Unlist(@, h.to)]
    BY <1>d DEF HandleClose
  <2> QED
    BY <1>d, <2>1, NumberRemoved DEF Inv
<1>l. /\ InOrder' /\ link' \in [Peers -> Seq(Message)]
      /\ \A r \in Peers : \A n : n \in ToSet(link[r])' =>
             n \in Message /\ (n \in ToSet(link[r]) \/ (r = p /\ ~ch[p][c].sentClose /\ n = m))
      /\ \A d, t : Has(p, d, t)' <=> Has(p, d, t) \/ (d = c /\ t = "close" /\ ~ch[p][c].sentClose /\ ~broken)
  <2>1. link \in [Peers -> Seq(Message)] /\ TypeOK /\ Order(p)
    BY DEF Inv, TypeOK, InOrder
  <2>2. link' = [link EXCEPT ![q] = Tail(@), ![p] = IF ch[p][c].sentClose \/ broken THEN @ ELSE Append(@, m)]
    BY <1>d, <1>m, <1>q DEF HandleClose
  <2>3. CASE ch[p][c].sentClose \/ broken
    <3>1. link'[p] = link[p]
      BY <2>1, <2>2, <2>3, <1>s
    <3>2. Order(p)'
      BY <2>1, <3>1, <1>f, <1>q, OrderSame DEF Fetched
    <3>3. link' \in [Peers -> Seq(Message)]
      BY <2>1, <2>2, <2>3, <1>f, <1>v DEF Fetched
    <3>4. \A n : n \in ToSet(link[p])' <=> n \in ToSet(link[p])
      BY <3>1
    <3>5. \A d, t : Has(p, d, t)' <=> Has(p, d, t)
      BY <3>1 DEF Has
    <3> QED
      BY <2>3, <3>2, <3>3, <3>4, <3>5, <1>f, <1>s DEF InOrder, Fetched
  <2>4. CASE ~(ch[p][c].sentClose \/ broken)
    <3>1. link'[p] = Append(link[p], m)
      BY <2>1, <2>2, <2>4, <1>s
    <3>2. /\ link'[p] \in Seq(Message)
          /\ \A n : n \in ToSet(link[p])' <=> n \in ToSet(link[p]) \/ n = m
          /\ \A d, t : Has(p, d, t)' <=> Has(p, d, t) \/ (m.c = d /\ m.t = t)
      BY <2>1, <3>1, PacketAdded
    <3>3. ~Has(p, m.c, "close") /\ ~Has(p, m.c, "failure")
      BY <1>m, <1>o, <1>s, <2>4 DEF Seen, Carried, Closing, Refusing
    <3>4. Order(p)'
      <4>1. Reads(Other(p))' => Reads(Other(p))
        BY <1>q, <1>f DEF Fetched
      <4> QED
        BY <2>1, <3>1, <3>3, <4>1, <1>m, OrderAdded
    <3>5. link' \in [Peers -> Seq(Message)]
      BY <2>1, <2>2, <2>4, <3>1, <3>2, <1>f, <1>v DEF Fetched
    <3> QED
      BY <2>4, <3>2, <3>4, <3>5, <1>m, <1>f, <1>s DEF InOrder, Fetched
  <2> QED
    BY <2>3, <2>4
<1>2. TypeOK'
  BY <1>u, <1>1, <1>n, <1>l DEF Turned, TypeOK, Inv
<1>r. \A r \in Peers : Reads(r)' <=> Reads(r)
  BY <1>f DEF Fetched
<1>x. \A r \in Peers : \A d, t : d # c => (Has(r, d, t)' <=> Has(r, d, t))
  BY <1>l, <1>c, <1>f, <1>s DEF Fetched
<1>3. \A d \in Names : d # c => Same(d)
  BY <1>u, <1>1, <1>n, <1>x, <1>r DEF Same, Turned, Elsewhere
<1>w. \A t : Has(p, c, t)' <=> Has(p, c, t) \/ (t = "close" /\ ~ch[p][c].sentClose /\ ~broken)
  BY <1>l
<1>4. Seen(p, q, c)'
  <2>0. Silent(q, c)' /\ (Silent(p, c) /\ ch[p][c].sentClose => Silent(p, c)')
    BY <1>k, <1>w DEF Silent
  <2> USE <1>u, <1>q, <1>s, <1>k, <1>o, <1>w, <1>r, <1>1, <1>n, <2>0 DEF Turned, Elsewhere
  <2>1. Carried(p, c)' /\ Carried(q, c)'
    <3>1. Opening(p, c)' /\ Opening(q, c)'
      BY DEF Seen, Carried, Opening
    <3>2. Confirming(p, c)' /\ Confirming(q, c)'
      BY DEF Seen, Carried, Confirming
    <3>3. Refusing(p, c)' /\ Refusing(q, c)'
      BY DEF Seen, Carried, Refusing
    <3>4. Answered(p, c)' /\ Answered(q, c)'
      BY DEF Seen, Carried, Answered
    <3>5. Using(p, c)' /\ Using(q, c)'
      BY DEF Seen, Carried, Using
    <3>6. Closing(p, c)' /\ Closing(q, c)'
      BY DEF Seen, Carried, Closing
    <3>7. Introduced(p, c)' /\ Introduced(q, c)'
      BY DEF Seen, Carried, Introduced
    <3> QED
      BY <3>1, <3>2, <3>3, <3>4, <3>5, <3>6, <3>7 DEF Carried
  <2>2. Own(p, c)' /\ Own(q, c)'
    BY DEF Seen, Own, NoChannel
  <2>3. Learnt(p, c)' /\ Learnt(q, c)'
    BY DEF Seen, Learnt
  <2>4. Reach(p, c)' /\ Reach(q, c)'
    BY DEF Seen, Reach
  <2>5. Caller(p, c)' /\ Caller(q, c)'
    BY DEF Seen, Caller
  <2>6. Asking(p, q, c)' /\ Asking(q, p, c)'
    BY DEF Seen, Asking
  <2>7. (p = Opener(c) => Pair(p, q, c)') /\ (q = Opener(c) => Pair(q, p, c)')
    BY DEF Seen, Pair
  <2> QED
    BY <2>1, <2>2, <2>3, <2>4, <2>5, <2>6, <2>7 DEF Seen
<1>5. \A r \in Peers : \A n : n \in ToSet(link[r])' /\ n.c = c => Right(r, n)'
  <2>1. ASSUME NEW n \in ToSet(link[p]), n.c = c PROVE Right(p, n)'
    <3>1. Addressed(p, n) /\ Announced(p, n) /\ Held(p, n) /\ Has(p, c, n.t)
      BY <2>1 DEF Inv, AllRight, Right, Has
    <3>2. n.t # "open" /\ n.t # "confirm"
      BY <3>1, <1>o
    <3>3. Addressed(p, n)' /\ Announced(p, n)'
      BY <2>1, <3>1, <3>2, <1>q, <1>s, <1>r, <1>n DEF Addressed, Announced
    <3>4. Held(p, n)'
      BY <2>1, <3>1, <1>u, <1>q, <1>s, <1>1 DEF Turned, Elsewhere, Held
    <3> QED
      BY <3>3, <3>4 DEF Right
  <2>2. ASSUME ~ch[p][c].sentClose PROVE Right(p, m)'
    <3>1. Reads(q) => Listed(q, m.to, c)
      BY <2>2, <1>q, <1>s, <1>o, <1>m DEF Seen, Learnt
    <3>2. Addressed(p, m)'
      BY <3>1, <1>q, <1>s, <1>r, <1>n, <1>m DEF Addressed
    <3>3. Announced(p, m)' /\ Held(p, m)'
      BY <1>m DEF Announced, Held
    <3> QED
      BY <3>2, <3>3 DEF Right
  <2>3. ASSUME NEW n, n \in ToSet(link[q])', n.c = c PROVE FALSE
    BY <2>3, <1>k DEF Has
  <2> QED
    BY <1>l, <1>s, <2>1, <2>2, <2>3
<1>6. Local(c)'
  BY <1>4, <1>q, LocalSeen
<1>7. \A r \in Peers : \A n : n \in ToSet(link[r])' /\ n.c # c => n \in ToSet(link[r])
  BY <1>l, <1>m
<1> QED
  BY <1>2, <1>3, <1>5, <1>6, <1>7, <1>l, Assembled

(* The loss of the connection keeps the invariant: the end that closes all *)
(* it has on its list reads no more.                                       *)
LEMMA LoopFailsInv == ASSUME Inv, NEW p \in Peers, LoopFails(p) PROVE Inv'
<1>u. UNCHANGED <<rq, reqMu, asked, link, broken>>
  BY DEF LoopFails
<1>q. PICK q \in Peers : q = Other(p)
  BY PeerFacts
<1>s. p = Other(q) /\ p # q /\ \A r \in Peers : r = p \/ r = q
  BY <1>q, PeerFacts
<1>t. TypeOK /\ ch \in [Peers -> [Names -> Object]] /\ chanList \in [Peers -> Seq(Entries)]
      /\ loop \in [Peers -> {"run", "dropped", "end"}]
  BY DEF Inv, TypeOK
<1>1. /\ ch' \in [Peers -> [Names -> Object]] /\ \A d \in Names : ch'[q][d] = ch[q][d]
      /\ \A d \in Names : /\ ch'[p][d].state = ch[p][d].state /\ ch'[p][d].remoteId = ch[p][d].remoteId
                          /\ ch'[p][d].msg = ch[p][d].msg
                          /\ ch[p][d].sentClose => ch'[p][d].sentClose
                          /\ ch[p][d].closed => ch'[p][d].closed
                          /\ ch'[p][d] = ch[p][d] \/ (IsListed(p, d) /\ ch'[p][d].sentClose)
  <2>1. ASSUME NEW o \in Object
        PROVE  /\ Closed(o) \in Object /\ Closed(o).state = o.state /\ Closed(o).remoteId = o.remoteId
               /\ Closed(o).msg = o.msg /\ Closed(o).sentClose /\ Closed(o).closed
    BY DEF Closed, Object
  <2>2. ch' = [ch EXCEPT ![p] = [d \in Names |-> IF d \in ToSet(chanList[p]) THEN Closed(ch[p][d]) ELSE ch[p][d]]]
    BY <1>t DEF LoopFails
  <2>3. \A d \in Names : ch'[p][d] = (IF d \in ToSet(chanList[p]) THEN Closed(ch[p][d]) ELSE ch[p][d])
    BY <1>t, <2>2
  <2>4. \A d \in Names : ch'[q][d] = ch[q][d]
    BY <1>t, <1>s, <2>2
  <2>5. [d \in Names |-> IF d \in ToSet(chanList[p]) THEN Closed(ch[p][d]) ELSE ch[p][d]] \in [Names -> Object]
    BY <1>t, <2>1
  <2>6. ch' \in [Peers -> [Names -> Object]]
    BY <1>t, <2>2, <2>5
  <2>7. \A d \in Names : d \in ToSet(chanList[p]) => IsListed(p, d)
    BY DEF ToSet, IsListed
  <2>8. ASSUME NEW d \in Names
        PROVE  /\ ch'[p][d].state = ch[p][d].state /\ ch'[p][d].remoteId = ch[p][d].remoteId
               /\ ch'[p][d].msg = ch[p][d].msg
               /\ ch[p][d].sentClose => ch'[p][d].sentClose
               /\ ch[p][d].closed => ch'[p][d].closed
               /\ ch'[p][d] = ch[p][d] \/ (IsListed(p, d) /\ ch'[p][d].sentClose)
    <3>1. PICK o \in Object : o = ch[p][d]
      BY <1>t
    <3>2. ch'[p][d] = o \/ (IsListed(p, d) /\ ch'[p][d] = Closed(o))
      BY <2>3, <2>7, <3>1
    <3> QED
      BY <2>1, <3>1, <3>2
  <2> QED
    BY <2>4, <2>6, <2>8
<1>k. /\ chanList' \in [Peers -> Seq(Entries)] /\ loop' \in [Peers -> {"run", "dropped", "end"}]
      /\ ~Reads(p)' /\ (Reads(q)' <=> Reads(q))
      /\ \A d : ~IsListed(p, d)' /\ (IsListed(q, d)' <=> IsListed(q, d))
      /\ \A d, x : Listed(q, x, d)' <=> Listed(q, x, d)
      /\ \A r \in Peers : \A d, t : Has(r, d, t)' <=> Has(r, d, t)
      /\ \A r \in Peers : \A d : Silent(r, d)' <=> Silent(r, d)
  <2>1. chanList' = [chanList EXCEPT ![p] = <<>>] /\ loop' = [loop EXCEPT ![p] = "dropped"]
    BY DEF LoopFails
  <2>2. chanList'[p] = <<>> /\ chanList'[q] = chanList[q] /\ loop'[p] = "dropped" /\ loop'[q] = loop[q]
    BY <1>t, <1>s, <2>1
  <2>3. chanList' \in [Peers -> Seq(Entries)] /\ loop' \in [Peers -> {"run", "dropped", "end"}]
    BY <1>t, <2>1, EmptySeq
  <2>4. ~Reads(p)' /\ (Reads(q)' <=> Reads(q))
    BY <2>2 DEF Reads
  <2>5. \A d : ~IsListed(p, d)' /\ (IsListed(q, d)' <=> IsListed(q, d))
    BY <2>2 DEF IsListed
  <2>6. \A d, x : Listed(q, x, d)' <=> Listed(q, x, d)
    BY <2>2 DEF Listed
  <2>7. \A r \in Peers : \A d, t : Has(r, d, t)' <=> Has(r, d, t)
    BY <1>u DEF Has
  <2>8. \A r \in Peers : \A d : Silent(r, d)' <=> Silent(r, d)
    BY <2>7 DEF Silent
  <2> QED
    BY <2>3, <2>4, <2>5, <2>6, <2>7, <2>8
<1>2. TypeOK'
  BY <1>u, <1>1, <1>k, <1>t DEF TypeOK
<1>3. InOrder'
  BY <1>u, <1>q, <1>s, <1>k, OrderSame DEF Inv, InOrder
<1>4. ASSUME NEW d \in Names PROVE Local(d)'
  <2>s. Seen(p, q, d) /\ Opener(d) \in {p, q}
    BY <1>q, LocalSeen DEF Inv
  <2>v. Seen(p, q, d)'
    <3> USE <1>u, <1>q, <1>s, <2>s, <1>1, <1>k
    <3>1. Carried(p, d)' /\ Carried(q, d)'
      <4>1. Opening(p, d)' /\ Opening(q, d)' /\ Confirming(p, d)' /\ Confirming(q, d)'
        BY DEF Seen, Carried, Opening, Confirming
      <4>2. Refusing(p, d)' /\ Refusing(q, d)' /\ Answered(p, d)' /\ Answered(q, d)'
        BY DEF Seen, Carried, Refusing, Answered
      <4>3. Using(p, d)' /\ Using(q, d)' /\ Introduced(p, d)' /\ Introduced(q, d)'
        BY DEF Seen, Carried, Using, Introduced
      <4>4. Closing(p, d)' /\ Closing(q, d)'
        BY DEF Seen, Carried, Closing
      <4> QED
        BY <4>1, <4>2, <4>3, <4>4 DEF Carried
    <3>2. Own(p, d)' /\ Own(q, d)'
      BY DEF Seen, Own
    <3>3. Learnt(p, d)' /\ Learnt(q, d)'
      BY DEF Seen, Learnt
    <3>4. Reach(p, d)' /\ Reach(q, d)'
      BY DEF Seen, Reach
    <3>5. Caller(p, d)' /\ Caller(q, d)'
      BY DEF Seen, Caller
    <3>6. Asking(p, q, d)' /\ Asking(q, p, d)'
      BY DEF Seen, Asking
    <3>7. (p = Opener(d) => Pair(p, q, d)') /\ (q = Opener(d) => Pair(q, p, d)')
      BY DEF Seen, Pair
    <3> QED
      BY <3>1, <3>2, <3>3, <3>4, <3>5, <3>6, <3>7 DEF Seen
  <2> QED
    BY <2>v, <1>q, LocalSeen
<1>5. AllRight'
  <2> SUFFICES ASSUME NEW r \in Peers, NEW n, n \in ToSet(link[r]) PROVE Right(r, n)'
    BY <1>u DEF AllRight
  <2>1. Addressed(r, n) /\ Announced(r, n) /\ Held(r, n)
    BY DEF Inv, AllRight, Right
  <2>2. n.c \in Names
    <3>1. link[r] \in Seq(Message)
      BY <1>t DEF TypeOK
    <3>2. n \in Message
      BY <3>1 DEF ToSet
    <3> QED
      BY <3>2 DEF Message
  <2>3. Addressed(r, n)' /\ Announced(r, n)'
    BY <2>1, <1>q, <1>s, <1>k DEF Addressed, Announced
  <2>4. Held(r, n)'
    BY <2>1, <2>2, <1>u, <1>q, <1>s, <1>1 DEF Held
  <2> QED
    BY <2>3, <2>4 DEF Right
<1> QED
  BY <1>2, <1>3, <1>4, <1>5 DEF Inv

(* The end of mux.loop and the loss of the connection itself.              *)
LEMMA NothingMoves ==
    ASSUME Inv, UNCHANGED <<chanList, ch, rq, reqMu, asked, link>>, broken => broken',
           loop' \in [Peers -> {"run", "dropped", "end"}], broken' \in BOOLEAN,
           \A p \in Peers : Reads(p)' <=> Reads(p)
    PROVE  Inv'
<1>1. TypeOK'
  BY DEF Inv, TypeOK
<1>2. InOrder'
  BY OrderSame, PeerFacts DEF Inv, InOrder
<1>3. \A p \in Peers : \A d, t : Has(p, d, t)' <=> Has(p, d, t)
  BY DEF Has
<1>4. \A d \in Names : Same(d)
  BY <1>3, NumbersSame DEF Same
<1>5. \A d \in Names : Local(d)'
  BY <1>4, SameLocal DEF Inv
<1>6. AllRight'
  BY PeerFacts, NumbersSame DEF Inv, AllRight, Right, Addressed, Announced, Held
<1> QED
  BY <1>1, <1>2, <1>5, <1>6 DEF Inv

(* mux.loop keeps the invariant.                                           *)
LEMMA MuxLoopInv == ASSUME Inv, NEW p \in Peers, MuxLoop(p) PROVE Inv'
<1>1. CASE LoopEnds(p)
  <2>1. loop \in [Peers -> {"run", "dropped", "end"}] /\ broken \in BOOLEAN
    BY DEF Inv, TypeOK
  <2>2. loop' \in [Peers -> {"run", "dropped", "end"}] /\ \A r \in Peers : Reads(r)' <=> Reads(r)
    BY <1>1, <2>1 DEF LoopEnds, Reads
  <2> QED
    BY <1>1, <2>1, <2>2, NothingMoves DEF LoopEnds
<1> QED
  BY <1>1, HandleOpenInv, HandleConfirmInv, HandleFailureInv, HandleRequestInv, HandleAnswerInv, HandleCloseInv,
     LoopFailsInv DEF MuxLoop

(* The invariant holds at first: no channel exists.                        *)
LEMMA InitInv == Init => Inv
<1> SUFFICES ASSUME Init PROVE Inv
  OBVIOUS
<1>1. \A p \in Peers : Other(p) \in Peers
  BY PeerFacts
<1>2. \A p \in Peers : link[p] = <<>> /\ chanList[p] = <<>>
  BY DEF Init
<1>3. /\ \A p \in Peers : \A c, t : ~Has(p, c, t)
      /\ \A p \in Peers : \A c : ~IsListed(p, c) /\ Silent(p, c)
  BY <1>2 DEF Has, IsListed, Silent, ToSet
<1>4. NoChannel \in Object
  BY EmptySeq DEF NoChannel, Object
<1>5. TypeOK
  <2>1. chanList \in [Peers -> Seq(Entries)] /\ link \in [Peers -> Seq(Message)]
        /\ asked \in [Peers -> [Names -> Seq(Senders)]]
    BY EmptySeq DEF Init
  <2>2. ch \in [Peers -> [Names -> Object]]
    BY <1>4 DEF Init
  <2>3. rq = [p \in Peers |-> [c \in Names |-> [g \in Requesters[p][c] |-> rq[p][c][g]]]]
    BY DEF Init
  <2>4. reqMu = [p \in Peers |-> [c \in Names |-> reqMu[p][c]]]
    BY DEF Init
  <2>5. broken \in BOOLEAN /\ loop \in [Peers -> {"run", "dropped", "end"}]
    BY DEF Init
  <2> QED
    BY <2>1, <2>2, <2>3, <2>4, <2>5 DEF TypeOK
<1>6. InOrder /\ AllRight
  BY <1>2 DEF InOrder, Order, AllRight, ToSet
<1>7. ASSUME NEW c \in Names PROVE Local(c)
  <2>1. \A p \in Peers : ch[p][c] = NoChannel /\ reqMu[p][c] = "free" /\ asked[p][c] = <<>>
                         /\ \A g \in Requesters[p][c] : rq[p][c][g] = "idle" /\ g # "free"
    BY RequestersAssumption DEF Init
  <2>2. /\ NoChannel.state = "none" /\ NoChannel.remoteId = 0 /\ NoChannel.msg = <<>>
        /\ ~NoChannel.sentClose /\ ~NoChannel.closed
    BY DEF NoChannel
  <2>3. Opener(c) \in Peers
    BY NameFacts
  <2>4. Pair(Opener(c), Other(Opener(c)), c)
    BY <1>1, <1>3, <2>1, <2>2, <2>3 DEF Pair
  <2>5. ASSUME NEW p \in Peers PROVE Carried(p, c) /\ Ends(p, c) /\ Asks(p, c)
    <3>1. Carried(p, c)
      BY <1>3 DEF Carried, Opening, Confirming, Refusing, Answered, Using, Closing, Introduced
    <3>2. Ends(p, c)
      BY <1>1, <1>3, <2>1, <2>2 DEF Ends, Own, Learnt, Reach
    <3>3. Caller(p, c)
      BY <2>1, <2>2 DEF Caller
    <3>4. Asking(p, Other(p), c)
      BY <1>1, <1>3, <2>1 DEF Asking
    <3> QED
      BY <3>1, <3>2, <3>3, <3>4 DEF Asks
  <2> QED
    BY <2>4, <2>5 DEF Local
<1> QED
  BY <1>5, <1>6, <1>7 DEF Inv

(* Every step keeps the invariant.                                         *)
LEMMA NextInv == Inv /\ [Next]_vars => Inv'
<1> SUFFICES ASSUME Inv, [Next]_vars PROVE Inv'
  OBVIOUS
<1>1. CASE \E p \in Peers : MuxLoop(p)
  BY <1>1, MuxLoopInv
<1>2. CASE \E p \in Peers : \E k \in 1..MaxOpens[p] : OpenChannel(p, k)
  BY <1>2, OpenChannelInv
<1>3. ASSUME NEW p \in Peers, NEW c \in Names,
             Serve(p, c) \/ OpenReturns(p, c) \/ Close(p, c) \/ Reply(p, c)
      PROVE  Inv'
  BY <1>3, ServeInv, OpenReturnsInv, CloseInv, ReplyInv
<1>4. ASSUME NEW p \in Peers, NEW c \in Names, NEW g \in Requesters[p][c], Start(p, c, g) \/ Request(p, c, g)
      PROVE  Inv'
  <2>1. CASE Start(p, c, g)
    <3>1. /\ ch[p][c].state = "ready" /\ rq[p][c][g] \in {"idle", "lock"} /\ rq' = [rq EXCEPT ![p][c][g] = "lock"]
          /\ UNCHANGED <<chanList, ch, reqMu, asked, link, broken, loop>>
      BY <2>1 DEF Start
    <3> QED
      BY <3>1, CallMovesInv
  <2> QED
    BY <1>4, <2>1, RequestInv
<1>5. CASE Drop
  <2>1. loop \in [Peers -> {"run", "dropped", "end"}] /\ UNCHANGED loop /\ broken'
    BY <1>5 DEF Inv, TypeOK, Drop
  <2>2. \A r \in Peers : Reads(r)' <=> Reads(r)
    BY <2>1 DEF Reads
  <2>3. UNCHANGED <<chanList, ch, rq, reqMu, asked, link>> /\ broken' = TRUE
    BY <1>5 DEF Drop
  <2> QED
    BY <2>1, <2>2, <2>3, NothingMoves
<1>6. CASE UNCHANGED vars
  <2>1. loop \in [Peers -> {"run", "dropped", "end"}] /\ broken \in BOOLEAN
    BY DEF Inv, TypeOK
  <2>2. UNCHANGED <<chanList, ch, rq, reqMu, asked, link, broken, loop>>
    BY <1>6 DEF vars
  <2>3. \A r \in Peers : Reads(r)' <=> Reads(r)
    BY <2>2 DEF Reads
  <2> QED
    BY <2>1, <2>2, <2>3, NothingMoves
<1> QED
  BY <1>1, <1>2, <1>3, <1>4, <1>5, <1>6 DEF Next

-----------------------------------------------------------------------------
(* The two ends agree on every channel, on what its number is and on who   *)
(* waits for what on it, whatever is on its way between them.              *)
THEOREM EndsAgree == Spec => []Inv
BY InitInv, NextInv, PTL DEF Spec

(* No packet that arrives is for a number that is free or has passed to    *)
(* another channel: onePacket never ends the connection for an invalid     *)
(* channel between two ends that use the library.                          *)
THEOREM RightChannels == Spec => []RightChannel
<1>1. Inv => RightChannel
  <2> SUFFICES ASSUME Inv, NEW p \in Peers, loop[p] = "run", Incoming(p) # <<>>, Head(Incoming(p)).t # "open"
               PROVE  Known(p) /\ Target(p) = Head(Incoming(p)).c
    BY DEF RightChannel
  <2>1. PICK q \in Peers : q = Other(p) /\ p = Other(q)
    BY PeerFacts
  <2>2. link[q] \in Seq(Message) /\ link[q] # <<>> /\ link[q] = Incoming(p)
    BY <2>1 DEF Inv, TypeOK, Incoming
  <2>3. PICK h \in Message : h = Head(link[q]) /\ h \in ToSet(link[q])
    BY <2>2, HeadTailProperties DEF ToSet
  <2>4. Listed(p, h.to, h.c)
    BY <2>1, <2>2, <2>3 DEF Inv, AllRight, Right, Addressed, Reads
  <2>5. h.c \in Names
    BY <2>3 DEF Message
  <2> QED
    BY <2>2, <2>3, <2>4, <2>5, NameFacts DEF Listed, Known, Target
<1> QED
  BY <1>1, EndsAgree, PTL

(* SendRequest never returns the answer to another goroutine's request.    *)
THEOREM OwnAnswers == Spec => []OwnAnswer
<1>1. Inv => OwnAnswer
  BY DEF Inv, Local, Asks, Caller, OwnAnswer
<1> QED
  BY <1>1, EndsAgree, PTL

=============================================================================
