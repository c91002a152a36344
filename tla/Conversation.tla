---------------------------- MODULE Conversation ----------------------------
(***************************************************************************)
(* What the server promises a client on the channels of one connection,    *)
(* without goroutines, queues, locks or timers: which packets it may write *)
(* next on a channel, given what the client has asked and what was written *)
(* before.  Module Serve implements it.                                    *)
(***************************************************************************)
EXTENDS Naturals, Sequences, SequencesExt

CONSTANTS
    Chan,      \* the channels
    Request,   \* the requests a client may make: records with type, wantReply
    Opens,     \* the types of request that are granted
    Message,   \* what may be written on a channel
    Script     \* the texts every session starts with, in order

VARIABLES
    asked,         \* per channel, the requests the client has made
    clientClosed,  \* channels the client has closed
    out            \* per channel, the packets the server has written

Verdicts == {"confirm", "reject", "openfail"}
Answers == {"success", "failure"}
Text == Message \ (Verdicts \cup Answers \cup {"close"})

(* The messages of s that are in M, in order.                              *)
Part(s, M) == FlattenSeq([i \in DOMAIN s |-> IF s[i] \in M THEN <<s[i]>> ELSE <<>>])

(* The answers due: one per request that wants one, in order.              *)
Answer(req) == IF req.type \in Opens THEN "success" ELSE "failure"
Due(a) == FlattenSeq([i \in DOMAIN a |-> IF a[i].wantReply THEN <<Answer(a[i])>> ELSE <<>>])

Asked(a, type) == \E i \in DOMAIN a : a[i].type = type

(* The texts of a session: the script, then a warning for each kind of     *)
(* forwarding the client asked for on this very channel, if noticed.       *)
Sessions(a) ==
    {Script \o f \o g : f \in {<<>>} \cup (IF Asked(a, "auth-agent-req") THEN {<<"agentMsg">>} ELSE {}),
                        g \in {<<>>} \cup (IF Asked(a, "x11-req") THEN {<<"x11Msg">>} ELSE {})}

(* s is what a client that asked a may have received; hungUp: it has       *)
(* closed the channel itself.                                              *)
Fits(s, a, hungUp) ==
    /\ s \in Seq(Message)
    /\ \A i \in DOMAIN s : s[i] \in Verdicts <=> i = 1
    /\ s[1] # "confirm" => Len(s) = 1
    /\ \A i \in DOMAIN s : s[i] = "close" => i = Len(s)
    /\ \E t \in Sessions(a) : /\ IsPrefix(Part(s, Text), t)
                              /\ s[Len(s)] = "close" => hungUp \/ Part(s, Text) = t
    /\ IsPrefix(Part(s, Answers), Due(a))

Init == /\ asked = [c \in Chan |-> <<>>]
        /\ clientClosed = {}
        /\ out = [c \in Chan |-> <<>>]

Ask(c, req) == /\ asked' = [asked EXCEPT ![c] = Append(@, req)]
               /\ UNCHANGED <<clientClosed, out>>

HangUp(c) == /\ clientClosed' = clientClosed \cup {c}
             /\ UNCHANGED <<asked, out>>

Say(c) == /\ Len(out'[c]) = Len(out[c]) + 1 /\ IsPrefix(out[c], out'[c])
          /\ \A d \in Chan \ {c} : out'[d] = out[d]
          /\ Fits(out'[c], asked[c], c \in clientClosed)
          /\ UNCHANGED <<asked, clientClosed>>

Next == \E c \in Chan : HangUp(c) \/ Say(c) \/ \E req \in Request : Ask(c, req)

(* Every step of the server is one the client may expect: the verdict      *)
(* first, the report in order and in full before the server's own close,   *)
(* a forwarding warning only where forwarding was asked for, one answer    *)
(* per request in the order of the requests, nothing after the close.      *)
Spec == Init /\ [][Next]_<<asked, clientClosed, out>>

=============================================================================
