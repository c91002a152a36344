---------------------------- MODULE AgentProofs -----------------------------
(***************************************************************************)
(* Theorems about Agent, for any keys, passphrases, operations, users and  *)
(* connections, and any sharing of the connections by the users.           *)
(***************************************************************************)
EXTENDS Agent, SequenceTheorems, TLAPS

Calling == [pc : {"idle", "lock", "read"}, req : Requests \cup {NoRequest}, res : {None, "ok", "error", "panic"}]

TypeOK ==
    /\ u \in [Users -> Calling]
    /\ mu \in [Conns -> Users \cup {None}]
    /\ DOMAIN up = Conns /\ DOMAIN down = Conns /\ broken \subseteq Conns
    /\ since \in [Users -> {"no", "quiet", "sealed"}]
    /\ sealed \in BOOLEAN /\ locked \in BOOLEAN

(* A reply that the call for this request understands.                     *)
Fits(reply) ==
    /\ reply.to.op = "List" => reply.t \in {"List", "failure"}
    /\ reply.to.op = "Sign" => reply.t \in {"Sign", "failure"}

(* Who waits for a reply holds the mutex.                                  *)
Holds == \A x \in Users : u[x].pc = "read" => mu[ConnOf[x]] = x

(* On a connection there is at most one request or one reply, and it is    *)
(* the holder's.                                                           *)
Carries(c, x) ==
    /\ mu[c] = x /\ ConnOf[x] = c /\ u[x].pc = "read"
    /\ \/ up[c] = <<u[x].req>> /\ down[c] = <<>>
       \/ up[c] = <<>> /\ \E reply : down[c] = <<reply>> /\ reply.to = u[x].req /\ Fits(reply)

InFlight == \A c \in Conns : (up[c] = <<>> /\ down[c] = <<>>) \/ \E x \in Users : Carries(c, x)

(* Nothing arrives on a broken connection.                                 *)
Silent == \A c \in broken : up[c] = <<>> /\ down[c] = <<>>

NoPanic == \A x \in Users : u[x].res # "panic"

(* While a quiet or a sealed call is remembered, no Unlock is running.     *)
Quiet ==
    /\ sealed \/ (\E x \in Users : since[x] # "no") => ~Unlocking
    /\ \A x \in Users : since[x] = "sealed" => sealed
    /\ sealed => locked

(* A reply to a quiet Lock says that the keyring is locked, and a reply to *)
(* a sealed call comes from a locked keyring.                              *)
Replies ==
    \A x \in Users : u[x].pc = "read" /\ down[ConnOf[x]] # <<>> =>
        LET reply == Head(down[ConnOf[x]]) IN
        /\ (u[x].req.op = "Lock" /\ reply.t = "success" /\ since[x] = "quiet") => locked
        /\ since[x] = "sealed" => reply.t = "failure" \/ (reply.t = "List" /\ reply.list = <<>>)

Inv == TypeOK /\ Holds /\ InFlight /\ Silent /\ NoPanic /\ Quiet /\ Replies

-----------------------------------------------------------------------------
(* The types.                                                              *)

(* The initial state satisfies the invariant: nobody has called yet and    *)
(* both connections are empty.                                             *)
LEMMA InitInv == Init => Inv
<1> SUFFICES ASSUME Init PROVE Inv
  OBVIOUS
<1>1. [pc |-> "idle", req |-> NoRequest, res |-> None] \in Calling
  BY DEF Calling
<1>2. u \in [Users -> Calling] /\ mu \in [Conns -> Users \cup {None}] /\ since \in [Users -> {"no", "quiet", "sealed"}]
  BY <1>1 DEF Init
<1>3. TypeOK
  BY <1>2 DEF Init, TypeOK
<1>4. \A x \in Users : u[x].pc = "idle" /\ u[x].res = None /\ since[x] = "no"
  BY DEF Init
<1>5. \A c \in Conns : up[c] = <<>> /\ down[c] = <<>>
  BY DEF Init
<1>6. Holds /\ InFlight /\ Silent /\ NoPanic /\ Replies
  BY <1>4, <1>5 DEF Init, Holds, InFlight, Silent, NoPanic, Replies, None
<1>7. Quiet
  BY <1>4 DEF Init, Quiet
<1> QED
  BY <1>3, <1>6, <1>7 DEF Inv

(* One user's call after a step of it.                                     *)
Becomes(x, p, q, e) ==
    /\ u' \in [Users -> Calling] /\ u'[x].pc = p /\ u'[x].req = q /\ u'[x].res = e
    /\ \A y \in Users : y # x => u'[y] = u[y]

(* The two forms of update a call's record takes, the new state alone or   *)
(* the new state with its result.                                          *)
LEMMA CallingUpdate ==
    ASSUME TypeOK, NEW x \in Users, NEW p \in {"idle", "lock", "read"}, NEW e \in {None, "ok", "error", "panic"}
    PROVE  /\ u' = [u EXCEPT ![x].pc = p] => Becomes(x, p, u[x].req, u[x].res)
           /\ u' = [u EXCEPT ![x].pc = p, ![x].res = e] => Becomes(x, p, u[x].req, e)
<1>1. u \in [Users -> Calling]
  BY DEF TypeOK
<1>2. ASSUME u' = [u EXCEPT ![x].pc = p] PROVE Becomes(x, p, u[x].req, u[x].res)
  <2> DEFINE g == [u EXCEPT ![x].pc = p]
  <2>1. g \in [Users -> Calling] /\ g[x].pc = p /\ g[x].req = u[x].req /\ g[x].res = u[x].res
        /\ \A y \in Users : y # x => g[y] = u[y]
    BY <1>1 DEF Calling
  <2> QED
    BY <1>2, <2>1, Zenon DEF Becomes
<1>3. ASSUME u' = [u EXCEPT ![x].pc = p, ![x].res = e] PROVE Becomes(x, p, u[x].req, e)
  <2> DEFINE g == [u EXCEPT ![x].pc = p, ![x].res = e]
  <2>1. g \in [Users -> Calling] /\ g[x].pc = p /\ g[x].req = u[x].req /\ g[x].res = e
        /\ \A y \in Users : y # x => g[y] = u[y]
    BY <1>1 DEF Calling
  <2> QED
    BY <1>3, <2>1, Zenon DEF Becomes
<1> QED
  BY <1>2, <1>3

(* The same for a new call.                                                *)
LEMMA CallingNew ==
    ASSUME TypeOK, NEW x \in Users, NEW p \in {"idle", "lock", "read"}, NEW e \in {None, "ok", "error", "panic"},
           NEW q \in Requests, u' = [u EXCEPT ![x] = [pc |-> p, req |-> q, res |-> e]]
    PROVE  Becomes(x, p, q, e)
<1> DEFINE g == [u EXCEPT ![x] = [pc |-> p, req |-> q, res |-> e]]
<1>1. [pc |-> p, req |-> q, res |-> e] \in Calling
  BY DEF Calling
<1>2. g \in [Users -> Calling] /\ g[x] = [pc |-> p, req |-> q, res |-> e]
      /\ \A y \in Users : y # x => g[y] = u[y]
  BY <1>1 DEF TypeOK
<1> QED
  BY <1>2 DEF Becomes

(* The fields of a call.                                                   *)
LEMMA CallFacts ==
    ASSUME TypeOK, NEW x \in Users
    PROVE  u[x].pc \in {"idle", "lock", "read"} /\ u[x].req \in Requests \cup {NoRequest} /\ ConnOf[x] \in Conns
<1>1. u[x] \in Calling
  BY DEF TypeOK
<1>2. u[x].pc \in {"idle", "lock", "read"} /\ u[x].req \in Requests \cup {NoRequest}
  BY <1>1 DEF Calling
<1>3. ConnOf[x] \in Conns
  BY AgentAssumption
<1> QED
  BY <1>2, <1>3

(* A connection on which nothing changes, and that x does not use to wait. *)
LEMMA CarriesKept ==
    ASSUME NEW c \in Conns, NEW x \in Users, \A y \in Users : y # x => u'[y] = u[y],
           u[x].pc # "read" \/ ConnOf[x] # c, mu'[c] = mu[c], up'[c] = up[c], down'[c] = down[c],
           (up[c] = <<>> /\ down[c] = <<>>) \/ \E y \in Users : Carries(c, y)
    PROVE  ((up[c] = <<>> /\ down[c] = <<>>) \/ \E y \in Users : Carries(c, y))'
<1>1. CASE up[c] = <<>> /\ down[c] = <<>>
  BY <1>1
<1>2. CASE ~(up[c] = <<>> /\ down[c] = <<>>)
  <2>1. PICK y \in Users : Carries(c, y)
    BY <1>2
  <2>2. u'[y] = u[y]
    BY <2>1 DEF Carries
  <2>3. Carries(c, y)'
    BY <2>1, <2>2 DEF Carries, Fits
  <2> QED
    BY <2>3
<1> QED
  BY <1>1, <1>2

(* Steps of x that leave the connections and what they carry alone, and    *)
(* neither begin nor end a wait for a reply.                               *)
LEMMA OthersKept ==
    ASSUME Inv, NEW x \in Users, u[x].pc # "read", u'[x].pc # "read", \A y \in Users : y # x => u'[y] = u[y],
           UNCHANGED <<mu, up, down, broken>>
    PROVE  Holds' /\ InFlight' /\ Silent'
<1>1. Holds'
  BY DEF Inv, Holds
<1>2. ASSUME NEW c \in Conns PROVE ((up[c] = <<>> /\ down[c] = <<>>) \/ \E y \in Users : Carries(c, y))'
  BY CarriesKept DEF Inv, InFlight
<1>3. InFlight'
  BY <1>2 DEF InFlight
<1>4. Silent'
  BY DEF Inv, Silent
<1> QED
  BY <1>1, <1>3, <1>4

(* A method is called.                                                     *)
LEMMA CallInv == ASSUME Inv, NEW x \in Users, NEW req \in Requests, Call(x, req) PROVE Inv'
<1>1. u[x].pc = "idle" /\ UNCHANGED <<keyring, mu, up, down, broken>> /\ sealed' = (sealed /\ req.op # "Unlock")
  BY DEF Call
<1>2. PICK p \in {"idle", "lock"}, e \in {None, "error"} : Becomes(x, p, req, e)
  <2>1. \/ u' = [u EXCEPT ![x] = [pc |-> "idle", req |-> req, res |-> "error"]]
        \/ u' = [u EXCEPT ![x] = [pc |-> "lock", req |-> req, res |-> None]]
    BY DEF Call
  <2> QED
    BY <2>1, CallingNew DEF Inv
<1>3. Holds' /\ InFlight' /\ Silent'
  BY <1>1, <1>2, OthersKept DEF Becomes
<1>4. NoPanic'
  BY <1>2 DEF Inv, NoPanic, Becomes, None
<1>5. locked' = locked
  BY <1>1 DEF keyring
<1>6. CASE req.op = "Unlock"
  <2>1. since' = [y \in Users |-> "no"] /\ sealed' = FALSE
    BY <1>1, <1>6 DEF Call
  <2>2. TypeOK'
    BY <1>1, <1>2, <1>5, <2>1 DEF Inv, TypeOK, Becomes
  <2>3. Quiet' /\ Replies'
    BY <2>1 DEF Quiet, Replies
  <2> QED
    BY <1>3, <1>4, <2>2, <2>3 DEF Inv
<1>7. CASE req.op # "Unlock"
  <2>1. PICK k \in {"no", "quiet", "sealed"} :
          /\ since' = [since EXCEPT ![x] = k]
          /\ k = "sealed" => sealed
          /\ k # "no" => sealed \/ ~Unlocking
    BY <1>7 DEF Call
  <2>2. sealed' = sealed
    BY <1>1, <1>7 DEF Inv, TypeOK
  <2>3. since' \in [Users -> {"no", "quiet", "sealed"}] /\ since'[x] = k /\ \A y \in Users : y # x => since'[y] = since[y]
    BY <2>1 DEF Inv, TypeOK
  <2>4. TypeOK'
    BY <1>1, <1>2, <1>5, <2>2, <2>3 DEF Inv, TypeOK, Becomes
  <2>5. Unlocking' => Unlocking
    BY <1>2, <1>7 DEF Unlocking, Becomes
  <2>6. Quiet'
    BY <1>5, <2>1, <2>2, <2>3, <2>5 DEF Inv, Quiet
  <2>7. Replies'
    BY <1>1, <1>2, <1>5, <2>3 DEF Inv, Replies, Becomes
  <2> QED
    BY <1>3, <1>4, <2>4, <2>6, <2>7 DEF Inv
<1> QED
  BY <1>6, <1>7

(* The mutex is taken and the request written, or the write fails.         *)
LEMMA WriteInv == ASSUME Inv, NEW x \in Users, Write(x) PROVE Inv'
<1>1. PICK c \in Conns : c = ConnOf[x]
  BY CallFacts DEF Inv
<1>2. u[x].pc = "lock" /\ mu[c] = None /\ UNCHANGED <<keyring, down, broken, calls, history>>
  BY <1>1 DEF Write
<1>3. x # None /\ \A y \in Users : y # None
  BY AgentAssumption
<1>4. CASE c \in broken
  <2>1. u' = [u EXCEPT ![x].pc = "idle", ![x].res = "error"] /\ UNCHANGED <<mu, up>>
    BY <1>1, <1>4 DEF Write
  <2>2. Becomes(x, "idle", u[x].req, "error")
    BY <2>1, CallingUpdate DEF Inv
  <2>3. Holds' /\ InFlight' /\ Silent'
    BY <1>2, <2>1, <2>2, OthersKept DEF Becomes
  <2>4. TypeOK'
    BY <1>2, <2>1, <2>2 DEF Inv, TypeOK, Becomes, keyring, history
  <2>5. NoPanic'
    BY <2>2 DEF Inv, NoPanic, Becomes
  <2>6. Unlocking' => Unlocking
    BY <2>2 DEF Unlocking, Becomes
  <2>7. Quiet'
    BY <1>2, <2>6 DEF Inv, Quiet, keyring, history
  <2>8. Replies'
    BY <1>2, <2>2 DEF Inv, Replies, Becomes, keyring, history
  <2> QED
    BY <2>3, <2>4, <2>5, <2>7, <2>8 DEF Inv
<1>5. CASE c \notin broken
  <2>1. u' = [u EXCEPT ![x].pc = "read"] /\ mu' = [mu EXCEPT ![c] = x] /\ up' = [up EXCEPT ![c] = Append(@, u[x].req)]
    BY <1>1, <1>5 DEF Write
  <2>2. Becomes(x, "read", u[x].req, u[x].res)
    BY <2>1, CallingUpdate DEF Inv
  <2>3. up[c] = <<>> /\ down[c] = <<>>
    BY <1>2, <1>3 DEF Inv, InFlight, Carries
  <2>4. /\ mu' \in [Conns -> Users \cup {None}] /\ mu'[c] = x /\ DOMAIN up' = Conns
        /\ \A d \in Conns : d # c => mu'[d] = mu[d] /\ up'[d] = up[d]
    BY <2>1 DEF Inv, TypeOK
  <2>5. up'[c] = Append(up[c], u[x].req)
    BY <2>1 DEF Inv, TypeOK
  <2>6. up'[c] = <<u[x].req>>
    BY <2>3, <2>5
  <2>7. TypeOK'
    BY <1>2, <2>2, <2>4 DEF Inv, TypeOK, Becomes, keyring, history
  <2>8. Holds'
    <3> SUFFICES ASSUME NEW y \in Users, u'[y].pc = "read" PROVE mu'[ConnOf[y]] = y
      BY DEF Holds
    <3>1. CASE y = x
      BY <1>1, <2>4, <3>1
    <3>2. CASE y # x
      <4>1. mu[ConnOf[y]] = y /\ ConnOf[y] \in Conns
        BY <2>2, <3>2, CallFacts DEF Inv, Holds, Becomes
      <4> QED
        BY <1>2, <1>3, <2>4, <4>1
    <3> QED
      BY <3>1, <3>2
  <2>9. InFlight'
    <3> SUFFICES ASSUME NEW d \in Conns PROVE ((up[d] = <<>> /\ down[d] = <<>>) \/ \E y \in Users : Carries(d, y))'
      BY DEF InFlight
    <3>1. CASE d = c
      <4>1. Carries(c, x)'
        BY <1>1, <1>2, <2>2, <2>3, <2>4, <2>6 DEF Carries, Becomes
      <4> QED
        BY <3>1, <4>1
    <3>2. CASE d # c
      BY <1>1, <1>2, <2>2, <2>4, <3>2, CarriesKept DEF Inv, InFlight, Becomes
    <3> QED
      BY <3>1, <3>2
  <2>10. Silent' /\ NoPanic'
    BY <1>2, <1>5, <2>2, <2>1 DEF Inv, TypeOK, Silent, NoPanic, Becomes
  <2>11. Unlocking' => Unlocking
    BY <1>2, <2>2 DEF Unlocking, Becomes
  <2>12. Quiet'
    BY <1>2, <2>11 DEF Inv, Quiet, keyring, history
  <2>13. Replies'
    BY <1>1, <1>2, <2>2, <2>3 DEF Inv, Replies, Becomes, keyring, history
  <2> QED
    BY <2>7, <2>8, <2>9, <2>10, <2>12, <2>13 DEF Inv
<1> QED
  BY <1>4, <1>5

(* The reply is read, or the connection is found broken.                   *)
LEMMA ReadInv == ASSUME Inv, NEW x \in Users, Read(x) PROVE Inv'
<1>1. PICK c \in Conns : c = ConnOf[x]
  BY CallFacts DEF Inv
<1>2. u[x].pc = "read" /\ mu[c] = x /\ UNCHANGED <<keyring, up, broken, calls, since>>
  BY <1>1 DEF Read, Inv, Holds
<1>3. mu' \in [Conns -> Users \cup {None}] /\ \A d \in Conns : d # c => mu'[d] = mu[d]
  <2>1. mu' = [mu EXCEPT ![c] = IF @ = x THEN None ELSE @]
    BY <1>1 DEF Read
  <2>2. mu \in [Conns -> Users \cup {None}]
    BY DEF Inv, TypeOK
  <2> QED
    BY <2>1, <2>2
<1>4. up[c] = <<>> /\ (down[c] # <<>> => \E reply : down[c] = <<reply>> /\ reply.to = u[x].req /\ Fits(reply))
  <2>1. CASE up[c] = <<>> /\ down[c] = <<>>
    BY <2>1
  <2>2. CASE ~(up[c] = <<>> /\ down[c] = <<>>)
    <3>1. Carries(c, x)
      BY <1>2, <2>2 DEF Inv, InFlight, Carries
    <3>2. down[c] # <<>> \/ c \in broken
      BY <1>1 DEF Read
    <3> QED
      BY <3>1, <3>2 DEF Carries, Inv, Silent
  <2> QED
    BY <2>1, <2>2
<1>5. PICK e \in {"ok", "error"} : Becomes(x, "idle", u[x].req, e)
  <2>1. CASE down[c] # <<>>
    <3>1. PICK reply : down[c] = <<reply>> /\ reply.to = u[x].req /\ Fits(reply)
      BY <1>4, <2>1
    <3>2. Head(down[c]) = reply
      BY <3>1
    <3>3. Result(u[x].req.op, reply) \in {"ok", "error"}
      BY <3>1 DEF Result, Fits
    <3>4. u' = [u EXCEPT ![x].pc = "idle", ![x].res = Result(u[x].req.op, Head(down[c]))]
      BY <1>1, <2>1 DEF Read
    <3>5. PICK e \in {"ok", "error"} : u' = [u EXCEPT ![x].pc = "idle", ![x].res = e]
      BY <3>2, <3>3, <3>4
    <3> QED
      BY <3>5, CallingUpdate DEF Inv
  <2>2. CASE down[c] = <<>>
    <3>1. u' = [u EXCEPT ![x].pc = "idle", ![x].res = "error"]
      BY <1>1, <2>2 DEF Read
    <3> QED
      BY <3>1, CallingUpdate DEF Inv
  <2> QED
    BY <2>1, <2>2
<1>6. DOMAIN down' = Conns /\ down'[c] = <<>> /\ \A d \in Conns : d # c => down'[d] = down[d]
  <2>1. CASE down[c] # <<>>
    <3>1. down' = [down EXCEPT ![c] = Tail(@)]
      BY <1>1, <2>1 DEF Read
    <3>2. DOMAIN down' = Conns /\ down'[c] = Tail(down[c]) /\ \A d \in Conns : d # c => down'[d] = down[d]
      BY <3>1 DEF Inv, TypeOK
    <3>3. PICK reply : down[c] = <<reply>>
      BY <1>4, <2>1
    <3>4. Tail(down[c]) = <<>>
      BY <3>3
    <3> QED
      BY <3>2, <3>4
  <2>2. CASE down[c] = <<>>
    BY <1>1, <2>2 DEF Read, Inv, TypeOK
  <2> QED
    BY <2>1, <2>2
<1>7. sealed' \in BOOLEAN /\ (sealed => sealed') /\ (sealed' => locked /\ (sealed \/ since[x] = "quiet"))
  <2>1. CASE down[c] # <<>>
    <3>1. sealed' = (sealed \/ (/\ u[x].req.op = "Lock" /\ Head(down[c]).t = "success" /\ since[x] = "quiet"))
      BY <1>1, <2>1 DEF Read
    <3>2. u[x].req.op = "Lock" /\ Head(down[c]).t = "success" /\ since[x] = "quiet" => locked
      BY <1>1, <1>2, <2>1 DEF Inv, Replies
    <3> QED
      BY <3>1, <3>2, Zenon DEF Inv, Quiet, TypeOK
  <2>2. CASE down[c] = <<>>
    BY <1>1, <2>2 DEF Read, Inv, TypeOK, Quiet
  <2> QED
    BY <2>1, <2>2
<1>8. locked' = locked /\ since' = since
  BY <1>2 DEF keyring
<1>9. TypeOK'
  BY <1>2, <1>3, <1>5, <1>6, <1>7, <1>8 DEF Inv, TypeOK, Becomes
<1>10. \A y \in Users : u'[y].pc = "read" => y # x /\ u'[y] = u[y] /\ ConnOf[y] # c /\ ConnOf[y] \in Conns
  <2> SUFFICES ASSUME NEW y \in Users, u'[y].pc = "read" PROVE y # x /\ u'[y] = u[y] /\ ConnOf[y] # c /\ ConnOf[y] \in Conns
    OBVIOUS
  <2>1. y # x /\ u'[y] = u[y]
    BY <1>5 DEF Becomes
  <2> QED
    BY <1>2, <2>1, CallFacts DEF Inv, Holds
<1>11. Holds'
  BY <1>3, <1>10 DEF Inv, Holds
<1>12. InFlight'
  <2> SUFFICES ASSUME NEW d \in Conns PROVE ((up[d] = <<>> /\ down[d] = <<>>) \/ \E y \in Users : Carries(d, y))'
    BY DEF InFlight
  <2>1. CASE d = c
    BY <1>2, <1>4, <1>6, <2>1
  <2>2. CASE d # c
    BY <1>1, <1>2, <1>3, <1>5, <1>6, <2>2, CarriesKept DEF Inv, InFlight, Becomes
  <2> QED
    BY <2>1, <2>2
<1>13. Silent' /\ NoPanic'
  <2>1. NoPanic'
    BY <1>5 DEF Inv, NoPanic, Becomes
  <2>2. ASSUME NEW d \in broken PROVE up[d] = <<>> /\ down'[d] = <<>>
    <3>1. up[d] = <<>> /\ down[d] = <<>>
      BY DEF Inv, Silent
    <3>2. CASE down[c] # <<>>
      <4>1. down' = [down EXCEPT ![c] = Tail(@)]
        BY <1>1, <3>2 DEF Read
      <4>2. d # c
        BY <3>1, <3>2
      <4> QED
        BY <3>1, <4>1, <4>2
    <3>3. CASE down[c] = <<>>
      BY <1>1, <3>1, <3>3 DEF Read
    <3> QED
      BY <3>2, <3>3
  <2> QED
    BY <1>2, <2>1, <2>2 DEF Silent
<1>14. Unlocking' => Unlocking
  BY <1>5 DEF Unlocking, Becomes
<1>15. Quiet'
  <2>1. (sealed' \/ \E y \in Users : since'[y] # "no") => ~Unlocking
    BY <1>7, <1>8 DEF Inv, Quiet
  <2> QED
    BY <1>7, <1>8, <1>14, <2>1 DEF Inv, Quiet
<1>16. Replies'
  BY <1>6, <1>8, <1>10 DEF Inv, Replies
<1> QED
  BY <1>9, <1>11, <1>12, <1>13, <1>15, <1>16 DEF Inv

(* What the keyring answers, and what it leaves locked.                    *)
LEMMA AnswerFacts ==
    ASSUME NEW req, locked \in BOOLEAN
    PROVE  /\ Answer(req).to = req /\ Fits(Answer(req))
           /\ locked /\ req.op # "Unlock" =>
                Answer(req).t = "failure" \/ (Answer(req).t = "List" /\ Answer(req).list = <<>>)
           /\ Effect(req) => locked' \in BOOLEAN
           /\ Effect(req) /\ locked /\ req.op # "Unlock" => locked'
           /\ Effect(req) /\ req.op = "Lock" /\ Answer(req).t = "success" => locked'
<1>1. CASE req.op = "List"
  <2>1. Answer(req) = [t |-> "List", to |-> req, list |-> IF locked THEN <<>> ELSE keys]
    BY <1>1 DEF Answer, Reply, Allowed
  <2> QED
    BY <1>1, <2>1 DEF Fits, Effect, Allowed
<1>2. CASE req.op # "List" /\ ~Allowed(req)
  <2>1. Answer(req) = [t |-> "failure", to |-> req, list |-> <<>>]
    BY <1>2 DEF Answer, Reply
  <2> QED
    BY <1>2, <2>1 DEF Fits, Effect
<1>3. CASE req.op = "Sign" /\ Allowed(req)
  <2>1. PICK t \in {"Sign", "failure"} : Answer(req) = [t |-> t, to |-> req, list |-> <<>>]
    BY <1>3 DEF Answer, Reply
  <2> QED
    BY <1>3, <2>1 DEF Fits, Effect, Allowed
<1>4. CASE req.op \notin {"List", "Sign"} /\ Allowed(req)
  <2>1. PICK t \in {"success", "failure"} : Answer(req) = [t |-> t, to |-> req, list |-> <<>>]
    BY <1>4 DEF Answer, Reply
  <2>2. Answer(req).to = req /\ Fits(Answer(req))
    BY <1>4, <2>1 DEF Fits
  <2>3. ~(locked /\ req.op # "Unlock")
    BY <1>4 DEF Allowed
  <2>4. Effect(req) => locked' = IF req.op \in {"Lock", "Unlock"} THEN req.op = "Lock" ELSE locked
    BY <1>4, Zenon DEF Effect
  <2>5. Effect(req) => locked' \in BOOLEAN /\ (req.op = "Lock" => locked')
    BY <2>4, Zenon
  <2> QED
    BY <2>2, <2>3, <2>5
<1> QED
  BY <1>1, <1>2, <1>3, <1>4

(* One turn of a ServeAgent loop.                                          *)
LEMMA ServeInv == ASSUME Inv, NEW c \in Conns, Serve(c) PROVE Inv'
<1>1. up[c] # <<>> /\ UNCHANGED <<mu, u, broken, calls, history>> /\ up' = [up EXCEPT ![c] = Tail(@)]
  BY DEF Serve
<1>2. PICK x \in Users : Carries(c, x)
  BY <1>1 DEF Inv, InFlight
<1>3. mu[c] = x /\ ConnOf[x] = c /\ u[x].pc = "read" /\ up[c] = <<u[x].req>> /\ down[c] = <<>>
  BY <1>1, <1>2 DEF Carries
<1>4. PICK req : req = u[x].req
  OBVIOUS
<1>5. Head(up[c]) = req /\ Tail(up[c]) = <<>>
  BY <1>3, <1>4
<1>6. c \notin broken
  BY <1>1 DEF Inv, Silent
<1>7. DOMAIN up' = Conns /\ up'[c] = <<>> /\ \A d : d # c /\ d \in Conns => up'[d] = up[d]
  BY <1>1, <1>5 DEF Inv, TypeOK
<1>8. locked \in BOOLEAN /\ (req.op = "Unlock" => Unlocking)
  BY <1>3, <1>4 DEF Inv, TypeOK, Unlocking
<1>9. Holds' /\ NoPanic'
  BY <1>1 DEF Inv, Holds, NoPanic
<1>10. ASSUME DOMAIN down' = Conns, \A d \in Conns : d # c => down'[d] = down[d], locked' \in BOOLEAN,
              locked /\ req.op # "Unlock" => locked',
              down'[c] = <<>> \/ \E reply :
                /\ down'[c] = <<reply>> /\ reply.to = req /\ Fits(reply)
                /\ req.op = "Lock" /\ reply.t = "success" => locked'
                /\ locked /\ req.op # "Unlock" => reply.t = "failure" \/ (reply.t = "List" /\ reply.list = <<>>)
       PROVE  Inv'
  <2>1. TypeOK'
    BY <1>1, <1>7, <1>10 DEF Inv, TypeOK, history
  <2>2. InFlight'
    <3> SUFFICES ASSUME NEW d \in Conns PROVE ((up[d] = <<>> /\ down[d] = <<>>) \/ \E y \in Users : Carries(d, y))'
      BY DEF InFlight
    <3>1. CASE d # c
      BY <1>1, <1>3, <1>7, <1>10, <3>1, CarriesKept DEF Inv, InFlight
    <3>2. CASE d = c /\ down'[c] = <<>>
      BY <1>7, <3>2
    <3>3. CASE d = c /\ down'[c] # <<>>
      <4>1. \E reply : down'[c] = <<reply>> /\ reply.to = req /\ Fits(reply)
        BY <1>10, <3>3
      <4>2. Carries(c, x)'
        BY <1>1, <1>3, <1>4, <1>7, <4>1 DEF Carries, Fits
      <4> QED
        BY <3>3, <4>2
    <3> QED
      BY <3>1, <3>2, <3>3
  <2>3. Silent'
    <3> SUFFICES ASSUME NEW d \in broken PROVE up'[d] = <<>> /\ down'[d] = <<>>
      BY <1>1 DEF Silent
    <3>1. d # c /\ up[d] = <<>> /\ down[d] = <<>>
      BY <1>6 DEF Inv, Silent
    <3>2. up'[d] = up[d]
      BY <1>1, <3>1
    <3>3. d \in Conns
      BY DEF Inv, TypeOK
    <3> QED
      BY <1>10, <3>1, <3>2, <3>3
  <2>4. Quiet'
    <3>1. Unlocking' = Unlocking
      BY <1>1 DEF Unlocking
    <3>2. sealed => locked'
      BY <1>8, <1>10 DEF Inv, Quiet
    <3> QED
      BY <1>1, <3>1, <3>2 DEF Inv, Quiet, history
  <2>5. Replies'
    <3> SUFFICES ASSUME NEW y \in Users, u[y].pc = "read", down'[ConnOf[y]] # <<>>
                 PROVE  /\ (u[y].req.op = "Lock" /\ Head(down'[ConnOf[y]]).t = "success" /\ since[y] = "quiet") => locked'
                        /\ since[y] = "sealed" => \/ Head(down'[ConnOf[y]]).t = "failure"
                                                  \/ Head(down'[ConnOf[y]]).t = "List" /\ Head(down'[ConnOf[y]]).list = <<>>
      BY <1>1 DEF Replies, history
    <3>1. ConnOf[y] \in Conns
      BY CallFacts DEF Inv
    <3>2. since[y] # "no" => req.op # "Unlock"
      BY <1>8 DEF Inv, Quiet
    <3>3. since[y] = "sealed" => locked
      BY DEF Inv, Quiet
    <3>4. CASE y = x
      <4>1. PICK reply :
                /\ down'[c] = <<reply>> /\ reply.to = req /\ Fits(reply)
                /\ req.op = "Lock" /\ reply.t = "success" => locked'
                /\ locked /\ req.op # "Unlock" => reply.t = "failure" \/ (reply.t = "List" /\ reply.list = <<>>)
        BY <1>3, <1>10, <3>4
      <4>2. Head(down'[ConnOf[y]]) = reply
        BY <1>3, <3>4, <4>1
      <4> QED
        BY <1>4, <3>2, <3>3, <3>4, <4>1, <4>2
    <3>5. CASE y # x
      <4>1. ConnOf[y] # c
        BY <1>3, <3>5 DEF Inv, Holds
      <4>2. down'[ConnOf[y]] = down[ConnOf[y]]
        BY <1>10, <3>1, <4>1
      <4>3. /\ (u[y].req.op = "Lock" /\ Head(down[ConnOf[y]]).t = "success" /\ since[y] = "quiet") => locked
            /\ since[y] = "sealed" => \/ Head(down[ConnOf[y]]).t = "failure"
                                      \/ Head(down[ConnOf[y]]).t = "List" /\ Head(down[ConnOf[y]]).list = <<>>
        BY <4>2 DEF Inv, Replies
      <4>4. locked /\ since[y] = "quiet" => locked'
        BY <1>10, <3>2
      <4> QED
        BY <4>2, <4>3, <4>4
    <3> QED
      BY <3>4, <3>5
  <2> QED
    BY <1>9, <2>1, <2>2, <2>3, <2>4, <2>5 DEF Inv
<1>11. CASE req.op = "Remove" /\ Allowed(req) /\ RemoveLoops(req.arg)
  <2>1. UNCHANGED <<locked, down>>
    BY <1>5, <1>11 DEF Serve
  <2> QED
    BY <1>3, <1>8, <1>10, <2>1 DEF Inv, TypeOK
<1>12. CASE ~(req.op = "Remove" /\ Allowed(req) /\ RemoveLoops(req.arg))
  <2>1. Effect(req) /\ down' = [down EXCEPT ![c] = Append(@, Answer(req))]
    BY <1>5, <1>6, <1>12 DEF Serve
  <2>2. DOMAIN down' = Conns /\ down'[c] = Append(down[c], Answer(req)) /\ \A d \in Conns : d # c => down'[d] = down[d]
    BY <2>1 DEF Inv, TypeOK
  <2>3. down'[c] = <<Answer(req)>>
    BY <1>3, <2>2
  <2> QED
    BY <1>8, <1>10, <2>1, <2>2, <2>3, AnswerFacts
<1> QED
  BY <1>11, <1>12

(* A connection fails.                                                     *)
LEMMA BreakInv == ASSUME Inv, NEW c \in Conns, Break(c) PROVE Inv'
<1>1. /\ broken' = broken \cup {c} /\ UNCHANGED <<keyring, mu, u, calls, history>>
      /\ up' = [up EXCEPT ![c] = <<>>] /\ down' = [down EXCEPT ![c] = <<>>]
  BY DEF Break
<1>2. /\ DOMAIN up' = Conns /\ DOMAIN down' = Conns /\ up'[c] = <<>> /\ down'[c] = <<>>
      /\ \A d : d # c => up'[d] = up[d] /\ down'[d] = down[d]
  BY <1>1 DEF Inv, TypeOK
<1>3. TypeOK' /\ Holds' /\ NoPanic' /\ Quiet'
  <2>1. Unlocking' = Unlocking
    BY <1>1 DEF Unlocking
  <2> QED
    BY <1>1, <1>2, <2>1 DEF Inv, TypeOK, Holds, NoPanic, Quiet, keyring, history
<1>4. Silent'
  BY <1>1, <1>2 DEF Inv, Silent
<1>5. InFlight'
  <2> SUFFICES ASSUME NEW d \in Conns PROVE ((up[d] = <<>> /\ down[d] = <<>>) \/ \E y \in Users : Carries(d, y))'
    BY DEF InFlight
  <2>1. CASE d = c
    BY <1>2, <2>1
  <2>2. CASE d # c /\ up[d] = <<>> /\ down[d] = <<>>
    BY <1>2, <2>2
  <2>3. CASE d # c /\ ~(up[d] = <<>> /\ down[d] = <<>>)
    <3>1. PICK y \in Users : Carries(d, y)
      BY <2>3 DEF Inv, InFlight
    <3>2. Carries(d, y)'
      BY <1>1, <1>2, <2>3, <3>1 DEF Carries, Fits
    <3> QED
      BY <3>2
  <2> QED
    BY <2>1, <2>2, <2>3
<1>6. Replies'
  BY <1>1, <1>2 DEF Inv, Replies, keyring, history
<1> QED
  BY <1>3, <1>4, <1>5, <1>6 DEF Inv

(* The owner adds a key, or nothing happens.                               *)
LEMMA OwnerInv ==
    ASSUME Inv, UNCHANGED <<locked, mu, u, up, down, broken, history>>
    PROVE  Inv'
<1>1. TypeOK' /\ Holds' /\ Silent' /\ NoPanic' /\ Replies'
  BY DEF Inv, TypeOK, Holds, Silent, NoPanic, Replies, history
<1>2. Quiet'
  <2>1. Unlocking' = Unlocking
    BY DEF Unlocking
  <2> QED
    BY <2>1 DEF Inv, Quiet, history
<1>3. InFlight'
  BY DEF Inv, InFlight, Carries, Fits
<1> QED
  BY <1>1, <1>2, <1>3 DEF Inv

(* Every step of the agent and its users keeps the invariant.              *)
LEMMA NextInv == Inv /\ [Next]_vars => Inv'
<1> SUFFICES ASSUME Inv, [Next]_vars PROVE Inv'
  OBVIOUS
<1>1. ASSUME NEW x \in Users, NEW req \in Requests, Call(x, req) PROVE Inv'
  BY <1>1, CallInv
<1>2. ASSUME NEW x \in Users, Write(x) PROVE Inv'
  BY <1>2, WriteInv
<1>3. ASSUME NEW x \in Users, Read(x) PROVE Inv'
  BY <1>3, ReadInv
<1>4. ASSUME NEW c \in Conns, Serve(c) PROVE Inv'
  BY <1>4, ServeInv
<1>5. ASSUME NEW c \in Conns, Break(c) PROVE Inv'
  BY <1>5, BreakInv
<1>6. ASSUME NEW k \in Keys, OwnerAdd(k) PROVE Inv'
  BY <1>6, OwnerInv DEF OwnerAdd
<1>7. CASE UNCHANGED vars
  BY <1>7, OwnerInv DEF vars, history
<1> QED
  BY <1>1, <1>2, <1>3, <1>4, <1>5, <1>6, <1>7 DEF Next

-----------------------------------------------------------------------------
(* The theorems.                                                           *)

(* The mutex of a client matches replies to requests (call, client.go):    *)
(* on every connection there is at most one request or one reply, it       *)
(* belongs to the goroutine that holds the mutex, and it is of a kind that *)
(* its method understands.                                                 *)
THEOREM OneInFlight == Spec => []Inv
<1> QED
  BY InitInv, NextInv, PTL DEF Spec

(* However many goroutines share a client, the reply a call reads answers  *)
(* its own request, and no List or Sign panics on a reply of another kind  *)
(* (client.go, call, simpleCall, List, Sign).                              *)
THEOREM RepliesOwned == Spec => []OwnReply
<1>1. Inv => OwnReply
  <2> SUFFICES ASSUME Inv, NEW x \in Users
               PROVE  /\ (u[x].pc = "read" /\ down[ConnOf[x]] # <<>>) => Head(down[ConnOf[x]]).to = u[x].req
                      /\ u[x].res # "panic"
    BY DEF OwnReply
  <2>1. u[x].res # "panic"
    BY DEF Inv, NoPanic
  <2>2. ASSUME u[x].pc = "read", down[ConnOf[x]] # <<>> PROVE Head(down[ConnOf[x]]).to = u[x].req
    <3>1. mu[ConnOf[x]] = x /\ ConnOf[x] \in Conns
      BY <2>2, CallFacts DEF Inv, Holds
    <3>2. Carries(ConnOf[x], x)
      BY <2>2, <3>1 DEF Inv, InFlight, Carries
    <3>3. PICK reply : down[ConnOf[x]] = <<reply>> /\ reply.to = u[x].req
      BY <2>2, <3>2 DEF Carries
    <3> QED
      BY <3>3
  <2> QED
    BY <2>1, <2>2
<1> QED
  BY <1>1, OneInFlight, PTL

(* Once Lock has returned to a user that no Unlock ran beside, every call  *)
(* begun on any connection before the next Unlock is refused, or lists     *)
(* nothing (keyring.go under its mutex, client.go 49).                     *)
THEOREM LockSeals == Spec => []Sealed
<1>1. Inv => Sealed
  BY DEF Inv, Replies, Sealed
<1> QED
  BY <1>1, OneInFlight, PTL

=============================================================================
