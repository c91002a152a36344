------------------------ MODULE AuthenticationProofs ------------------------
(***************************************************************************)
(* Theorems about Authentication, for any lists of methods, any keys of    *)
(* the client, any answers of the callbacks and any size of the cache.     *)
(***************************************************************************)
EXTENDS Authentication, SequenceTheorems, TLAPS

(* The two ends take turns.  The client is composing a request,            *)
Composing ==
    /\ client.pc \in {"begin", "query", "sign"} /\ server.pc = "read" /\ ~closed
    /\ toServer = <<>> /\ toClient = <<>>

(* its request (or its answer to a challenge) is under way,                *)
Requested ==
    /\ ~closed /\ toClient = <<>>
    /\ \E m : /\ toServer = <<m>>
              /\ \/ client.pc = "ack" /\ server.pc = "read" /\ m.t = "query"
                 \/ client.pc = "response" /\ server.pc \in {"read", "kbd"} /\ m.t # "query"

(* the server's answer is,                                                 *)
Replied ==
    /\ ~closed /\ toServer = <<>>
    /\ \E m : /\ toClient = <<m>>
              /\ \/ client.pc = "ack" /\ server.pc = "read" /\ m.t \in {"keyOk", "failure"}
                 \/ client.pc = "response" /\ server.pc = "ok" /\ m.t = "success"
                 \/ client.pc = "response" /\ server.pc = "read" /\ m.t = "failure"
                 \/ client.pc = "response" /\ server.pc = "kbd" /\ m.t = "info"

(* the server has closed the connection instead of answering,              *)
CutOff ==
    /\ client.pc \in {"ack", "response"} /\ server.pc = "error" /\ closed
    /\ toServer = <<>> /\ toClient = <<>>

(* both have finished,                                                     *)
Agreed ==
    /\ client.pc = "ok" /\ server.pc = "ok" /\ ~closed
    /\ toServer = <<>> /\ toClient = <<>>

(* or the client has given up.                                             *)
GaveUp ==
    /\ client.pc = "error" /\ server.pc \in {"read", "kbd", "error"} /\ closed
    /\ toServer = <<>> /\ toClient = <<>>

Turns == Composing \/ Requested \/ Replied \/ CutOff \/ Agreed \/ GaveUp

(* A cached result is that of the callback.                                *)
CacheTrue ==
    \A i \in DOMAIN server.cache : server.cache[i][2] => server.cache[i][1] \in conf.accepted

(* The Permissions of a server that has let the client in are those of the *)
(* method that succeeded; while a callback asks questions there are none.  *)
PermsTrue ==
    /\ server.pc = "kbd" => server.perms = "nil"
    /\ server.pc = "ok" => /\ server.by = "publickey" => server.perms \in conf.accepted
                           /\ server.by = "password" => server.perms = "password"
                           /\ server.by \notin {"publickey", "password"} => server.perms = "nil"

Fields ==
    /\ server = [pc |-> server.pc, cache |-> server.cache, perms |-> server.perms,
                 by |-> server.by, calls |-> server.calls]
    /\ client = [pc |-> client.pc, cur |-> client.cur, last |-> client.last, ms |-> client.ms,
                 i |-> client.i, valid |-> client.valid]
    /\ \E S : server.cache \in Seq(S)

Inv == Fields /\ Turns /\ CacheTrue /\ PermsTrue

(* The lookup accepts only keys that the callback accepts.                 *)
LEMMA AcceptsTrue == ASSUME CacheTrue, NEW k, Accepts(k) PROVE k \in conf.accepted
<1>1. CASE Cached(k)
  <2>1. Hit(k) \in DOMAIN server.cache /\ server.cache[Hit(k)][1] = k
    BY <1>1, Zenon DEF Cached, Hit
  <2>2. server.cache[Hit(k)][2]
    BY <1>1, Zenon DEF Accepts
  <2> QED
    BY <2>1, <2>2, Zenon DEF CacheTrue
<1>2. CASE ~Cached(k)
  BY <1>2 DEF Accepts
<1> QED
  BY <1>1, <1>2

(* The server after a lookup: a new round, and the cache stays true.       *)
LEMMA AfterLookupTrue ==
    ASSUME Fields, CacheTrue, NEW k
    PROVE  /\ AfterLookup(k) = [pc |-> server.pc, cache |-> AfterLookup(k).cache, perms |-> "nil",
                                by |-> server.by, calls |-> server.calls]
           /\ \E S : AfterLookup(k).cache \in Seq(S)
           /\ \A i \in DOMAIN AfterLookup(k).cache :
                  AfterLookup(k).cache[i][2] => AfterLookup(k).cache[i][1] \in conf.accepted
<1>0. NewRound = [pc |-> server.pc, cache |-> server.cache, perms |-> "nil",
                  by |-> server.by, calls |-> server.calls]
  BY DEF Fields, NewRound
<1>1. CASE AfterLookup(k) = NewRound
  BY <1>0, <1>1 DEF Fields, CacheTrue
<1>2. CASE AfterLookup(k) = [NewRound EXCEPT !.cache = Append(@, <<k, k \in conf.accepted>>)]
  <2> DEFINE e == <<k, k \in conf.accepted>>
             more == Append(server.cache, e)
  <2>0. e[1] = k /\ (e[2] => k \in conf.accepted)
    OBVIOUS
  <2> HIDE DEF e
  <2>1. PICK S : server.cache \in Seq(S)
    BY DEF Fields
  <2>2. /\ more \in Seq(S \cup {e}) /\ DOMAIN more = (DOMAIN server.cache) \cup {Len(server.cache) + 1}
        /\ \A i \in DOMAIN server.cache : more[i] = server.cache[i]
        /\ more[Len(server.cache) + 1] = e
    <3>1. server.cache \in Seq(S \cup {e}) /\ e \in S \cup {e}
      BY <2>1
    <3> QED
      BY <3>1
  <2> HIDE DEF more
  <2>3. AfterLookup(k) = [pc |-> server.pc, cache |-> more, perms |-> "nil",
                          by |-> server.by, calls |-> server.calls]
    BY <1>0, <1>2 DEF more, e
  <2>4. \A i \in DOMAIN more : more[i][2] => more[i][1] \in conf.accepted
    BY <2>0, <2>2, Zenon DEF CacheTrue
  <2>5. AfterLookup(k).cache = more
    BY <2>3
  <2> QED
    BY <2>2, <2>3, <2>4, <2>5
<1> QED
  BY <1>1, <1>2 DEF AfterLookup

-----------------------------------------------------------------------------
(* What the steps below need of the server's record so far.                *)
SoFar(s) ==
    /\ s = [pc |-> s.pc, cache |-> s.cache, perms |-> s.perms, by |-> s.by, calls |-> s.calls]
    /\ \E S : s.cache \in Seq(S)
    /\ \A i \in DOMAIN s.cache : s.cache[i][2] => s.cache[i][1] \in conf.accepted

(* The two outcomes of a round.                                            *)
Grants(s, method) ==
    /\ toClient' = Append(toClient, Msg("success", <<>>))
    /\ server' = [s EXCEPT !.pc = "ok", !.by = method]
    /\ UNCHANGED closed
Denies(s) ==
    \/ server' = [s EXCEPT !.pc = "error"] /\ closed' = TRUE /\ UNCHANGED toClient
    \/ /\ toClient' = Append(toClient, Msg("failure", CanContinue))
       /\ server' = [s EXCEPT !.pc = "read"]
       /\ UNCHANGED closed

(* The server takes the request under way.                                 *)
Handles == toServer # <<>> /\ toServer' = Tail(toServer) /\ UNCHANGED <<conf, client>>

(* A request under way is the only packet.                                 *)
LEMMA HandlesTurn ==
    ASSUME Turns, Handles
    PROVE  /\ toServer' = <<>> /\ toClient = <<>> /\ ~closed /\ Requested
           /\ client.pc \in {"ack", "response"}
           /\ client.pc = "ack" => server.pc = "read" /\ Head(toServer).t = "query"
           /\ client.pc = "response" => Head(toServer).t # "query"
<1>1. Requested
  BY DEF Turns, Composing, Replied, CutOff, Agreed, GaveUp, Handles
<1>2. PICK m : toServer = <<m>> /\ (\/ client.pc = "ack" /\ server.pc = "read" /\ m.t = "query"
                                    \/ /\ client.pc = "response" /\ server.pc \in {"read", "kbd"}
                                       /\ m.t # "query")
  BY <1>1 DEF Requested
<1>3. Tail(<<m>>) = <<>> /\ Head(<<m>>) = m
  OBVIOUS
<1> QED
  BY <1>1, <1>2, <1>3 DEF Requested, Handles

(* Letting the client in keeps the invariant, if the Permissions are right. *)
LEMMA GrantsInv ==
    ASSUME Inv, Handles, client.pc = "response", NEW s, NEW method, SoFar(s), Grants(s, method),
           method = "publickey" => s.perms \in conf.accepted,
           method = "password" => s.perms = "password",
           method \notin {"publickey", "password"} => s.perms = "nil"
    PROVE  Inv'
<1>1. toServer' = <<>> /\ toClient = <<>> /\ ~closed
  BY HandlesTurn DEF Inv
<1>2. server' = [pc |-> "ok", cache |-> s.cache, perms |-> s.perms, by |-> method, calls |-> s.calls]
  BY DEF SoFar, Grants
<1>3. /\ server'.pc = "ok" /\ server'.cache = s.cache /\ server'.perms = s.perms
      /\ server'.by = method /\ server'.calls = s.calls
  BY <1>2
<1>4. toClient' = <<Msg("success", <<>>)>> /\ Msg("success", <<>>).t = "success"
  BY <1>1 DEF Grants, Msg
<1>5. Fields'
  BY <1>2, <1>3 DEF Inv, Fields, SoFar, Handles
<1>6. Replied'
  BY <1>1, <1>3, <1>4 DEF Replied, Grants, Handles
<1>7. CacheTrue'
  BY <1>3 DEF CacheTrue, SoFar, Handles
<1>8. PermsTrue'
  BY <1>3 DEF PermsTrue, Handles
<1> QED
  BY <1>5, <1>6, <1>7, <1>8 DEF Inv, Turns

(* So does refusing, with a failure or by closing the connection.          *)
LEMMA DeniesInv ==
    ASSUME Inv, Handles, NEW s, SoFar(s), Denies(s) PROVE Inv'
<1>1. /\ toServer' = <<>> /\ toClient = <<>> /\ ~closed /\ client' = client
      /\ client.pc \in {"ack", "response"}
  BY HandlesTurn DEF Inv, Handles
<1>2. ASSUME NEW x, server' = [s EXCEPT !.pc = x], x \in {"error", "read"}
      PROVE  server'.pc = x /\ Fields' /\ CacheTrue' /\ PermsTrue'
  <2>1. server' = [pc |-> x, cache |-> s.cache, perms |-> s.perms, by |-> s.by, calls |-> s.calls]
    BY <1>2 DEF SoFar
  <2>2. /\ server'.pc = x /\ server'.cache = s.cache /\ server'.perms = s.perms
        /\ server'.by = s.by /\ server'.calls = s.calls
    BY <2>1
  <2>3. Fields'
    BY <2>1, <2>2 DEF Inv, Fields, SoFar, Handles
  <2>4. CacheTrue'
    BY <2>2 DEF CacheTrue, SoFar, Handles
  <2>5. PermsTrue'
    BY <1>2, <2>2 DEF PermsTrue
  <2> QED
    BY <2>2, <2>3, <2>4, <2>5
<1>3. CASE server' = [s EXCEPT !.pc = "error"] /\ closed' = TRUE /\ UNCHANGED toClient
  <2>1. server'.pc = "error" /\ Fields' /\ CacheTrue' /\ PermsTrue'
    BY <1>2, <1>3
  <2>2. CutOff'
    BY <1>1, <1>3, <2>1 DEF CutOff
  <2> QED
    BY <2>1, <2>2 DEF Inv, Turns
<1>4. CASE /\ toClient' = Append(toClient, Msg("failure", CanContinue))
           /\ server' = [s EXCEPT !.pc = "read"]
           /\ UNCHANGED closed
  <2>1. server'.pc = "read" /\ Fields' /\ CacheTrue' /\ PermsTrue'
    BY <1>2, <1>4
  <2>2. toClient' = <<Msg("failure", CanContinue)>> /\ Msg("failure", CanContinue).t = "failure"
    BY <1>1, <1>4 DEF Msg
  <2>3. Replied'
    BY <1>1, <1>4, <2>1, <2>2 DEF Replied
  <2> QED
    BY <2>1, <2>3 DEF Inv, Turns
<1> QED
  BY <1>3, <1>4 DEF Denies

(* The server at the start of a round, and with Permissions.               *)
LEMMA RoundSoFar ==
    ASSUME Inv, NEW p
    PROVE  /\ SoFar(server) /\ SoFar(NewRound) /\ NewRound.perms = "nil"
           /\ SoFar([NewRound EXCEPT !.perms = p]) /\ [NewRound EXCEPT !.perms = p].perms = p
<1>1. SoFar(server)
  BY DEF SoFar, Inv, Fields, CacheTrue
<1>2. ASSUME NEW q
      PROVE  LET s == [pc |-> server.pc, cache |-> server.cache, perms |-> q,
                       by |-> server.by, calls |-> server.calls]
             IN  SoFar(s) /\ s.perms = q
  BY <1>1 DEF SoFar
<1>3. NewRound = [pc |-> server.pc, cache |-> server.cache, perms |-> "nil",
                  by |-> server.by, calls |-> server.calls]
  BY DEF Inv, Fields, NewRound
<1>4. [NewRound EXCEPT !.perms = p] = [pc |-> server.pc, cache |-> server.cache, perms |-> p,
                                       by |-> server.by, calls |-> server.calls]
  BY <1>3
<1> QED
  BY <1>1, <1>2, <1>3, <1>4

(* The server after a lookup.                                              *)
LEMMA LookupSoFar ==
    ASSUME Inv, NEW k
    PROVE  /\ SoFar(AfterLookup(k)) /\ AfterLookup(k).pc = server.pc
           /\ SoFar([AfterLookup(k) EXCEPT !.perms = k])
           /\ [AfterLookup(k) EXCEPT !.perms = k].perms = k
<1>1. PICK s : s = AfterLookup(k)
  OBVIOUS
<1>2. /\ s = [pc |-> server.pc, cache |-> s.cache, perms |-> "nil",
              by |-> server.by, calls |-> server.calls]
      /\ \E S : s.cache \in Seq(S)
      /\ \A i \in DOMAIN s.cache : s.cache[i][2] => s.cache[i][1] \in conf.accepted
  BY <1>1, AfterLookupTrue DEF Inv
<1>3. s.pc = server.pc /\ s.by = server.by /\ s.calls = server.calls /\ s.perms = "nil"
  BY <1>2
<1>4. SoFar(s)
  BY <1>2, <1>3 DEF SoFar
<1>5. [s EXCEPT !.perms = k] = [pc |-> server.pc, cache |-> s.cache, perms |-> k,
                                by |-> server.by, calls |-> server.calls]
  BY <1>2
<1>6. SoFar([s EXCEPT !.perms = k]) /\ [s EXCEPT !.perms = k].perms = k
  BY <1>2, <1>5 DEF SoFar
<1> QED
  BY <1>1, <1>3, <1>4, <1>6

(* A challenge keeps the invariant.                                        *)
LEMMA ChallengeInv ==
    ASSUME Inv, Handles, client.pc = "response", NEW left, Challenge(left) PROVE Inv'
<1>1. toServer' = <<>> /\ toClient = <<>> /\ ~closed /\ client' = client
  BY HandlesTurn DEF Inv, Handles
<1>2. server' = [pc |-> "kbd", cache |-> server.cache, perms |-> "nil", by |-> server.by,
                 calls |-> left]
  BY DEF Challenge, NewRound, Inv, Fields
<1>3. /\ server'.pc = "kbd" /\ server'.cache = server.cache /\ server'.perms = "nil"
      /\ server'.by = server.by /\ server'.calls = left
  BY <1>2
<1>4. toClient' = <<Msg("info", <<>>)>> /\ Msg("info", <<>>).t = "info"
  BY <1>1 DEF Challenge, Msg
<1>5. Fields'
  BY <1>1, <1>2, <1>3 DEF Inv, Fields
<1>6. Replied'
  BY <1>1, <1>3, <1>4 DEF Replied, Challenge
<1>7. CacheTrue' /\ PermsTrue'
  BY <1>3 DEF CacheTrue, PermsTrue, Inv, Handles
<1> QED
  BY <1>5, <1>6, <1>7 DEF Inv, Turns

(* Each step of the server keeps the invariant.                            *)
LEMMA ServerInv == Inv /\ Server => Inv'
<1> SUFFICES ASSUME Inv, Server PROVE Inv'
  OBVIOUS
<1>h. ASSUME Handles, Head(toServer).t # "query" PROVE client.pc = "response"
  BY <1>h, HandlesTurn DEF Inv
<1>1. CASE None
  <2>1. Handles /\ client.pc = "response"
    BY <1>1, <1>h DEF None, Asked, Handles
  <2>2. PICK s : s = NewRound
    OBVIOUS
  <2>3. SoFar(s) /\ s.perms = "nil"
    BY <2>2, RoundSoFar
  <2>4. Grants(s, "none") \/ Denies(s)
    BY <1>1, <2>2 DEF None, Answers, Grants, Denies
  <2> QED
    BY <2>1, <2>3, <2>4, GrantsInv, DeniesInv
<1>2. CASE Password
  <2>1. Handles /\ client.pc = "response"
    BY <1>2, <1>h DEF Password, Asked, Handles
  <2>2. PICK s : s = NewRound
    OBVIOUS
  <2>3. PICK t : t = [NewRound EXCEPT !.perms = "password"]
    OBVIOUS
  <2>4. SoFar(s) /\ SoFar(t) /\ t.perms = "password"
    BY <2>2, <2>3, RoundSoFar
  <2>5. Grants(t, "password") \/ Denies(t) \/ Denies(s)
    BY <1>2, <2>2, <2>3 DEF Password, Answers, Grants, Denies
  <2> QED
    BY <2>1, <2>4, <2>5, GrantsInv, DeniesInv
<1>3. CASE KeyboardInteractive
  <2>1. Handles /\ client.pc = "response"
    BY <1>3, <1>h DEF KeyboardInteractive, Asked, Handles
  <2>2. PICK s : s = NewRound
    OBVIOUS
  <2>3. SoFar(s)
    BY <2>2, RoundSoFar
  <2>4. Challenge(MaxRounds) \/ Denies(s)
    BY <1>3, <2>2 DEF KeyboardInteractive, Answers, Denies
  <2> QED
    BY <2>1, <2>3, <2>4, ChallengeInv, DeniesInv
<1>4. CASE Answered
  <2>1. Handles /\ server.pc = "kbd"
    BY <1>4 DEF Answered, Handles
  <2>2. client.pc = "response"
    BY <2>1, HandlesTurn DEF Inv
  <2>3. PICK s : s = server
    OBVIOUS
  <2>4. SoFar(s) /\ s.perms = "nil"
    BY <2>1, <2>3, RoundSoFar DEF Inv, PermsTrue
  <2>5. Challenge(server.calls - 1) \/ Grants(s, "keyboard-interactive") \/ Denies(s)
    BY <1>4, <2>3 DEF Answered, Answers, Grants, Denies
  <2>6. ASSUME NEW n, n = server.calls - 1, Challenge(server.calls - 1) PROVE Inv'
    <3>1. Challenge(n)
      BY <2>6 DEF Challenge
    <3> QED
      BY <2>1, <2>2, <3>1, ChallengeInv
  <2> QED
    BY <2>1, <2>2, <2>4, <2>5, <2>6, GrantsInv, DeniesInv
<1>5. CASE QueryKey
  <2>1. Handles /\ Head(toServer).t = "query"
    BY <1>5 DEF QueryKey, Asked, Handles
  <2>2. /\ client.pc = "ack" /\ server.pc = "read" /\ toServer' = <<>> /\ toClient = <<>>
        /\ ~closed /\ client' = client
    BY <2>1, HandlesTurn DEF Inv, Handles
  <2>3. PICK k : k = Key
    OBVIOUS
  <2>4. PICK s : s = AfterLookup(k)
    OBVIOUS
  <2>5. PICK t : t = NewRound
    OBVIOUS
  <2>6. SoFar(s) /\ SoFar(t) /\ s.pc = "read"
    BY <2>2, <2>4, <2>5, LookupSoFar, RoundSoFar
  <2>7. \/ Denies(s) \/ Denies(t)
        \/ toClient' = Append(toClient, Msg("keyOk", <<Key>>)) /\ server' = s /\ closed' = closed
    BY <1>5, <2>3, <2>4, <2>5 DEF QueryKey, Answers, Denies
  <2>8. ASSUME toClient' = Append(toClient, Msg("keyOk", <<Key>>)), server' = s, closed' = closed
        PROVE  Inv'
    <3>1. toClient' = <<Msg("keyOk", <<Key>>)>> /\ Msg("keyOk", <<Key>>).t = "keyOk"
      BY <2>2, <2>8 DEF Msg
    <3>2. Replied'
      BY <2>2, <2>6, <2>8, <3>1 DEF Replied
    <3>3. Fields' /\ CacheTrue' /\ PermsTrue'
      BY <2>1, <2>2, <2>6, <2>8 DEF Inv, Fields, CacheTrue, PermsTrue, SoFar, Handles
    <3> QED
      BY <3>2, <3>3 DEF Inv, Turns
  <2> QED
    BY <2>1, <2>6, <2>7, <2>8, DeniesInv
<1>6. CASE SignedKey
  <2>1. Handles /\ client.pc = "response"
    BY <1>6, <1>h DEF SignedKey, Asked, Handles
  <2>2. PICK k : k = Key
    OBVIOUS
  <2>3. PICK s : s = [AfterLookup(k) EXCEPT !.perms = k]
    OBVIOUS
  <2>4. PICK t : t = NewRound
    OBVIOUS
  <2>5. SoFar(s) /\ s.perms = k /\ SoFar(t)
    BY <2>3, <2>4, LookupSoFar, RoundSoFar
  <2>6. (Accepts(k) /\ Grants(s, "publickey")) \/ Denies(s) \/ Denies(t)
    BY <1>6, <2>2, <2>3, <2>4, Zenon DEF SignedKey, Answers, Grants, Denies
  <2>7. Accepts(k) => k \in conf.accepted
    BY AcceptsTrue DEF Inv
  <2> QED
    BY <2>1, <2>5, <2>6, <2>7, GrantsInv, DeniesInv
<1>7. CASE ServerCut
  <2>1. /\ server.pc \in {"read", "kbd"} /\ closed /\ server' = [server EXCEPT !.pc = "error"]
        /\ UNCHANGED <<conf, client, toServer, toClient, closed>>
    BY <1>7 DEF ServerCut
  <2>2. server' = [pc |-> "error", cache |-> server.cache, perms |-> server.perms,
                   by |-> server.by, calls |-> server.calls]
    BY <2>1 DEF Inv, Fields
  <2>3. /\ server'.pc = "error" /\ server'.cache = server.cache /\ server'.perms = server.perms
        /\ server'.by = server.by /\ server'.calls = server.calls
    BY <2>2
  <2>4. GaveUp
    BY <2>1 DEF Inv, Turns, Composing, Requested, Replied, CutOff, Agreed
  <2>5. GaveUp'
    BY <2>1, <2>3, <2>4 DEF GaveUp
  <2>6. Fields' /\ CacheTrue' /\ PermsTrue'
    BY <2>1, <2>2, <2>3 DEF Inv, Fields, CacheTrue, PermsTrue
  <2> QED
    BY <2>5, <2>6 DEF Inv, Turns
<1> QED
  BY <1>1, <1>2, <1>3, <1>4, <1>5, <1>6, <1>7 DEF Server

-----------------------------------------------------------------------------
(* A step of the client leaves the server's record alone: only the turn    *)
(* and the shape of its own record are left to show.                       *)
LEMMA ClientFrame ==
    ASSUME Inv, UNCHANGED <<conf, server>>, Turns',
           client' = [pc |-> client'.pc, cur |-> client'.cur, last |-> client'.last,
                      ms |-> client'.ms, i |-> client'.i, valid |-> client'.valid]
    PROVE  Inv'
BY DEF Inv, Fields, CacheTrue, PermsTrue

(* The client's record keeps its fields.                                   *)
LEMMA ClientRecord ==
    ASSUME Inv, Client
    PROVE  client' = [pc |-> client'.pc, cur |-> client'.cur, last |-> client'.last,
                      ms |-> client'.ms, i |-> client'.i, valid |-> client'.valid]
<1>0. client = [pc |-> client.pc, cur |-> client.cur, last |-> client.last, ms |-> client.ms,
                i |-> client.i, valid |-> client.valid]
  BY DEF Inv, Fields
<1>1. CASE Begin \/ ClientCut \/ Success
  BY <1>0, <1>1 DEF Begin, ClientCut, Success
<1>2. CASE Query
  BY <1>0, <1>2 DEF Query
<1>3. CASE ConfirmKeyAck
  BY <1>0, <1>3 DEF ConfirmKeyAck
<1>4. CASE Sign
  BY <1>0, <1>4 DEF Sign, FindNext
<1>5. CASE Failure
  BY <1>0, <1>5 DEF Failure, FindNext
<1>6. CASE Answer
  BY <1>0, <1>6 DEF Answer
<1> QED
  BY <1>1, <1>2, <1>3, <1>4, <1>5, <1>6 DEF Client

(* Where findNext leaves the client.                                       *)
LEMMA FindNextTurn ==
    ASSUME Inv, NEW ms, FindNext(ms)
    PROVE  \/ client'.pc = "error" /\ closed' = TRUE
           \/ client'.pc = "begin" /\ closed' = closed
BY DEF Inv, Fields, FindNext

(* A packet for the client is the only one.                                *)
LEMMA TakenTurn ==
    ASSUME Inv, toClient # <<>>, toClient' = Tail(toClient)
    PROVE  /\ toClient' = <<>> /\ toServer = <<>> /\ ~closed
           /\ client.pc = "ack" /\ Head(toClient).t \in {"keyOk", "failure"} => server.pc = "read"
           /\ client.pc = "response" /\ Got("success") => server.pc = "ok"
           /\ client.pc = "response" /\ Got("failure") => server.pc = "read"
           /\ client.pc = "response" /\ Got("info") => server.pc = "kbd"
<1>1. Replied
  BY DEF Inv, Turns, Composing, Requested, CutOff, Agreed, GaveUp
<1>2. PICK m : /\ toClient = <<m>>
               /\ \/ client.pc = "ack" /\ server.pc = "read" /\ m.t \in {"keyOk", "failure"}
                  \/ client.pc = "response" /\ server.pc = "ok" /\ m.t = "success"
                  \/ client.pc = "response" /\ server.pc = "read" /\ m.t = "failure"
                  \/ client.pc = "response" /\ server.pc = "kbd" /\ m.t = "info"
  BY <1>1 DEF Replied
<1>3. Tail(<<m>>) = <<>> /\ Head(<<m>>) = m
  OBVIOUS
<1> QED
  BY <1>1, <1>2, <1>3 DEF Replied, Got

(* The client changes neither the configuration nor the server.            *)
LEMMA ClientKeeps == Client => UNCHANGED <<conf, server>>
BY DEF Client, Begin, Query, ConfirmKeyAck, Sign, Success, Failure, Answer, ClientCut

(* Each step of the client leads to the next turn.                         *)
LEMMA ClientInv == Inv /\ Client => Inv'
<1> SUFFICES ASSUME Inv, Client PROVE Turns'
  BY ClientFrame, ClientRecord, ClientKeeps
<1>u. UNCHANGED <<conf, server>>
  BY ClientKeeps
<1>f. Fields
  BY DEF Inv
<1>r. ASSUME NEW x, client' = [client EXCEPT !.pc = x] PROVE client'.pc = x
  BY <1>f, <1>r DEF Fields
<1>c. ASSUME client.pc \in {"begin", "query", "sign"}, ~closed PROVE Composing
  BY <1>c DEF Inv, Turns, Requested, Replied, CutOff, Agreed, GaveUp
(* A request is sent.                                                      *)
<1>s. ASSUME Composing, NEW t, NEW arg, Sends(t, arg), closed' = closed, toClient' = toClient,
             \/ t = "query" /\ client'.pc = "ack"
             \/ t # "query" /\ client'.pc = "response"
      PROVE  Turns'
  <2>1. toServer' = <<Msg(t, arg)>> /\ Msg(t, arg).t = t
    BY <1>s DEF Composing, Sends, Msg
  <2>2. Requested'
    BY <1>s, <1>u, <2>1 DEF Requested, Composing
  <2> QED
    BY <2>2 DEF Turns
(* The client gives up, or goes on with the next request.                  *)
<1>g. ASSUME toServer' = <<>>, toClient' = <<>>, server.pc \in {"read", "kbd"},
             client'.pc = "error", closed' = TRUE
      PROVE  Turns'
  BY <1>g, <1>u DEF Turns, GaveUp
<1>n. ASSUME toServer' = <<>>, toClient' = <<>>, server.pc = "read", ~closed, closed' = closed,
             client'.pc \in {"begin", "query", "sign"}
      PROVE  Turns'
  BY <1>n, <1>u DEF Turns, Composing
<1>1. CASE Begin
  <2>1. Composing /\ toClient' = toClient
    BY <1>1, <1>c DEF Begin
  <2>2. CASE /\ client.cur \in {"none", "keyboard-interactive"} \/ (client.cur = "password" /\ ~conf.abort)
             /\ Sends(client.cur, "")
             /\ client' = [client EXCEPT !.pc = "response"]
             /\ UNCHANGED closed
    <3>1. PICK t : t = client.cur
      OBVIOUS
    <3>2. client'.pc = "response" /\ t # "query" /\ Sends(t, "") /\ closed' = closed
      BY <1>r, <2>2, <3>1
    <3> QED
      BY <1>s, <2>1, <3>2
  <2>3. CASE client' = [client EXCEPT !.pc = "query", !.i = 1, !.valid = <<>>]
             /\ UNCHANGED <<toServer, closed>>
    <3>1. client'.pc = "query"
      BY <1>f, <2>3 DEF Fields
    <3> QED
      BY <1>n, <2>1, <2>3, <3>1 DEF Composing
  <2>4. CASE client' = [client EXCEPT !.pc = "error"] /\ closed' = TRUE /\ UNCHANGED toServer
    BY <1>g, <1>r, <2>1, <2>4 DEF Composing
  <2> QED
    BY <1>1, <2>2, <2>3, <2>4 DEF Begin
<1>2. CASE Query
  <2>1. Composing /\ toClient' = toClient /\ closed' = closed
    BY <1>2, <1>c DEF Query
  <2>2. CASE Sends("query", Signers[client.i]) /\ client' = [client EXCEPT !.pc = "ack"]
    <3>1. PICK k : k = Signers[client.i]
      OBVIOUS
    <3>2. Sends("query", k) /\ client'.pc = "ack"
      BY <1>r, <2>2, <3>1
    <3> QED
      BY <1>s, <2>1, <3>2
  <2>3. CASE client' = [client EXCEPT !.pc = "sign", !.i = 1, !.ms = <<>>] /\ UNCHANGED toServer
    <3>1. client'.pc = "sign"
      BY <1>f, <2>3 DEF Fields
    <3> QED
      BY <1>n, <2>1, <2>3, <3>1 DEF Composing
  <2> QED
    BY <1>2, <2>2, <2>3 DEF Query
<1>3. CASE ConfirmKeyAck
  <2>1. /\ toClient # <<>> /\ toClient' = Tail(toClient) /\ client.pc = "ack"
        /\ Head(toClient).t \in {"keyOk", "failure"} /\ UNCHANGED <<toServer, closed>>
    BY <1>3 DEF ConfirmKeyAck, Got, Taken
  <2>2. client'.pc = "query"
    BY <1>3, <1>f DEF ConfirmKeyAck, Fields
  <2> QED
    BY <1>n, <2>1, <2>2, TakenTurn
<1>4. CASE Sign
  <2>1. Composing /\ toClient' = toClient
    BY <1>4, <1>c DEF Sign
  <2>2. CASE Sends("signed", client.valid[client.i]) /\ client' = [client EXCEPT !.pc = "response"]
             /\ UNCHANGED closed
    <3>1. PICK k : k = client.valid[client.i]
      OBVIOUS
    <3>2. Sends("signed", k) /\ client'.pc = "response" /\ closed' = closed
      BY <1>r, <2>2, <3>1
    <3> QED
      BY <1>s, <2>1, <3>2
  <2>3. CASE FindNext(client.ms) /\ UNCHANGED toServer
    <3>1. PICK ms : ms = client.ms
      OBVIOUS
    <3>2. FindNext(ms)
      BY <2>3, <3>1 DEF FindNext
    <3>3. \/ client'.pc = "error" /\ closed' = TRUE
          \/ client'.pc = "begin" /\ closed' = closed
      BY <3>2, FindNextTurn
    <3> QED
      BY <1>g, <1>n, <2>1, <2>3, <3>3 DEF Composing
  <2> QED
    BY <1>4, <2>2, <2>3 DEF Sign
<1>5. CASE Success
  <2>1. /\ toClient # <<>> /\ toClient' = Tail(toClient) /\ client.pc = "response" /\ Got("success")
        /\ UNCHANGED <<toServer, closed>>
    BY <1>5 DEF Success, Got, Taken
  <2>2. client'.pc = "ok"
    BY <1>5, <1>r DEF Success
  <2>3. Agreed'
    BY <1>u, <2>1, <2>2, TakenTurn DEF Agreed
  <2> QED
    BY <2>3 DEF Turns
<1>6. CASE Failure
  <2>1. /\ toClient # <<>> /\ toClient' = Tail(toClient) /\ client.pc = "response" /\ Got("failure")
        /\ UNCHANGED toServer
    BY <1>6 DEF Failure, Got, Taken
  <2>2. toClient' = <<>> /\ toServer' = <<>> /\ ~closed /\ server.pc = "read"
    BY <2>1, TakenTurn
  <2>3. CASE client' = [client EXCEPT !.pc = "sign", !.i = @ + 1, !.ms = Head(toClient).arg]
             /\ UNCHANGED closed
    <3>1. client'.pc = "sign"
      BY <1>f, <2>3 DEF Fields
    <3> QED
      BY <1>n, <2>2, <2>3, <3>1
  <2>4. CASE FindNext(Head(toClient).arg)
    <3>1. PICK ms : ms = Head(toClient).arg
      OBVIOUS
    <3>2. FindNext(ms)
      BY <2>4, <3>1 DEF FindNext
    <3>3. \/ client'.pc = "error" /\ closed' = TRUE
          \/ client'.pc = "begin" /\ closed' = closed
      BY <3>2, FindNextTurn
    <3> QED
      BY <1>g, <1>n, <2>2, <3>3
  <2> QED
    BY <1>6, <2>3, <2>4 DEF Failure
<1>7. CASE Answer
  <2>1. toClient # <<>> /\ toClient' = Tail(toClient) /\ client.pc = "response" /\ Got("info")
    BY <1>7 DEF Answer, Got, Taken
  <2>2. toClient' = <<>> /\ toServer = <<>> /\ ~closed /\ server.pc = "kbd"
    BY <2>1, TakenTurn
  <2>3. CASE client' = [client EXCEPT !.pc = "error"] /\ closed' = TRUE /\ UNCHANGED toServer
    BY <1>g, <1>r, <2>2, <2>3
  <2>4. CASE Sends("answers", "") /\ UNCHANGED <<client, closed>>
    <3>1. ASSUME NEW e, Sends("answers", e)
          PROVE  toServer' = <<Msg("answers", e)>> /\ Msg("answers", e).t = "answers"
      BY <2>2, <3>1 DEF Sends, Msg
    <3>2. \E m : toServer' = <<m>> /\ m.t = "answers"
      BY <2>4, <3>1, Zenon
    <3>3. Requested'
      BY <1>u, <2>1, <2>2, <2>4, <3>2 DEF Requested
    <3> QED
      BY <3>3 DEF Turns
  <2> QED
    BY <1>7, <2>3, <2>4 DEF Answer
<1>8. CASE ClientCut
  <2>1. /\ client.pc \notin {"ok", "error"} /\ closed /\ client' = [client EXCEPT !.pc = "error"]
        /\ UNCHANGED <<toServer, toClient, closed>>
    BY <1>8 DEF ClientCut
  <2>2. CutOff
    BY <2>1 DEF Inv, Turns, Composing, Requested, Replied, Agreed, GaveUp
  <2>3. GaveUp'
    BY <1>r, <1>u, <2>1, <2>2 DEF CutOff, GaveUp
  <2> QED
    BY <2>3 DEF Turns
<1> QED
  BY <1>1, <1>2, <1>3, <1>4, <1>5, <1>6, <1>7, <1>8, <1>u DEF Client

-----------------------------------------------------------------------------
(* Client and server always agree on whether the client was let in, and    *)
(* the server ends up with the Permissions of the method that succeeded:   *)
(* clientAuthenticate and serverAuthenticate keep in step whatever methods *)
(* and keys they have and whatever their callbacks answer.                 *)
THEOREM OutcomesAgree == Spec => []SameOutcome
<1>1. Init => Inv
  <2> SUFFICES ASSUME Init PROVE Inv
    OBVIOUS
  <2>1. Fields
    <3>1. \E S : server.cache \in Seq(S)
      BY EmptySeq DEF Init
    <3>2. /\ client = [pc |-> client.pc, cur |-> client.cur, last |-> client.last,
                       ms |-> client.ms, i |-> client.i, valid |-> client.valid]
          /\ server = [pc |-> server.pc, cache |-> server.cache, perms |-> server.perms,
                       by |-> server.by, calls |-> server.calls]
      BY DEF Init
    <3> QED
      BY <3>1, <3>2 DEF Fields
  <2>2. Composing
    BY DEF Init, Composing
  <2>3. CacheTrue /\ PermsTrue
    <3>1. server.cache = <<>> /\ server.pc = "read"
      BY DEF Init
    <3>2. DOMAIN server.cache = {}
      BY <3>1
    <3> QED
      BY <3>1, <3>2 DEF CacheTrue, PermsTrue
  <2> QED
    BY <2>1, <2>2, <2>3 DEF Inv, Turns
<1>2. Inv /\ [Next]_vars => Inv'
  <2>1. ASSUME Inv, UNCHANGED vars PROVE Inv'
    BY <2>1 DEF vars, Inv, Fields, Turns, Composing, Requested, Replied, CutOff, Agreed, GaveUp,
                CacheTrue, PermsTrue
  <2> QED
    BY <2>1, ClientInv, ServerInv DEF Next
<1>3. Inv => SameOutcome
  <2> SUFFICES ASSUME Inv PROVE SameOutcome
    OBVIOUS
  <2>1. client.pc = "ok" => server.pc = "ok"
    BY DEF Inv, Turns, Composing, Requested, Replied, CutOff, Agreed, GaveUp
  <2>2. server.pc = "ok" => client.pc = "ok" \/ (client.pc = "response" /\ Got("success"))
    <3>1. server.pc = "ok" => Agreed \/ Replied
      BY DEF Inv, Turns, Composing, Requested, CutOff, GaveUp
    <3>2. Replied /\ server.pc = "ok" => client.pc = "response" /\ Got("success")
      BY DEF Replied, Got
    <3> QED
      BY <3>1, <3>2 DEF Agreed
  <2>3. PermsTrue
    BY DEF Inv
  <2> QED
    BY <2>1, <2>2, <2>3 DEF SameOutcome, PermsTrue
<1> QED
  BY <1>1, <1>2, <1>3, PTL DEF Spec

=============================================================================
