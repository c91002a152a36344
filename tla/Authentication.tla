--------------------------- MODULE Authentication ---------------------------
(***************************************************************************)
(* User authentication between a client of the library (client_auth.go)    *)
(* and a server of the library (server.go, serverAuthenticate).  The       *)
(* callbacks of both applications are chosen at the start: which methods   *)
(* are configured, which keys and passwords are right.                     *)
(***************************************************************************)
EXTENDS Naturals, Sequences, SequencesExt

CONSTANTS
    AuthLists,     \* the lists of methods a ClientConfig may have
    Signers,       \* the client's keys, in order
    CacheCap,      \* maxCachedPubKeys (16)
    MaxRounds      \* bound: challenges of one keyboard-interactive attempt

Methods == {"password", "publickey", "keyboard-interactive"}
(* The order in which the server lists the methods it has.                 *)
MethodOrder == <<"password", "publickey", "keyboard-interactive">>

ASSUME AuthenticationAssumption ==
    /\ \A l \in AuthLists : ToSet(l) \subseteq Methods
    /\ CacheCap \in Nat /\ MaxRounds \in Nat \ {0}

VARIABLES
    conf,      \* auth: config.Auth; offers: methods the server has; accepted: keys;
               \* right: password and answers that are right; noAuth: NoClientAuth;
               \* abort: a callback of the client fails
    client,    \* clientAuthenticate
    server,    \* serverAuthenticate
    toServer, toClient,   \* packets under way
    attempts,  \* the methods the client has tried, in order
    closed     \* an end has closed the connection

vars == <<conf, client, server, toServer, toClient, attempts, closed>>

Configs == [auth : AuthLists, offers : SUBSET Methods, accepted : SUBSET ToSet(Signers),
            right : SUBSET {"password", "keyboard-interactive"}, noAuth : BOOLEAN, abort : BOOLEAN]

Init ==
    /\ conf \in Configs
    /\ client = [pc |-> "begin", cur |-> "none", last |-> <<>>, ms |-> <<>>, i |-> 1, valid |-> <<>>]
    /\ server = [pc |-> "read", cache |-> <<>>, perms |-> "nil", by |-> "", calls |-> 0]
    /\ toServer = <<>> /\ toClient = <<>> /\ attempts = <<>> /\ closed = FALSE

Msg(t, arg) == [t |-> t, arg |-> arg]

-----------------------------------------------------------------------------
(* The client.                                                             *)

Sends(t, arg) == toServer' = Append(toServer, Msg(t, arg))
Got(t) == toClient # <<>> /\ Head(toClient).t = t
Taken == toClient' = Tail(toClient)

(* auth.auth begins: noneAuth, passwordCallback, KeyboardInteractive, or   *)
(* publicKeyCallback, which first asks about each key.                     *)
Begin ==
    /\ client.pc = "begin" /\ ~closed
    /\ attempts' = Append(attempts, client.cur)
    /\ \/ /\ client.cur \in {"none", "keyboard-interactive"} \/ (client.cur = "password" /\ ~conf.abort)
          /\ Sends(client.cur, "")
          /\ client' = [client EXCEPT !.pc = "response"]
          /\ UNCHANGED closed
       \/ /\ client.cur = "publickey"
          /\ client' = [client EXCEPT !.pc = "query", !.i = 1, !.valid = <<>>]
          /\ UNCHANGED <<toServer, closed>>
       \/ /\ client.cur = "password" /\ conf.abort
          /\ client' = [client EXCEPT !.pc = "error"] /\ closed' = TRUE
          /\ UNCHANGED toServer
    /\ UNCHANGED <<conf, server, toClient>>

(* validateKey *)
Query ==
    /\ client.pc = "query" /\ ~closed
    /\ IF client.i <= Len(Signers)
       THEN Sends("query", Signers[client.i]) /\ client' = [client EXCEPT !.pc = "ack"]
       ELSE client' = [client EXCEPT !.pc = "sign", !.i = 1, !.ms = <<>>] /\ UNCHANGED toServer
    /\ UNCHANGED <<conf, server, toClient, attempts, closed>>

Validated == Head(toClient).t = "keyOk"

(* confirmKeyAck: the key is valid, or a failure, whose methods are not    *)
(* looked at.                                                              *)
ConfirmKeyAck ==
    /\ client.pc = "ack" /\ (Got("keyOk") \/ Got("failure"))
    /\ client' = [client EXCEPT !.pc = "query", !.i = @ + 1,
                                !.valid = IF Validated THEN Append(@, Signers[client.i]) ELSE @]
    /\ Taken
    /\ UNCHANGED <<conf, server, toServer, attempts, closed>>

(* findNext: config.Auth without what was tried and what the server lacks. *)
Candidates(ms) ==
    SelectSeq(conf.auth, LAMBDA a : a \in ToSet(ms) /\ a \notin ToSet(attempts))

(* Mutant: no error when nothing is left to try.                           *)
FindNext_NoError(ms) ==
    LET now == IF ms = <<>> THEN client.last ELSE ms IN
    IF Candidates(now) = <<>>
    THEN client' = [client EXCEPT !.pc = "ok", !.last = now] /\ UNCHANGED closed
    ELSE client' = [client EXCEPT !.pc = "begin", !.last = now, !.cur = Candidates(now)[1]] /\ UNCHANGED closed

(* Mutant: nil is an empty list.                                           *)
FindNext_Nil(ms) ==
    IF Candidates(ms) = <<>>
    THEN client' = [client EXCEPT !.pc = "error", !.last = ms] /\ closed' = TRUE
    ELSE client' = [client EXCEPT !.pc = "begin", !.last = ms, !.cur = Candidates(ms)[1]] /\ UNCHANGED closed

(* The end of a round of clientAuthenticate's loop; ms is the list that    *)
(* auth returned, nil standing for the previous one.                       *)
FindNext(ms) ==
    LET now == IF ms = <<>> THEN client.last ELSE ms IN
    IF Candidates(now) = <<>>
    THEN client' = [client EXCEPT !.pc = "error", !.last = now] /\ closed' = TRUE
    ELSE client' = [client EXCEPT !.pc = "begin", !.last = now, !.cur = Candidates(now)[1]] /\ UNCHANGED closed

(* The second stage: sign with each valid key, until one is accepted.      *)
Sign ==
    /\ client.pc = "sign" /\ ~closed
    /\ IF client.i <= Len(client.valid)
       THEN Sends("signed", client.valid[client.i]) /\ client' = [client EXCEPT !.pc = "response"]
            /\ UNCHANGED closed
       ELSE FindNext(client.ms) /\ UNCHANGED toServer
    /\ UNCHANGED <<conf, server, toClient, attempts>>

(* handleAuthResponse *)
Success ==
    /\ client.pc = "response" /\ Got("success")
    /\ client' = [client EXCEPT !.pc = "ok"]
    /\ Taken
    /\ UNCHANGED <<conf, server, toServer, attempts, closed>>

Failure ==
    /\ client.pc = "response" /\ Got("failure")
    /\ IF client.cur = "publickey"
       THEN /\ client' = [client EXCEPT !.pc = "sign", !.i = @ + 1, !.ms = Head(toClient).arg]
            /\ UNCHANGED closed
       ELSE FindNext(Head(toClient).arg)
    /\ Taken
    /\ UNCHANGED <<conf, server, toServer, attempts>>

(* KeyboardInteractiveChallenge.auth: the answers, or the callback fails.  *)
Answer ==
    /\ client.pc = "response" /\ Got("info") /\ ~closed
    /\ IF conf.abort
       THEN client' = [client EXCEPT !.pc = "error"] /\ closed' = TRUE /\ UNCHANGED toServer
       ELSE Sends("answers", "") /\ UNCHANGED <<client, closed>>
    /\ Taken
    /\ UNCHANGED <<conf, server, attempts>>

(* readPacket fails.                                                       *)
ClientCut ==
    /\ client.pc \notin {"ok", "error"} /\ closed /\ toClient = <<>>
    /\ client' = [client EXCEPT !.pc = "error"]
    /\ UNCHANGED <<conf, server, toServer, toClient, attempts, closed>>

Client == Begin \/ Query \/ ConfirmKeyAck \/ Sign \/ Success \/ Failure \/ Answer \/ ClientCut

-----------------------------------------------------------------------------
(* The server.                                                             *)

Asked(t) == server.pc = "read" /\ toServer # <<>> /\ Head(toServer).t = t
Key == Head(toServer).arg

(* The methods of a failure: all that the server has, in its order.        *)
CanContinue == SelectSeq(MethodOrder, LAMBDA m : m \in conf.offers)

(* The end of a round: success, or the methods that can continue.  s is    *)
(* the server so far, method the one just tried.                           *)
Answers(s, method, ok) ==
    IF ok
    THEN /\ toClient' = Append(toClient, Msg("success", <<>>))
         /\ server' = [s EXCEPT !.pc = "ok", !.by = method]
         /\ UNCHANGED closed
    ELSE IF conf.offers = {}
    THEN server' = [s EXCEPT !.pc = "error"] /\ closed' = TRUE /\ UNCHANGED toClient
    ELSE /\ toClient' = Append(toClient, Msg("failure", CanContinue))
         /\ server' = [s EXCEPT !.pc = "read"]
         /\ UNCHANGED closed

NewRound == [server EXCEPT !.perms = "nil"]

None ==
    /\ Asked("none")
    /\ toServer' = Tail(toServer)
    /\ Answers(NewRound, "none", conf.noAuth)
    /\ UNCHANGED <<conf, client, attempts>>

(* A password callback may return Permissions along with an error.         *)
Password ==
    /\ Asked("password")
    /\ toServer' = Tail(toServer)
    /\ IF "password" \in conf.offers
       THEN Answers([NewRound EXCEPT !.perms = "password"], "password", "password" \in conf.right)
       ELSE Answers(NewRound, "password", FALSE)
    /\ UNCHANGED <<conf, client, attempts>>

(* Challenges, after each of which the callback decides or goes on.        *)
Challenge(left) ==
    /\ toClient' = Append(toClient, Msg("info", <<>>))
    /\ server' = [NewRound EXCEPT !.pc = "kbd", !.calls = left]
    /\ UNCHANGED closed

KeyboardInteractive ==
    /\ Asked("keyboard-interactive")
    /\ toServer' = Tail(toServer)
    /\ IF "keyboard-interactive" \in conf.offers THEN Challenge(MaxRounds)
       ELSE Answers(NewRound, "keyboard-interactive", FALSE)
    /\ UNCHANGED <<conf, client, attempts>>

Answered ==
    /\ server.pc = "kbd" /\ toServer # <<>>
    /\ toServer' = Tail(toServer)
    /\ \/ server.calls > 1 /\ Challenge(server.calls - 1)
       \/ Answers(server, "keyboard-interactive", "keyboard-interactive" \in conf.right)
    /\ UNCHANGED <<conf, client, attempts>>

(* pubKeyCache.get, which has at most one entry for a key.                 *)
Cached(k) == \E i \in DOMAIN server.cache : server.cache[i][1] = k
Hit(k) == CHOOSE i \in DOMAIN server.cache : server.cache[i][1] = k

(* The result that is cached, or that of the callback.                     *)
Accepts(k) == IF Cached(k) THEN server.cache[Hit(k)][2] ELSE k \in conf.accepted

(* pubKeyCache.add, if the callback was called and there is room.          *)
AfterLookup(k) ==
    IF Cached(k) \/ Len(server.cache) >= CacheCap THEN NewRound
    ELSE [NewRound EXCEPT !.cache = Append(@, <<k, k \in conf.accepted>>)]

QueryKey ==
    /\ Asked("query")
    /\ toServer' = Tail(toServer)
    /\ IF "publickey" \in conf.offers /\ Accepts(Key)
       THEN /\ toClient' = Append(toClient, Msg("keyOk", <<Key>>))
            /\ server' = AfterLookup(Key)
            /\ UNCHANGED closed
       ELSE Answers(IF "publickey" \in conf.offers THEN AfterLookup(Key) ELSE NewRound, "publickey", FALSE)
    /\ UNCHANGED <<conf, client, attempts>>

(* The signature is the client's, over this session: Verify succeeds.      *)
SignedKey ==
    /\ Asked("signed")
    /\ toServer' = Tail(toServer)
    /\ IF "publickey" \in conf.offers
       THEN Answers([AfterLookup(Key) EXCEPT !.perms = Key], "publickey", Accepts(Key))
       ELSE Answers(NewRound, "publickey", FALSE)
    /\ UNCHANGED <<conf, client, attempts>>

ServerCut ==
    /\ server.pc \in {"read", "kbd"} /\ closed /\ toServer = <<>>
    /\ server' = [server EXCEPT !.pc = "error"]
    /\ UNCHANGED <<conf, client, toServer, toClient, attempts, closed>>

Server == None \/ Password \/ KeyboardInteractive \/ Answered \/ QueryKey \/ SignedKey \/ ServerCut

Next == Client \/ Server

Spec == Init /\ [][Next]_vars
FairSpec == Spec /\ WF_vars(Client) /\ WF_vars(Server)

-----------------------------------------------------------------------------
(* The two ends never differ on the outcome: a client that goes on has     *)
(* been let in, and a server lets in nobody who then gives up.  The        *)
(* Permissions that the server then keeps are those of the attempt that    *)
(* succeeded, and nothing is left of those that failed before it.          *)
SameOutcome ==
    /\ client.pc = "ok" => server.pc = "ok"
    /\ server.pc = "ok" => client.pc = "ok" \/ (client.pc = "response" /\ Got("success"))
    /\ server.pc = "ok" =>
           CASE server.by = "publickey" -> server.perms \in conf.accepted
             [] server.by = "password" -> server.perms = "password"
             [] OTHER -> server.perms = "nil"

Acceptable(m) ==
    /\ m \in conf.offers /\ m \in ToSet(conf.auth)
    /\ IF m = "publickey" THEN conf.accepted # {} ELSE m \in conf.right

(* If any method the client has would be accepted, the client gets in,     *)
(* whatever else it tries first; if none, it gives up.  A callback of its  *)
(* own that fails ends the attempt.                                        *)
FindsAWay ==
    ~conf.abort => IF conf.noAuth \/ \E m \in Methods : Acceptable(m)
                   THEN <>(client.pc = "ok") ELSE <>(client.pc = "error" /\ server.pc = "error")

=============================================================================
