------------------------------- MODULE Agent --------------------------------
(***************************************************************************)
(* The ssh-agent of agent/: goroutines that share one client per           *)
(* connection (client.go), a ServeAgent loop at the other end of each      *)
(* connection (server.go), and the keyring that all the loops share        *)
(* (keyring.go), which its owner also fills directly.                      *)
(*                                                                         *)
(* A request is a record, its encoding left out; a reply carries the       *)
(* request it answers, which the wire does not: only the properties read   *)
(* that field.  Every reply of ServeAgent is below the size limits.        *)
(***************************************************************************)
EXTENDS Naturals, Sequences, SequencesExt

CONSTANTS
    Keys,       \* public keys
    Kind,       \* Kind[k]: "rsa", "multiprime" (RSA with more than two primes), "dsa" (or ECDSA),
                \* "cert", or "othercert" (a certificate of another key)
    Passes,     \* passphrases
    Users,      \* goroutines that use a client
    Conns,      \* connections, each with its client and its ServeAgent loop
    ConnOf,     \* ConnOf[u]: the connection of user u
    Ops,        \* the operations that users call
    MaxCalls,   \* bound: calls of users
    MaxKeys,    \* bound: keys that the owner adds to the keyring
    CanBreak    \* connections may fail

None == "none"

ASSUME AgentAssumption ==
    /\ Kind \in [Keys -> {"rsa", "multiprime", "dsa", "cert", "othercert"}] /\ ConnOf \in [Users -> Conns]
    /\ None \notin Users /\ MaxCalls \in Nat /\ MaxKeys \in Nat /\ CanBreak \in BOOLEAN

VARIABLES
    keys, locked, passphrase,   \* keyring
    looping,    \* Remove of the keyring runs for ever
    mu,         \* mu[c]: the user that holds the client's mutex, or None
    u,          \* u[x]: pc, the request, the result of the last call
    up, down,   \* requests and replies on each connection
    broken,     \* the connections that have failed
    calls,
    sealed,     \* Lock has returned, and no Unlock has been called since Lock was
    since       \* since[x]: the call of x has run "sealed", "quiet" (beside no Unlock), or neither

vars == <<keys, locked, passphrase, looping, mu, u, up, down, broken, calls, sealed, since>>
keyring == <<keys, locked, passphrase, looping>>
history == <<sealed, since>>

(* List and Signers of the client are one request; so are the three kinds  *)
(* of Add.                                                                 *)
Requests ==
    UNION { {[op |-> o, arg |-> k] : k \in Keys} : o \in Ops \cap {"Add", "Remove", "Sign"} }
    \cup UNION { {[op |-> o, arg |-> p] : p \in Passes} : o \in Ops \cap {"Lock", "Unlock"} }
    \cup {[op |-> o, arg |-> None] : o \in Ops \cap {"List", "RemoveAll"}}

NoRequest == [op |-> None, arg |-> None]
Reply(t, req) == [t |-> t, to |-> req, list |-> <<>>]

Init ==
    /\ keys = <<>> /\ locked = FALSE /\ passphrase = None /\ looping = FALSE
    /\ mu = [c \in Conns |-> None]
    /\ u = [x \in Users |-> [pc |-> "idle", req |-> NoRequest, res |-> None]]
    /\ up = [c \in Conns |-> <<>>] /\ down = [c \in Conns |-> <<>>]
    /\ broken = {} /\ calls = 0
    /\ sealed = FALSE /\ since = [x \in Users |-> "no"]

-----------------------------------------------------------------------------
(* client.go                                                               *)

(* What insertKey and insertCert refuse before any call.                   *)
insertKey(k) == Kind[k] # "multiprime"
insertCert(k) == Kind[k] # "othercert"

Unlocking == \E y \in Users : u[y].pc # "idle" /\ u[y].req.op = "Unlock"

(* A user calls a method; the call waits for the client's mutex.           *)
Call(x, req) ==
    /\ u[x].pc = "idle" /\ calls < MaxCalls
    /\ u' = [u EXCEPT ![x] =
                IF req.op = "Add" /\ ~(insertKey(req.arg) /\ insertCert(req.arg))
                THEN [pc |-> "idle", req |-> req, res |-> "error"]
                ELSE [pc |-> "lock", req |-> req, res |-> None]]
    /\ calls' = calls + 1
    /\ sealed' = (sealed /\ req.op # "Unlock")
    /\ since' = IF req.op = "Unlock" THEN [y \in Users |-> "no"]
                ELSE [since EXCEPT ![x] = IF sealed THEN "sealed" ELSE IF Unlocking THEN "no" ELSE "quiet"]
    /\ UNCHANGED <<keyring, mu, up, down, broken>>

(* Mutant: call does not take the mutex.                                   *)
Write_NoLock(x) ==
    LET c == ConnOf[x] IN
    /\ u[x].pc = "lock" /\ c \notin broken
    /\ u' = [u EXCEPT ![x].pc = "read"]
    /\ up' = [up EXCEPT ![c] = Append(@, u[x].req)]
    /\ UNCHANGED <<keyring, mu, down, broken, calls, history>>

(* call: the mutex is taken and the request written, or the write fails.   *)
Write(x) ==
    LET c == ConnOf[x] IN
    /\ u[x].pc = "lock" /\ mu[c] = None
    /\ IF c \in broken
       THEN u' = [u EXCEPT ![x].pc = "idle", ![x].res = "error"] /\ UNCHANGED <<mu, up>>
       ELSE /\ u' = [u EXCEPT ![x].pc = "read"]
            /\ mu' = [mu EXCEPT ![c] = x]
            /\ up' = [up EXCEPT ![c] = Append(@, u[x].req)]
    /\ UNCHANGED <<keyring, down, broken, calls, history>>

(* What the methods make of a reply: simpleCall, List and Sign.  A reply   *)
(* that List or Sign does not know makes them panic.                       *)
Result(op, reply) ==
    IF reply.t = "failure" THEN "error"
    ELSE IF op \in {"List", "Sign"} THEN IF reply.t = op THEN "ok" ELSE "panic"
    ELSE IF reply.t = "success" THEN "ok" ELSE "error"

(* Mutant: the mutex stays locked when the reply cannot be read.           *)
Read_Leak(x) ==
    LET c == ConnOf[x] IN
    /\ u[x].pc = "read"
    /\ IF down[c] # <<>>
       THEN /\ down' = [down EXCEPT ![c] = Tail(@)]
            /\ u' = [u EXCEPT ![x].pc = "idle", ![x].res = Result(u[x].req.op, Head(down[c]))]
            /\ mu' = [mu EXCEPT ![c] = None]
       ELSE /\ c \in broken
            /\ u' = [u EXCEPT ![x].pc = "idle", ![x].res = "error"] /\ UNCHANGED <<down, mu>>
    /\ UNCHANGED <<keyring, up, broken, calls, history>>

(* call: the reply is read, or the connection is found broken, and the     *)
(* mutex is unlocked.                                                      *)
Read(x) ==
    LET c == ConnOf[x] IN
    /\ u[x].pc = "read"
    /\ IF down[c] # <<>>
       THEN /\ down' = [down EXCEPT ![c] = Tail(@)]
            /\ u' = [u EXCEPT ![x].pc = "idle", ![x].res = Result(u[x].req.op, Head(down[c]))]
            /\ sealed' = (sealed \/ (/\ u[x].req.op = "Lock" /\ Head(down[c]).t = "success"
                                     /\ since[x] = "quiet"))
       ELSE /\ c \in broken
            /\ u' = [u EXCEPT ![x].pc = "idle", ![x].res = "error"] /\ UNCHANGED <<down, sealed>>
    /\ mu' = [mu EXCEPT ![c] = IF @ = x THEN None ELSE @]
    /\ UNCHANGED <<keyring, up, broken, calls, since>>

-----------------------------------------------------------------------------
(* keyring.go, under its mutex: what each method returns and leaves.       *)

(* Mutant: the keyring signs while it is locked.                           *)
Allowed_Locked(req) ==
    IF req.op = "Unlock" THEN locked /\ req.arg = passphrase ELSE ~locked \/ req.op = "Sign"

(* The methods that refuse: all but Unlock when locked, Unlock without the *)
(* right passphrase.  List gives no keys instead.                          *)
Allowed(req) == IF req.op = "Unlock" THEN locked /\ req.arg = passphrase ELSE ~locked

(* Remove as it is written.  A match is overwritten by the last key, and   *)
(* of the slice only that last key is kept; the index stays.               *)
FirstMatch(k) == CHOOSE i \in DOMAIN keys : keys[i] = k /\ \A j \in 1..(i - 1) : keys[j] # k
AfterRemove == <<Last(keys)>>
RemoveLoops(k) == k \in Range(keys) /\ FirstMatch(k) = 1 /\ Last(keys) = k

(* The server adds RSA keys, and no other kind.                            *)
insertIdentity(k) == Kind[k] = "rsa"

(* processRequest and processRequestBytes: one request, one reply.         *)
Answer(req) ==
    LET r(t) == Reply(t, req) IN
    CASE req.op = "List" -> [r("List") EXCEPT !.list = IF locked THEN <<>> ELSE keys]
      [] req.op # "List" /\ ~Allowed(req) -> r("failure")
      [] req.op = "Sign" /\ Allowed(req) ->
            IF req.arg \in Range(keys) THEN r("Sign") ELSE r("failure")
      [] req.op = "Remove" /\ Allowed(req) ->
            IF req.arg \in Range(keys) THEN r("success") ELSE r("failure")
      [] req.op = "Add" /\ Allowed(req) -> IF insertIdentity(req.arg) THEN r("success") ELSE r("failure")
      [] OTHER -> r("success")

Effect(req) ==
    /\ keys' = CASE ~Allowed(req) -> keys
                 [] req.op = "Add" /\ insertIdentity(req.arg) /\ Allowed(req) -> Append(keys, req.arg)
                 [] req.op = "Remove" /\ req.arg \in Range(keys) /\ Allowed(req) -> AfterRemove
                 [] req.op = "RemoveAll" /\ Allowed(req) -> <<>>
                 [] OTHER -> keys
    /\ locked' = IF Allowed(req) /\ req.op \in {"Lock", "Unlock"} THEN req.op = "Lock" ELSE locked
    /\ passphrase' = CASE Allowed(req) /\ req.op = "Lock" -> req.arg
                       [] Allowed(req) /\ req.op = "Unlock" -> None
                       [] OTHER -> passphrase

(* One turn of ServeAgent.  Remove may not come back, with the keyring's   *)
(* mutex held.                                                             *)
Serve(c) ==
    /\ up[c] # <<>> /\ ~looping
    /\ LET req == Head(up[c]) IN
       /\ up' = [up EXCEPT ![c] = Tail(@)]
       /\ IF req.op = "Remove" /\ Allowed(req) /\ RemoveLoops(req.arg)
          THEN looping' = TRUE /\ keys' = AfterRemove /\ UNCHANGED <<locked, passphrase, down>>
          ELSE /\ Effect(req) /\ UNCHANGED looping
               /\ down' = IF c \in broken THEN down ELSE [down EXCEPT ![c] = Append(@, Answer(req))]
    /\ UNCHANGED <<mu, u, broken, calls, history>>

(* The owner adds a key directly; NewCertSigner refuses a certificate of   *)
(* another key.                                                            *)
OwnerAdd(k) ==
    /\ ~looping /\ ~locked /\ Len(keys) < MaxKeys /\ Kind[k] # "othercert"
    /\ keys' = Append(keys, k)
    /\ UNCHANGED <<locked, passphrase, looping, mu, u, up, down, broken, calls, history>>

Break(c) ==
    /\ CanBreak /\ c \notin broken /\ broken' = broken \cup {c}
    /\ up' = [up EXCEPT ![c] = <<>>] /\ down' = [down EXCEPT ![c] = <<>>]
    /\ UNCHANGED <<keyring, mu, u, calls, history>>

Next ==
    \/ \E x \in Users : (\E req \in Requests : Call(x, req)) \/ Write(x) \/ Read(x)
    \/ \E c \in Conns : Serve(c) \/ Break(c)
    \/ \E k \in Keys : OwnerAdd(k)

Spec == Init /\ [][Next]_vars

(* Goroutines and loops run on.                                            *)
FairSpec ==
    /\ Spec
    /\ \A x \in Users : WF_vars(Write(x)) /\ WF_vars(Read(x))
    /\ \A c \in Conns : WF_vars(Serve(c))

-----------------------------------------------------------------------------

(* The reply that a call is about to read answers that call's request: the *)
(* wire has no request numbers, and the client's mutex alone keeps two     *)
(* goroutines from reading each other's replies, or List from a panic on   *)
(* an answer to another's Lock.                                            *)
OwnReply ==
    \A x \in Users :
        /\ (u[x].pc = "read" /\ down[ConnOf[x]] # <<>>) => Head(down[ConnOf[x]]).to = u[x].req
        /\ u[x].res # "panic"

(* "Lock locks the agent. Sign and Remove will fail, and List will empty   *)
(* an empty list" (client.go 49): no call that began after Lock returned,  *)
(* on any connection, signs, removes or lists a key before Unlock is       *)
(* called.                                                                 *)
Sealed ==
    \A x \in Users : (since[x] = "sealed" /\ u[x].pc = "read" /\ down[ConnOf[x]] # <<>>) =>
        LET reply == Head(down[ConnOf[x]]) IN
        reply.t = "failure" \/ (reply.t = "List" /\ reply.list = <<>>)

(* Every call returns, unless the keyring loops in Remove: a broken        *)
(* connection fails the call and those that wait for the mutex behind it.  *)
CallsReturn == \A x \in Users : u[x].pc # "idle" ~> (u[x].pc = "idle" \/ looping)

=============================================================================
