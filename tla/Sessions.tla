------------------------------ MODULE Sessions ------------------------------
(***************************************************************************)
(* The whole server: main() loads the blacklist and starts listening, then *)
(* every accepted connection is a goroutine that authenticates its client, *)
(* collecting in sessions.keys each public key the client offers, and then *)
(* serves it.  The connections share the map sessions.keys, guarded by     *)
(* sessions.mu.  What serve() does with its channels is module Serve; here *)
(* it is the step that writes the table of keys.                           *)
(*                                                                         *)
(* A connection goroutine is at (pc)                                       *)
(*   "idle"      not accepted yet                                          *)
(*   "kex"       in serverHandshake, before authentication                 *)
(*   "auth"      in serverAuthenticate, waiting for a request              *)
(*   "cbLock"    in publicKeyCallback, at sessions.mu.Lock()               *)
(*   "cbMap"     there, between Lock and Unlock                            *)
(*   "rdLock"    in serve, at sessions.mu.RLock()                          *)
(*   "rdMap"     there, between RLock and RUnlock                          *)
(*   "serving"   in the loop over the channels                             *)
(*   "delLock"   in the deferred function, at sessions.mu.Lock()           *)
(*   "delMap"    there, between Lock and Unlock                            *)
(*   "done"      returned; "failed" returned because the handshake failed  *)
(***************************************************************************)
EXTENDS Naturals, Sequences, FiniteSets, KeyCheck

CONSTANTS
    Conn,         \* connections
    User,         \* user names a client may give
    Key,          \* keys a client may offer
    Directories,  \* what the blacklist directory may hold: sequences of files
    MaxCached,    \* maxCachedPubKeys (16)
    MaxOffers     \* bound: publickey requests on one connection

ASSUME KeyAssumption == \A k \in Key : k.algo \in Algos /\ k.bits \in Nat
ASSUME CacheAssumption == MaxCached \in Nat /\ MaxOffers \in Nat
ASSUME DirectoryAssumption ==
    \A d \in Directories :
        /\ d \in Seq({d[i] : i \in DOMAIN d})
        /\ \A i \in DOMAIN d :
               /\ d[i].isDir \in BOOLEAN
               /\ \A l \in d[i].lines : l = Line(l.text, l.spaced) /\ l.spaced \in BOOLEAN

VARIABLES
    main,       \* main(): "load", "hostkey", "listen", "accept", "fatal"
    files,      \* the files of the blacklist directory
    unread,     \* those that loadBlacklistedKeys has still to read
    blacklist,  \* the map, as the set of its keys
    pc,
    writers, readers,  \* who holds sessions.mu, and how
    sessionKeys,       \* sessions.keys; <<>> where it has no entry
    offered,    \* per connection, the <<user, key>> the client offered, in order
    cache,      \* per connection, the pubKeyCache
    keys,       \* per connection, the keys that serve() read
    shown       \* per connection, the table that serve() wrote

mainVars == <<main, files, unread, blacklist>>
muVars == <<writers, readers>>
vars == <<mainVars, pc, muVars, sessionKeys, offered, cache, keys, shown>>

(* Mutant: connections with the same session ID.                           *)
SessionID_Shared(c) == CHOOSE d \in Conn : TRUE

(* conn.SessionID(): the hash of the first key exchange, different for     *)
(* every connection.                                                       *)
SessionID(c) == c

Init ==
    /\ main = "load" /\ files \in Directories /\ unread = files /\ blacklist = {}
    /\ pc = [c \in Conn |-> "idle"]
    /\ writers = {} /\ readers = {}
    /\ sessionKeys = [c \in Conn |-> <<>>]
    /\ offered = [c \in Conn |-> <<>>]
    /\ cache = [c \in Conn |-> {}]
    /\ keys = [c \in Conn |-> <<>>]
    /\ shown = [c \in Conn |-> <<>>]

-----------------------------------------------------------------------------
(* main() and loadBlacklistedKeys().                                       *)

MainStep(from, to) == main = from /\ main' = to

connVars == <<pc, muVars, sessionKeys, offered, cache, keys, shown>>

(* A file is read to its end.                                              *)
LoadFile ==
    /\ MainStep("load", "load")
    /\ unread # <<>> /\ ~Head(unread).isDir
    /\ blacklist' = blacklist \cup ScanLines(Head(unread).lines)
    /\ unread' = Tail(unread)
    /\ UNCHANGED <<files, connVars>>

(* Mutant: a file that cannot be read is skipped.                          *)
LoadFails_Skipped ==
    /\ MainStep("load", "load")
    /\ unread # <<>>
    /\ unread' = Tail(unread)
    /\ UNCHANGED <<files, blacklist, connVars>>

(* log.Fatal: the directory, or a file in it, cannot be opened or is a     *)
(* directory, or reading it fails after some of its lines.                 *)
LoadFails ==
    /\ MainStep("load", "fatal")
    /\ \/ UNCHANGED blacklist
       \/ /\ unread # <<>> /\ ~Head(unread).isDir
          /\ \E lines \in SUBSET Head(unread).lines :
                 blacklist' = blacklist \cup ScanLines(lines)
    /\ UNCHANGED <<files, unread, connVars>>

Loaded ==
    /\ MainStep("load", "hostkey") /\ unread = <<>>
    /\ UNCHANGED <<files, unread, blacklist, connVars>>

(* ssh.ParsePrivateKey and net.Listen: each succeeds or ends the process.  *)
ParsePrivateKey ==
    /\ \E to \in {"listen", "fatal"} : MainStep("hostkey", to)
    /\ UNCHANGED <<files, unread, blacklist, connVars>>

Listen ==
    /\ \E to \in {"accept", "fatal"} : MainStep("listen", to)
    /\ UNCHANGED <<files, unread, blacklist, connVars>>

(* listener.Accept(), and go serve(config, conn).  An error of Accept is   *)
(* logged and changes nothing.                                             *)
AcceptConn(c) ==
    /\ main = "accept" /\ pc[c] = "idle"
    /\ pc' = [pc EXCEPT ![c] = "kex"]
    /\ UNCHANGED <<mainVars, muVars, sessionKeys, offered, cache, keys, shown>>

Main == LoadFile \/ LoadFails \/ Loaded \/ ParsePrivateKey \/ Listen

-----------------------------------------------------------------------------
(* sessions.mu, a sync.RWMutex.                                            *)

Lock(c) == /\ writers = {} /\ readers = {}
           /\ writers' = {c} /\ UNCHANGED readers

Unlock(c) == writers' = writers \ {c} /\ UNCHANGED readers

(* Mutant: a reader does not wait for a writer.                            *)
RLock_NoWait(c) == readers' = readers \cup {c} /\ UNCHANGED writers

RLock(c) == /\ writers = {}
            /\ readers' = readers \cup {c} /\ UNCHANGED writers

(* Mutant: RUnlock is forgotten.                                           *)
RUnlock_Forgotten(c) == UNCHANGED muVars

RUnlock(c) == readers' = readers \ {c} /\ UNCHANGED writers

-----------------------------------------------------------------------------
(* ssh.NewServerConn: key exchange, then serverAuthenticate.               *)

Go(c, from, to) == pc[c] = from /\ pc' = [pc EXCEPT ![c] = to]

KexDone(c) ==
    /\ Go(c, "kex", "auth")
    /\ UNCHANGED <<mainVars, muVars, sessionKeys, offered, cache, keys, shown>>

(* The handshake fails: the connection breaks, or the client sends what    *)
(* does not parse, asks for another service or signs wrongly.  serve       *)
(* returns before it has deferred the removal of the entry.                *)
HandshakeFails(c) ==
    /\ Go(c, "kex", "failed") \/ Go(c, "auth", "failed")
    /\ UNCHANGED <<mainVars, muVars, sessionKeys, offered, cache, keys, shown>>

(* cache.get: the same user and key were offered before and kept.          *)
get(c, o) == o \in cache[c]

Offer(c, o) ==
    /\ Len(offered[c]) < MaxOffers
    /\ offered' = [offered EXCEPT ![c] = Append(@, o)]

(* A publickey request that the library refuses by itself: the algorithm   *)
(* is not acceptable, or the same user and key are in the cache.  The      *)
(* "none" method, a password and an unknown method are refused too and     *)
(* change nothing at all.                                                  *)
Refused(c, o) ==
    /\ Go(c, "auth", "auth")
    /\ ~isAcceptableAlgo(o[2].algo) \/ get(c, o)
    /\ Offer(c, o)
    /\ UNCHANGED <<mainVars, muVars, sessionKeys, cache, keys, shown>>

(* Otherwise publicKeyCallback is called, and whatever it answers is       *)
(* cached for this connection while there is room.                         *)
CallBack(c, o) ==
    /\ Go(c, "auth", "cbLock")
    /\ isAcceptableAlgo(o[2].algo) /\ ~get(c, o)
    /\ Offer(c, o)
    /\ UNCHANGED <<mainVars, muVars, sessionKeys, cache, keys, shown>>

CallbackLock(c) ==
    /\ Go(c, "cbLock", "cbMap")
    /\ Lock(c)
    /\ UNCHANGED <<mainVars, sessionKeys, offered, cache, keys, shown>>

LastOffer(c) == offered[c][Len(offered[c])]

(* Mutant: one more entry than the cache may have.                         *)
Cached_OffByOne(c) ==
    IF Cardinality(cache[c]) <= MaxCached THEN cache[c] \cup {LastOffer(c)} ELSE cache[c]

(* cache.add                                                               *)
Cached(c) ==
    IF Cardinality(cache[c]) < MaxCached THEN cache[c] \cup {LastOffer(c)} ELSE cache[c]

(* The key is appended, the lock released, and the key refused.            *)
CallbackAppend(c) ==
    /\ Go(c, "cbMap", "auth")
    /\ sessionKeys' = [sessionKeys EXCEPT ![SessionID(c)] = Append(@, LastOffer(c)[2])]
    /\ Unlock(c)
    /\ cache' = [cache EXCEPT ![c] = Cached(c)]
    /\ UNCHANGED <<mainVars, offered, keys, shown>>

(* keyboardInteractiveCallback lets everybody in.                          *)
Interactive(c) ==
    /\ Go(c, "auth", "rdLock")
    /\ UNCHANGED <<mainVars, muVars, sessionKeys, offered, cache, keys, shown>>

-----------------------------------------------------------------------------
(* serve() after the handshake.                                            *)

ReadLock(c) ==
    /\ Go(c, "rdLock", "rdMap")
    /\ RLock(c)
    /\ UNCHANGED <<mainVars, sessionKeys, offered, cache, keys, shown>>

ReadKeys(c) ==
    /\ Go(c, "rdMap", "serving")
    /\ keys' = [keys EXCEPT ![c] = sessionKeys[SessionID(c)]]
    /\ RUnlock(c)
    /\ UNCHANGED <<mainVars, sessionKeys, offered, cache, shown>>

(* A session channel is served: the keys are marked and the table written. *)
Show(c) ==
    /\ Go(c, "serving", "serving")
    /\ shown' = [shown EXCEPT ![c] = Table(keys[c], Blacklisted(keys[c], blacklist))]
    /\ UNCHANGED <<mainVars, muVars, sessionKeys, offered, cache, keys>>

(* The channels have ended: serve returns.                                 *)
Leave(c) ==
    /\ Go(c, "serving", "delLock")
    /\ UNCHANGED <<mainVars, muVars, sessionKeys, offered, cache, keys, shown>>

DeferLock(c) ==
    /\ Go(c, "delLock", "delMap")
    /\ Lock(c)
    /\ UNCHANGED <<mainVars, sessionKeys, offered, cache, keys, shown>>

(* Mutant: the entry is not deleted.                                       *)
DeferDelete_Forgotten(c) ==
    /\ Go(c, "delMap", "done")
    /\ Unlock(c)
    /\ UNCHANGED <<mainVars, sessionKeys, offered, cache, keys, shown>>

DeferDelete(c) ==
    /\ Go(c, "delMap", "done")
    /\ sessionKeys' = [sessionKeys EXCEPT ![SessionID(c)] = <<>>]
    /\ Unlock(c)
    /\ UNCHANGED <<mainVars, offered, cache, keys, shown>>

-----------------------------------------------------------------------------
(* The steps a goroutine takes without waiting for its client.             *)
Run(c) == \/ CallbackLock(c) \/ CallbackAppend(c)
          \/ ReadLock(c) \/ ReadKeys(c)
          \/ DeferLock(c) \/ DeferDelete(c)

(* Those that answer the client.                                           *)
Serve(c) == \/ KexDone(c) \/ HandshakeFails(c)
            \/ \E o \in User \X Key : Refused(c, o) \/ CallBack(c, o)
            \/ Interactive(c) \/ Show(c) \/ Leave(c)

(* Nothing more happens: main has died, or every client has come and gone. *)
Terminated ==
    /\ \/ main = "fatal"
       \/ main = "accept" /\ (\A c \in Conn : pc[c] \in {"done", "failed"})
    /\ UNCHANGED vars

Next == \/ Main
        \/ \E c \in Conn : AcceptConn(c) \/ Run(c) \/ Serve(c)
        \/ Terminated

Spec == Init /\ [][Next]_vars

(* Go schedules every goroutine; nothing is assumed of clients.            *)
FairSpec == Spec /\ \A c \in Conn : WF_vars(Run(c))

-----------------------------------------------------------------------------
PCs == {"idle", "kex", "auth", "cbLock", "cbMap", "rdLock", "rdMap", "serving",
        "delLock", "delMap", "done", "failed"}

(* cache.add keeps its limit.                                              *)
CacheBounded == \A c \in Conn : IsFiniteSet(cache[c]) /\ Cardinality(cache[c]) <= MaxCached

(* The shared state and that of the connections has its type; a client     *)
(* that keeps offering keys does not make the cache outgrow its limit.     *)
TypeOK ==
    /\ main \in {"load", "hostkey", "listen", "accept", "fatal"}
    /\ files \in Directories
    /\ pc \in [Conn -> PCs]
    /\ writers \subseteq Conn /\ readers \subseteq Conn
    /\ sessionKeys \in [Conn -> Seq(Key)]
    /\ offered \in [Conn -> Seq(User \X Key)]
    /\ cache \in [Conn -> SUBSET (User \X Key)] /\ CacheBounded
    /\ keys \in [Conn -> Seq(Key)]

(* A Go map must not be written while another goroutine reads or writes    *)
(* it: whoever is between Lock and Unlock is there alone, and a reader is  *)
(* there only with readers.                                                *)
NoMapRace ==
    \A c, d \in Conn :
        c # d /\ pc[c] \in {"cbMap", "delMap"} => pc[d] \notin {"cbMap", "delMap", "rdMap"}

Served == {"serving", "delLock", "delMap", "done"}

(* Of the offers o: that the library passes on, where an offer was made    *)
(* first, and how many different ones had been passed on by then.          *)
GoodAt(o, i) == isAcceptableAlgo(o[i][2].algo)
FirstAt(o, i) == CHOOSE j \in 1..i : o[j] = o[i] /\ \A h \in 1..(j - 1) : o[h] # o[i]
RankAt(o, i) == Cardinality({o[j] : j \in {h \in 1..i : GoodAt(o, h)}})

(* The offers that the cache does not swallow: a repeated offer reaches    *)
(* the callback only if its first occurrence came when the cache was full. *)
Kept(o) == {i \in DOMAIN o : /\ GoodAt(o, i)
                             /\ FirstAt(o, i) = i \/ RankAt(o, FirstAt(o, i)) > MaxCached}

(* The list has the keys of those offers, in their order.                  *)
Lists(list, o) ==
    /\ Len(list) = Cardinality(Kept(o))
    /\ \A i \in Kept(o) : list[Cardinality(Kept(o) \cap (1..i))] = o[i][2]

(* The list of keys a client is shown is what this client offered on this  *)
(* connection, in the order of the offers, each user and key once (unless  *)
(* the cache was full), whatever other connections do to the shared map    *)
(* meanwhile.                                                              *)
KeysListed ==
    \A c \in Conn : pc[c] \in Served => Lists(keys[c], offered[c])

(* Some file of the blacklist directory has a line for this key.           *)
KnownBad(k) ==
    \E i \in DOMAIN files : \E l \in files[i].lines : l.text = <<k.algo, k.mat>>

(* The key is neither a DSA key nor an RSA key below 2048 bits.            *)
Plain(k) == k.algo # "ssh-dss" /\ (k.algo = "ssh-rsa" => k.bits >= 2048)

(* Every row tells the truth: BLACKLISTED exactly for keys listed in some  *)
(* file of the directory, whatever went wrong while loading it, and "No    *)
(* known issues" exactly for the others that are neither DSA keys nor RSA  *)
(* keys below 2048 bits.                                                   *)
TableTrue ==
    \A c \in Conn : \A i \in DOMAIN shown[c] :
        LET k == keys[c][i]
            issues == shown[c][i].issues
        IN  /\ issues = "BLACKLISTED" <=> KnownBad(k)
            /\ issues = "No known issues" <=> ~KnownBad(k) /\ Plain(k)

(* sessions.keys does not outgrow the connections: an entry belongs to a   *)
(* connection that is being authenticated or served, or to one whose       *)
(* handshake failed; serve() always takes its entry away.                  *)
EntriesInUse ==
    \A c \in Conn : sessionKeys[SessionID(c)] # <<>> => pc[c] \notin {"idle", "kex", "done"}

(* Nobody waits for sessions.mu for ever, and a connection that ends gives *)
(* back its entry.                                                         *)
MutexServed ==
    \A c \in Conn : /\ pc[c] = "cbLock" ~> pc[c] = "auth"
                    /\ pc[c] = "rdLock" ~> pc[c] = "serving"
                    /\ pc[c] = "delLock" ~> pc[c] = "done" /\ sessionKeys[SessionID(c)] = <<>>

(* "The public keys presented by your SSH client are:" (welcomeMsg):       *)
(* every key the client presented is in the list.                          *)
AllPresentedListed ==
    \A c \in Conn : pc[c] \in Served =>
        \A i \in DOMAIN offered[c] : \E j \in DOMAIN keys[c] : keys[c][j] = offered[c][i][2]

=============================================================================
