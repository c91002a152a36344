--------------------------- MODULE SessionsProofs ---------------------------
(***************************************************************************)
(* Theorems about Sessions, for any set of connections, users and keys,    *)
(* any blacklist directory and any size of the cache.                      *)
(***************************************************************************)
EXTENDS Sessions, SequenceTheorems, FiniteSetTheorems, FunctionTheorems,
        WellFoundedInduction, TLAPS

(* Whoever is in publicKeyCallback was called for an offer.                *)
InCallback == \A c \in Conn : pc[c] \in {"cbLock", "cbMap"} => offered[c] # <<>>

TypeInv == TypeOK /\ InCallback

(* The initial state is well typed.                                        *)
LEMMA InitType == Init => TypeInv
<1>1. Init => TypeOK
  BY FS_EmptySet, CacheAssumption DEF Init, TypeOK, PCs, CacheBounded
<1>2. Init => InCallback
  BY DEF Init, InCallback
<1> QED
  BY <1>1, <1>2 DEF TypeInv

(* The offer under consideration is an offer.                              *)
LEMMA LastOfferType ==
    ASSUME TypeInv, NEW c \in Conn, pc[c] = "cbMap" PROVE LastOffer(c) \in User \X Key
<1> DEFINE S == User \X Key
<1>1. offered[c] \in Seq(S) /\ offered[c] # <<>>
  BY DEF TypeInv, TypeOK, InCallback
<1> HIDE DEF S
<1>2. offered[c][Len(offered[c])] \in S
  BY <1>1
<1> QED
  BY <1>2 DEF LastOffer, S

(* A new offer keeps the type of offered and does not empty it.            *)
LEMMA OfferType ==
    ASSUME TypeInv, NEW c \in Conn, NEW o \in User \X Key, Offer(c, o)
    PROVE  /\ offered' \in [Conn -> Seq(User \X Key)]
           /\ \A d \in Conn : offered'[d] # <<>> <=> d = c \/ offered[d] # <<>>
<1> DEFINE S == User \X Key
<1>1. offered \in [Conn -> Seq(S)] /\ o \in S /\ offered' = [offered EXCEPT ![c] = Append(@, o)]
  BY DEF TypeInv, TypeOK, Offer
<1> HIDE DEF S
<1>2. Append(offered[c], o) \in Seq(S) /\ Append(offered[c], o) # <<>>
  BY <1>1
<1>3. offered' \in [Conn -> Seq(S)]
  BY <1>1, <1>2
<1>4. \A d \in Conn : offered'[d] # <<>> <=> d = c \/ offered[d] # <<>>
  BY <1>1, <1>2
<1> QED
  BY <1>3, <1>4 DEF S

(* cache.add adds nothing to a full cache.                                 *)
LEMMA CachedBounded ==
    ASSUME CacheBounded, NEW c \in Conn
    PROVE  IsFiniteSet(Cached(c)) /\ Cardinality(Cached(c)) <= MaxCached
<1>1. IsFiniteSet(cache[c]) /\ Cardinality(cache[c]) <= MaxCached
  BY DEF CacheBounded
<1> DEFINE more == cache[c] \cup {LastOffer(c)}
<1>2. /\ IsFiniteSet(more)
      /\ Cardinality(more) = IF LastOffer(c) \in cache[c] THEN Cardinality(cache[c])
                                                        ELSE Cardinality(cache[c]) + 1
  BY <1>1, FS_AddElement, Zenon
<1>3. Cardinality(cache[c]) \in Nat
  BY <1>1, FS_CardinalityType, Zenon
<1>4. Cardinality(cache[c]) < MaxCached => Cardinality(more) <= MaxCached
  BY <1>2, <1>3, CacheAssumption
<1> QED
  BY <1>1, <1>2, <1>4 DEF Cached

(* A step of a connection keeps the types.                                 *)
LEMMA StepType ==
    ASSUME TypeInv, NEW c \in Conn, AcceptConn(c) \/ Run(c) \/ Serve(c) PROVE TypeInv'
<1> USE DEF TypeInv, InCallback, TypeOK, mainVars, muVars, Go, PCs
<1>c. cache' = cache => CacheBounded'
  BY DEF CacheBounded
<1>1. CASE \/ AcceptConn(c) \/ KexDone(c) \/ HandshakeFails(c) \/ Interactive(c)
           \/ Leave(c) \/ Show(c)
  BY <1>1, <1>c DEF AcceptConn, KexDone, HandshakeFails, Interactive, Leave, Show
<1>2. ASSUME NEW o \in User \X Key, Refused(c, o) \/ CallBack(c, o) PROVE TypeInv'
  <2>1. /\ offered' \in [Conn -> Seq(User \X Key)]
        /\ \A d \in Conn : offered'[d] # <<>> <=> d = c \/ offered[d] # <<>>
    BY <1>2, OfferType DEF Refused, CallBack
  <2> QED
    BY <1>2, <2>1, <1>c DEF Refused, CallBack
<1>3. CASE CallbackLock(c) \/ DeferLock(c)
  BY <1>3, <1>c DEF CallbackLock, DeferLock, Lock
<1>4. CASE ReadLock(c)
  BY <1>4, <1>c DEF ReadLock, RLock
<1>5. CASE ReadKeys(c)
  BY <1>5, <1>c DEF ReadKeys, RUnlock, SessionID
<1>6. CASE DeferDelete(c)
  BY <1>6, <1>c DEF DeferDelete, Unlock, SessionID
<1>7. CASE CallbackAppend(c)
  <2>1. LastOffer(c) \in User \X Key
    BY <1>7, LastOfferType DEF CallbackAppend
  <2>2. sessionKeys' \in [Conn -> Seq(Key)]
    BY <1>7, <2>1 DEF CallbackAppend, SessionID
  <2>3. cache' \in [Conn -> SUBSET (User \X Key)]
    BY <1>7, <2>1 DEF CallbackAppend, Cached
  <2>4. CacheBounded'
    BY <1>7, CachedBounded DEF CallbackAppend, CacheBounded
  <2> QED
    BY <1>7, <2>2, <2>3, <2>4 DEF CallbackAppend, Unlock
<1> QED
  BY <1>1, <1>2, <1>3, <1>4, <1>5, <1>6, <1>7 DEF Run, Serve

(* A step of main leaves the connections alone.                            *)
LEMMA MainFrame == Main => UNCHANGED connVars /\ UNCHANGED files
BY DEF Main, LoadFile, LoadFails, Loaded, ParsePrivateKey, Listen

(* Start-up and the accept loop keep the state well typed.                 *)
LEMMA MainType == TypeInv /\ Main => TypeInv'
<1> SUFFICES ASSUME TypeInv, Main PROVE TypeInv'
  OBVIOUS
<1>1. main' \in {"load", "hostkey", "listen", "accept", "fatal"}
  BY DEF Main, LoadFile, LoadFails, Loaded, ParsePrivateKey, Listen, MainStep
<1> QED
  BY <1>1, MainFrame DEF TypeInv, TypeOK, InCallback, CacheBounded, connVars, muVars

(* Every step keeps the state well typed.                                  *)
LEMMA NextType == TypeInv /\ [Next]_vars => TypeInv'
<1> SUFFICES ASSUME TypeInv, [Next]_vars PROVE TypeInv'
  OBVIOUS
<1>1. CASE UNCHANGED vars
  BY <1>1 DEF vars, mainVars, muVars, TypeInv, TypeOK, InCallback, CacheBounded
<1> QED
  BY <1>1, StepType, MainType DEF Next, Terminated

(* Every reachable state of the server is well typed.                      *)
THEOREM TypeCorrect == Spec => []TypeOK
<1>1. TypeInv => TypeOK
  BY DEF TypeInv
<1> QED
  BY InitType, NextType, <1>1, PTL DEF Spec

-----------------------------------------------------------------------------
(* Who holds sessions.mu is who is between its Lock and Unlock: one writer *)
(* and no reader, or readers only.                                         *)
MutexInv ==
    /\ TypeInv
    /\ writers = {c \in Conn : pc[c] \in {"cbMap", "delMap"}}
    /\ readers = {c \in Conn : pc[c] = "rdMap"}
    /\ writers # {} => readers = {}
    /\ \A c, d \in writers : c = d

(* Every step keeps sessions.mu exclusive.                                 *)
LEMMA NextMutex == MutexInv /\ [Next]_vars => MutexInv'
<1> SUFFICES ASSUME MutexInv, [Next]_vars PROVE MutexInv'
  OBVIOUS
<1>t. TypeInv /\ TypeInv' /\ pc \in [Conn -> PCs]
  BY NextType DEF MutexInv, TypeInv, TypeOK
<1> USE DEF MutexInv, Go
<1>1. CASE Main \/ Terminated \/ UNCHANGED vars
  BY <1>1, <1>t, MainFrame DEF Terminated, vars, connVars, muVars
<1>2. ASSUME NEW c \in Conn,
             \/ AcceptConn(c) \/ KexDone(c) \/ HandshakeFails(c) \/ Interactive(c)
             \/ Leave(c) \/ Show(c) \/ \E o \in User \X Key : Refused(c, o) \/ CallBack(c, o)
      PROVE  MutexInv'
  BY <1>2, <1>t DEF AcceptConn, KexDone, HandshakeFails, Interactive, Leave, Show, Refused,
                    CallBack, muVars
<1>3. ASSUME NEW c \in Conn, CallbackLock(c) \/ DeferLock(c) PROVE MutexInv'
  BY <1>3, <1>t DEF CallbackLock, DeferLock, Lock
<1>4. ASSUME NEW c \in Conn, ReadLock(c) PROVE MutexInv'
  BY <1>4, <1>t DEF ReadLock, RLock
<1>5. ASSUME NEW c \in Conn, ReadKeys(c) PROVE MutexInv'
  BY <1>5, <1>t DEF ReadKeys, RUnlock
<1>6. ASSUME NEW c \in Conn, CallbackAppend(c) \/ DeferDelete(c) PROVE MutexInv'
  BY <1>6, <1>t DEF CallbackAppend, DeferDelete, Unlock
<1> QED
  BY <1>1, <1>2, <1>3, <1>4, <1>5, <1>6 DEF Next, Run, Serve

(* The map sessions.keys is never accessed by two goroutines at a time of  *)
(* which one writes, however many connections there are.                   *)
THEOREM MapAccessExclusive == Spec => []NoMapRace
<1>1. Init => MutexInv
  BY InitType DEF Init, MutexInv
<1>2. MutexInv => NoMapRace
  BY DEF MutexInv, NoMapRace
<1> QED
  BY <1>1, <1>2, NextMutex, PTL DEF Spec

-----------------------------------------------------------------------------
(* Every step leaves sessions.keys without entries of connections that are *)
(* over.                                                                   *)
LEMMA NextEntries == TypeInv /\ EntriesInUse /\ [Next]_vars => EntriesInUse'
<1> SUFFICES ASSUME TypeInv, EntriesInUse, [Next]_vars PROVE EntriesInUse'
  OBVIOUS
<1>t. pc \in [Conn -> PCs] /\ sessionKeys \in [Conn -> Seq(Key)]
  BY DEF TypeInv, TypeOK
<1> USE DEF EntriesInUse, SessionID, Go
<1>1. CASE Main \/ Terminated \/ UNCHANGED vars
  BY <1>1, MainFrame DEF Terminated, vars, connVars
<1>2. ASSUME NEW c \in Conn, AcceptConn(c) \/ Serve(c) PROVE EntriesInUse'
  BY <1>2, <1>t DEF AcceptConn, Serve, KexDone, HandshakeFails, Interactive, Leave, Show,
                    Refused, CallBack
<1>3. ASSUME NEW c \in Conn, CallbackLock(c) \/ DeferLock(c) \/ ReadLock(c) \/ ReadKeys(c)
      PROVE  EntriesInUse'
  BY <1>3, <1>t DEF CallbackLock, DeferLock, ReadLock, ReadKeys
<1>4. ASSUME NEW c \in Conn, CallbackAppend(c) PROVE EntriesInUse'
  BY <1>4, <1>t DEF CallbackAppend
<1>5. ASSUME NEW c \in Conn, DeferDelete(c) PROVE EntriesInUse'
  BY <1>5, <1>t DEF DeferDelete
<1> QED
  BY <1>1, <1>2, <1>3, <1>4, <1>5 DEF Next, Run

(* An entry of sessions.keys belongs to a connection that is still being   *)
(* authenticated or served, or whose handshake failed: a connection that   *)
(* was served never leaves one behind.                                     *)
THEOREM ServedEntriesRemoved == Spec => []EntriesInUse
<1>1. Init => EntriesInUse
  BY DEF Init, EntriesInUse, SessionID
<1> QED
  BY <1>1, InitType, NextType, NextEntries, PTL DEF Spec

-----------------------------------------------------------------------------
(* What loadBlacklistedKeys has done: the files still to be read are the   *)
(* last ones of the directory, the map has the trimmed lines of the files  *)
(* before them and nothing else (unless the process is about to die), and  *)
(* nobody is connected before all are read.                                *)
LoadInv ==
    /\ unread \in Seq({files[i] : i \in DOMAIN files}) /\ Len(unread) <= Len(files)
    /\ \A j \in 1..Len(unread) : unread[j] = files[Len(files) - Len(unread) + j]
    /\ main # "fatal" => blacklist = UNION {ScanLines(files[i].lines) : i \in 1..(Len(files) - Len(unread))}
    /\ main \notin {"load", "fatal"} => unread = <<>>
    /\ \A c \in Conn : pc[c] # "idle" => main = "accept"

(* A table is written by a connection that is served, from the keys and    *)
(* the blacklist it still has.                                             *)
ShownInv ==
    \A c \in Conn :
        \/ shown[c] = <<>>
        \/ pc[c] \in Served /\ shown[c] = Table(keys[c], Blacklisted(keys[c], blacklist))

TableInv == TypeInv /\ LoadInv /\ ShownInv /\ shown = [c \in Conn |-> shown[c]]

(* Reading one more file adds its lines to those of the files before.      *)
LEMMA LoadFileInv == TableInv /\ LoadFile => LoadInv'
<1> SUFFICES ASSUME TableInv, LoadFile PROVE LoadInv'
  OBVIOUS
<1> DEFINE F == {files[i] : i \in DOMAIN files}
           Rest == UNION {ScanLines(files[i].lines) : i \in 1..(Len(files) - Len(unread))}
<1>1. files \in Seq(F) /\ unread \in Seq(F)
  BY DirectoryAssumption DEF TableInv, TypeInv, TypeOK, LoadInv
<1>2. /\ unread # <<>> /\ unread' = Tail(unread) /\ files' = files
      /\ main = "load" /\ main' = "load" /\ pc' = pc
      /\ blacklist' = blacklist \cup ScanLines(Head(unread).lines)
  BY DEF LoadFile, MainStep, connVars
<1>3. /\ Len(unread) <= Len(files) /\ blacklist = Rest
      /\ \A j \in 1..Len(unread) : unread[j] = files[Len(files) - Len(unread) + j]
      /\ \A c \in Conn : pc[c] # "idle" => main = "accept"
  BY <1>2 DEF TableInv, LoadInv
<1> HIDE DEF F
<1>4. /\ unread' \in Seq(F) /\ Len(unread') = Len(unread) - 1 /\ Len(unread) \in Nat \ {0}
      /\ Len(files) \in Nat
      /\ \A j \in 1..Len(unread') : unread'[j] = unread[j + 1]
  BY <1>1, <1>2
<1> DEFINE n == Len(files) - Len(unread)
<1>5. /\ Len(files) - Len(unread') = n + 1 /\ n \in Nat
      /\ Head(unread) = files[n + 1]
  BY <1>1, <1>2, <1>3, <1>4
<1>6. \A j \in 1..Len(unread') : unread'[j] = files[n + 1 + j]
  BY <1>3, <1>4, <1>5
<1>7. blacklist' = UNION {ScanLines(files[i].lines) : i \in 1..(n + 1)}
  <2>1. 1..(n + 1) = (1..n) \cup {n + 1}
    BY <1>5
  <2> HIDE DEF n
  <2>2. blacklist' = (UNION {ScanLines(files[i].lines) : i \in 1..n}) \cup ScanLines(files[n + 1].lines)
    BY <1>2, <1>3, <1>5 DEF n
  <2>3. UNION {ScanLines(files[i].lines) : i \in (1..n) \cup {n + 1}}
          = (UNION {ScanLines(files[i].lines) : i \in 1..n}) \cup ScanLines(files[n + 1].lines)
    BY Zenon
  <2> QED
    BY <2>1, <2>2, <2>3, Zenon
<1>8. Len(unread') <= Len(files)
  BY <1>3, <1>4
<1> QED
  BY <1>2, <1>3, <1>4, <1>5, <1>6, <1>7, <1>8 DEF LoadInv, F

(* No step upsets what has been loaded.                                    *)
LEMMA NextLoad == TableInv /\ [Next]_vars => LoadInv'
<1> SUFFICES ASSUME TableInv, [Next]_vars PROVE LoadInv'
  OBVIOUS
<1> USE DEF TableInv, LoadInv
<1>1. CASE LoadFile
  BY <1>1, LoadFileInv
<1>2. CASE LoadFails
  <2>1. main' = "fatal" /\ main = "load" /\ UNCHANGED <<files, unread, pc>>
    BY <1>2 DEF LoadFails, MainStep, connVars
  <2>2. \A c \in Conn : pc[c] = "idle"
    BY <2>1
  <2> QED
    BY <2>1, <2>2
<1>3. CASE Loaded \/ ParsePrivateKey \/ Listen
  <2>1. /\ UNCHANGED <<files, unread, blacklist, pc>> /\ main # "fatal" /\ main # "accept"
        /\ main' # "load" /\ unread = <<>>
    BY <1>3 DEF Loaded, ParsePrivateKey, Listen, MainStep, connVars
  <2>2. \A c \in Conn : pc[c] = "idle"
    BY <2>1
  <2> QED
    BY <2>1, <2>2
<1>4. ASSUME NEW c \in Conn, AcceptConn(c) \/ Run(c) \/ Serve(c) PROVE LoadInv'
  <2>1. UNCHANGED mainVars
    BY <1>4 DEF AcceptConn, Run, CallbackLock, CallbackAppend, ReadLock, ReadKeys, DeferLock,
                DeferDelete, Serve, KexDone, HandshakeFails, Refused, CallBack, Interactive,
                Show, Leave
  <2>2. pc' = [pc EXCEPT ![c] = pc'[c]] /\ main = "accept"
    BY <1>4 DEF AcceptConn, Run, CallbackLock, CallbackAppend, ReadLock, ReadKeys, DeferLock,
                DeferDelete, Serve, KexDone, HandshakeFails, Refused, CallBack, Interactive,
                Show, Leave, Go, TypeInv, TypeOK
  <2> QED
    BY <2>1, <2>2 DEF mainVars
<1>5. CASE Terminated \/ UNCHANGED vars
  <2>1. UNCHANGED <<main, files, unread, blacklist, pc>>
    BY <1>5 DEF Terminated, vars, mainVars
  <2> QED
    BY <2>1
<1> QED
  BY <1>1, <1>2, <1>3, <1>4, <1>5 DEF Next, Main

(* A table that was written stays the table of the connection's keys.      *)
LEMMA NextShown == TableInv /\ [Next]_vars => ShownInv' /\ shown' = [c \in Conn |-> shown'[c]]
<1> SUFFICES ASSUME TableInv, [Next]_vars
             PROVE  ShownInv' /\ shown' = [c \in Conn |-> shown'[c]]
  OBVIOUS
<1>t. pc \in [Conn -> PCs] /\ keys \in [Conn -> Seq(Key)] /\ shown = [c \in Conn |-> shown[c]]
  BY DEF TableInv, TypeInv, TypeOK
<1>b. UNCHANGED blacklist \/ \A c \in Conn : pc[c] = "idle"
  BY DEF Next, Main, LoadFile, LoadFails, Loaded, ParsePrivateKey, Listen, MainStep,
         AcceptConn, Run, CallbackLock, CallbackAppend, ReadLock, ReadKeys, DeferLock,
         DeferDelete, Serve, KexDone, HandshakeFails, Refused, CallBack, Interactive,
         Show, Leave, Terminated, vars, mainVars, TableInv, LoadInv
<1>1. CASE Main \/ Terminated \/ UNCHANGED vars
  <2>1. UNCHANGED <<pc, keys, shown>>
    BY <1>1, MainFrame DEF Terminated, vars, connVars
  <2> QED
    BY <2>1, <1>b DEF TableInv, ShownInv, Served
<1>2. ASSUME NEW c \in Conn, AcceptConn(c) \/ Run(c) \/ Serve(c)
      PROVE  ShownInv' /\ shown' = [d \in Conn |-> shown'[d]]
  <2>1. UNCHANGED blacklist
    BY <1>2 DEF AcceptConn, Run, CallbackLock, CallbackAppend, ReadLock, ReadKeys, DeferLock,
                DeferDelete, Serve, KexDone, HandshakeFails, Refused, CallBack, Interactive,
                Show, Leave, mainVars
  <2>2. CASE Show(c)
    BY <2>1, <2>2, <1>t DEF Show, Go, TableInv, ShownInv, Served
  <2>3. CASE ReadKeys(c)
    BY <2>1, <2>3, <1>t DEF ReadKeys, Go, TableInv, ShownInv, Served
  <2>4. CASE UNCHANGED <<keys, shown>>
    <3>1. pc' = [pc EXCEPT ![c] = pc'[c]] /\ (pc[c] \in Served => pc'[c] \in Served)
      BY <1>2, <1>t DEF AcceptConn, Run, CallbackLock, CallbackAppend, ReadLock, ReadKeys,
                DeferLock, DeferDelete, Serve, KexDone, HandshakeFails, Refused, CallBack,
                Interactive, Show, Leave, Go, Served
    <3> QED
      BY <3>1, <2>1, <2>4, <1>t DEF TableInv, ShownInv
  <2> QED
    BY <1>2, <2>2, <2>3, <2>4
       DEF AcceptConn, Run, CallbackLock, CallbackAppend, ReadLock, DeferLock, DeferDelete,
           Serve, KexDone, HandshakeFails, Refused, CallBack, Interactive, Leave
<1> QED
  BY <1>1, <1>2 DEF Next

(* Trimming a line, and lines that differ in their text.                   *)
LEMMA TrimLine ==
    ASSUME NEW x, NEW y, NEW b
    PROVE  /\ TrimSpace(Line(x, b)) = Line(x, FALSE)
           /\ Line(x, FALSE) = Line(y, FALSE) <=> x = y
<1>0. ASSUME NEW f
      PROVE  [[text |-> x, spaced |-> b] EXCEPT !.spaced = f] = [text |-> x, spaced |-> f]
  OBVIOUS
<1>1. TrimSpace(Line(x, b)) = Line(x, FALSE)
  BY <1>0, Zenon DEF TrimSpace, Line
<1>2. Line(x, FALSE).text = x /\ Line(y, FALSE).text = y
  BY DEF Line
<1> QED
  BY <1>1, <1>2

(* Once all files are read, the map has a key's trimmed line iff a file    *)
(* has a line for it.                                                      *)
LEMMA LookupTrue ==
    ASSUME TableInv, main = "accept", NEW k \in Key
    PROVE  TrimSpace(MarshalAuthorizedKey(k)) \in blacklist <=> KnownBad(k)
<1> DEFINE t == <<k.algo, k.mat>>
           F == {files[i] : i \in DOMAIN files}
<1>1. /\ files \in Directories /\ files \in Seq(F) /\ unread = <<>>
      /\ blacklist = UNION {ScanLines(files[i].lines) : i \in 1..(Len(files) - Len(unread))}
  BY DirectoryAssumption DEF TableInv, TypeInv, TypeOK, LoadInv
<1> HIDE DEF F
<1>2. 1..(Len(files) - Len(unread)) = DOMAIN files
  BY <1>1
<1>3. TrimSpace(MarshalAuthorizedKey(k)) = Line(t, FALSE)
  BY TrimLine DEF MarshalAuthorizedKey
<1>4. \A i \in DOMAIN files : \A l \in files[i].lines : TrimSpace(l) = Line(t, FALSE) <=> l.text = t
  <2> SUFFICES ASSUME NEW i \in DOMAIN files, NEW l \in files[i].lines
               PROVE  TrimSpace(l) = Line(t, FALSE) <=> l.text = t
    OBVIOUS
  <2>1. l = Line(l.text, l.spaced)
    BY <1>1, DirectoryAssumption
  <2>2. TrimSpace(l) = Line(l.text, FALSE)
    BY <2>1, TrimLine, Zenon
  <2> QED
    BY <2>2, TrimLine, Zenon
<1>5. Line(t, FALSE) \in blacklist
        <=> \E i \in DOMAIN files : \E l \in files[i].lines : TrimSpace(l) = Line(t, FALSE)
  <2>1. blacklist = UNION {ScanLines(files[i].lines) : i \in DOMAIN files}
    BY <1>1, <1>2, Zenon
  <2> HIDE DEF t
  <2>2. ASSUME NEW x PROVE x \in blacklist
          <=> \E i \in DOMAIN files : x \in ScanLines(files[i].lines)
    BY <2>1
  <2>3. ASSUME NEW x, NEW lines
        PROVE  x \in ScanLines(lines) <=> \E l \in lines : TrimSpace(l) = x
    BY Zenon DEF ScanLines
  <2> QED
    BY <2>2, <2>3, Zenon
<1> QED
  BY <1>3, <1>4, <1>5 DEF KnownBad

(* The issue column of a key that is not marked.                           *)
Unmarked(k) == Issues(k, FALSE)

(* A key that is not marked has no known issues iff it has none of its own. *)
LEMMA IssuesTrue ==
    ASSUME NEW k \in Key
    PROVE  /\ Unmarked(k) # "BLACKLISTED"
           /\ Unmarked(k) = "No known issues" <=> Plain(k)
<1>1. k.bits \in Nat
  BY KeyAssumption
<1>2. k.algo = "ssh-rsa" => BitLen(k).length = k.bits
  <2>1. k.algo = "ssh-rsa" => BitLen(k) = rsaKeyLength(k)
    BY DEF BitLen, KeyAlgoRSA, KeyAlgoDSA, KeyAlgosECDSA
  <2> QED
    BY <2>1 DEF rsaKeyLength
<1>3. IsWeak(k) <=> k.algo = "ssh-rsa" /\ ~(k.bits >= 2048)
  BY <1>1, <1>2 DEF IsWeak, KeyAlgoRSA, MinBits
<1>4. IsDSA(k) <=> k.algo = "ssh-dss"
  BY DEF IsDSA, KeyAlgoDSA
<1> QED
  BY <1>3, <1>4 DEF Unmarked, Issues, Plain

(* serve() calls a key BLACKLISTED exactly if some file of the directory   *)
(* lists it, and without known issues exactly if none does and it is       *)
(* neither a DSA key nor an RSA key below 2048 bits: for every directory,  *)
(* every list of keys and any number of connections.                       *)
THEOREM TablesTrue == Spec => []TableTrue
<1>1. Init => TableInv
  <2> SUFFICES ASSUME Init PROVE TableInv
    OBVIOUS
  <2> DEFINE F == {files[i] : i \in DOMAIN files}
  <2>1. files \in Seq(F) /\ unread = files
    BY DirectoryAssumption DEF Init
  <2> HIDE DEF F
  <2>2. Len(files) \in Nat /\ 1..(Len(files) - Len(unread)) = {}
    BY <2>1
  <2>3. LoadInv
    BY <2>1, <2>2 DEF Init, LoadInv, F
  <2> QED
    BY <2>3, InitType DEF Init, TableInv, ShownInv
<1>2. TableInv /\ [Next]_vars => TableInv'
  BY NextType, NextLoad, NextShown DEF TableInv
<1>3. TableInv => TableTrue
  <2> SUFFICES ASSUME TableInv, NEW c \in Conn, NEW i \in DOMAIN shown[c]
               PROVE  /\ shown[c][i].issues = "BLACKLISTED" <=> KnownBad(keys[c][i])
                      /\ shown[c][i].issues = "No known issues"
                             <=> ~KnownBad(keys[c][i]) /\ Plain(keys[c][i])
    BY Zenon DEF TableTrue
  <2>1. pc[c] \in Served /\ shown[c] = Table(keys[c], Blacklisted(keys[c], blacklist))
    BY DEF TableInv, ShownInv
  <2>2. main = "accept"
    BY <2>1 DEF TableInv, LoadInv, Served
  <2>3. i \in DOMAIN keys[c]
    BY <2>1 DEF Table
  <2>4. PICK k \in Key : k = keys[c][i]
    BY <2>3 DEF TableInv, TypeInv, TypeOK
  <2> SUFFICES /\ shown[c][i].issues = "BLACKLISTED" <=> KnownBad(k)
               /\ shown[c][i].issues = "No known issues" <=> ~KnownBad(k) /\ Plain(k)
    BY <2>4
  <2>5. i \in Blacklisted(keys[c], blacklist) <=> KnownBad(k)
    BY <2>2, <2>3, <2>4, LookupTrue DEF Blacklisted
  <2>6. shown[c][i].issues = Issues(k, i \in Blacklisted(keys[c], blacklist))
    BY <2>1, <2>3, <2>4 DEF Table, Row
  <2> QED
    <3>1. CASE KnownBad(k)
      <4>1. shown[c][i].issues = "BLACKLISTED"
        BY <3>1, <2>5, <2>6 DEF Issues
      <4> QED
        BY <4>1, <3>1
    <3>2. CASE ~KnownBad(k)
      <4>1. shown[c][i].issues = Unmarked(k)
        BY <3>2, <2>5, <2>6 DEF Issues, Unmarked
      <4>2. Unmarked(k) # "BLACKLISTED" /\ (Unmarked(k) = "No known issues" <=> Plain(k))
        BY IssuesTrue
      <4> QED
        BY <4>1, <4>2, <3>2
    <3> QED
      BY <3>1, <3>2
<1> QED
  BY <1>1, <1>2, <1>3, PTL DEF Spec

-----------------------------------------------------------------------------
(* The offers that the library passed on, each once.                       *)
Distinct(o) == {o[j] : j \in {h \in 1..Len(o) : GoodAt(o, h)}}

(* The cache, after the offers o: it has those that came first, as many as *)
(* there is room for.                                                      *)
CacheHolds(kept, o) ==
    /\ kept \subseteq Distinct(o)
    /\ kept = Distinct(o) \/ Cardinality(kept) = MaxCached
    /\ \A i \in DOMAIN o : GoodAt(o, i) => (o[i] \in kept <=> ~(RankAt(o, FirstAt(o, i)) > MaxCached))

(* Every offer has a first occurrence, and only one.                       *)
LEMMA FirstExists ==
    ASSUME NEW S, NEW o \in Seq(S), NEW i \in 1..Len(o)
    PROVE  /\ FirstAt(o, i) \in 1..i /\ o[FirstAt(o, i)] = o[i]
           /\ \A h \in 1..(FirstAt(o, i) - 1) : o[h] # o[i]
<1> DEFINE M == {j \in Nat : j \in 1..i /\ o[j] = o[i]}
<1>1. M # {} /\ M \in SUBSET Nat
  BY Len(o) \in Nat
<1>2. PICK m \in M : \A j \in M : <<j, m>> \notin OpToRel(<, Nat)
  BY <1>1, NatLessThanWellFounded, WFMin
<1>3. m \in 1..i /\ o[m] = o[i] /\ m \in Nat /\ \A j \in M : ~(j < m)
  BY <1>2 DEF OpToRel
<1>4. \A h \in 1..(m - 1) : o[h] # o[i]
  BY <1>3
<1> QED
  BY <1>3, <1>4 DEF FirstAt

(* So whatever is a first occurrence is the one.                           *)
LEMMA FirstUnique ==
    ASSUME NEW S, NEW o \in Seq(S), NEW i \in 1..Len(o), NEW j \in 1..i, o[j] = o[i],
           \A h \in 1..(j - 1) : o[h] # o[i]
    PROVE  FirstAt(o, i) = j
<1>1. /\ FirstAt(o, i) \in 1..i /\ o[FirstAt(o, i)] = o[i]
      /\ \A h \in 1..(FirstAt(o, i) - 1) : o[h] # o[i]
  BY FirstExists
<1>2. PICK f \in 1..i : f = FirstAt(o, i)
  BY <1>1
<1>3. ~(f < j) /\ ~(j < f)
  BY <1>1, <1>2
<1> QED
  BY <1>2, <1>3

(* A later offer changes nothing about the earlier ones.                   *)
LEMMA EarlierKept ==
    ASSUME NEW S, NEW o \in Seq(S), NEW x \in S, NEW i \in 1..Len(o)
    PROVE  /\ Append(o, x)[i] = o[i]
           /\ GoodAt(Append(o, x), i) <=> GoodAt(o, i)
           /\ FirstAt(Append(o, x), i) = FirstAt(o, i)
           /\ RankAt(Append(o, x), i) = RankAt(o, i)
           /\ i \in Kept(Append(o, x)) <=> i \in Kept(o)
<1> DEFINE p == Append(o, x)
<1>1. /\ p \in Seq(S) /\ Len(p) = Len(o) + 1 /\ Len(o) \in Nat
      /\ \A j \in 1..Len(o) : p[j] = o[j]
      /\ DOMAIN o = 1..Len(o) /\ DOMAIN p = 1..Len(p)
  OBVIOUS
<1> HIDE DEF p
<1>2. \A j \in 1..Len(o) : GoodAt(p, j) <=> GoodAt(o, j)
  BY <1>1 DEF GoodAt
<1>3. \A j \in 1..Len(o) : RankAt(p, j) = RankAt(o, j)
  <2> TAKE j \in 1..Len(o)
  <2>1. {h \in 1..j : GoodAt(p, h)} = {h \in 1..j : GoodAt(o, h)}
    BY <1>1, <1>2
  <2>2. \A h \in {h \in 1..j : GoodAt(o, h)} : p[h] = o[h]
    BY <1>1
  <2>3. {p[h] : h \in {h \in 1..j : GoodAt(o, h)}} = {o[h] : h \in {h \in 1..j : GoodAt(o, h)}}
    BY <2>2
  <2> QED
    BY <2>1, <2>3 DEF RankAt
<1>4. FirstAt(p, i) = FirstAt(o, i)
  <2>1. PICK f \in 1..i : f = FirstAt(o, i) /\ o[f] = o[i] /\ \A h \in 1..(f - 1) : o[h] # o[i]
    BY FirstExists
  <2>2. i \in 1..Len(p) /\ p[f] = p[i] /\ \A h \in 1..(f - 1) : p[h] # p[i]
    BY <1>1, <2>1
  <2>3. FirstAt(p, i) = f
    BY <1>1, <2>1, <2>2, FirstUnique, ZenonT(40)
  <2> QED
    BY <2>1, <2>3
<1>5. FirstAt(o, i) \in 1..Len(o)
  BY FirstExists
<1>6. i \in Kept(p) <=> i \in Kept(o)
  BY <1>1, <1>2, <1>3, <1>4, <1>5 DEF Kept
<1> QED
  BY <1>1, <1>2, <1>3, <1>4, <1>6 DEF p

(* The first occurrence of the newest offer.                               *)
LEMMA NewestFirst ==
    ASSUME NEW S, NEW o \in Seq(S), NEW x \in S
    PROVE  /\ \A j \in 1..Len(o) : o[j] = x => FirstAt(Append(o, x), Len(o) + 1) = FirstAt(o, j)
           /\ (\A j \in 1..Len(o) : o[j] # x) => FirstAt(Append(o, x), Len(o) + 1) = Len(o) + 1
<1> DEFINE p == Append(o, x)
           n == Len(o) + 1
<1>1. /\ p \in Seq(S) /\ Len(p) = n /\ n = Len(o) + 1 /\ Len(o) \in Nat /\ n \in 1..Len(p) /\ p[n] = x
      /\ \A j \in 1..Len(o) : p[j] = o[j]
  OBVIOUS
<1> HIDE DEF p, n
<1>2. ASSUME NEW j \in 1..Len(o), o[j] = x PROVE FirstAt(p, n) = FirstAt(o, j)
  <2>1. PICK f \in 1..j : f = FirstAt(o, j) /\ o[f] = o[j] /\ \A h \in 1..(f - 1) : o[h] # o[j]
    BY FirstExists
  <2>2. f \in 1..n /\ p[f] = p[n] /\ \A h \in 1..(f - 1) : p[h] # p[n]
    BY <1>1, <1>2, <2>1
  <2>3. FirstAt(p, n) = f
    BY <1>1, <2>1, <2>2, FirstUnique, ZenonT(40)
  <2> QED
    BY <2>1, <2>3
<1>3. ASSUME \A j \in 1..Len(o) : o[j] # x PROVE FirstAt(p, n) = n
  <2>1. n \in 1..n /\ \A h \in 1..(n - 1) : p[h] # p[n]
    BY <1>1, <1>3
  <2> QED
    BY <1>1, <2>1, FirstUnique
<1> QED
  BY <1>2, <1>3 DEF p, n

(* Ranks are numbers, and the newest offer's is the number of all that     *)
(* were passed on.                                                         *)
LEMMA Ranks ==
    ASSUME NEW S, NEW o \in Seq(S)
    PROVE  /\ IsFiniteSet(Distinct(o)) /\ RankAt(o, Len(o)) = Cardinality(Distinct(o))
           /\ \A i \in 1..Len(o) : RankAt(o, i) \in Nat
<1>1. Len(o) \in Nat
  OBVIOUS
<1>2. ASSUME NEW i \in Nat PROVE IsFiniteSet({o[j] : j \in {h \in 1..i : GoodAt(o, h)}})
  <2> DEFINE H == {h \in 1..i : GoodAt(o, h)}
  <2>1. IsFiniteSet(1..i)
    BY FS_Interval, 1 \in Int, i \in Int
  <2>2. IsFiniteSet(H)
    BY <2>1, FS_Subset
  <2> HIDE DEF H
  <2> DEFINE f == [h \in H |-> o[h]]
             D == {o[j] : j \in H}
  <2>a. f \in [H -> D] /\ \A d \in D : \E h \in H : f[h] = d
    OBVIOUS
  <2>b. f \in Surjection(H, D)
    BY <2>a, Fun_IsSurj, Zenon
  <2>3. IsFiniteSet({o[j] : j \in H})
    BY <2>2, <2>b, FS_Surjection, Zenon
  <2> QED
    BY <2>3 DEF H
<1>3. IsFiniteSet(Distinct(o)) /\ RankAt(o, Len(o)) = Cardinality(Distinct(o))
  BY <1>1, <1>2 DEF Distinct, RankAt
<1>4. \A i \in 1..Len(o) : RankAt(o, i) \in Nat
  <2> TAKE i \in 1..Len(o)
  <2>1. i \in Nat
    BY <1>1
  <2> QED
    BY <2>1, <1>2, FS_CardinalityType, Zenon DEF RankAt
<1> QED
  BY <1>3, <1>4

(* What is passed on after one more offer.                                 *)
LEMMA DistinctAppend ==
    ASSUME NEW S, NEW o \in Seq(S), NEW x \in S
    PROVE  Distinct(Append(o, x)) =
               IF isAcceptableAlgo(x[2].algo) THEN Distinct(o) \cup {x} ELSE Distinct(o)
<1> DEFINE p == Append(o, x)
           n == Len(o) + 1
           G == {h \in 1..Len(o) : GoodAt(o, h)}
<1>1. /\ Len(p) = n /\ Len(o) \in Nat /\ p[n] = x /\ 1..n = (1..Len(o)) \cup {n}
      /\ \A j \in 1..Len(o) : p[j] = o[j]
  OBVIOUS
<1> HIDE DEF p, n
<1>2. GoodAt(p, n) <=> isAcceptableAlgo(x[2].algo)
  BY <1>1 DEF GoodAt
<1>3. \A h \in 1..Len(o) : GoodAt(p, h) <=> GoodAt(o, h)
  BY <1>1 DEF GoodAt
<1>4. {h \in 1..Len(p) : GoodAt(p, h)} = IF isAcceptableAlgo(x[2].algo) THEN G \cup {n} ELSE G
  BY <1>1, <1>2, <1>3
<1>5. \A h \in G : p[h] = o[h]
  BY <1>1
<1> HIDE DEF G
<1>6. {p[h] : h \in G} = {o[h] : h \in G}
  BY <1>5
<1>7. {p[h] : h \in G \cup {n}} = {o[h] : h \in G} \cup {x}
  BY <1>1, <1>5
<1> QED
  BY <1>4, <1>6, <1>7 DEF Distinct, p, G

(* What becomes of one more offer x, when the cache is as the offers o     *)
(* have left it.                                                           *)
LEMMA NewestKept ==
    ASSUME NEW S, NEW o \in Seq(S), NEW x \in S, NEW kept, CacheHolds(kept, o),
           isAcceptableAlgo(x[2].algo)
    PROVE  LET p == Append(o, x)
               n == Len(o) + 1
           IN  /\ GoodAt(p, n) /\ p[n] = x
               /\ x \in kept => ~(RankAt(p, FirstAt(p, n)) > MaxCached) /\ n \notin Kept(p)
               /\ x \in Distinct(o) /\ x \notin kept
                      => RankAt(p, FirstAt(p, n)) > MaxCached /\ n \in Kept(p)
               /\ x \notin Distinct(o)
                      => RankAt(p, FirstAt(p, n)) = Cardinality(Distinct(o)) + 1 /\ n \in Kept(p)
<1> DEFINE p == Append(o, x)
           n == Len(o) + 1
<1>1. /\ p \in Seq(S) /\ Len(p) = n /\ p[n] = x /\ Len(o) \in Nat
      /\ DOMAIN o = 1..Len(o) /\ DOMAIN p = 1..n
      /\ \A j \in 1..Len(o) : p[j] = o[j]
  OBVIOUS
<1>2. n = Len(o) + 1
  OBVIOUS
<1>3. /\ \A j \in 1..Len(o) : o[j] = x => FirstAt(p, n) = FirstAt(o, j)
      /\ (\A j \in 1..Len(o) : o[j] # x) => FirstAt(p, n) = n
  BY NewestFirst, Zenon
<1>4. \A j \in 1..Len(o) : RankAt(p, j) = RankAt(o, j)
  BY EarlierKept, Zenon
<1>5. Distinct(p) = Distinct(o) \cup {x}
  BY DistinctAppend, Zenon
<1>6. RankAt(p, n) = Cardinality(Distinct(p))
  BY <1>1, Ranks
<1> HIDE DEF p, n
<1>7. GoodAt(p, n)
  BY <1>1 DEF GoodAt
<1>8. x \in Distinct(o) => \E j \in 1..Len(o) : GoodAt(o, j) /\ o[j] = x
  BY DEF Distinct
<1>9. ASSUME NEW j \in 1..Len(o), GoodAt(o, j), o[j] = x
      PROVE  /\ x \in kept <=> ~(RankAt(p, FirstAt(p, n)) > MaxCached)
             /\ FirstAt(p, n) # n
  <2>1. FirstAt(o, j) \in 1..j
    BY FirstExists
  <2>2. FirstAt(p, n) = FirstAt(o, j)
    BY <1>3, <1>9
  <2>3. FirstAt(o, j) \in 1..Len(o) /\ FirstAt(o, j) # n
    BY <2>1, <1>1, <1>2
  <2>4. RankAt(p, FirstAt(p, n)) = RankAt(o, FirstAt(o, j))
    BY <1>4, <2>2, <2>3
  <2>5. x \in kept <=> ~(RankAt(o, FirstAt(o, j)) > MaxCached)
    BY <1>1, <1>9 DEF CacheHolds
  <2> QED
    BY <2>2, <2>3, <2>4, <2>5
<1>a. n \in Kept(p) <=> FirstAt(p, n) = n \/ RankAt(p, FirstAt(p, n)) > MaxCached
  BY <1>1, <1>2, <1>7 DEF Kept
<1>b. CASE x \in Distinct(o)
  <2>1. /\ x \in kept <=> ~(RankAt(p, FirstAt(p, n)) > MaxCached)
        /\ FirstAt(p, n) # n
    BY <1>b, <1>8, <1>9
  <2> QED
    BY <2>1, <1>1, <1>7, <1>a, <1>b DEF p, n
<1>c. CASE x \notin Distinct(o)
  <2>1. \A j \in 1..Len(o) : o[j] # x
    <3> SUFFICES ASSUME NEW j \in 1..Len(o), o[j] = x PROVE FALSE
      OBVIOUS
    <3>1. GoodAt(o, j)
      BY DEF GoodAt
    <3> QED
      BY <3>1, <1>c DEF Distinct
  <2>2. FirstAt(p, n) = n
    BY <2>1, <1>3
  <2>3. Cardinality(Distinct(p)) = Cardinality(Distinct(o)) + 1
    BY <1>5, <1>c, Ranks, FS_AddElement
  <2>4. x \notin kept
    BY <1>c DEF CacheHolds
  <2> QED
    BY <2>2, <2>3, <2>4, <1>1, <1>6, <1>7, <1>a, <1>c DEF p, n
<1> QED
  BY <1>b, <1>c

(* An offer that is refused without a callback changes neither the cache   *)
(* nor what is to be listed.                                               *)
LEMMA OfferRefused ==
    ASSUME NEW S, NEW o \in Seq(S), NEW x \in S, NEW kept, CacheHolds(kept, o), NEW list,
           Lists(list, o), ~isAcceptableAlgo(x[2].algo) \/ x \in kept
    PROVE  CacheHolds(kept, Append(o, x)) /\ Lists(list, Append(o, x))
<1> DEFINE p == Append(o, x)
           n == Len(o) + 1
<1>1. /\ p \in Seq(S) /\ Len(p) = n /\ n = Len(o) + 1 /\ p[n] = x /\ Len(o) \in Nat
      /\ DOMAIN o = 1..Len(o) /\ DOMAIN p = 1..n /\ 1..n = (1..Len(o)) \cup {n}
  OBVIOUS
<1>2. \A i \in 1..Len(o) : /\ p[i] = o[i]
                           /\ GoodAt(p, i) <=> GoodAt(o, i)
                           /\ FirstAt(p, i) = FirstAt(o, i)
                           /\ i \in Kept(p) <=> i \in Kept(o)
                           /\ RankAt(p, i) = RankAt(o, i)
                           /\ FirstAt(o, i) \in 1..Len(o)
  BY EarlierKept, FirstExists
<1>3. isAcceptableAlgo(x[2].algo) => ~(RankAt(p, FirstAt(p, n)) > MaxCached) /\ n \notin Kept(p)
  BY NewestKept, Zenon
<1>4. Distinct(p) = Distinct(o)
  <2>1. Distinct(p) = IF isAcceptableAlgo(x[2].algo) THEN Distinct(o) \cup {x} ELSE Distinct(o)
    BY DistinctAppend, Zenon
  <2>2. x \in kept => x \in Distinct(o)
    BY DEF CacheHolds
  <2> QED
    BY <2>1, <2>2
<1> HIDE DEF p, n
<1>5. GoodAt(p, n) <=> isAcceptableAlgo(x[2].algo)
  BY <1>1 DEF GoodAt
<1>6. Kept(p) = Kept(o)
  <2>1. n \notin Kept(p)
    BY <1>3, <1>5 DEF Kept
  <2>2. Kept(p) \subseteq 1..n /\ Kept(o) \subseteq 1..Len(o)
    BY <1>1 DEF Kept
  <2> QED
    BY <1>1, <1>2, <2>1, <2>2
<1>7. \A i \in Kept(o) : p[i] = o[i]
  BY <1>1, <1>2 DEF Kept
<1>8. Lists(list, p)
  BY <1>6, <1>7 DEF Lists
<1>9. CacheHolds(kept, p)
  <2>1. ASSUME NEW i \in 1..Len(o), GoodAt(p, i)
        PROVE  p[i] \in kept <=> ~(RankAt(p, FirstAt(p, i)) > MaxCached)
    <3>1. RankAt(p, FirstAt(p, i)) = RankAt(o, FirstAt(o, i))
      BY <1>2
    <3>2. GoodAt(o, i) /\ p[i] = o[i]
      BY <1>2, <2>1
    <3>3. o[i] \in kept <=> ~(RankAt(o, FirstAt(o, i)) > MaxCached)
      BY <1>1, <3>2 DEF CacheHolds
    <3> QED
      BY <3>1, <3>2, <3>3
  <2>2. ASSUME GoodAt(p, n) PROVE p[n] \in kept <=> ~(RankAt(p, FirstAt(p, n)) > MaxCached)
    BY <1>1, <1>3, <1>5, <2>2
  <2>3. \A i \in DOMAIN p : GoodAt(p, i) => (p[i] \in kept <=> ~(RankAt(p, FirstAt(p, i)) > MaxCached))
    BY <1>1, <2>1, <2>2
  <2> QED
    BY <1>4, <2>3 DEF CacheHolds
<1> QED
  BY <1>8, <1>9 DEF p

(* The list has the keys of the offers at the places A, in order.          *)
Picks(list, A, o) ==
    Len(list) = Cardinality(A) /\ \A i \in A : list[Cardinality(A \cap (1..i))] = o[i][2]

(* One more key at the end of the list, for one more place.                *)
LEMMA PicksAppend ==
    ASSUME NEW list \in Seq(Key), NEW m \in Nat, NEW A \in SUBSET (1..m), NEW o, NEW p,
           NEW y \in Key, \A i \in A : p[i] = o[i], p[m + 1][2] = y, Picks(list, A, o)
    PROVE  Picks(Append(list, y), A \cup {m + 1}, p)
<1> DEFINE B == A \cup {m + 1}
           more == Append(list, y)
<1>0. Len(list) = Cardinality(A) /\ \A i \in A : list[Cardinality(A \cap (1..i))] = o[i][2]
  BY DEF Picks
<1>1. IsFiniteSet(1..m)
  BY FS_Interval, 1 \in Int, m \in Int
<1>2. IsFiniteSet(A)
  BY <1>1, FS_Subset
<1>3. m + 1 \notin A
  OBVIOUS
<1>4. Cardinality(B) = Cardinality(A) + 1
  BY <1>2, <1>3, FS_AddElement
<1>5. B \cap (1..(m + 1)) = B
  <2>1. \A i \in A : i \in 1..(m + 1)
    OBVIOUS
  <2>2. m + 1 \in 1..(m + 1)
    OBVIOUS
  <2> QED
    BY <2>1, <2>2, Zenon
<1>6. /\ more[Len(list) + 1] = y /\ Len(more) = Len(list) + 1
      /\ \A r \in 1..Len(list) : more[r] = list[r]
  OBVIOUS
<1> HIDE DEF more
<1>7. ASSUME NEW i \in A PROVE more[Cardinality(B \cap (1..i))] = p[i][2]
  <2>1. B \cap (1..i) = A \cap (1..i)
    OBVIOUS
  <2>2. IsFiniteSet(A \cap (1..i)) /\ Cardinality(A \cap (1..i)) <= Cardinality(A)
    BY <1>2, FS_Subset
  <2>3. i \in A \cap (1..i)
    OBVIOUS
  <2> DEFINE r == Cardinality(A \cap (1..i))
  <2>4. r \in Nat
    BY <2>2, FS_CardinalityType
  <2>5. r # 0
    BY <2>2, <2>3, FS_EmptySet
  <2>6. r <= Len(list) /\ list[r] = o[i][2]
    BY <1>0, <2>2
  <2> HIDE DEF r
  <2>7. r \in 1..Len(list)
    BY <2>4, <2>5, <2>6
  <2>8. more[r] = p[i][2]
    BY <1>6, <2>6, <2>7
  <2> QED
    BY <2>1, <2>8 DEF r
<1>8. more[Cardinality(B \cap (1..(m + 1)))] = p[m + 1][2]
  BY <1>0, <1>4, <1>5, <1>6
<1>9. \A i \in B : more[Cardinality(B \cap (1..i))] = p[i][2]
  BY <1>7, <1>8
<1>a. Len(more) = Cardinality(B)
  BY <1>0, <1>4, <1>6
<1> HIDE DEF B
<1> QED
  BY <1>9, <1>a DEF Picks, B, more

(* What cache.add makes of a cache.                                        *)
Add(kept, x) == IF Cardinality(kept) < MaxCached THEN kept \cup {x} ELSE kept

(* An offer for which the callback was called is cached while there is     *)
(* room, and listed.                                                       *)
LEMMA OfferAppended ==
    ASSUME NEW o \in Seq(User \X Key), NEW x \in User \X Key, NEW kept, CacheHolds(kept, o),
           IsFiniteSet(kept), Cardinality(kept) <= MaxCached,
           NEW list \in Seq(Key), Lists(list, o),
           isAcceptableAlgo(x[2].algo), x \notin kept
    PROVE  CacheHolds(Add(kept, x), Append(o, x)) /\ Lists(Append(list, x[2]), Append(o, x))
<1> DEFINE S == User \X Key
           p == Append(o, x)
           n == Len(o) + 1
<1>0. o \in Seq(S) /\ x \in S /\ x[2] \in Key
  OBVIOUS
<1> HIDE DEF S
<1>1. /\ p \in Seq(S) /\ Len(p) = n /\ n = Len(o) + 1 /\ p[n] = x /\ Len(o) \in Nat
      /\ DOMAIN o = 1..Len(o) /\ DOMAIN p = 1..n /\ 1..n = (1..Len(o)) \cup {n}
  BY <1>0
<1>2. \A i \in 1..Len(o) : /\ p[i] = o[i]
                           /\ GoodAt(p, i) <=> GoodAt(o, i)
                           /\ FirstAt(p, i) = FirstAt(o, i)
                           /\ i \in Kept(p) <=> i \in Kept(o)
                           /\ RankAt(p, i) = RankAt(o, i)
                           /\ FirstAt(o, i) \in 1..Len(o)
  BY <1>0, EarlierKept, FirstExists
<1>3. /\ GoodAt(p, n)
      /\ x \in Distinct(o) => RankAt(p, FirstAt(p, n)) > MaxCached /\ n \in Kept(p)
      /\ x \notin Distinct(o)
             => RankAt(p, FirstAt(p, n)) = Cardinality(Distinct(o)) + 1 /\ n \in Kept(p)
  BY <1>0, NewestKept, Zenon
<1>4. Distinct(p) = Distinct(o) \cup {x}
  BY <1>0, DistinctAppend, Zenon
<1>5. IsFiniteSet(Distinct(o))
  BY <1>0, Ranks, Zenon
<1> HIDE DEF p, n
<1>6. Kept(p) = Kept(o) \cup {n} /\ Kept(o) \subseteq 1..Len(o)
  <2>1. n \in Kept(p)
    BY <1>3
  <2>2. Kept(p) \subseteq 1..n /\ Kept(o) \subseteq 1..Len(o)
    BY <1>1 DEF Kept
  <2> QED
    BY <1>1, <1>2, <2>1, <2>2
<1>7. Lists(Append(list, x[2]), p)
  <2>1. PICK m \in Nat, y \in Key : m = Len(o) /\ y = x[2]
    BY <1>0, <1>1
  <2>2. Picks(list, Kept(o), o)
    BY DEF Picks, Lists
  <2>3. /\ Kept(o) \in SUBSET (1..m) /\ \A i \in Kept(o) : p[i] = o[i]
        /\ p[m + 1][2] = y /\ Kept(p) = Kept(o) \cup {m + 1}
    BY <1>1, <1>2, <1>6, <2>1
  <2>4. Picks(Append(list, y), Kept(o) \cup {m + 1}, p)
    BY <2>2, <2>3, PicksAppend
  <2>5. Picks(Append(list, x[2]), Kept(p), p)
    BY <2>1, <2>3, <2>4
  <2> QED
    BY <2>5 DEF Picks, Lists
<1>8. kept \subseteq Distinct(o) /\ Cardinality(kept) \in Nat /\ Cardinality(Distinct(o)) \in Nat
  BY <1>5, FS_CardinalityType DEF CacheHolds
<1>9. ASSUME NEW i \in 1..Len(o), GoodAt(p, i)
      PROVE  p[i] \in kept <=> ~(RankAt(p, FirstAt(p, i)) > MaxCached)
  <2>1. RankAt(p, FirstAt(p, i)) = RankAt(o, FirstAt(o, i))
    BY <1>2
  <2>2. GoodAt(o, i) /\ p[i] = o[i]
    BY <1>2, <1>9
  <2>3. o[i] \in kept <=> ~(RankAt(o, FirstAt(o, i)) > MaxCached)
    BY <1>1, <2>2 DEF CacheHolds
  <2> QED
    BY <2>1, <2>2, <2>3
<1>a. CASE Cardinality(kept) < MaxCached
  <2>1. kept = Distinct(o)
    BY <1>a, <1>8, CacheAssumption DEF CacheHolds
  <2>2. Add(kept, x) = Distinct(p)
    BY <1>a, <1>4, <2>1 DEF Add
  <2>3. ~(RankAt(p, FirstAt(p, n)) > MaxCached)
    BY <1>a, <1>3, <1>8, <2>1, CacheAssumption
  <2>4. \A i \in 1..Len(o) : GoodAt(p, i) => p[i] \in kept
    BY <1>1, <1>2, <2>1 DEF Distinct
  <2>5. p[n] \in Distinct(p)
    BY <1>1, <1>4
  <2>6. ASSUME NEW i \in DOMAIN p, GoodAt(p, i)
        PROVE  p[i] \in Add(kept, x) <=> ~(RankAt(p, FirstAt(p, i)) > MaxCached)
    <3>1. CASE i = n
      BY <2>2, <2>3, <2>5, <3>1
    <3>2. CASE i \in 1..Len(o)
      BY <1>4, <1>9, <2>1, <2>2, <2>4, <2>6, <3>2
    <3> QED
      BY <1>1, <3>1, <3>2
  <2> QED
    BY <1>7, <2>2, <2>6 DEF CacheHolds, p
<1>b. CASE ~(Cardinality(kept) < MaxCached)
  <2>1. Add(kept, x) = kept /\ Cardinality(kept) = MaxCached
    BY <1>b, <1>8, CacheAssumption DEF Add
  <2>2. Cardinality(kept) <= Cardinality(Distinct(o))
    BY <1>5, <1>8, FS_Subset
  <2>3. RankAt(p, FirstAt(p, n)) > MaxCached
    BY <1>3, <1>8, <2>1, <2>2, CacheAssumption
  <2>4. ASSUME NEW i \in DOMAIN p, GoodAt(p, i)
        PROVE  p[i] \in kept <=> ~(RankAt(p, FirstAt(p, i)) > MaxCached)
    <3>1. CASE i = n
      BY <1>1, <2>3, <3>1
    <3>2. CASE i \in 1..Len(o)
      BY <1>9, <2>4, <3>2
    <3> QED
      BY <1>1, <3>1, <3>2
  <2>5. kept \subseteq Distinct(p)
    BY <1>4, <1>8
  <2> QED
    BY <1>7, <2>1, <2>4, <2>5 DEF CacheHolds, p
<1> QED
  BY <1>a, <1>b

(* Between callbacks the entry of a connection lists its offers so far.    *)
Collected(c) == CacheHolds(cache[c], offered[c]) /\ Lists(sessionKeys[c], offered[c])

(* During a callback it lists the offers before the one the callback is    *)
(* about, which the cache does not have.                                   *)
Collecting(c) ==
    \E o \in Seq(User \X Key) : \E x \in User \X Key :
        /\ offered[c] = Append(o, x) /\ isAcceptableAlgo(x[2].algo) /\ x \notin cache[c]
        /\ CacheHolds(cache[c], o) /\ Lists(sessionKeys[c], o)

(* How a connection's entry, its cache and the keys it has read relate to  *)
(* what its client offered.                                                *)
HistoryOf(c) ==
    /\ pc[c] \in {"idle", "kex", "auth", "rdLock", "rdMap"} => Collected(c)
    /\ pc[c] \in {"cbLock", "cbMap"} => Collecting(c)
    /\ pc[c] \in Served => Lists(keys[c], offered[c])

HistoryInv == \A c \in Conn : HistoryOf(c)

(* A connection that no step touches keeps its history.                    *)
LEMMA HistoryFrame ==
    ASSUME NEW c \in Conn, HistoryOf(c), pc'[c] = pc[c], offered'[c] = offered[c],
           cache'[c] = cache[c], sessionKeys'[c] = sessionKeys[c], keys'[c] = keys[c]
    PROVE  HistoryOf(c)'
BY DEF HistoryOf, Collected, Collecting

(* No step of a connection touches the others.                             *)
LEMMA OthersUntouched ==
    ASSUME TypeInv, NEW c \in Conn, AcceptConn(c) \/ Run(c) \/ Serve(c), NEW d \in Conn, d # c
    PROVE  /\ pc'[d] = pc[d] /\ offered'[d] = offered[d] /\ cache'[d] = cache[d]
           /\ sessionKeys'[d] = sessionKeys[d] /\ keys'[d] = keys[d]
<1> USE DEF TypeInv, TypeOK, Go, SessionID, Offer
<1>1. pc'[d] = pc[d]
  BY DEF AcceptConn, Run, CallbackLock, CallbackAppend, ReadLock, ReadKeys, DeferLock, DeferDelete,
         Serve, KexDone, HandshakeFails, Refused, CallBack, Interactive, Show, Leave
<1>2. offered'[d] = offered[d]
  BY DEF AcceptConn, Run, CallbackLock, CallbackAppend, ReadLock, ReadKeys, DeferLock, DeferDelete,
         Serve, KexDone, HandshakeFails, Refused, CallBack, Interactive, Show, Leave
<1>3. cache'[d] = cache[d]
  BY DEF AcceptConn, Run, CallbackLock, CallbackAppend, ReadLock, ReadKeys, DeferLock, DeferDelete,
         Serve, KexDone, HandshakeFails, Refused, CallBack, Interactive, Show, Leave
<1>4. sessionKeys'[d] = sessionKeys[d]
  BY DEF AcceptConn, Run, CallbackLock, CallbackAppend, ReadLock, ReadKeys, DeferLock, DeferDelete,
         Serve, KexDone, HandshakeFails, Refused, CallBack, Interactive, Show, Leave
<1>5. keys'[d] = keys[d]
  BY DEF AcceptConn, Run, CallbackLock, CallbackAppend, ReadLock, ReadKeys, DeferLock, DeferDelete,
         Serve, KexDone, HandshakeFails, Refused, CallBack, Interactive, Show, Leave
<1> QED
  BY <1>1, <1>2, <1>3, <1>4, <1>5

(* A step of a connection keeps its own history.                           *)
LEMMA OwnHistory ==
    ASSUME TypeInv, NEW c \in Conn, HistoryOf(c), AcceptConn(c) \/ Run(c) \/ Serve(c)
    PROVE  HistoryOf(c)'
<1>t. /\ pc \in [Conn -> PCs] /\ offered[c] \in Seq(User \X Key) /\ sessionKeys[c] \in Seq(Key)
      /\ offered \in [Conn -> Seq(User \X Key)] /\ sessionKeys \in [Conn -> Seq(Key)]
      /\ cache \in [Conn -> SUBSET (User \X Key)] /\ keys \in [Conn -> Seq(Key)]
      /\ IsFiniteSet(cache[c]) /\ Cardinality(cache[c]) <= MaxCached
  BY DEF TypeInv, TypeOK, CacheBounded
<1>1. CASE AcceptConn(c) \/ KexDone(c) \/ Interactive(c) \/ ReadLock(c)
  <2>1. /\ pc[c] \in {"idle", "kex", "auth", "rdLock"} /\ pc'[c] \in {"kex", "auth", "rdLock", "rdMap"}
        /\ UNCHANGED <<offered, cache, sessionKeys>>
    BY <1>1, <1>t DEF AcceptConn, KexDone, Interactive, ReadLock, Go
  <2> QED
    BY <2>1 DEF HistoryOf, Collected, Served
<1>2. CASE HandshakeFails(c)
  BY <1>2, <1>t DEF HandshakeFails, Go, HistoryOf, Served
<1>3. CASE CallbackLock(c)
  <2>1. pc[c] = "cbLock" /\ pc'[c] = "cbMap" /\ UNCHANGED <<offered, cache, sessionKeys>>
    BY <1>3, <1>t DEF CallbackLock, Go
  <2>2. Collecting(c)
    BY <2>1 DEF HistoryOf
  <2>3. Collecting(c)'
    BY <2>1, <2>2 DEF Collecting
  <2> QED
    BY <2>1, <2>3 DEF HistoryOf, Served
<1>4. CASE Show(c) \/ Leave(c) \/ DeferLock(c) \/ DeferDelete(c)
  <2>1. pc[c] \in Served /\ pc'[c] \in Served /\ UNCHANGED <<offered, keys>>
    BY <1>4, <1>t DEF Show, Leave, DeferLock, DeferDelete, Go, Served
  <2> QED
    BY <2>1 DEF HistoryOf, Served
<1>5. CASE ReadKeys(c)
  <2>1. /\ pc[c] = "rdMap" /\ pc'[c] = "serving" /\ UNCHANGED offered
        /\ keys'[c] = sessionKeys[c]
    BY <1>5, <1>t DEF ReadKeys, Go, SessionID
  <2> QED
    BY <2>1 DEF HistoryOf, Collected, Served
<1>6. ASSUME NEW x \in User \X Key, Refused(c, x) PROVE HistoryOf(c)'
  <2>1. /\ pc[c] = "auth" /\ pc'[c] = "auth" /\ UNCHANGED <<cache, sessionKeys>>
        /\ offered'[c] = Append(offered[c], x)
        /\ ~isAcceptableAlgo(x[2].algo) \/ x \in cache[c]
    BY <1>6, <1>t DEF Refused, Go, Offer, get
  <2>2. CacheHolds(cache[c], offered[c]) /\ Lists(sessionKeys[c], offered[c])
    BY <2>1 DEF HistoryOf, Collected
  <2>3. CacheHolds(cache[c], Append(offered[c], x)) /\ Lists(sessionKeys[c], Append(offered[c], x))
    BY <1>t, <2>1, <2>2, OfferRefused
  <2> QED
    BY <2>1, <2>3 DEF HistoryOf, Collected, Served
<1>7. ASSUME NEW x \in User \X Key, CallBack(c, x) PROVE HistoryOf(c)'
  <2>1. /\ pc[c] = "auth" /\ pc'[c] = "cbLock" /\ UNCHANGED <<cache, sessionKeys>>
        /\ offered'[c] = Append(offered[c], x)
        /\ isAcceptableAlgo(x[2].algo) /\ x \notin cache[c]
    BY <1>7, <1>t DEF CallBack, Go, Offer, get
  <2>2. CacheHolds(cache[c], offered[c]) /\ Lists(sessionKeys[c], offered[c])
    BY <2>1 DEF HistoryOf, Collected
  <2>3. Collecting(c)'
    BY <1>t, <2>1, <2>2 DEF Collecting
  <2> QED
    BY <2>1, <2>3 DEF HistoryOf, Served
<1>8. CASE CallbackAppend(c)
  <2>1. /\ pc[c] = "cbMap" /\ pc'[c] = "auth" /\ UNCHANGED offered
        /\ sessionKeys'[c] = Append(sessionKeys[c], LastOffer(c)[2])
        /\ cache'[c] = Add(cache[c], LastOffer(c))
    BY <1>8, <1>t DEF CallbackAppend, Go, SessionID, Cached, Add
  <2>2. PICK o \in Seq(User \X Key), x \in User \X Key :
            /\ offered[c] = Append(o, x) /\ isAcceptableAlgo(x[2].algo) /\ x \notin cache[c]
            /\ CacheHolds(cache[c], o) /\ Lists(sessionKeys[c], o)
    BY <2>1 DEF HistoryOf, Collecting
  <2>3. LastOffer(c) = x
    BY <2>2 DEF LastOffer
  <2>4. CacheHolds(Add(cache[c], x), Append(o, x)) /\ Lists(Append(sessionKeys[c], x[2]), Append(o, x))
    BY <1>t, <2>2, OfferAppended
  <2> QED
    BY <2>1, <2>2, <2>3, <2>4 DEF HistoryOf, Collected, Served
<1> QED
  BY <1>1, <1>2, <1>3, <1>4, <1>5, <1>6, <1>7, <1>8 DEF Run, Serve

(* The keys a client is shown are those it offered on its own connection,  *)
(* in order, each once while the cache has room, however the connections   *)
(* interleave on sessions.keys and whatever the size of the cache.         *)
THEOREM OffersListed == Spec => []KeysListed
<1>1. Init => HistoryInv
  <2> SUFFICES ASSUME Init, NEW c \in Conn PROVE HistoryOf(c)
    BY DEF HistoryInv
  <2>1. pc[c] = "idle" /\ offered[c] = <<>> /\ cache[c] = {} /\ sessionKeys[c] = <<>>
    BY DEF Init
  <2>2. Kept(<<>>) = {} /\ Distinct(<<>>) = {}
    BY DEF Kept, Distinct
  <2>3. Lists(<<>>, <<>>)
    BY <2>2, FS_EmptySet DEF Lists
  <2>4. CacheHolds({}, <<>>)
    BY <2>2 DEF CacheHolds
  <2> QED
    BY <2>1, <2>3, <2>4 DEF HistoryOf, Collected, Served
<1>2. TypeInv /\ HistoryInv /\ [Next]_vars => HistoryInv'
  <2> SUFFICES ASSUME TypeInv, HistoryInv, [Next]_vars, NEW d \in Conn PROVE HistoryOf(d)'
    BY DEF HistoryInv
  <2>0. HistoryOf(d)
    BY DEF HistoryInv
  <2>1. CASE Main \/ Terminated \/ UNCHANGED vars
    <3>1. UNCHANGED <<pc, offered, cache, sessionKeys, keys>>
      BY <2>1, MainFrame DEF Terminated, vars, connVars
    <3> QED
      BY <2>0, <3>1, HistoryFrame
  <2>2. ASSUME NEW c \in Conn, AcceptConn(c) \/ Run(c) \/ Serve(c) PROVE HistoryOf(d)'
    <3>1. CASE c = d
      BY <2>0, <2>2, <3>1, OwnHistory
    <3>2. CASE c # d
      BY <2>0, <2>2, <3>2, OthersUntouched, HistoryFrame
    <3> QED
      BY <3>1, <3>2
  <2> QED
    BY <2>1, <2>2 DEF Next
<1>3. HistoryInv => KeysListed
  BY DEF HistoryInv, HistoryOf, KeysListed
<1> QED
  BY <1>1, <1>2, <1>3, InitType, NextType, PTL DEF Spec

=============================================================================
