------------------------------ MODULE KeyCheck ------------------------------
(***************************************************************************)
(* What the server says about a list of public keys: the pure part of      *)
(* key.go, the lookup of blacklist.go and the table that serve() writes    *)
(* (server.go).  No state: these are the functions the other modules call. *)
(*                                                                         *)
(* A parsed ssh.PublicKey is a record                                      *)
(*   algo : the name its Type() returns,                                   *)
(*   bits : bit length of the RSA modulus or of the DSA prime, size of the *)
(*          curve for ECDSA (of the certified key, for a certificate),     *)
(*   mat  : the identity of the key material, so that two keys marshal to  *)
(*          the same bytes iff they agree on algo and mat.                 *)
(***************************************************************************)
EXTENDS Naturals, Sequences

KeyAlgoRSA == "ssh-rsa"
KeyAlgoDSA == "ssh-dss"
KeyAlgosECDSA == {"ecdsa-256", "ecdsa-384", "ecdsa-521"}
CertAlgos == {"rsa-cert", "dsa-cert", "ecdsa-256-cert", "ecdsa-384-cert",
              "ecdsa-521-cert"}

(* The algorithms the SSH library lets through to the callback; an         *)
(* ed25519 key is not among them.                                          *)
isAcceptableAlgo(algo) ==
    algo \in {KeyAlgoRSA, KeyAlgoDSA} \cup KeyAlgosECDSA \cup CertAlgos

(* Names of algorithms a client may come up with.                          *)
Algos == {KeyAlgoRSA, KeyAlgoDSA, "ssh-ed25519"} \cup KeyAlgosECDSA \cup CertAlgos

-----------------------------------------------------------------------------
(* Key length: the value and the error that BitLen returns.                *)

NoLength == [length |-> 0, err |-> TRUE]

rsaKeyLength(k) == [length |-> k.bits, err |-> FALSE]

dsaKeyLength(k) == [length |-> k.bits, err |-> FALSE]

(* Only the three NIST curves have a size.                                 *)
ecdsaKeyLength(k) ==
    IF k.bits \in {256, 384, 521} THEN [length |-> k.bits, err |-> FALSE]
                                  ELSE NoLength

(* Certificates fall into the default case: length 0 and an error.         *)
BitLen(k) ==
    CASE k.algo = KeyAlgoRSA        -> rsaKeyLength(k)
      [] k.algo = KeyAlgoDSA        -> dsaKeyLength(k)
      [] k.algo \in KeyAlgosECDSA   -> ecdsaKeyLength(k)
      [] OTHER                      -> NoLength

(* The colon separated hex of an MD5 sum tells apart what it hashes.       *)
md5HexString(data) == [md5 |-> data]

(* Of the marshalled key, which begins with its algorithm.                 *)
Fingerprint(k) == md5HexString(<<k.algo, k.mat>>)

-----------------------------------------------------------------------------
(* The blacklist maps lines to TRUE.  A line is its text and whether white *)
(* space surrounds it; an authorized_keys line ends with a newline.        *)

Line(text, spaced) == [text |-> text, spaced |-> spaced]

TrimSpace(line) == [line EXCEPT !.spaced = FALSE]

MarshalAuthorizedKey(k) == Line(<<k.algo, k.mat>>, TRUE)

(* What scanning a file adds to the map: every line, trimmed.              *)
ScanLines(lines) == {TrimSpace(l) : l \in lines}

(* The keys markBlacklistedKeys marks: positions in the list of keys.      *)
Blacklisted(keys, blacklist) ==
    {i \in DOMAIN keys : TrimSpace(MarshalAuthorizedKey(keys[i])) \in blacklist}

-----------------------------------------------------------------------------
(* One row of the table and the messages that follow it.                   *)

MinBits == 2048

IsDSA(k) == k.algo = KeyAlgoDSA

IsWeak(k) == BitLen(k).length < MinBits /\ k.algo = KeyAlgoRSA

(* The issue column: the tests of the loop body, the last one that holds   *)
(* wins.                                                                   *)
Issues(k, marked) ==
    IF marked THEN "BLACKLISTED"
    ELSE IF IsWeak(k) THEN "WEAK KEY LENGTH"
    ELSE IF IsDSA(k) THEN "DSA KEY"
    ELSE "No known issues"

Row(k, marked) ==
    [bits |-> BitLen(k).length, type |-> k.algo, fingerprint |-> Fingerprint(k),
     issues |-> Issues(k, marked)]

Table(keys, marked) == [i \in DOMAIN keys |-> Row(keys[i], i \in marked)]

(* The warnings below the table, in the order they are written.            *)
Warnings(keys, marked) ==
    (IF \E i \in DOMAIN keys : i \in marked THEN <<"blacklistMsg">> ELSE <<>>)
    \o (IF \E i \in DOMAIN keys : IsDSA(keys[i]) THEN <<"dsaMsg">> ELSE <<>>)
    \o (IF \E i \in DOMAIN keys : IsWeak(keys[i]) THEN <<"weakMsg">> ELSE <<>>)

(* Everything serve() writes on a channel before it waits for the client's *)
(* requests: one element per channel.Write.                                *)
Report(keys, marked) == <<"welcomeMsg", "table">> \o Warnings(keys, marked)

=============================================================================
