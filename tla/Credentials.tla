----------------------------- MODULE Credentials -----------------------------
(***************************************************************************)
(* The client certificate of an environment: enroll (src/src/enroll.rs)    *)
(* and the checks before a connection, preflight_cert and                  *)
(* build_mtls_client (src/src/tls.rs).                                     *)
(*                                                                         *)
(* External to the code: the CA, which issues and revokes; the snapshots   *)
(* of its revocation list; the clock; and the caller, which stores what    *)
(* enroll returned and connects with what it stored.  Several processes of *)
(* an environment may enroll at once, and again before a certificate ends. *)
(*                                                                         *)
(* Serials are compared as text: preflight_cert writes the bytes of the    *)
(* certificate in hex, the list has the server's spelling of the number,   *)
(* which may be another one (1000 is 03e8 in DER, 00000000000003e8 as the  *)
(* eight bytes of a u64).                                                  *)
(***************************************************************************)
EXTENDS Naturals

CONSTANTS
    Proc,           \* processes of the environment
    Lifetimes,      \* how long the CA lets a certificate live
    MaxTime,        \* bound: the clock
    MaxKeys,        \* bound: key pairs generated
    Garbage,        \* a cert_pem that is no certificate
    None

VARIABLES
    now,            \* seconds since the epoch
    keys,           \* key pairs generated so far
    call,           \* each process: its call of enroll
    issued,         \* certificates the CA has signed
    revoked,        \* serials it has revoked
    crl,            \* the snapshot at hand: serials as text, None without
    stored,         \* the material the environment keeps
    client          \* the client built last, and when

vars == <<now, keys, call, issued, revoked, crl, stored, client>>

KeyPair == 1..MaxKeys
(* Every certificate is for a key of its own, whose number is its serial. *)
Serial == KeyPair
(* How the server writes a serial: as the certificate has it in DER, or in *)
(* another way.                                                            *)
Spelling == {"der", "padded"}
Certificate == [serial : Serial, spelling : Spelling, key : KeyPair,
                not_before : Nat, not_after : Nat]

(* A serial as text: what parse_cert_info reads from the certificate, and  *)
(* what the server writes in its revocation list.                          *)
Hex(serial, spelling) == [serial |-> serial, spelling |-> spelling]
SerialHex(cert) == Hex(cert.serial, "der")
Listed(cert) == Hex(cert.serial, cert.spelling)

ASSUME CredentialsAssumption ==
    /\ Lifetimes \subseteq Nat \ {0}
    /\ MaxTime \in Nat
    /\ MaxKeys \in Nat
    /\ Garbage # None
    /\ Garbage \notin Certificate

Enrollment == [key : KeyPair, cert : Certificate \cup {Garbage}]

Idle == [step |-> "idle", key |-> None, cert |-> None]
Call ==
    [step : {"idle", "sent", "answered"}, key : KeyPair \cup {None},
     cert : Certificate \cup {Garbage, None}]

Init ==
    /\ now = 0
    /\ keys = 0
    /\ call = [p \in Proc |-> Idle]
    /\ issued = {}
    /\ revoked = {}
    /\ crl = None
    /\ stored = None
    /\ client = None

----------------------------------------------------------------------------
(* enroll. *)

(* A fresh key pair for every call; the request carries its public half. *)
Enroll(p) ==
    /\ call[p] = Idle
    /\ keys < MaxKeys
    /\ keys' = keys + 1
    /\ call' = [call EXCEPT ![p] = [step |-> "sent", key |-> keys + 1,
                                    cert |-> None]]
    /\ UNCHANGED <<now, issued, revoked, crl, stored, client>>

Answer(p, cert) ==
    call' = [call EXCEPT ![p] = [step |-> "answered", key |-> call[p].key,
                                 cert |-> cert]]

(* The CA signs the key of the request.  Its clock may be a second ahead.  *)
Issue(p) ==
    /\ call[p].step = "sent"
    /\ \E ahead \in {0, 1}, life \in Lifetimes, spelling \in Spelling :
          LET cert == [serial |-> call[p].key, spelling |-> spelling,
                       key |-> call[p].key, not_before |-> now + ahead,
                       not_after |-> now + ahead + life]
          IN  /\ issued' = issued \cup {cert}
              /\ Answer(p, cert)
    /\ UNCHANGED <<now, keys, revoked, crl, stored, client>>

(* The answer of the server decodes, with a cert_pem nobody has parsed.    *)
AnswerGarbage(p) ==
    /\ call[p].step = "sent"
    /\ Answer(p, Garbage)
    /\ UNCHANGED <<now, keys, issued, revoked, crl, stored, client>>

(* A bug: the private key is read back from where the last call put it. *)
ReturnedWithNewestKey(p) == [key |-> keys, cert |-> call[p].cert]

(* What enroll returns: the key of this very call, and what the CA sent. *)
Returned(p) == [key |-> call[p].key, cert |-> call[p].cert]

(* enroll returns Ok and the caller stores the pair over the one it had. *)
EnrollOk(p) ==
    /\ call[p].step = "answered"
    /\ stored' = Returned(p)
    /\ call' = [call EXCEPT ![p] = Idle]
    /\ UNCHANGED <<now, keys, issued, revoked, crl, client>>

(* Http, Status and Decode: the request or its answer is lost, the CA      *)
(* refuses, the body does not decode.  The key is dropped; a certificate   *)
(* that was issued for it stays issued.                                    *)
EnrollFails(p) ==
    /\ call[p] # Idle
    /\ call' = [call EXCEPT ![p] = Idle]
    /\ UNCHANGED <<now, keys, issued, revoked, crl, stored, client>>

----------------------------------------------------------------------------
(* preflight_cert and build_mtls_client. *)

IsRevoked(serial_hex, list) == serial_hex \in list

(* A bug: the end of the validity only. *)
PreflightEndOnly(cert, time, list) ==
    /\ cert # Garbage
    /\ time < cert.not_after
    /\ list # None => ~IsRevoked(SerialHex(cert), list)

(* A bug: the second of notBefore is not valid yet. *)
PreflightStrictStart(cert, time, list) ==
    /\ cert # Garbage
    /\ time > cert.not_before
    /\ time < cert.not_after
    /\ list # None => ~IsRevoked(SerialHex(cert), list)

(* preflight_cert: not before notBefore, not at notAfter, not on the list. *)
Preflight(cert, time, list) ==
    /\ cert # Garbage
    /\ time >= cert.not_before
    /\ time < cert.not_after
    /\ list # None => ~IsRevoked(SerialHex(cert), list)

(* The caller builds a client of material that passed the preflight. *)
BuildClient ==
    /\ stored # None
    /\ Preflight(stored.cert, now, crl)
    /\ client' = [pair |-> stored, at |-> now, crl |-> crl]
    /\ UNCHANGED <<now, keys, call, issued, revoked, crl, stored>>

----------------------------------------------------------------------------
(* The world. *)

Tick ==
    /\ now < MaxTime
    /\ now' = now + 1
    /\ UNCHANGED <<keys, call, issued, revoked, crl, stored, client>>

Revoke ==
    /\ \E cert \in issued :
          /\ cert.serial \notin revoked
          /\ revoked' = revoked \cup {cert.serial}
    /\ UNCHANGED <<now, keys, call, issued, crl, stored, client>>

(* The snapshot is replaced by the list as it is now. *)
FetchCrl ==
    /\ crl' = {Listed(cert) : cert \in {c \in issued : c.serial \in revoked}}
    /\ UNCHANGED <<now, keys, call, issued, revoked, stored, client>>

Next ==
    \/ \E p \in Proc :
          \/ Enroll(p)
          \/ Issue(p)
          \/ AnswerGarbage(p)
          \/ EnrollOk(p)
          \/ EnrollFails(p)
    \/ BuildClient
    \/ Tick
    \/ Revoke
    \/ FetchCrl

Spec == Init /\ [][Next]_vars

(* A server that follows RFC 5280 (the validity includes both its ends)    *)
(* and knows what is revoked lets this pair in.                            *)
ServerAccepts(pair) ==
    /\ pair.cert \in issued
    /\ pair.cert.key = pair.key
    /\ pair.cert.not_before <= now
    /\ now <= pair.cert.not_after
    /\ pair.cert.serial \notin revoked

----------------------------------------------------------------------------
(* Every variable has its type. *)
TypeOK ==
    /\ now \in 0..MaxTime
    /\ keys \in 0..MaxKeys
    /\ call \in [Proc -> Call]
    /\ issued \subseteq Certificate
    /\ revoked \subseteq Serial
    /\ crl = None \/ crl \subseteq [serial : revoked, spelling : Spelling]
    /\ stored = None \/ stored \in Enrollment
    /\ client = None \/ client.pair \in Enrollment

(* What the environment keeps belongs together: the certificate was issued *)
(* for the private key beside it, whatever other calls were under way,     *)
(* failed after the CA had signed, or came back in another order.          *)
StoredPairMatches ==
    stored # None /\ stored.cert # Garbage =>
        /\ stored.cert \in issued
        /\ stored.cert.key = stored.key

(* In the second in which a client was built, the server lets it in,       *)
(* unless there was no snapshot, or the certificate was revoked after the  *)
(* snapshot was taken, or the server spells its serial otherwise: the      *)
(* preflight misses no other reason to be refused.                         *)
ClientIsLetIn ==
    client # None /\ client.at = now =>
        LET cert == client.pair.cert
        IN  \/ ServerAccepts(client.pair)
            \/ client.crl = None
            \/ /\ cert.serial \in revoked
               /\ \/ Listed(cert) \notin client.crl
                  \/ Listed(cert) # SerialHex(cert)

(* What the preflight refuses, the server would refuse too, save in the    *)
(* one second at notAfter in which the code is deliberately the stricter.  *)
RefusedForGoodReason ==
    stored # None /\ ServerAccepts(stored) =>
        Preflight(stored.cert, now, crl) \/ now = stored.cert.not_after
=============================================================================
