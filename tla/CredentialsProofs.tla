-------------------------- MODULE CredentialsProofs --------------------------
(***************************************************************************)
(* Proofs about Credentials.  The inductive invariant follows the pair of  *)
(* key and certificate from the CA's answer through the caller's store to  *)
(* the client, and remembers what the preflight saw.                       *)
(***************************************************************************)
EXTENDS Credentials, TLAPS

(* The certificate was issued for the key, if it is one. *)
Pairs(cert, key) == cert # Garbage => cert \in issued /\ cert.key = key

(* A call carries a key of its own, and then the certificate for it. *)
CallsPaired ==
    \A p \in Proc :
        /\ call[p].step # "idle" => call[p].key \in KeyPair
        /\ call[p].step = "answered" =>
              /\ call[p].cert \in Certificate \cup {Garbage}
              /\ Pairs(call[p].cert, call[p].key)

(* What the preflight found of the client's pair, and when. *)
ClientSound ==
    client # None =>
        /\ client.pair.cert # Garbage
        /\ Pairs(client.pair.cert, client.pair.key)
        /\ client.pair.cert.not_before <= client.at
        /\ client.at < client.pair.cert.not_after
        /\ client.crl # None => SerialHex(client.pair.cert) \notin client.crl

Inv == TypeOK /\ CallsPaired /\ StoredPairMatches /\ ClientSound

(* The environment starts without calls, certificates or clients. *)
LEMMA Initially == Init => Inv
  BY CredentialsAssumption
  DEF Init, Inv, TypeOK, CallsPaired, StoredPairMatches, ClientSound, Call,
      Idle

(* The steps of enroll keep the invariant. *)
LEMMA EnrollKeeps ==
  ASSUME Inv, NEW p \in Proc, Enroll(p)
  PROVE  Inv'
<1> USE CredentialsAssumption
<1>1. keys + 1 \in KeyPair
  BY DEF Inv, TypeOK, Enroll, KeyPair
<1>2. TypeOK'
  BY <1>1 DEF Inv, TypeOK, Enroll, Call, KeyPair, Enrollment
<1>3. CallsPaired'
  BY <1>1 DEF Inv, TypeOK, CallsPaired, Pairs, Enroll, KeyPair, Certificate,
              Call, Serial
<1>4. StoredPairMatches' /\ ClientSound'
  BY DEF Inv, StoredPairMatches, ClientSound, Pairs, Enroll
<1> QED BY <1>2, <1>3, <1>4 DEF Inv

(* The issuer answers with a certificate over the key of the very call. *)
LEMMA IssueKeeps ==
  ASSUME Inv, NEW p \in Proc, Issue(p)
  PROVE  Inv'
<1> USE CredentialsAssumption
<1>1. call[p] \in Call /\ call[p].key \in KeyPair /\ call[p].step = "sent"
  BY DEF Inv, TypeOK, CallsPaired, Issue
<1>2. PICK ahead \in {0, 1}, life \in Lifetimes, spelling \in Spelling :
         LET cert == [serial |-> call[p].key, spelling |-> spelling,
                      key |-> call[p].key, not_before |-> now + ahead,
                      not_after |-> now + ahead + life]
         IN  /\ issued' = issued \cup {cert}
             /\ Answer(p, cert)
  BY DEF Issue
<1> DEFINE cert == [serial |-> call[p].key, spelling |-> spelling,
                    key |-> call[p].key, not_before |-> now + ahead,
                    not_after |-> now + ahead + life]
<1>3. now \in Nat /\ life \in Nat /\ ahead \in Nat
  BY DEF Inv, TypeOK
<1>4. cert \in Certificate /\ cert.key = call[p].key
  BY <1>1, <1>3 DEF Certificate, Serial
<1> HIDE DEF cert
<1>5. issued' = issued \cup {cert}
  BY <1>2 DEF cert
<1>6. call' = [call EXCEPT ![p] = [step |-> "answered", key |-> call[p].key,
                                   cert |-> cert]]
  BY <1>2 DEF cert, Answer
<1>7. TypeOK'
  BY <1>1, <1>4, <1>5, <1>6 DEF Inv, TypeOK, Issue, Call, Enrollment
<1>8. CallsPaired'
  BY <1>1, <1>4, <1>5, <1>6 DEF Inv, TypeOK, CallsPaired, Pairs, Call
<1>9. StoredPairMatches' /\ ClientSound'
  BY <1>5 DEF Inv, StoredPairMatches, ClientSound, Pairs, Issue
<1> QED BY <1>7, <1>8, <1>9 DEF Inv

(* An answer that is no certificate pairs with every key. *)
LEMMA AnswerGarbageKeeps ==
  ASSUME Inv, NEW p \in Proc, AnswerGarbage(p)
  PROVE  Inv'
<1>1. call[p] \in Call /\ call[p].key \in KeyPair /\ call[p].step = "sent"
  BY DEF Inv, TypeOK, CallsPaired, AnswerGarbage
<1>2. call' = [call EXCEPT ![p] = [step |-> "answered", key |-> call[p].key,
                                   cert |-> Garbage]]
  BY DEF AnswerGarbage, Answer
<1>3. TypeOK'
  BY <1>1, <1>2 DEF Inv, TypeOK, AnswerGarbage, Call, Enrollment
<1>4. CallsPaired'
  BY <1>1, <1>2 DEF Inv, TypeOK, CallsPaired, Pairs, AnswerGarbage, Call
<1>5. StoredPairMatches' /\ ClientSound'
  BY DEF Inv, StoredPairMatches, ClientSound, Pairs, AnswerGarbage
<1> QED BY <1>3, <1>4, <1>5 DEF Inv

(* What is stored is the pair of one call, whole. *)
LEMMA EnrollOkKeeps ==
  ASSUME Inv, NEW p \in Proc, EnrollOk(p)
  PROVE  Inv'
<1>1. /\ call[p].key \in KeyPair
      /\ call[p].cert \in Certificate \cup {Garbage}
      /\ Pairs(call[p].cert, call[p].key)
  BY DEF Inv, CallsPaired, EnrollOk
<1>2. stored' = [key |-> call[p].key, cert |-> call[p].cert]
  BY DEF EnrollOk, Returned
<1>3. stored' \in Enrollment
  BY <1>1, <1>2 DEF Enrollment
<1>4. TypeOK'
  BY <1>3 DEF Inv, TypeOK, EnrollOk, Call, Idle, Enrollment
<1>5. CallsPaired'
  BY DEF Inv, TypeOK, CallsPaired, Pairs, EnrollOk, Idle
<1>6. StoredPairMatches'
  BY <1>1, <1>2 DEF StoredPairMatches, Pairs, EnrollOk
<1>7. ClientSound'
  BY DEF Inv, ClientSound, Pairs, EnrollOk
<1> QED BY <1>4, <1>5, <1>6, <1>7 DEF Inv

(* A call that fails stores nothing. *)
LEMMA EnrollFailsKeeps ==
  ASSUME Inv, NEW p \in Proc, EnrollFails(p)
  PROVE  Inv'
<1>1. TypeOK'
  BY DEF Inv, TypeOK, EnrollFails, Call, Idle, Enrollment
<1>2. CallsPaired'
  BY DEF Inv, TypeOK, CallsPaired, Pairs, EnrollFails, Idle
<1>3. StoredPairMatches' /\ ClientSound'
  BY DEF Inv, StoredPairMatches, ClientSound, Pairs, EnrollFails
<1> QED BY <1>1, <1>2, <1>3 DEF Inv

(* The client is built of a pair that belongs together and is valid now. *)
LEMMA BuildClientKeeps ==
  ASSUME Inv, BuildClient
  PROVE  Inv'
<1>1. client' = [pair |-> stored, at |-> now, crl |-> crl]
  BY DEF BuildClient
<1>2. stored \in Enrollment
  BY DEF Inv, TypeOK, BuildClient
<1>3. TypeOK'
  BY <1>1, <1>2 DEF Inv, TypeOK, BuildClient
<1>4. ClientSound'
  <2>1. /\ stored.cert # Garbage
        /\ stored.cert.not_before <= now
        /\ now < stored.cert.not_after
        /\ crl # None => SerialHex(stored.cert) \notin crl
    <3>1. Preflight(stored.cert, now, crl) /\ stored.cert \in Certificate
      BY <1>2 DEF BuildClient, Preflight, Enrollment
    <3> QED BY <3>1 DEF Preflight, IsRevoked, Certificate, Inv, TypeOK
  <2>2. Pairs(stored.cert, stored.key)
    BY DEF Inv, StoredPairMatches, Pairs, BuildClient
  <2> QED BY <1>1, <2>1, <2>2 DEF ClientSound, Pairs, BuildClient
<1>5. CallsPaired' /\ StoredPairMatches'
  BY DEF Inv, CallsPaired, StoredPairMatches, Pairs, BuildClient
<1> QED BY <1>3, <1>4, <1>5 DEF Inv

(* The clock and the CA disturb nothing of it. *)
LEMMA WorldKeeps ==
  ASSUME Inv, Tick \/ Revoke \/ FetchCrl
  PROVE  Inv'
<1> USE CredentialsAssumption
<1>1. TypeOK'
  <2>1. CASE Tick
    BY <2>1 DEF Inv, TypeOK, Tick, Enrollment
  <2>2. CASE Revoke
    BY <2>2 DEF Inv, TypeOK, Revoke, Enrollment, Certificate
  <2>3. CASE FetchCrl
    <3>1. \A cert \in issued : cert.spelling \in Spelling
      BY DEF Inv, TypeOK, Certificate
    <3>2. crl' \subseteq [serial : revoked, spelling : Spelling]
      BY <2>3, <3>1 DEF FetchCrl, Listed, Hex
    <3> QED BY <2>3, <3>2 DEF Inv, TypeOK, FetchCrl, Enrollment
  <2> QED BY <2>1, <2>2, <2>3
<1>2. UNCHANGED <<call, issued, stored, client>>
  BY DEF Tick, Revoke, FetchCrl
<1>3. CallsPaired' /\ StoredPairMatches' /\ ClientSound'
  BY <1>2 DEF Inv, CallsPaired, StoredPairMatches, ClientSound, Pairs
<1> QED BY <1>1, <1>3 DEF Inv

(* Every step keeps the invariant. *)
LEMMA Steps == Inv /\ [Next]_vars => Inv'
<1> SUFFICES ASSUME Inv, [Next]_vars PROVE Inv'
  OBVIOUS
<1>1. CASE Next
  BY <1>1, EnrollKeeps, IssueKeeps, AnswerGarbageKeeps, EnrollOkKeeps,
     EnrollFailsKeeps, BuildClientKeeps, WorldKeeps DEF Next
<1>2. CASE UNCHANGED vars
  BY <1>2 DEF vars, Inv, TypeOK, CallsPaired, StoredPairMatches, ClientSound,
              Pairs
<1> QED BY <1>1, <1>2

(* The inductive invariant holds in every reachable state: every call holds its
   own pair (enroll.rs), the stored pair belongs together, and the client was
   built from such a pair within its validity (tls.rs). *)
THEOREM Invariant == Spec => []Inv
  BY Initially, Steps, PTL DEF Spec

(* TypeOK of Credentials holds for every set of processes and lifetimes.   *)
THEOREM TypeCorrect == Spec => []TypeOK
<1>1. Inv => TypeOK
  BY DEF Inv
<1> QED BY Invariant, <1>1, PTL

(* enroll: the certificate the environment keeps was issued for the key    *)
(* beside it, however calls overlap, fail or are repeated.                 *)
THEOREM StoredPairAlwaysMatches == Spec => []StoredPairMatches
<1>1. Inv => StoredPairMatches
  BY DEF Inv
<1> QED BY Invariant, <1>1, PTL

(* preflight_cert misses no reason for which a server refuses a client in  *)
(* the second it was built, but a revocation its snapshot does not show or *)
(* shows in another spelling of the serial.                                *)
THEOREM ClientAlwaysLetIn == Spec => []ClientIsLetIn
<1>1. Inv => ClientIsLetIn
  <2> DEFINE c == client.pair.cert
  <2> SUFFICES ASSUME Inv, client # None, client.at = now
               PROVE  \/ ServerAccepts(client.pair)
                      \/ client.crl = None
                      \/ /\ c.serial \in revoked
                         /\ \/ Listed(c) \notin client.crl
                            \/ Listed(c) # SerialHex(c)
    BY DEF ClientIsLetIn
  <2>1. c \in issued /\ c.key = client.pair.key
    BY DEF Inv, ClientSound, Pairs
  <2>2. c.not_before <= now /\ now < c.not_after
    BY DEF Inv, ClientSound
  <2>3. now <= c.not_after
    BY <2>1, <2>2 DEF Inv, TypeOK, Certificate
  <2>4. client.crl # None => SerialHex(c) \notin client.crl
    BY DEF Inv, ClientSound
  <2> QED BY <2>1, <2>2, <2>3, <2>4 DEF ServerAccepts
<1> QED BY Invariant, <1>1, PTL

(* preflight_cert refuses no client that a server would let in, save at    *)
(* the very second of notAfter.                                            *)
THEOREM AlwaysRefusedForGoodReason == Spec => []RefusedForGoodReason
<1>1. Inv => RefusedForGoodReason
  <2> SUFFICES ASSUME Inv, stored # None, ServerAccepts(stored),
                      now # stored.cert.not_after
               PROVE  Preflight(stored.cert, now, crl)
    BY DEF RefusedForGoodReason
  <2>1. stored.cert \in Certificate
    BY DEF Inv, TypeOK, ServerAccepts
  <2>2. stored.cert # Garbage
    BY <2>1, CredentialsAssumption
  <2>3. now >= stored.cert.not_before /\ now < stored.cert.not_after
    BY <2>1, CredentialsAssumption
    DEF ServerAccepts, Certificate, Inv, TypeOK
  <2>4. crl # None => ~IsRevoked(SerialHex(stored.cert), crl)
    BY DEF Inv, TypeOK, ServerAccepts, IsRevoked, SerialHex, Hex
  <2> QED BY <2>2, <2>3, <2>4 DEF Preflight
<1> QED BY Invariant, <1>1, PTL
=============================================================================
