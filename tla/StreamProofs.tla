---------------------------- MODULE StreamProofs ----------------------------
(***************************************************************************)
(* Proofs about Stream: types, that no reconnection loses an event, and    *)
(* the pace of the reconnections.                                          *)
(***************************************************************************)
EXTENDS Stream, WellFoundedInduction, TLAPS

(* What has been sent on this connection, and what the cursor has passed,  *)
(* has been handed to the callback.                                        *)
NothingMissed(bound) ==
    \A e \in Sequence \ Unreadable : first <= e /\ e < bound => e \in delivered

Resumable ==
    /\ TypeOK
    /\ cursor = None <=> first = None
    /\ cursor # None => NothingMissed(cursor + 1)
    /\ pc = "reading" /\ cursor # None => NothingMissed(next)

(* run_stream starts resumable, with or without a from_sequence. *)
LEMMA ResumableInit == Init => Resumable
<1> SUFFICES ASSUME Init
             PROVE  Resumable
  OBVIOUS
<1>3. /\ published \in 0..MaxSequence
      /\ next \in 1..(MaxSequence + 1)
      /\ current \in 1..MaxDelay
      /\ delay \in 0..MaxDelay
      /\ misses \in 0..MaxMisses
  BY StreamAssumption DEF Init
<1>1. CASE cursor = None
  <2>1. first = None /\ pc # "reading"
    BY <1>1, StreamAssumption DEF Init
  <2>2. TypeOK
    BY <1>1, <1>3, <2>1, Zenon DEF Init, TypeOK
  <2> QED
    BY <1>1, <2>1, <2>2 DEF Resumable
<1>2. CASE cursor = 0
  <2>1. cursor # None /\ first = 1
    BY <1>2, StreamAssumption DEF Init
  <2>4. cursor \in 0..published /\ first \in Sequence
    BY <1>2, <2>1, StreamAssumption DEF Init, Sequence
  <2>2. TypeOK
    BY <1>3, <2>4, Zenon DEF Init, TypeOK
  <2>3. NothingMissed(cursor + 1)
    BY <1>2, <2>1, StreamAssumption DEF NothingMissed, Sequence
  <2> QED
    BY <2>1, <2>2, <2>3, StreamAssumption DEF Init, Resumable
<1> QED
  BY <1>1, <1>2 DEF Init

(* Every step of the client, the server and the network keeps it.          *)
LEMMA ResumableStep == Resumable /\ [Next]_vars => Resumable'
<1> SUFFICES ASSUME Resumable, [Next]_vars
             PROVE  Resumable'
  OBVIOUS
<1> USE StreamAssumption DEF Resumable, TypeOK, NothingMissed, Sequence,
                             server, backoff
<1>1. CASE Publish
  BY <1>1 DEF Publish
<1>2. CASE Wedge
  BY <1>2 DEF Wedge
<1>3. CASE Age
  BY <1>3 DEF Age
<1>4. CASE Connect
  <2>1. CASE cursor = None
    <3>1. next' \in 1..(MaxSequence + 1)
      BY <1>4, <2>1 DEF Connect, Attempt
    <3>2. TypeOK'
      BY <1>4, <3>1, Zenon DEF Connect, Attempt
    <3> QED
      BY <1>4, <2>1, <3>2 DEF Connect, Attempt
  <2>2. CASE cursor # None
    <3>1. cursor \in 0..published /\ next' \in 1..(cursor + 1)
      BY <1>4, <2>2 DEF Connect, Attempt, ResumeAfter
    <3>4. next' \in 1..(MaxSequence + 1)
      BY <3>1
    <3>2. TypeOK'
      BY <1>4, <3>4, Zenon DEF Connect, Attempt
    <3>3. NothingMissed(next)'
      BY <1>4, <2>2, <3>1 DEF Connect, Attempt
    <3> QED
      BY <1>4, <2>2, <3>2, <3>3 DEF Connect, Attempt
  <2> QED
    BY <2>1, <2>2
<1>5. CASE ConnectFails
  BY <1>5 DEF ConnectFails, Attempt
<1>6. CASE Unsupported
  BY <1>6 DEF Unsupported, Attempt
<1>7. CASE Deliver
  BY <1>7, SMTT(30) DEF Deliver, Arrives, Advance
<1>8. CASE SkipFrame
  BY <1>8, SMTT(30) DEF SkipFrame, Arrives
<1>9. CASE ConnectionEnds
  BY <1>9 DEF ConnectionEnds
<1>10. CASE BackOff
  BY <1>10, SMTT(30) DEF BackOff, Doubled, Smaller
<1>11. CASE Wake
  BY <1>11 DEF Wake
<1>12. CASE Stop
  BY <1>12 DEF Stop
<1>13. CASE UNCHANGED vars
  BY <1>13 DEF vars
<1> QED
  BY <1>1, <1>2, <1>3, <1>4, <1>5, <1>6, <1>7, <1>8, <1>9, <1>10, <1>11,
     <1>12, <1>13 DEF Next

(* Hence every reachable state can resume. *)
LEMMA ResumableInvariant == Spec => []Resumable
  BY ResumableInit, ResumableStep, PTL DEF Spec

(* TypeOK of Stream: above all, the delay stays between its floor and cap. *)
THEOREM TypeCorrect == Spec => []TypeOK
<1>1. Resumable => TypeOK
  BY DEF Resumable
<1> QED
  BY ResumableInvariant, <1>1, PTL

(* Reconnections resume without a gap, for any number of events, any set   *)
(* of unreadable ones and any cap on the delay.                            *)
THEOREM LosslessResumption == Spec => []ResumesLosslessly
<1>1. Resumable => ResumesLosslessly
  BY StreamAssumption
     DEF Resumable, TypeOK, NothingMissed, Sequence, ResumesLosslessly
<1> QED
  BY ResumableInvariant, <1>1, PTL

----------------------------------------------------------------------------
(* The powers of two.  The definition is a CHOOSE of a function that       *)
(* satisfies its equation: that there is one has to be shown.              *)

(* A set of naturals with zero and all successors has all of them. *)
LEMMA Induction ==
    ASSUME NEW S, 0 \in S, \A n \in Nat : n \in S => n + 1 \in S
    PROVE  Nat \subseteq S
<1>. DEFINE R == OpToRel(<, Nat)
<1>. SUFFICES ASSUME Nat \ S # {}  PROVE FALSE
  OBVIOUS
<1>1. IsWellFoundedOn(R, Nat)
  BY NatLessThanWellFounded
<1>2. PICK m \in Nat \ S : \A n \in Nat \ S : <<n, m>> \notin R
  <2>. HIDE DEF R
  <2>. QED  BY <1>1, WFMin
<1>3. \A n \in Nat \ S : ~ (n < m)
  BY <1>2 DEF OpToRel
<1>. HIDE DEF R
<1>4. m # 0 /\ m - 1 \in Nat /\ m - 1 < m /\ (m - 1) + 1 = m
  BY <1>2
<1>. QED  BY <1>2, <1>3, <1>4

(* The first n powers and one more. *)
PowersUpTo(n, g) ==
    /\ g \in [0..n -> Nat \ {0}]
    /\ g[0] = 1
    /\ \A i \in 1..n : g[i] = 2 * g[i - 1]

(* There is a table of powers up to every number, by induction on it. *)
LEMMA PowersExist == \A n \in Nat : \E g : PowersUpTo(n, g)
<1>. DEFINE S == {n \in Nat : \E g : PowersUpTo(n, g)}
<1>1. 0 \in S
  <2>1. PowersUpTo(0, [i \in 0..0 |-> 1])
    BY DEF PowersUpTo
  <2>. QED  BY <2>1
<1>2. ASSUME NEW n \in Nat, n \in S  PROVE n + 1 \in S
  <2>1. PICK g : PowersUpTo(n, g)
    BY <1>2
  <2>. DEFINE h == [i \in 0..(n + 1) |-> IF i = n + 1 THEN 2 * g[n] ELSE g[i]]
  <2>2. g[n] \in Nat \ {0} /\ \A i \in 0..n : g[i] \in Nat \ {0}
    BY <2>1 DEF PowersUpTo
  <2>3. h \in [0..(n + 1) -> Nat \ {0}] /\ h[0] = 1
    BY <2>1, <2>2 DEF PowersUpTo
  <2>4. ASSUME NEW i \in 1..(n + 1)  PROVE h[i] = 2 * h[i - 1]
    BY <2>1 DEF PowersUpTo
  <2>5. PowersUpTo(n + 1, h)
    BY <2>3, <2>4 DEF PowersUpTo
  <2>. QED  BY <2>5
<1>. HIDE DEF S
<1>3. Nat \subseteq S
  BY <1>1, <1>2, Induction
<1>. QED  BY <1>3 DEF S

(* Two such tables agree, by induction on the place. *)
LEMMA PowersAgree ==
    ASSUME NEW n \in Nat, NEW g, PowersUpTo(n, g),
           NEW m \in Nat, NEW h, PowersUpTo(m, h),
           NEW i \in Nat, i <= n, i <= m
    PROVE  g[i] = h[i]
<1>. DEFINE S == {j \in Nat : j <= n /\ j <= m => g[j] = h[j]}
<1>1. 0 \in S
  BY DEF PowersUpTo
<1>2. ASSUME NEW j \in Nat, j \in S  PROVE j + 1 \in S
  <2>. SUFFICES ASSUME j + 1 <= n, j + 1 <= m  PROVE g[j + 1] = h[j + 1]
    OBVIOUS
  <2>1. g[j] = h[j]
    BY <1>2
  <2>2. j + 1 \in 1..n /\ j + 1 \in 1..m /\ (j + 1) - 1 = j
    OBVIOUS
  <2>. QED  BY <2>1, <2>2 DEF PowersUpTo
<1>. HIDE DEF S
<1>3. Nat \subseteq S
  BY <1>1, <1>2, Induction
<1>. QED  BY <1>3 DEF S

(* The equations that PowerOfTwo is defined by. *)
LEMMA PowerOfTwoDef ==
    /\ PowerOfTwo[0] = 1
    /\ \A n \in Nat : /\ PowerOfTwo[n] \in Nat \ {0}
                      /\ PowerOfTwo[n + 1] = 2 * PowerOfTwo[n]
<1>. DEFINE Eq(f) == f = [n \in Nat |-> IF n = 0 THEN 1 ELSE 2 * f[n - 1]]
            upTo(n) == CHOOSE g : PowersUpTo(n, g)
            F == [n \in Nat |-> upTo(n)[n]]
<1>1. \A n \in Nat : PowersUpTo(n, upTo(n))
  BY PowersExist
<1>. HIDE DEF upTo
<1>2. ASSUME NEW n \in Nat, n # 0  PROVE F[n] = 2 * F[n - 1]
  <2>1. n - 1 \in Nat /\ n \in 1..n /\ n - 1 <= n
    BY <1>2
  <2>2. upTo(n)[n] = 2 * upTo(n)[n - 1]
    BY <1>1, <2>1 DEF PowersUpTo
  <2>3. upTo(n)[n - 1] = upTo(n - 1)[n - 1]
    BY <1>1, <2>1, PowersAgree
  <2>. QED  BY <2>1, <2>2, <2>3
<1>3. F[0] = 1
  BY <1>1 DEF PowersUpTo
<1>4. Eq(F)
  <2>. DEFINE G == [n \in Nat |-> IF n = 0 THEN 1 ELSE 2 * F[n - 1]]
  <2>1. \A n \in Nat : F[n] = G[n]
    <3>. HIDE DEF F
    <3>. QED  BY <1>2, <1>3
  <2>2. F = [n \in Nat |-> F[n]] /\ G = [n \in Nat |-> G[n]]
    OBVIOUS
  <2>. HIDE DEF F, G
  <2>3. F = G
    BY <2>1, <2>2
  <2>. QED  BY <2>3 DEF G
<1>. HIDE DEF F
<1>5. PowerOfTwo = CHOOSE f : Eq(f)
  BY DEF PowerOfTwo
<1>6. Eq(PowerOfTwo)
  <2>. HIDE DEF Eq
  <2>. QED  BY <1>4, <1>5
<1>7. /\ PowerOfTwo[0] = 1
      /\ \A n \in Nat : PowerOfTwo[n + 1] = 2 * PowerOfTwo[n]
  <2>. DEFINE P == PowerOfTwo
  <2>1. P = [n \in Nat |-> IF n = 0 THEN 1 ELSE 2 * P[n - 1]]
    BY <1>6
  <2>. HIDE DEF P
  <2>2. \A n \in Nat : P[n] = IF n = 0 THEN 1 ELSE 2 * P[n - 1]
    BY <2>1
  <2>3. ASSUME NEW n \in Nat  PROVE P[n + 1] = 2 * P[n]
    <3>1. n + 1 \in Nat /\ n + 1 # 0 /\ (n + 1) - 1 = n
      OBVIOUS
    <3>. QED  BY <2>2, <3>1
  <2>. QED  BY <2>2, <2>3 DEF P
<1>8. Nat \subseteq {n \in Nat : PowerOfTwo[n] \in Nat \ {0}}
  <2>. DEFINE S == {n \in Nat : PowerOfTwo[n] \in Nat \ {0}}
  <2>1. 0 \in S /\ \A n \in Nat : n \in S => n + 1 \in S
    BY <1>7
  <2>. HIDE DEF S
  <2>2. Nat \subseteq S
    BY <2>1, Induction
  <2>. QED  BY <2>2 DEF S
<1>. QED  BY <1>7, <1>8

----------------------------------------------------------------------------
(* The pace.                                                               *)

(* The delay to come is 2^n seconds or up to twice that, to the cap. *)
Paced ==
    /\ BackoffPaced
    /\ Smaller(PowerOfTwo[misses], MaxDelay) <= current
    /\ current <= Smaller(PowerOfTwo[misses + 1], MaxDelay)

(* The delay is the first power of two at the start, *)
LEMMA PacedInit == Init => Paced
<1>1. PowerOfTwo[0] = 1 /\ PowerOfTwo[0 + 1] = 2
  BY PowerOfTwoDef
<1>. QED
  BY <1>1, StreamAssumption DEF Init, Paced, BackoffPaced, Smaller

(* and every step of the stream keeps it the power the misses call for. *)
LEMMA PacedStep ==
    ASSUME TypeOK, Paced, [Next]_vars
    PROVE  Paced'
<1>1. CASE BackOff
  <2>. DEFINE from == IF ResetsBackoff THEN 1 ELSE current
  <2>1. /\ delay' = Smaller(from, MaxDelay) /\ current' = Doubled(from)
        /\ pc' = "sleeping"
    BY <1>1 DEF BackOff
  <2>2. MaxDelay \in Nat \ {0} /\ misses \in Nat /\ current \in Nat
    BY StreamAssumption DEF TypeOK
  <2>3. CASE ResetsBackoff
    <3>1. misses' = 0 /\ from = 1
      BY <1>1, <2>3 DEF BackOff, ResetsBackoff
    <3>2. PowerOfTwo[0] = 1 /\ PowerOfTwo[0 + 1] = 2
      BY PowerOfTwoDef
    <3>. QED
      BY <2>1, <2>2, <3>1, <3>2 DEF Paced, BackoffPaced, Doubled, Smaller
  <2>4. CASE ~ ResetsBackoff
    <3>. DEFINE low == PowerOfTwo[misses]
    <3>1. from = current /\ misses' = Smaller(misses + 1, MaxMisses)
      BY <1>1, <2>4 DEF BackOff, ResetsBackoff
    <3>2. /\ low \in Nat \ {0} /\ PowerOfTwo[misses + 1] = 2 * low
          /\ PowerOfTwo[(misses + 1) + 1] = 2 * (2 * low)
      BY <2>2, PowerOfTwoDef
    <3>. HIDE DEF low
    <3>3. /\ Smaller(low, MaxDelay) <= current
          /\ current <= Smaller(2 * low, MaxDelay)
      BY <3>2 DEF Paced, low
    <3>4. CASE misses' = misses + 1
      BY <2>1, <2>2, <3>1, <3>2, <3>3, <3>4
      DEF Paced, BackoffPaced, Doubled, Smaller
    <3>5. CASE misses' = misses /\ misses = MaxMisses
      <4>1. low >= 2 * MaxDelay
        BY <3>5, MissesAssumption DEF low
      <4>2. PowerOfTwo[misses'] = low /\ PowerOfTwo[misses' + 1] = 2 * low
        BY <3>2, <3>5 DEF low
      <4>3. current = MaxDelay
        BY <2>2, <3>2, <3>3, <4>1 DEF Smaller
      <4>4. delay' = MaxDelay /\ current' = MaxDelay
        BY <2>1, <2>2, <3>1, <4>3 DEF Doubled, Smaller
      <4>. QED
        BY <2>2, <3>2, <4>1, <4>2, <4>4 DEF Paced, BackoffPaced, Smaller
    <3>6. misses' = misses + 1 \/ (misses' = misses /\ misses = MaxMisses)
      BY <3>1, StreamAssumption DEF Smaller, TypeOK
    <3>. QED  BY <3>4, <3>5, <3>6
  <2>. QED  BY <2>3, <2>4
<1>2. CASE /\ UNCHANGED <<current, delay, misses>>
           /\ pc' = "sleeping" => pc = "sleeping"
  BY <1>2 DEF Paced, BackoffPaced, Smaller
<1>. QED
  BY <1>1, <1>2
  DEF Next, vars, server, backoff, Publish, Wedge, Age, Connect,
      ConnectFails, Unsupported, Attempt, Deliver, SkipFrame, ConnectionEnds,
      Wake, Stop, TypeOK

(* After n unhealthy connections in a row the delay is between 2^(n-1) and *)
(* 2^n seconds, for any cap, and after a healthy one it is the floor       *)
(* (Backoff::next_delay and reset).                                        *)
THEOREM BackoffAlwaysPaced == Spec => []BackoffPaced
<1>1. TypeOK /\ Paced /\ [Next]_vars => Paced'
  BY PacedStep
<1>2. Paced => BackoffPaced
  BY DEF Paced
<1>. QED
  BY <1>1, <1>2, PacedInit, TypeCorrect, PTL DEF Spec
=============================================================================
