---------------------------- MODULE SequenceFacts ----------------------------
(***************************************************************************)
(* Facts about numbers and sequences that several of the proofs need.      *)
(***************************************************************************)
EXTENDS Integers, Sequences, SequenceTheorems, WellFoundedInduction, TLAPS

\* A nonempty set of numbers has a least element: the form in which the proofs that
\* follow a sequence from its first element on use induction.
LEMMA Least ==
    ASSUME NEW T \in SUBSET Nat, T # {}
    PROVE  \E m \in T : \A n \in T : m <= n
<1>1. \E m \in T : \A n \in T : ~ (<<n, m>> \in OpToRel(<, Nat))
  BY NatLessThanWellFounded, WFMin, Zenon
<1>2. PICK m \in T : \A n \in T : ~ (<<n, m>> \in OpToRel(<, Nat))
  BY <1>1
<1>3. \A n \in T : ~ (n < m)
  BY <1>2 DEF OpToRel
<1> QED BY <1>3

\* Quotient and remainder.
LEMMA Division ==
    ASSUME NEW a \in Nat, NEW s \in Nat \ {0}
    PROVE  \E q \in Nat, r \in Nat :
             q = a \div s /\ r = a % s /\ r < s /\ a = s * q + r
<1>1. a \div s \in Int /\ a % s \in Int /\ a % s \in 0..(s - 1)
  OBVIOUS
<1>2. a \div s >= 0
  OBVIOUS
<1>3. a \div s \in Nat /\ a % s \in Nat /\ a % s < s
  BY <1>1, <1>2
<1>4. ASSUME NEW q \in Nat, q = a \div s, NEW r \in Nat, r = a % s
      PROVE  a = s * q + r
  BY <1>4
<1> QED BY <1>3, <1>4, Zenon

LEMMA TimesNat == \A m, n \in Nat : m * n \in Nat
OBVIOUS

LEMMA TimesMonotonic ==
    ASSUME NEW m \in Nat, NEW n \in Nat, m <= n, NEW s \in Nat
    PROVE  m * s <= n * s
OBVIOUS

\* Short sequences are the tuples of their elements.
LEMMA OneElement == ASSUME NEW S, NEW s \in Seq(S), Len(s) = 1 PROVE s = <<s[1]>>
OBVIOUS

LEMMA TwoElements == ASSUME NEW S, NEW s \in Seq(S), Len(s) = 2 PROVE s = <<s[1], s[2]>>
OBVIOUS

\* n elements, the first of them behind a others.
LEMMA Slice ==
    ASSUME NEW S, NEW s \in Seq(S), NEW a \in Nat, NEW n \in Nat, a + n <= Len(s)
    PROVE  /\ SubSeq(s, a + 1, a + n) \in Seq(S) /\ Len(SubSeq(s, a + 1, a + n)) = n
           /\ \A i \in 1..n : SubSeq(s, a + 1, a + n)[i] = s[a + i]
<1> DEFINE first == a + 1
           last == a + n
<1>1. /\ first \in Int /\ last \in Int
      /\ (IF first <= last THEN last - first + 1 ELSE 0) = n
      /\ last - first + 1 = n /\ \A i \in 1..n : first + i - 1 = a + i
  OBVIOUS
<1>2. \A i \in first..last : s[i] \in S
  OBVIOUS
<1> HIDE DEF first, last
<1>3. /\ SubSeq(s, first, last) \in Seq(S)
      /\ Len(SubSeq(s, first, last)) = IF first <= last THEN last - first + 1 ELSE 0
      /\ \A i \in 1..last - first + 1 : SubSeq(s, first, last)[i] = s[first + i - 1]
  BY <1>1, <1>2, SubSeqProperties
<1> QED BY <1>1, <1>3 DEF first, last

\* The two parts of a concatenation.
LEMMA Joined ==
    ASSUME NEW S, NEW s \in Seq(S), NEW t \in Seq(S)
    PROVE  /\ s \o t \in Seq(S) /\ Len(s \o t) = Len(s) + Len(t)
           /\ \A n \in 1..Len(s) : (s \o t)[n] = s[n]
           /\ \A n \in 1..Len(t) : (s \o t)[Len(s) + n] = t[n]
<1>1. Len(s) \in Nat /\ Len(t) \in Nat
  OBVIOUS
<1> DEFINE both(i) == IF i <= Len(s) THEN s[i] ELSE t[i - Len(s)]
<1>2. s \o t \in Seq(S) /\ Len(s \o t) = Len(s) + Len(t)
  BY ConcatProperties, Zenon
<1>3. \A i \in 1..Len(s) + Len(t) : (s \o t)[i] = both(i)
  BY ConcatProperties, Zenon
<1> HIDE DEF both
<1>4. ASSUME NEW n \in 1..Len(s) PROVE (s \o t)[n] = s[n]
  <2>1. n \in 1..Len(s) + Len(t) /\ n <= Len(s)
    BY <1>1
  <2> QED BY <1>3, <2>1 DEF both
<1>5. ASSUME NEW n \in 1..Len(t) PROVE (s \o t)[Len(s) + n] = t[n]
  <2>1. Len(s) + n \in 1..Len(s) + Len(t) /\ ~(Len(s) + n <= Len(s)) /\ (Len(s) + n) - Len(s) = n
    BY <1>1
  <2> QED BY <1>3, <2>1 DEF both
<1> QED BY <1>2, <1>4, <1>5
=============================================================================
