-------------------------- MODULE PtcpSessionProofs --------------------------
(***************************************************************************)
(* The PTCP session for any width of the counters, any bodies the program  *)
(* can send and any packets of the device: the loss estimates are exact,   *)
(* PIDs do not repeat within their range, and the framing is faithful.     *)
(***************************************************************************)
EXTENDS PtcpSession, SequenceTheorems, WellFoundedInduction, TLAPS

-----------------------------------------------------------------------------
(* Wrapping arithmetic *)

(* a and b differ by a multiple of m. *)
Congruent(a, b, m) == \E q \in Int : a - b = q * m

(* The remainder of a division, and what it leaves. *)
LEMMA Remainder ==
    ASSUME NEW a \in Int, NEW m \in Nat \ {0}
    PROVE  a % m \in 0..m - 1 /\ Congruent(a % m, a, m)
<1>1. a % m \in 0..m - 1 /\ a \div m \in Int /\ a = m * (a \div m) + (a % m)
  OBVIOUS
<1>2. (a % m) - a = (-(a \div m)) * m /\ -(a \div m) \in Int
  BY <1>1
<1> QED BY <1>1, <1>2, Zenon DEF Congruent

(* The only small multiple is none at all. *)
LEMMA SmallMultiple ==
    ASSUME NEW q \in Int, NEW m \in Nat \ {0}, -m < q * m, q * m < m
    PROVE  q = 0
<1>1. CASE q >= 1
  <2>1. (q - 1) * m >= 0
    BY <1>1
  <2> QED BY <2>1
<1>2. CASE q <= -1
  <2>1. (-1 - q) * m >= 0
    BY <1>2
  <2> QED BY <2>1
<1> QED BY <1>1, <1>2

(* Congruent numbers less than m apart are equal. *)
LEMMA CongruentEqual ==
    ASSUME NEW a \in Int, NEW b \in Int, NEW m \in Nat \ {0}, Congruent(a, b, m),
           -m < a - b, a - b < m
    PROVE  a = b
<1>1. PICK q \in Int : a - b = q * m
  BY Zenon DEF Congruent
<1>2. q = 0
  BY <1>1, SmallMultiple, Zenon
<1> QED BY <1>1, <1>2

(* Congruence is an equivalence that sums keep. *)
LEMMA CongruentSum ==
    ASSUME NEW a \in Int, NEW b \in Int, NEW c \in Int, NEW d \in Int, NEW m \in Nat,
           Congruent(a, b, m), Congruent(c, d, m)
    PROVE  Congruent(a + c, b + d, m) /\ Congruent(a - c, b - d, m)
<1>1. PICK p \in Int : a - b = p * m
  BY Zenon DEF Congruent
<1>2. PICK q \in Int : c - d = q * m
  BY Zenon DEF Congruent
<1>3. (a + c) - (b + d) = (p + q) * m /\ (a - c) - (b - d) = (p - q) * m
  BY <1>1, <1>2
<1>4. p + q \in Int /\ p - q \in Int
  OBVIOUS
<1> QED BY <1>3, <1>4, Zenon DEF Congruent

(* Every number is congruent to itself. *)
LEMMA CongruentSelf == \A a \in Int, m \in Nat : Congruent(a, a, m)
<1>1. \A a \in Int, m \in Nat : a - a = 0 * m
  OBVIOUS
<1> QED BY <1>1 DEF Congruent

(* Congruence is transitive and symmetric. *)
LEMMA CongruentChain ==
    ASSUME NEW a \in Int, NEW b \in Int, NEW c \in Int, NEW m \in Nat,
           Congruent(a, b, m), Congruent(b, c, m)
    PROVE  Congruent(a, c, m) /\ Congruent(b, a, m)
<1>1. PICK p \in Int : a - b = p * m
  BY Zenon DEF Congruent
<1>2. PICK q \in Int : b - c = q * m
  BY Zenon DEF Congruent
<1>3. a - c = (p + q) * m /\ b - a = (-p) * m
  BY <1>1, <1>2
<1>4. p + q \in Int /\ -p \in Int
  OBVIOUS
<1> QED BY <1>3, <1>4, Zenon DEF Congruent

(* Congruent numbers have the same remainder. *)
LEMMA SameRemainder ==
    ASSUME NEW a \in Int, NEW b \in Int, NEW m \in Nat \ {0}, Congruent(a, b, m)
    PROVE  a % m = b % m
<1> DEFINE x == a % m
           y == b % m
<1>1. x \in 0..m - 1 /\ Congruent(x, a, m)
  BY Remainder, Zenon
<1>2. y \in 0..m - 1 /\ Congruent(y, b, m)
  BY Remainder, Zenon
<1>3. x \in Int /\ y \in Int /\ x - y > -m /\ x - y < m
  BY <1>1, <1>2
<1> HIDE DEF x, y
<1>4. Congruent(b, y, m)
  <2>1. Congruent(b, b, m)
    BY CongruentSelf, Zenon
  <2> QED BY <1>2, <1>3, <2>1, CongruentChain, Zenon
<1>5. Congruent(x, b, m)
  BY <1>1, <1>3, CongruentChain, Zenon
<1>6. Congruent(x, y, m)
  BY <1>3, <1>4, <1>5, CongruentChain, Zenon
<1>7. x = y
  BY <1>3, <1>6, CongruentEqual, Zenon
<1> QED BY <1>7, Zenon DEF x, y

(* A counter's range is an even, positive number. *)
LEMMA ModulusType ==
    /\ Half \in Nat \ {0} /\ Modulus \in Nat \ {0} /\ Modulus = Half + Half
    /\ PidRange \in Nat \ {0}
BY WidthAssumption DEF Modulus

(* A wrapped sum is in range and congruent to the sum. *)
LEMMA WrapIs ==
    ASSUME NEW n \in Int
    PROVE  Wrap(n) \in 0..Modulus - 1 /\ Wrap(n) \in Int /\ Congruent(Wrap(n), n, Modulus)
<1>1. Wrap(n) \in 0..Modulus - 1 /\ Congruent(Wrap(n), n, Modulus)
  BY ModulusType, Remainder, Zenon DEF Wrap
<1>2. Wrap(n) \in Int
  BY <1>1
<1> QED BY <1>1, <1>2, Zenon

(* A counter that wraps stays congruent to the total it counts. *)
LEMMA WrapAdds ==
    ASSUME NEW c \in Int, NEW total \in Int, NEW n \in Int, Congruent(c, total, Modulus)
    PROVE  Wrap(c + n) \in Int /\ Congruent(Wrap(c + n), total + n, Modulus)
<1>1. Modulus \in Nat
  BY ModulusType, Zenon
<1>2. Congruent(n, n, Modulus)
  BY <1>1, CongruentSelf, Zenon
<1>3. Congruent(c + n, total + n, Modulus)
  BY <1>1, <1>2, CongruentSum, Zenon
<1>4. c + n \in Int /\ total + n \in Int
  OBVIOUS
<1>5. Wrap(c + n) \in Int /\ Congruent(Wrap(c + n), c + n, Modulus)
  BY <1>4, WrapIs, Zenon
<1> HIDE DEF Wrap
<1> QED BY <1>1, <1>3, <1>4, <1>5, CongruentChain, Zenon

(* The signed difference of two counters is the difference of the totals   *)
(* they count, as long as that fits half their range.                      *)
LEMMA DeltaExact ==
    ASSUME NEW a \in Int, NEW b \in Int, NEW x \in Int, NEW y \in Int,
           Congruent(a, x, Modulus), Congruent(b, y, Modulus), InRange(x - y)
    PROVE  Delta(a, b) = x - y
<1> DEFINE d == Wrap(a - b)
           e == IF d >= Half THEN d - Modulus ELSE d
<1>0. a - b \in Int /\ x - y \in Int /\ Modulus \in Nat
  BY ModulusType
<1>1. d \in 0..Modulus - 1 /\ d \in Int /\ Congruent(d, a - b, Modulus)
  BY <1>0, WrapIs, Zenon
<1>2. Congruent(a - b, x - y, Modulus)
  BY <1>0, CongruentSum, Zenon
<1> HIDE DEF d
<1>3. Congruent(d, x - y, Modulus)
  BY <1>0, <1>1, <1>2, CongruentChain, Zenon
<1>4. e \in Int /\ Congruent(e, x - y, Modulus)
  <2>1. d - Modulus \in Int
    BY <1>0, <1>1
  <2>2. PICK q \in Int : d - (x - y) = q * Modulus
    BY <1>3, Zenon DEF Congruent
  <2>3. (d - Modulus) - (x - y) = (q - 1) * Modulus /\ q - 1 \in Int
    BY <1>0, <1>1, <2>2
  <2>4. Congruent(d - Modulus, x - y, Modulus)
    BY <2>3, Zenon DEF Congruent
  <2> QED BY <1>1, <1>3, <2>1, <2>4, Zenon
<1>5. -Modulus < e - (x - y) /\ e - (x - y) < Modulus
  BY <1>0, <1>1, ModulusType DEF InRange
<1> HIDE DEF e
<1>6. e = x - y
  BY <1>0, <1>4, <1>5, ModulusType, CongruentEqual, Zenon
<1> QED BY <1>6, Zenon DEF Delta, d, e

-----------------------------------------------------------------------------
(* Framing *)

(* Both parts of a concatenation, by index. *)
LEMMA Joined ==
    ASSUME NEW s \in Seq(Int), NEW t \in Seq(Int)
    PROVE  /\ s \o t \in Seq(Int) /\ Len(s \o t) = Len(s) + Len(t)
           /\ \A i \in 1..Len(s) : (s \o t)[i] = s[i]
           /\ \A i \in 1..Len(t) : (s \o t)[Len(s) + i] = t[i]
<1> DEFINE w == s \o t
<1>1. /\ w \in Seq(Int) /\ Len(w) = Len(s) + Len(t)
      /\ \A i \in 1..Len(s) + Len(t) : w[i] = IF i <= Len(s) THEN s[i] ELSE t[i - Len(s)]
  BY ConcatProperties, Zenon
<1>2. Len(s) \in Nat /\ Len(t) \in Nat
  BY LenProperties, Zenon
<1> HIDE DEF w
<1>3. \A i \in 1..Len(s) : w[i] = s[i]
  BY <1>1, <1>2
<1>4. ASSUME NEW i \in 1..Len(t) PROVE w[Len(s) + i] = t[i]
  <2>1. Len(s) + i \in 1..Len(s) + Len(t) /\ ~(Len(s) + i <= Len(s)) /\ (Len(s) + i) - Len(s) = i
    BY <1>2
  <2> QED BY <1>1, <2>1, Zenon
<1> QED BY <1>1, <1>3, <1>4, Zenon DEF w

(* Concatenation is associative. *)
LEMMA Rejoined ==
    ASSUME NEW s \in Seq(Int), NEW t \in Seq(Int), NEW u \in Seq(Int)
    PROVE  (s \o t) \o u = s \o (t \o u)
BY ConcatAssociative, SMTT(20)

(* A part of a sequence that is known by index. *)
LEMMA Slice ==
    ASSUME NEW w \in Seq(Int), NEW m \in Nat, NEW t \in Seq(Int), m + Len(t) <= Len(w),
           \A i \in 1..Len(t) : w[m + i] = t[i]
    PROVE  SubSeq(w, m + 1, m + Len(t)) = t
<1> DEFINE a == m + 1
           b == m + Len(t)
           u == SubSeq(w, a, b)
<1>1. Len(t) \in Nat /\ Len(w) \in Nat /\ a \in Int /\ b \in Int
  BY LenProperties
<1>2. \A i \in a..b : w[i] \in Int
  <2>1. \A i \in a..b : i \in 1..Len(w)
    BY <1>1
  <2> QED BY <2>1, ElementOfSeq, Zenon
<1>3. b - a + 1 = Len(t) /\ (IF a <= b THEN b - a + 1 ELSE 0) = Len(t)
  BY <1>1
<1>4. \A i \in 1..Len(t) : a + i - 1 = m + i
  BY <1>1
<1> HIDE DEF a, b
<1>5. /\ u \in Seq(Int) /\ Len(u) = (IF a <= b THEN b - a + 1 ELSE 0)
      /\ \A i \in 1..b - a + 1 : u[i] = w[a + i - 1]
  BY <1>1, <1>2, SubSeqProperties
<1> HIDE DEF u
<1>6. Len(u) = Len(t) /\ \A i \in 1..Len(u) : u[i] = t[i]
  BY <1>3, <1>4, <1>5, Zenon
<1>7. u = t
  BY <1>5, <1>6, SeqEqual, Zenon
<1> QED BY <1>7, Zenon DEF u, a, b

(* A word of a header. *)
HeaderWord(h) == h \in Seq(Int) /\ Len(h) = 4

(* A framed body: a header of three words, the last one zero, and data. *)
Framed(w, h, r, d) == w = h \o r \o Zero \o d

(* Its parts, where ParseBody looks for them. *)
Located(w, h, r, d) ==
    /\ w \in Seq(Int) /\ Len(w) = 12 + Len(d) /\ w[1] = h[1]
    /\ Word(w, 1) = h /\ Word(w, 5) = r /\ Word(w, 9) = Zero
    /\ From(w, 13) = d /\ \A i \in 1..Len(d) : w[12 + i] = d[i]

(* Where the parts of a framed body are found. *)
LEMMA Frame ==
    ASSUME NEW wire, NEW h, NEW r, NEW d, Framed(wire, h, r, d),
           HeaderWord(h), HeaderWord(r), HeaderWord(Zero), d \in Seq(Int)
    PROVE  Located(wire, h, r, d)
<1> DEFINE z == Zero
           u == h \o r
           v == u \o z
           w == v \o d
<1>w. wire = w
  BY Zenon DEF Framed
<1>0. /\ h \in Seq(Int) /\ Len(h) = 4 /\ r \in Seq(Int) /\ Len(r) = 4
      /\ z \in Seq(Int) /\ Len(z) = 4
  BY Zenon DEF HeaderWord
<1> HIDE DEF z
<1>1. /\ u \in Seq(Int) /\ Len(u) = 4 + Len(r)
      /\ \A i \in 1..4 : u[i] = h[i]
      /\ \A i \in 1..Len(r) : u[4 + i] = r[i]
  <2>1. /\ u \in Seq(Int) /\ Len(u) = Len(h) + Len(r)
        /\ \A i \in 1..Len(h) : u[i] = h[i]
        /\ \A i \in 1..Len(r) : u[Len(h) + i] = r[i]
    BY <1>0, Joined, Zenon
  <2> QED BY <1>0, <2>1, Zenon
<1>2. Len(u) = 8 /\ 8 \in Nat
  BY <1>0, <1>1
<1> HIDE DEF u
<1>3. /\ v \in Seq(Int) /\ Len(v) = 8 + Len(z)
      /\ \A i \in 1..8 : v[i] = u[i]
      /\ \A i \in 1..Len(z) : v[8 + i] = z[i]
  <2>1. /\ v \in Seq(Int) /\ Len(v) = Len(u) + Len(z)
        /\ \A i \in 1..Len(u) : v[i] = u[i]
        /\ \A i \in 1..Len(z) : v[Len(u) + i] = z[i]
    BY <1>0, <1>1, Joined, Zenon
  <2> QED BY <1>2, <2>1, Zenon
<1>4. Len(v) = 12 /\ 12 \in Nat
  BY <1>0, <1>3
<1> HIDE DEF v
<1>5. /\ w \in Seq(Int) /\ Len(w) = 12 + Len(d)
      /\ \A i \in 1..12 : w[i] = v[i]
      /\ \A i \in 1..Len(d) : w[12 + i] = d[i]
  <2>1. /\ w \in Seq(Int) /\ Len(w) = Len(v) + Len(d)
        /\ \A i \in 1..Len(v) : w[i] = v[i]
        /\ \A i \in 1..Len(d) : w[Len(v) + i] = d[i]
    BY <1>3, Joined, Zenon
  <2> QED BY <1>4, <2>1, Zenon
<1>6. Len(d) \in Nat
  BY LenProperties, Zenon
<1> HIDE DEF w
<1>7. ASSUME NEW i \in 1..4 PROVE w[0 + i] = h[i] /\ w[4 + i] = r[i] /\ w[8 + i] = z[i]
  <2>1. /\ i \in 1..8 /\ 4 + i \in 1..8 /\ i \in 1..12 /\ 4 + i \in 1..12
        /\ 8 + i \in 1..12 /\ 0 + i = i
    OBVIOUS
  <2>2. w[i] = v[i] /\ w[4 + i] = v[4 + i] /\ w[8 + i] = v[8 + i]
    BY <1>5, <2>1, Zenon
  <2>3. v[i] = u[i] /\ v[4 + i] = u[4 + i] /\ v[8 + i] = z[i]
    BY <1>0, <1>3, <2>1, Zenon
  <2>4. u[i] = h[i] /\ u[4 + i] = r[i]
    BY <1>0, <1>1, Zenon
  <2> QED BY <2>1, <2>2, <2>3, <2>4, Zenon
<1>8. w[1] = h[1]
  BY <1>7
<1>9. SubSeq(w, 0 + 1, 0 + Len(h)) = h
  BY <1>0, <1>5, <1>6, <1>7, Slice
<1>10. SubSeq(w, 4 + 1, 4 + Len(r)) = r
  BY <1>0, <1>5, <1>6, <1>7, Slice
<1>11. SubSeq(w, 8 + 1, 8 + Len(z)) = z
  BY <1>0, <1>5, <1>6, <1>7, Slice
<1>12. SubSeq(w, 12 + 1, 12 + Len(d)) = d
  BY <1>5, <1>6, Slice
<1>13. Word(w, 1) = h /\ Word(w, 5) = r /\ Word(w, 9) = z /\ From(w, 13) = d
  BY <1>0, <1>5, <1>9, <1>10, <1>11, <1>12 DEF Word, From
<1> QED BY <1>w, <1>5, <1>8, <1>13, Zenon DEF z, Located

(* A set of naturals that is not empty has a least element. *)
LEMMA LeastExists ==
    ASSUME NEW T, T \subseteq Nat, T # {}
    PROVE  \E n \in T : \A m \in T : n <= m
<1> DEFINE R == OpToRel(<, Nat)
<1>1. IsWellFoundedOn(R, Nat)
  BY NatLessThanWellFounded, Zenon
<1>2. \A m, n \in Nat : m < n => <<m, n>> \in R
  BY Zenon DEF OpToRel
<1> HIDE DEF R
<1>3. PICK n \in T : \A m \in T : ~(<<m, n>> \in R)
  BY <1>1, WFMin, Zenon
<1>4. \A m \in T : ~(m < n)
  BY <1>2, <1>3, Zenon
<1>5. \A m \in T : n <= m
  BY <1>4
<1> QED BY <1>5, Zenon

(* TrimNul cuts a string after its last byte that is not NUL. *)
LEMMA TrimNulIs ==
    ASSUME NEW s \in Seq(Int)
    PROVE  \E n \in 0..Len(s) :
              /\ n = 0 \/ s[n] # 0
              /\ \A i \in n + 1..Len(s) : s[i] = 0
              /\ TrimNul(s) = SubSeq(s, 1, n)
<1> DEFINE Ends(n) == /\ n = 0 \/ s[n] # 0
                      /\ \A i \in n + 1..Len(s) : s[i] = 0
           T == {n \in 0..Len(s) : \A i \in n + 1..Len(s) : s[i] = 0}
           c == CHOOSE n \in 0..Len(s) : Ends(n)
<1>1. Len(s) \in Nat
  BY LenProperties, Zenon
<1>2. T \subseteq Nat /\ T # {}
  <2>1. Len(s) \in T
    BY <1>1
  <2> QED BY <1>1, <2>1
<1>3. PICK n \in T : \A m \in T : n <= m
  <2> HIDE DEF T
  <2> QED BY <1>2, LeastExists, Zenon
<1>4. n \in 0..Len(s) /\ \A i \in n + 1..Len(s) : s[i] = 0
  BY <1>3, Zenon
<1>5. n = 0 \/ s[n] # 0
  <2> SUFFICES ASSUME n # 0, s[n] = 0 PROVE FALSE
    BY Zenon
  <2>1. n - 1 \in 0..Len(s)
    BY <1>1, <1>4
  <2>2. \A i \in (n - 1) + 1..Len(s) : i = n \/ i \in n + 1..Len(s)
    BY <1>1, <1>4
  <2>3. \A i \in (n - 1) + 1..Len(s) : s[i] = 0
    BY <1>4, <2>2, Zenon
  <2>4. n - 1 \in T
    BY <2>1, <2>3, Zenon
  <2>5. n <= n - 1
    BY <1>3, <2>4, Zenon
  <2> QED BY <1>1, <1>4, <2>5
<1>6. \E m \in 0..Len(s) : Ends(m)
  BY <1>4, <1>5, Zenon
<1> HIDE DEF Ends
<1>7. c \in 0..Len(s) /\ Ends(c)
  BY <1>6, Zenon
<1>8. TrimNul(s) = SubSeq(s, 1, c)
  BY Zenon DEF TrimNul, Ends
<1> HIDE DEF c
<1> QED BY <1>7, <1>8, Zenon DEF Ends

(* What is trimmed is part of the string, and a string that does not end   *)
(* in NUL is not trimmed.                                                  *)
LEMMA TrimNulKeeps ==
    ASSUME NEW s \in Seq(Int)
    PROVE  /\ TrimNul(s) \in Seq(Int) /\ Len(TrimNul(s)) \in 0..Len(s)
           /\ s # <<>> /\ s[Len(s)] # 0 => TrimNul(s) = s
<1>1. PICK n \in 0..Len(s) :
          /\ n = 0 \/ s[n] # 0
          /\ \A i \in n + 1..Len(s) : s[i] = 0
          /\ TrimNul(s) = SubSeq(s, 1, n)
  BY TrimNulIs, Zenon
<1>2. Len(s) \in Nat /\ n \in Nat /\ n <= Len(s)
  BY LenProperties
<1>3. SubSeq(s, 1, n) \in Seq(Int) /\ Len(SubSeq(s, 1, n)) = n
  <2>1. \A i \in 1..n : s[i] \in Int
    BY <1>2, ElementOfSeq
  <2> QED BY <1>2, <2>1, SubSeqProperties
<1>4. ASSUME s # <<>>, s[Len(s)] # 0 PROVE n = Len(s)
  <2>1. Len(s) \notin n + 1..Len(s)
    BY <1>1, <1>4, Zenon
  <2> QED BY <1>2, <2>1
<1>5. SubSeq(s, 1, Len(s)) = s
  BY SubSeqFull, Zenon
<1> QED BY <1>1, <1>2, <1>3, <1>4, <1>5, Zenon

(* The words of a header are four bytes long. *)
LEMMA WordTypes ==
    /\ \A w \in Words : HeaderWord(w)
    /\ Zero \in Words
    /\ \A first, n \in Int : HeaderWord(LengthField(first, n)) /\ LengthField(first, n)[1] = first
<1>1. ASSUME NEW w \in Words PROVE HeaderWord(w)
  <2>1. w \in Seq(Bytes) /\ Len(w) = 4 /\ Bytes \subseteq Int
    BY DEF Words, Bytes
  <2> QED BY <2>1, SeqMonotonic, Zenon DEF HeaderWord
<1>2. Zero \in Words
  BY DEF Zero, Words, Bytes
<1>3. ASSUME NEW first \in Int, NEW n \in Int
      PROVE  HeaderWord(LengthField(first, n)) /\ LengthField(first, n)[1] = first
  <2>1. n \div 65536 \in Int /\ (n \div 256) % 256 \in Int /\ n % 256 \in Int
    OBVIOUS
  <2> QED BY <2>1 DEF LengthField, HeaderWord
<1> QED BY <1>1, <1>2, <1>3, Zenon

(* The parts of a framed body with a length field. *)
Parts(w, first, n, r, d) ==
    /\ w \in Seq(Int) /\ Len(w) = 12 + Len(d) /\ w[1] = first
    /\ Word(w, 1) = LengthField(first, n) /\ Word(w, 5) = r /\ Word(w, 9) = Zero
    /\ From(w, 13) = d /\ \A i \in 1..Len(d) : w[12 + i] = d[i]

(* Where they are found. *)
LEMMA FrameOf ==
    ASSUME NEW w, NEW first \in Int, NEW n \in Int, NEW r \in Words, NEW d \in Seq(Int),
           Framed(w, LengthField(first, n), r, d)
    PROVE  Parts(w, first, n, r, d)
<1> DEFINE h == LengthField(first, n)
<1>1. HeaderWord(h) /\ h[1] = first /\ HeaderWord(r) /\ HeaderWord(Zero) /\ Framed(w, h, r, d)
  BY WordTypes, Zenon
<1> HIDE DEF h
<1>2. Located(w, h, r, d)
  BY <1>1, Frame, Zenon
<1> QED BY <1>1, <1>2, Zenon DEF h, Parts, Located

(* A payload is read back. *)
LEMMA PayloadRoundTrip ==
    ASSUME NEW w, NEW realm \in Words, NEW data \in Seq(Int),
           Framed(w, LengthField(TypePayload, Len(data)), realm, data)
    PROVE  w \in Seq(Int) /\ Len(w) = Len(data) + 12 /\ ParseBody(w) = NewPayloadBody(realm, data)
<1>1. Len(data) \in Nat /\ Len(data) \in Int /\ TypePayload \in Int
  BY LenProperties DEF TypePayload
<1>p. Parts(w, TypePayload, Len(data), realm, data)
  BY <1>1, FrameOf, Zenon
<1>2. /\ w \in Seq(Int) /\ Len(w) = 12 + Len(data) /\ w[1] = TypePayload
      /\ Word(w, 1) = LengthField(TypePayload, Len(data)) /\ Word(w, 5) = realm
      /\ Word(w, 9) = Zero /\ From(w, 13) = data
  BY <1>p, Zenon DEF Parts
<1>3. Len(w) >= 12 /\ Len(w) - 12 = Len(data) /\ ~(Len(w) < 4) /\ w # <<>>
  BY <1>1, <1>2
<1>4. ParsePayload(w) = NewPayloadBody(realm, data)
  BY <1>2, <1>3, Zenon DEF ParsePayload
<1>5. ParseBody(w) = ParsePayload(w)
  BY <1>2, <1>3 DEF ParseBody, TypeSync, TypePayload, TypeBind, TypeStatus, TypeHeartbeat
<1>6. Len(w) = Len(data) + 12
  BY <1>1, <1>2
<1> QED BY <1>2, <1>4, <1>5, <1>6, Zenon

(* A status is read back when it does not end in NUL. *)
LEMMA StatusRoundTrip ==
    ASSUME NEW w, NEW realm \in Words, NEW status \in Seq(Int),
           Framed(w, LengthField(TypeStatus, Len(status)), realm, status),
           status # <<>>, status[Len(status)] # 0
    PROVE  /\ w \in Seq(Int) /\ Len(w) = Len(status) + 12
           /\ ParseBody(w) = NewStatusBody(realm, status)
<1>1. Len(status) \in Nat /\ Len(status) \in Int /\ TypeStatus \in Int
  BY LenProperties DEF TypeStatus
<1>p. Parts(w, TypeStatus, Len(status), realm, status)
  BY <1>1, FrameOf, Zenon
<1>2. /\ w \in Seq(Int) /\ Len(w) = 12 + Len(status) /\ w[1] = TypeStatus
      /\ Word(w, 5) = realm /\ From(w, 13) = status
  BY <1>p, Zenon DEF Parts
<1>3. ~(Len(w) < 12) /\ ~(Len(w) < 4) /\ w # <<>> /\ Len(w) = Len(status) + 12
  BY <1>1, <1>2
<1>4. TrimNul(status) = status
  BY TrimNulKeeps, Zenon
<1>5. ParseBody(w) = NewStatusBody(Word(w, 5), TrimNul(From(w, 13)))
  BY <1>2, <1>3 DEF ParseBody, TypeSync, TypePayload, TypeBind, TypeStatus, TypeHeartbeat
<1> QED BY <1>2, <1>3, <1>4, <1>5, Zenon

(* A bind is framed, with the port and the address after it as data. *)
LEMMA BindFramed ==
    ASSUME NEW realm \in Words, NEW port \in Words, NEW addr \in Words
    PROVE  Framed(LengthField(TypeBind, 8) \o realm \o Zero \o port \o addr,
                  LengthField(TypeBind, 8), realm, port \o addr)
<1> DEFINE h == LengthField(TypeBind, 8)
           v == h \o realm \o Zero
<1>1. 8 \in Int /\ TypeBind \in Int
  BY DEF TypeBind
<1>2. HeaderWord(h) /\ HeaderWord(realm) /\ HeaderWord(Zero) /\ HeaderWord(port) /\ HeaderWord(addr)
  BY <1>1, WordTypes, Zenon
<1>3. /\ h \in Seq(Int) /\ realm \in Seq(Int) /\ Zero \in Seq(Int)
      /\ port \in Seq(Int) /\ addr \in Seq(Int)
  BY <1>2, Zenon DEF HeaderWord
<1> HIDE DEF h
<1>4. h \o realm \in Seq(Int)
  BY <1>3, ConcatProperties, Zenon
<1>5. v \in Seq(Int)
  BY <1>3, <1>4, ConcatProperties, Zenon
<1> HIDE DEF v
<1>6. (v \o port) \o addr = v \o (port \o addr)
  BY <1>3, <1>5, Rejoined, Zenon
<1> QED BY <1>6, Zenon DEF Framed, v, h

(* A bind is read back; the address after its port is not. *)
LEMMA BindRoundTrip ==
    ASSUME NEW w, NEW realm \in Words, NEW port \in Words, NEW addr \in Words,
           Framed(w, LengthField(TypeBind, 8), realm, port \o addr)
    PROVE  w \in Seq(Int) /\ Len(w) = 20 /\ ParseBody(w) = NewBindBody(realm, port)
<1> DEFINE d == port \o addr
<1>1. 8 \in Int /\ TypeBind \in Int
  BY DEF TypeBind
<1>2. HeaderWord(port) /\ HeaderWord(addr)
  BY WordTypes, Zenon
<1>3. port \in Seq(Int) /\ addr \in Seq(Int) /\ Len(port) = 4 /\ Len(addr) = 4
  BY <1>2, Zenon DEF HeaderWord
<1>4. /\ d \in Seq(Int) /\ Len(d) = Len(port) + Len(addr)
      /\ \A i \in 1..Len(port) : d[i] = port[i]
  BY <1>3, Joined, Zenon
<1>5. Framed(w, LengthField(TypeBind, 8), realm, d)
  BY Zenon
<1> HIDE DEF d
<1>p. Parts(w, TypeBind, 8, realm, d)
  BY <1>1, <1>4, <1>5, FrameOf, Zenon
<1>6. /\ w \in Seq(Int) /\ Len(w) = 12 + Len(d) /\ w[1] = TypeBind /\ Word(w, 5) = realm
      /\ \A i \in 1..Len(d) : w[12 + i] = d[i]
  BY <1>p, Zenon DEF Parts
<1>7. Len(d) = 8 /\ Len(w) = 20 /\ ~(Len(w) < 16) /\ ~(Len(w) < 4) /\ w # <<>>
  <2>1. Len(d) = 8
    BY <1>3, <1>4
  <2>2. Len(w) = 20 /\ ~(20 < 16) /\ ~(20 < 4)
    BY <1>6, <2>1
  <2>3. Len(<<>>) # 20
    OBVIOUS
  <2> QED BY <2>1, <2>2, <2>3, Zenon
<1>8. \A i \in 1..Len(port) : w[12 + i] = port[i]
  <2>1. \A i \in 1..Len(port) : i \in 1..Len(d)
    BY <1>3, <1>7
  <2> QED BY <1>4, <1>6, <2>1, Zenon
<1>9. SubSeq(w, 12 + 1, 12 + Len(port)) = port
  <2>1. 12 \in Nat /\ 12 + Len(port) <= Len(w)
    BY <1>3, <1>7
  <2> QED BY <1>3, <1>6, <1>8, <2>1, Slice, Zenon
<1>10. Word(w, 13) = port
  <2>1. 12 + 1 = 13 /\ 12 + Len(port) = 13 + 3
    BY <1>3
  <2> QED BY <1>9, <2>1, Zenon DEF Word
<1>11. ParseBody(w) = NewBindBody(Word(w, 5), Word(w, 13))
  BY <1>6, <1>7 DEF ParseBody, TypeSync, TypePayload, TypeBind, TypeStatus, TypeHeartbeat
<1> QED BY <1>6, <1>7, <1>10, <1>11, Zenon

(* A heartbeat is read back. *)
LEMMA HeartbeatRoundTrip ==
    ASSUME NEW w, w = LengthField(TypeHeartbeat, 0) \o Zero \o Zero
    PROVE  w \in Seq(Int) /\ Len(w) = 12 /\ ParseBody(w) = NewHeartbeatBody
<1> DEFINE h == LengthField(TypeHeartbeat, 0)
<1>1. 0 \in Int /\ TypeHeartbeat \in Int /\ Zero \in Words
  BY WordTypes DEF TypeHeartbeat
<1>2. HeaderWord(h) /\ HeaderWord(Zero)
  BY <1>1, WordTypes, Zenon
<1>3. h \in Seq(Int) /\ Zero \in Seq(Int) /\ <<>> \in Seq(Int) /\ Len(<<>>) = 0
  BY <1>2 DEF HeaderWord
<1>4. w \in Seq(Int)
  <2> HIDE DEF h
  <2> QED BY <1>3, ConcatProperties, Zenon DEF h
<1>5. w \o <<>> = w
  BY <1>4, ConcatEmptySeq, Zenon
<1>6. Framed(w, h, Zero, <<>>)
  BY <1>5, Zenon DEF Framed
<1>p. Parts(w, TypeHeartbeat, 0, Zero, <<>>)
  BY <1>1, <1>3, <1>6, FrameOf, Zenon
<1>7. Len(w) = 12 + Len(<<>>) /\ w[1] = TypeHeartbeat
  BY <1>p, Zenon DEF Parts
<1>8. Len(w) = 12 /\ ~(Len(w) < 4) /\ w # <<>>
  BY <1>3, <1>4, <1>7
<1>9. ParseBody(w) = NewHeartbeatBody
  BY <1>7, <1>8 DEF ParseBody, TypeSync, TypePayload, TypeBind, TypeStatus, TypeHeartbeat
<1> QED BY <1>4, <1>8, <1>9, Zenon

(* SYNC is read back. *)
LEMMA SyncRoundTrip ==
    /\ <<0, 3, 1, 0>> \in Seq(Int) /\ Len(<<0, 3, 1, 0>>) = 4
    /\ ParseBody(<<0, 3, 1, 0>>) = NewSyncBody
<1> DEFINE w == <<0, 3, 1, 0>>
<1>1. w \in Seq(Int) /\ Len(w) = 4 /\ w[1] = TypeSync /\ ~(4 < 4) /\ Len(<<>>) # 4
  BY DEF TypeSync
<1> HIDE DEF w
<1>2. w # <<>>
  BY <1>1, Zenon
<1>3. ParseBody(w) = NewSyncBody
  BY <1>1, <1>2 DEF ParseBody, TypeSync, TypePayload, TypeBind, TypeStatus, TypeHeartbeat
<1> QED BY <1>1, <1>3, Zenon DEF w

(* A command is read back when it does not start like another body. *)
LEMMA CommandRoundTrip ==
    ASSUME NEW command \in Seq(Int), Len(command) >= 4,
           command[1] \notin {TypeSync, TypePayload, TypeBind, TypeStatus, TypeHeartbeat}
    PROVE  ParseBody(command) = NewCommandBody(command)
<1>1. command # <<>> /\ ~(Len(command) < 4)
  <2>1. Len(command) \in Nat
    BY LenProperties, Zenon
  <2>2. ~(Len(<<>>) >= 4)
    OBVIOUS
  <2> QED BY <2>1, <2>2
<1> QED BY <1>1, Zenon DEF ParseBody

(* Whatever the program sends is read back, and is as long as the session  *)
(* counts it.                                                              *)
LEMMA RoundTrip ==
    ASSUME NEW b, Sendable(b)
    PROVE  /\ Serialize(b) \in Seq(Int) /\ Len(Serialize(b)) = BodyLen(b)
           /\ ParseBody(Serialize(b)) = b
<1>1. /\ b.realm \in Words /\ b.port \in Words /\ b.data \in Seq(Int)
  <2>0. b.realm \in Words /\ b.port \in Words /\ b.data \in Seq(Bytes)
    BY DEF Sendable
  <2>1. b.data \in Seq(Bytes) /\ Bytes \subseteq Int
    BY <2>0 DEF Bytes
  <2>2. b.data \in Seq(Int)
    BY <2>1, SeqMonotonic, Zenon
  <2> QED BY <2>0, <2>2, Zenon
<1>2. CASE b = NewEmptyBody
  <2>1. b.type = "empty"
    BY <1>2, Zenon DEF NewEmptyBody, NewBody
  <2>2. Serialize(b) = <<>> /\ BodyLen(b) = 0
    BY <2>1, Zenon DEF Serialize, BodyLen
  <2> QED BY <1>2, <2>2 DEF ParseBody
<1>3. CASE b = NewSyncBody
  <2>1. b.type = "sync"
    BY <1>3, Zenon DEF NewSyncBody, NewBody
  <2>2. Serialize(b) = <<0, 3, 1, 0>> /\ BodyLen(b) = 4
    BY <2>1, Zenon DEF Serialize, BodyLen
  <2> QED BY <1>3, <2>2, SyncRoundTrip, Zenon
<1>4. CASE b = NewHeartbeatBody
  <2>1. b.type = "heartbeat"
    BY <1>4, Zenon DEF NewHeartbeatBody, NewBody
  <2>2. Serialize(b) = LengthField(TypeHeartbeat, 0) \o Zero \o Zero /\ BodyLen(b) = 12
    BY <2>1, Zenon DEF Serialize, BodyLen
  <2> QED BY <1>4, <2>2, HeartbeatRoundTrip, Zenon
<1>5. CASE b = NewPayloadBody(b.realm, b.data)
  <2>1. b.type = "payload"
    BY <1>5 DEF NewPayloadBody, NewBody
  <2>2. /\ Serialize(b) = LengthField(TypePayload, Len(b.data)) \o b.realm \o Zero \o b.data
        /\ BodyLen(b) = Len(b.data) + 12
    BY <2>1, Zenon DEF Serialize, BodyLen, DataLen
  <2>3. Framed(Serialize(b), LengthField(TypePayload, Len(b.data)), b.realm, b.data)
    BY <2>2, Zenon DEF Framed
  <2> HIDE DEF Serialize
  <2> QED BY <1>1, <1>5, <2>2, <2>3, PayloadRoundTrip, Zenon
<1>6. CASE b = NewBindBody(b.realm, b.port)
  <2>1. b.type = "bind"
    BY <1>6 DEF NewBindBody, NewBody
  <2>2. /\ Serialize(b) = LengthField(TypeBind, 8) \o b.realm \o Zero \o b.port \o <<127, 0, 0, 1>>
        /\ BodyLen(b) = 20
    BY <2>1, Zenon DEF Serialize, BodyLen, DataLen
  <2>3. <<127, 0, 0, 1>> \in Words
    BY DEF Words, Bytes
  <2>4. Framed(Serialize(b), LengthField(TypeBind, 8), b.realm, b.port \o <<127, 0, 0, 1>>)
    BY <1>1, <2>2, <2>3, BindFramed, Zenon
  <2> QED BY <1>1, <1>6, <2>2, <2>3, <2>4, BindRoundTrip, Zenon
<1>7. CASE /\ b = NewStatusBody(b.realm, b.data)
           /\ b.data # <<>> /\ b.data[Len(b.data)] # 0
  <2>1. b.type = "status"
    BY <1>7 DEF NewStatusBody, NewBody
  <2>2. /\ Serialize(b) = LengthField(TypeStatus, Len(b.data)) \o b.realm \o Zero \o b.data
        /\ BodyLen(b) = Len(b.data) + 12
    BY <2>1, Zenon DEF Serialize, BodyLen, DataLen
  <2>3. Framed(Serialize(b), LengthField(TypeStatus, Len(b.data)), b.realm, b.data)
    BY <2>2, Zenon DEF Framed
  <2> QED BY <1>1, <1>7, <2>2, <2>3, StatusRoundTrip, Zenon
<1>8. CASE /\ b = NewCommandBody(b.data) /\ Len(b.data) >= 4
           /\ b.data[1] \notin {TypeSync, TypePayload, TypeBind, TypeStatus, TypeHeartbeat}
  <2>1. b.type = "command"
    BY <1>8 DEF NewCommandBody, NewBody
  <2>2. Serialize(b) = b.data /\ BodyLen(b) = Len(b.data)
    BY <2>1, Zenon DEF Serialize, BodyLen
  <2> QED BY <1>1, <1>8, <2>2, CommandRoundTrip, Zenon
<1>9. \/ b = NewEmptyBody \/ b = NewSyncBody \/ b = NewHeartbeatBody
      \/ b = NewPayloadBody(b.realm, b.data)
      \/ b = NewBindBody(b.realm, b.port)
      \/ b = NewStatusBody(b.realm, b.data) /\ b.data # <<>> /\ b.data[Len(b.data)] # 0
      \/ /\ b = NewCommandBody(b.data) /\ Len(b.data) >= 4
         /\ b.data[1] \notin {TypeSync, TypePayload, TypeBind, TypeStatus, TypeHeartbeat}
  BY DEF Sendable
<1> QED BY <1>2, <1>3, <1>4, <1>5, <1>6, <1>7, <1>8, <1>9, Zenon

(* A part of a sequence of bytes has a length. *)
LEMMA FromType ==
    ASSUME NEW w \in Seq(Int), Len(w) >= 12
    PROVE  From(w, 13) \in Seq(Int) /\ Len(From(w, 13)) \in Nat
<1>1. Len(w) \in Nat
  BY LenProperties, Zenon
<1>2. \A i \in 13..Len(w) : i \in 1..Len(w)
  BY <1>1
<1>3. \A i \in 13..Len(w) : w[i] \in Int
  BY <1>2, ElementOfSeq, Zenon
<1>4. 13 \in Int /\ Len(w) \in Int
  BY <1>1
<1>5. From(w, 13) \in Seq(Int)
  BY <1>3, <1>4, SubSeqProperties, Zenon DEF From
<1> QED BY <1>5, LenProperties, Zenon

(* Whatever is read has a length that Session.Recv can count. *)
LEMMA ParsedLen ==
    ASSUME NEW w \in Seq(Int), ParseBody(w) # Invalid
    PROVE  BodyLen(ParseBody(w)) \in Nat
<1> DEFINE b == ParseBody(w)
<1>0. Len(w) \in Nat
  BY LenProperties, Zenon
<1>1. CASE w = <<>>
  <2>1. b.type = "empty"
    BY <1>1, Zenon DEF ParseBody, NewEmptyBody, NewBody
  <2> QED BY <2>1, Zenon DEF BodyLen
<1>2. CASE w # <<>>
  <2>0. ~(Len(w) < 4)
    BY <1>2, Zenon DEF ParseBody
  <2>1. CASE w[1] = TypeSync
    <3>1. b = NewSyncBody
      BY <1>2, <2>0, <2>1 DEF ParseBody, TypeSync, TypePayload, TypeBind, TypeStatus, TypeHeartbeat
    <3>2. b.type = "sync"
      BY <3>1 DEF NewSyncBody, NewBody
    <3> QED BY <3>2, Zenon DEF BodyLen
  <2>2. CASE w[1] = TypePayload
    <3>1. b = ParsePayload(w)
      BY <1>2, <2>0, <2>2 DEF ParseBody, TypeSync, TypePayload, TypeBind, TypeStatus, TypeHeartbeat
    <3>2. Len(w) >= 12 /\ b = NewPayloadBody(Word(w, 5), From(w, 13))
      BY <3>1, Zenon DEF ParsePayload
    <3>3. b.type = "payload" /\ b.data = From(w, 13)
      BY <3>2 DEF NewPayloadBody, NewBody
    <3>4. Len(b.data) \in Nat
      BY <3>2, <3>3, FromType, Zenon
    <3>5. BodyLen(b) = Len(b.data) + 12
      BY <3>3, Zenon DEF BodyLen
    <3> HIDE DEF b
    <3>6. BodyLen(b) \in Nat
      BY <3>4, <3>5
    <3> QED BY <3>6, Zenon DEF b
  <2>3. CASE w[1] = TypeBind
    <3>1. b = NewBindBody(Word(w, 5), Word(w, 13))
      BY <1>2, <2>0, <2>3 DEF ParseBody, TypeSync, TypePayload, TypeBind, TypeStatus, TypeHeartbeat
    <3>2. b.type = "bind"
      BY <3>1 DEF NewBindBody, NewBody
    <3> QED BY <3>2, Zenon DEF BodyLen
  <2>4. CASE w[1] = TypeStatus
    <3>1. ~(Len(w) < 12) /\ b = NewStatusBody(Word(w, 5), TrimNul(From(w, 13)))
      BY <1>2, <2>0, <2>4 DEF ParseBody, TypeSync, TypePayload, TypeBind, TypeStatus, TypeHeartbeat
    <3>2. b.type = "status" /\ b.data = TrimNul(From(w, 13))
      BY <3>1 DEF NewStatusBody, NewBody
    <3>3. Len(w) >= 12
      BY <1>0, <3>1
    <3>4. Len(b.data) \in Nat
      BY <3>2, <3>3, FromType, TrimNulKeeps, LenProperties, Zenon
    <3>5. BodyLen(b) = Len(b.data) + 12
      BY <3>2, Zenon DEF BodyLen
    <3> HIDE DEF b
    <3>6. BodyLen(b) \in Nat
      BY <3>4, <3>5
    <3> QED BY <3>6, Zenon DEF b
  <2>5. CASE w[1] = TypeHeartbeat
    <3>1. b = NewHeartbeatBody
      BY <1>2, <2>0, <2>5 DEF ParseBody, TypeSync, TypePayload, TypeBind, TypeStatus, TypeHeartbeat
    <3>2. b.type = "heartbeat"
      BY <3>1 DEF NewHeartbeatBody, NewBody
    <3> QED BY <3>2, Zenon DEF BodyLen
  <2>6. CASE w[1] \notin {TypeSync, TypePayload, TypeBind, TypeStatus, TypeHeartbeat}
    <3>1. b = NewCommandBody(w)
      BY <1>2, <2>0, <2>6, Zenon DEF ParseBody
    <3>2. b.type = "command" /\ b.data = w
      BY <3>1 DEF NewCommandBody, NewBody
    <3> QED BY <1>0, <3>2, Zenon DEF BodyLen
  <2> QED BY <2>1, <2>2, <2>3, <2>4, <2>5, <2>6, Zenon
<1> QED BY <1>1, <1>2, Zenon

-----------------------------------------------------------------------------
(* The session *)

Counters == 0..Modulus - 1
Packets == [sent : Nat, recv : Nat, lmid : Nat, rmid : Nat, wire : Seq(Bytes)]

(* The counters of the session keep to their width, the totals do not.     *)
TypeOK ==
    /\ sent \in Counters /\ recv \in Counters /\ count \in Counters /\ id \in Counters
    /\ rmid \in Counters
    /\ peerSent \in Counters /\ peerRecv \in Counters /\ peerRMID \in Counters
    /\ pids \in Seq(0..PidRange - 1)
    /\ totalSent \in Nat /\ totalMsgs \in Nat /\ lost \in Int /\ uncounted \in Int
    /\ device \in [sent : Nat, consumed : Nat, msgs : Nat, seen : Nat]
    /\ flight \in Seq(Packets)
    /\ last \in Packets

(* Every counter follows the total it stands for.  recv is behind the      *)
(* device by what was lost and by what is never counted.                   *)
CountersFollow ==
    /\ Congruent(sent, totalSent, Modulus)
    /\ Congruent(id, totalMsgs, Modulus)
    /\ Congruent(peerSent, last.sent, Modulus)
    /\ Congruent(peerRecv, last.recv, Modulus)
    /\ Congruent(peerRMID, last.rmid, Modulus)
    /\ Congruent(recv, last.sent + Len(last.wire) - lost - uncounted, Modulus)

(* PIDs count down through their range, over and over. *)
PidsFollow ==
    /\ Congruent(count, Len(pids), Modulus)
    /\ \A i \in DOMAIN pids : pids[i] = (PidRange - 1) - ((i - 1) % PidRange)

(* A wire of bytes is one of integers, and has a length. *)
LEMMA WireType == \A w \in Seq(Bytes) : w \in Seq(Int) /\ Len(w) \in Nat
<1>1. Bytes \subseteq Int
  BY DEF Bytes
<1> QED BY <1>1, SeqMonotonic, LenProperties, Zenon

(* A wrapped number fits a counter. *)
LEMMA WrapType == \A n \in Int : Wrap(n) \in Counters
BY WrapIs, Zenon DEF Counters

(* A PID fits its range. *)
LEMMA PidType == count \in Counters => Pid \in 0..PidRange - 1
<1> SUFFICES ASSUME count \in Counters PROVE Pid \in 0..PidRange - 1
  BY Zenon
<1>1. count \in Int
  BY ModulusType DEF Counters
<1>2. count % PidRange \in 0..PidRange - 1
  BY <1>1, ModulusType, Remainder, Zenon
<1> QED BY <1>2, ModulusType DEF Pid

(* What we send has a length, the one its bytes have. *)
LEMMA SentLen ==
    ASSUME NEW b \in Bodies
    PROVE  BodyLen(b) \in Nat /\ Len(Serialize(b)) = BodyLen(b) /\ ParseBody(Serialize(b)) = b
<1>1. Sendable(b)
  BY BodiesAssumption, Zenon
<1>2. /\ Serialize(b) \in Seq(Int) /\ Len(Serialize(b)) = BodyLen(b)
      /\ ParseBody(Serialize(b)) = b
  BY <1>1, RoundTrip, Zenon
<1>3. Len(Serialize(b)) \in Nat
  BY <1>2, LenProperties, Zenon
<1> QED BY <1>2, <1>3, Zenon

(* The oldest packet under way, and the others. *)
LEMMA FlightParts ==
    ASSUME TypeOK, flight # <<>>
    PROVE  Head(flight) \in Packets /\ Tail(flight) \in Seq(Packets)
BY HeadTailProperties, Zenon DEF TypeOK

(* Initially the types hold. *)
LEMMA InitTypeOK == Init => TypeOK
<1> SUFFICES ASSUME Init PROVE TypeOK
  BY Zenon
<1>1. 0 \in Counters
  BY ModulusType DEF Counters
<1>2. last \in Packets
  <2>1. <<>> \in Seq(Bytes)
    OBVIOUS
  <2> QED BY <2>1, Zenon DEF Init, NoMessage, Packets
<1>3. device \in [sent : Nat, consumed : Nat, msgs : Nat, seen : Nat]
  BY Zenon DEF Init
<1>4. /\ pids \in Seq(0..PidRange - 1) /\ flight \in Seq(Packets)
      /\ totalSent \in Nat /\ totalMsgs \in Nat /\ lost \in Int /\ uncounted \in Int
  BY DEF Init
<1> QED BY <1>1, <1>2, <1>3, <1>4, Zenon DEF Init, TypeOK

(* Every step keeps the types. *)
LEMMA NextTypeOK == TypeOK /\ [Next]_vars => TypeOK'
<1> SUFFICES ASSUME TypeOK, [Next]_vars PROVE TypeOK'
  BY Zenon
<1>0. Counters \subseteq Int
  BY ModulusType DEF Counters
<1>1. ASSUME NEW b \in Bodies, Send(b) PROVE TypeOK'
  <2>1. BodyLen(b) \in Nat /\ Len(Serialize(b)) = BodyLen(b)
    BY SentLen, Zenon
  <2>2. sent' \in Counters /\ id' \in Counters
    <3>1. sent \in Int /\ id \in Int
      BY <1>0, Zenon DEF TypeOK
    <3>2. sent + BodyLen(b) \in Int /\ id + 1 \in Int
      BY <2>1, <3>1
    <3> QED BY <1>1, <3>2, WrapType, Zenon DEF Send, AddSent
  <2>3. count' \in Counters
    <3>1. count \in Counters /\ count \in Int
      BY <1>0, Zenon DEF TypeOK
    <3>2. count + 1 \in Int
      BY <3>1
    <3> QED BY <1>1, <3>1, <3>2, WrapType, Zenon DEF Send, NextCount
  <2>4. pids' \in Seq(0..PidRange - 1)
    <3>1. pids \in Seq(0..PidRange - 1) /\ Pid \in 0..PidRange - 1
      BY PidType, Zenon DEF TypeOK
    <3>2. Append(pids, Pid) \in Seq(0..PidRange - 1)
      BY <3>1, AppendProperties, Zenon
    <3> QED BY <1>1, <3>1, <3>2, Zenon DEF Send
  <2>5. totalSent' \in Nat /\ totalMsgs' \in Nat
    <3>1. totalSent' = totalSent + BodyLen(b) /\ totalMsgs' = totalMsgs + 1
      BY <1>1, <2>1, Zenon DEF Send
    <3>2. totalSent \in Nat /\ totalMsgs \in Nat
      BY Zenon DEF TypeOK
    <3> QED BY <2>1, <3>1, <3>2
  <2> QED BY <1>1, <2>2, <2>3, <2>4, <2>5, Zenon DEF Send, TypeOK, theirs
<1>2. ASSUME Recv PROVE TypeOK'
  <2> DEFINE packet == Head(flight)
             body == ParseBody(packet.wire)
  <2>1. packet \in Packets /\ Tail(flight) \in Seq(Packets)
    BY <1>2, FlightParts, Zenon DEF Recv
  <2>2. /\ packet.sent \in Nat /\ packet.recv \in Nat /\ packet.lmid \in Nat
        /\ packet.rmid \in Nat /\ packet.wire \in Seq(Bytes)
    <3> HIDE DEF packet
    <3> QED BY <2>1, Zenon DEF Packets
  <2>3. /\ body # Invalid /\ recv' = Wrap(recv + BodyLen(body)) /\ rmid' = Wrap(packet.lmid)
        /\ peerSent' = Wrap(packet.sent) /\ peerRecv' = Wrap(packet.recv)
        /\ peerRMID' = Wrap(packet.rmid)
        /\ lost' = lost + (packet.sent - (last.sent + Len(last.wire)))
        /\ uncounted' = uncounted + (Len(packet.wire) - BodyLen(body))
        /\ last' = packet /\ flight' = Tail(flight)
        /\ UNCHANGED <<sent, count, id, ours, device>>
    BY <1>2, Zenon DEF Recv, AddRecv
  <2> HIDE DEF packet
  <2>4. BodyLen(body) \in Nat
    BY <2>2, <2>3, WireType, ParsedLen, Zenon
  <2> HIDE DEF body
  <2>5. recv' \in Counters
    <3>1. recv \in Int
      BY <1>0, Zenon DEF TypeOK
    <3>2. recv + BodyLen(body) \in Int
      BY <2>4, <3>1
    <3> QED BY <2>3, <3>2, WrapType, Zenon
  <2>6. /\ rmid' \in Counters /\ peerSent' \in Counters
        /\ peerRecv' \in Counters /\ peerRMID' \in Counters
    <3>1. packet.sent \in Int /\ packet.recv \in Int /\ packet.lmid \in Int /\ packet.rmid \in Int
      BY <2>2
    <3> QED BY <2>3, <3>1, WrapType, Zenon
  <2>7. lost' \in Int /\ uncounted' \in Int
    <3>1. last.sent \in Nat /\ last.wire \in Seq(Bytes) /\ lost \in Int /\ uncounted \in Int
      BY Zenon DEF TypeOK, Packets
    <3>2. Len(last.wire) \in Nat /\ Len(packet.wire) \in Nat
      BY <2>2, <3>1, WireType, Zenon
    <3> QED BY <2>2, <2>3, <2>4, <3>1, <3>2
  <2> QED BY <2>1, <2>3, <2>5, <2>6, <2>7, Zenon DEF TypeOK, ours
<1>3. ASSUME DeviceConsumes PROVE TypeOK'
  <2>1. device' \in [sent : Nat, consumed : Nat, msgs : Nat, seen : Nat]
    BY <1>3, Zenon DEF TypeOK, DeviceConsumes
  <2> QED BY <1>3, <2>1, Zenon DEF TypeOK, DeviceConsumes, session, ours
<1>4. ASSUME NEW w \in Wires, DeviceSends(w) PROVE TypeOK'
  <2>1. w \in Seq(Bytes) /\ Len(w) \in Nat
    BY BodiesAssumption, WireType, Zenon
  <2>2. device' \in [sent : Nat, consumed : Nat, msgs : Nat, seen : Nat]
    <3>1. device' = [device EXCEPT !.sent = @ + Len(w), !.msgs = @ + 1]
      BY <1>4, Zenon DEF DeviceSends
    <3>2. device \in [sent : Nat, consumed : Nat, msgs : Nat, seen : Nat]
      BY Zenon DEF TypeOK
    <3>3. device.sent + Len(w) \in Nat /\ device.msgs + 1 \in Nat
      BY <2>1, <3>2
    <3> QED BY <3>1, <3>2, <3>3, Zenon
  <2> DEFINE packet == [sent |-> device.sent, recv |-> device.consumed,
                        lmid |-> device.msgs, rmid |-> device.seen, wire |-> w]
  <2>3. packet \in Packets
    BY <2>1, Zenon DEF TypeOK, Packets
  <2>4. flight' = Append(flight, packet) /\ flight \in Seq(Packets)
    BY <1>4, Zenon DEF TypeOK, DeviceSends
  <2> HIDE DEF packet
  <2>5. flight' \in Seq(Packets)
    BY <2>3, <2>4, AppendProperties, Zenon
  <2> QED BY <1>4, <2>2, <2>5, Zenon DEF TypeOK, DeviceSends, session, ours
<1>5. ASSUME Lose PROVE TypeOK'
  <2>1. flight' \in Seq(Packets)
    BY <1>5, FlightParts, Zenon DEF Lose
  <2> QED BY <1>5, <2>1, Zenon DEF TypeOK, Lose, session, ours
<1>6. ASSUME UNCHANGED vars PROVE TypeOK'
  BY <1>6, Zenon DEF TypeOK, vars, session, ours, theirs
<1> QED BY <1>1, <1>2, <1>3, <1>4, <1>5, <1>6, Zenon DEF Next

(* The counters of Session never leave their width, and every packet the   *)
(* session sees is well formed.                                            *)
THEOREM TypeCorrect == Spec => []TypeOK
BY InitTypeOK, NextTypeOK, PTL DEF Spec

-----------------------------------------------------------------------------
(* The loss estimates *)

(* What CountersFollow says has integers on both sides. *)
LEMMA TotalsType ==
    ASSUME TypeOK
    PROVE  /\ sent \in Int /\ recv \in Int /\ id \in Int /\ count \in Int
           /\ peerSent \in Int /\ peerRecv \in Int /\ peerRMID \in Int
           /\ totalSent \in Int /\ totalMsgs \in Int
           /\ last.sent \in Int /\ last.recv \in Int /\ last.rmid \in Int
           /\ Len(last.wire) \in Int /\ lost \in Int /\ uncounted \in Int
           /\ last.sent + Len(last.wire) - lost - uncounted \in Int
<1>0. Counters \subseteq Int /\ Nat \subseteq Int
  BY ModulusType DEF Counters
<1>1. /\ sent \in Int /\ recv \in Int /\ id \in Int /\ count \in Int
      /\ peerSent \in Int /\ peerRecv \in Int /\ peerRMID \in Int
      /\ totalSent \in Int /\ totalMsgs \in Int /\ lost \in Int /\ uncounted \in Int
  BY <1>0, Zenon DEF TypeOK
<1>2. last.sent \in Int /\ last.recv \in Int /\ last.rmid \in Int /\ last.wire \in Seq(Bytes)
  BY DEF TypeOK, Packets
<1>3. Len(last.wire) \in Int
  BY <1>0, <1>2, WireType, Zenon
<1>4. last.sent + Len(last.wire) - lost - uncounted \in Int
  BY <1>1, <1>2, <1>3
<1> QED BY <1>1, <1>2, <1>3, <1>4, Zenon

(* Initially every counter is zero, as are the totals. *)
LEMMA InitCounters == Init => CountersFollow
<1> SUFFICES ASSUME Init PROVE CountersFollow
  BY Zenon
<1>1. /\ sent = 0 /\ recv = 0 /\ id = 0 /\ peerSent = 0 /\ peerRecv = 0 /\ peerRMID = 0
      /\ totalSent = 0 /\ totalMsgs = 0 /\ lost = 0 /\ uncounted = 0
      /\ last.sent = 0 /\ last.recv = 0 /\ last.rmid = 0 /\ last.wire = <<>>
  BY Zenon DEF Init, NoMessage
<1>2. last.sent + Len(last.wire) - lost - uncounted = 0
  BY <1>1
<1>3. Congruent(0, 0, Modulus)
  BY ModulusType, CongruentSelf
<1> QED BY <1>1, <1>2, <1>3, Zenon DEF CountersFollow

(* Every step moves a counter and its total alike. *)
LEMMA NextCounters == TypeOK /\ TypeOK' /\ CountersFollow /\ [Next]_vars => CountersFollow'
<1> SUFFICES ASSUME TypeOK, TypeOK', CountersFollow, [Next]_vars PROVE CountersFollow'
  BY Zenon
<1>1. ASSUME NEW b \in Bodies, Send(b) PROVE CountersFollow'
  <2>1. BodyLen(b) \in Int /\ Len(Serialize(b)) = BodyLen(b) /\ 1 \in Int
    BY SentLen
  <2>2. Congruent(sent, totalSent, Modulus) /\ Congruent(id, totalMsgs, Modulus)
    BY Zenon DEF CountersFollow
  <2>3. Congruent(Wrap(sent + BodyLen(b)), totalSent + BodyLen(b), Modulus)
    BY <2>1, <2>2, TotalsType, WrapAdds, Zenon
  <2>4. Congruent(Wrap(id + 1), totalMsgs + 1, Modulus)
    BY <2>1, <2>2, TotalsType, WrapAdds, Zenon
  <2>5. /\ sent' = Wrap(sent + BodyLen(b)) /\ totalSent' = totalSent + BodyLen(b)
        /\ id' = Wrap(id + 1) /\ totalMsgs' = totalMsgs + 1
        /\ UNCHANGED <<recv, peerSent, peerRecv, peerRMID, lost, uncounted, last>>
    BY <1>1, <2>1, Zenon DEF Send, AddSent
  <2> QED BY <2>3, <2>4, <2>5, Zenon DEF CountersFollow
<1>2. ASSUME Recv PROVE CountersFollow'
  <2> DEFINE packet == Head(flight)
             body == ParseBody(packet.wire)
             behind == last.sent + Len(last.wire) - lost - uncounted
  <2>1. /\ body # Invalid /\ recv' = Wrap(recv + BodyLen(body))
        /\ peerSent' = Wrap(packet.sent) /\ peerRecv' = Wrap(packet.recv)
        /\ peerRMID' = Wrap(packet.rmid)
        /\ lost' = lost + (packet.sent - (last.sent + Len(last.wire)))
        /\ uncounted' = uncounted + (Len(packet.wire) - BodyLen(body))
        /\ last' = packet /\ UNCHANGED <<sent, id, totalSent, totalMsgs>>
    BY <1>2, Zenon DEF Recv, AddRecv, ours
  <2>2. packet \in Packets
    BY <1>2, FlightParts, Zenon DEF Recv
  <2> HIDE DEF packet
  <2>3. /\ packet.sent \in Int /\ packet.recv \in Int /\ packet.rmid \in Int
        /\ packet.wire \in Seq(Bytes)
    BY <2>2 DEF Packets
  <2>4. BodyLen(body) \in Nat /\ Len(packet.wire) \in Nat
    BY <2>1, <2>3, WireType, ParsedLen, Zenon
  <2>5. BodyLen(body) \in Int /\ Len(packet.wire) \in Int
    BY <2>4
  <2> HIDE DEF body
  <2>6. /\ Congruent(peerSent', last'.sent, Modulus) /\ Congruent(peerRecv', last'.recv, Modulus)
        /\ Congruent(peerRMID', last'.rmid, Modulus)
    BY <2>1, <2>3, WrapIs, Zenon
  <2>7. Congruent(recv', last'.sent + Len(last'.wire) - lost' - uncounted', Modulus)
    <3>0. /\ last.sent \in Int /\ Len(last.wire) \in Int /\ lost \in Int /\ uncounted \in Int
      BY TotalsType, Zenon
    <3>1. last'.sent + Len(last'.wire) - lost' - uncounted' = behind + BodyLen(body)
      <4> DEFINE s == last.sent
                 l == Len(last.wire)
                 ps == packet.sent
                 pl == Len(packet.wire)
                 n == BodyLen(body)
      <4>1. s \in Int /\ l \in Int /\ ps \in Int /\ pl \in Int /\ n \in Int
        BY <2>3, <2>5, <3>0, Zenon
      <4> HIDE DEF s, l, ps, pl, n
      <4>2. ps + pl - (lost + (ps - (s + l))) - (uncounted + (pl - n))
            = (s + l - lost - uncounted) + n
        BY <3>0, <4>1
      <4> QED BY <2>1, <4>2, Zenon DEF s, l, ps, pl, n
    <3>2. Congruent(recv, behind, Modulus) /\ recv \in Int /\ behind \in Int
      BY TotalsType, Zenon DEF CountersFollow
    <3> HIDE DEF behind
    <3>3. Congruent(Wrap(recv + BodyLen(body)), behind + BodyLen(body), Modulus)
      BY <2>5, <3>2, WrapAdds, Zenon
    <3> QED BY <2>1, <3>1, <3>3, Zenon
  <2>8. Congruent(sent', totalSent', Modulus) /\ Congruent(id', totalMsgs', Modulus)
    BY <2>1, Zenon DEF CountersFollow
  <2> QED BY <2>6, <2>7, <2>8, Zenon DEF CountersFollow
<1>3. ASSUME \/ DeviceConsumes \/ (\E w \in Wires : DeviceSends(w)) \/ Lose \/ UNCHANGED vars
      PROVE  CountersFollow'
  <2>1. /\ UNCHANGED <<sent, recv, id, peerSent, peerRecv, peerRMID>>
        /\ UNCHANGED <<totalSent, totalMsgs, lost, uncounted, last>>
    BY <1>3, Zenon DEF DeviceConsumes, DeviceSends, Lose, vars, session, ours
  <2> QED BY <2>1, Zenon DEF CountersFollow
<1> QED BY <1>1, <1>2, <1>3, Zenon DEF Next

(* The estimates follow from the counters. *)
LEMMA EstimatesFromCounters == TypeOK /\ CountersFollow => LossEstimatesExact
<1> SUFFICES ASSUME TypeOK, CountersFollow PROVE LossEstimatesExact
  BY Zenon
<1> DEFINE unacked == totalSent - last.recv
           lag == totalMsgs - last.rmid
           missing == lost - Len(last.wire) + uncounted
           behind == last.sent + Len(last.wire) - lost - uncounted
<1>t. /\ sent \in Int /\ recv \in Int /\ id \in Int
      /\ peerSent \in Int /\ peerRecv \in Int /\ peerRMID \in Int
      /\ totalSent \in Int /\ totalMsgs \in Int
      /\ last.sent \in Int /\ last.recv \in Int /\ last.rmid \in Int /\ behind \in Int
  BY TotalsType, Zenon
<1>1. ASSUME InRange(unacked) PROVE OutBytes = unacked
  <2>1. Congruent(sent, totalSent, Modulus) /\ Congruent(peerRecv, last.recv, Modulus)
    BY Zenon DEF CountersFollow
  <2>2. Delta(sent, peerRecv) = totalSent - last.recv
    BY <1>t, <1>1, <2>1, DeltaExact
  <2> QED BY <2>2, Zenon DEF OutBytes
<1>2. ASSUME InRange(lag) PROVE OutMsgs = lag
  <2>1. Congruent(id, totalMsgs, Modulus) /\ Congruent(peerRMID, last.rmid, Modulus)
    BY Zenon DEF CountersFollow
  <2>2. Delta(id, peerRMID) = totalMsgs - last.rmid
    BY <1>t, <1>2, <2>1, DeltaExact
  <2> QED BY <2>2, Zenon DEF OutMsgs
<1>3. ASSUME InRange(missing) PROVE InBytes = missing
  <2>0. lost \in Int /\ uncounted \in Int /\ Len(last.wire) \in Int /\ last.sent \in Int
    BY TotalsType, Zenon
  <2>1. missing = last.sent - behind
    <3> DEFINE s == last.sent
               l == Len(last.wire)
    <3>1. s \in Int /\ l \in Int /\ lost \in Int /\ uncounted \in Int
      BY <2>0, Zenon
    <3> HIDE DEF s, l
    <3>2. lost - l + uncounted = s - (s + l - lost - uncounted)
      BY <3>1
    <3> QED BY <3>2, Zenon DEF s, l
  <2>2. Congruent(peerSent, last.sent, Modulus) /\ Congruent(recv, behind, Modulus)
    BY Zenon DEF CountersFollow
  <2>3. InRange(last.sent - behind)
    BY <1>3, <2>1, Zenon
  <2> HIDE DEF behind, missing
  <2>4. Delta(peerSent, recv) = last.sent - behind
    BY <1>t, <2>2, <2>3, DeltaExact
  <2> QED BY <2>1, <2>4, Zenon DEF InBytes
<1> QED BY <1>1, <1>2, <1>3, Zenon DEF LossEstimatesExact

(* Stats is exact: across the wrap of every counter, whatever the device   *)
(* sends and the network loses, the estimates that reportLoss and the      *)
(* stall check read are the true differences while these fit half a        *)
(* counter.                                                                *)
THEOREM EstimatesExact == Spec => []LossEstimatesExact
<1> DEFINE IInv == TypeOK /\ CountersFollow
<1>1. Init => IInv
  BY InitTypeOK, InitCounters, Zenon
<1>2. IInv /\ [Next]_vars => IInv'
  BY NextTypeOK, NextCounters, Zenon
<1>3. IInv => LossEstimatesExact
  BY EstimatesFromCounters, Zenon
<1> QED BY <1>1, <1>2, <1>3, PTL DEF Spec

-----------------------------------------------------------------------------
(* The wire *)

(* Session.Send and Packet.Serialize lose nothing: every body the program  *)
(* sends, of any content, is the one ParseBody reads from its bytes.       *)
THEOREM FramingFaithful == Spec => []WireFaithful
<1>1. Init => WireFaithful
  <2> SUFFICES ASSUME Init PROVE WireFaithful
    BY Zenon
  <2>1. out.body = NewEmptyBody /\ out.wire = <<>>
    BY Zenon DEF Init
  <2> QED BY <2>1, Zenon DEF WireFaithful, ParseBody
<1>2. WireFaithful /\ [Next]_vars => WireFaithful'
  <2> SUFFICES ASSUME WireFaithful, [Next]_vars PROVE WireFaithful'
    BY Zenon
  <2>1. ASSUME NEW b \in Bodies, Send(b) PROVE WireFaithful'
    <3>1. out' = [body |-> b, wire |-> Serialize(b)]
      BY <2>1, Zenon DEF Send
    <3>2. out'.body = b /\ out'.wire = Serialize(b)
      BY <3>1, Zenon
    <3> QED BY <3>2, SentLen, Zenon DEF WireFaithful
  <2>2. ASSUME \/ Recv \/ DeviceConsumes \/ (\E w \in Wires : DeviceSends(w)) \/ Lose
               \/ UNCHANGED vars
        PROVE  WireFaithful'
    <3>1. out' = out
      BY <2>2, Zenon DEF Recv, DeviceConsumes, DeviceSends, Lose, vars, ours
    <3> QED BY <3>1, Zenon DEF WireFaithful
  <2> QED BY <2>1, <2>2, Zenon DEF Next
<1> QED BY <1>1, <1>2, PTL DEF Spec

-----------------------------------------------------------------------------
(* PIDs *)

(* Counters that agree in the width of the session agree in that of a PID. *)
LEMMA CongruentPids ==
    ASSUME NEW a \in Int, NEW b \in Int, Congruent(a, b, Modulus)
    PROVE  Congruent(a, b, PidRange)
<1>1. PICK q \in Int : a - b = q * Modulus
  BY Zenon DEF Congruent
<1>2. Modulus % PidRange = 0 /\ Modulus \in Int
  BY WidthAssumption, ModulusType DEF Modulus
<1> DEFINE k == Modulus \div PidRange
<1>3. k \in Int /\ Modulus = PidRange * k
  BY <1>2, ModulusType
<1> HIDE DEF k
<1>4. a - b = (q * k) * PidRange /\ q * k \in Int
  BY <1>1, <1>3, ModulusType
<1> QED BY <1>4, Zenon DEF Congruent

(* Every step keeps the PIDs counting down. *)
LEMMA NextPids == TypeOK /\ PidsFollow /\ [Next]_vars => PidsFollow'
<1> SUFFICES ASSUME TypeOK, PidsFollow, [Next]_vars PROVE PidsFollow'
  BY Zenon
<1>1. ASSUME NEW b \in Bodies, Send(b), b.type # "sync" PROVE PidsFollow'
  <2> DEFINE n == Len(pids)
  <2>0. pids \in Seq(0..PidRange - 1) /\ count \in Int
    BY TotalsType, Zenon DEF TypeOK
  <2>1. pids' = Append(pids, Pid) /\ count' = Wrap(count + 1)
    BY <1>1, Zenon DEF Send, NextCount
  <2>2. /\ Len(pids') = n + 1 /\ pids'[n + 1] = Pid
        /\ \A i \in 1..n : pids'[i] = pids[i]
    BY <2>0, <2>1, PidType, AppendProperties DEF TypeOK
  <2>3. n \in Nat /\ n \in Int /\ 1 \in Int /\ (n + 1) - 1 = n /\ DOMAIN pids = 1..n
    BY <2>0, LenProperties
  <2>4. Congruent(count, n, Modulus)
    BY Zenon DEF PidsFollow
  <2> HIDE DEF n
  <2>5. Congruent(count', Len(pids'), Modulus)
    <3>1. Congruent(Wrap(count + 1), n + 1, Modulus)
      BY <2>0, <2>3, <2>4, WrapAdds, Zenon
    <3> QED BY <2>1, <2>2, <3>1, Zenon
  <2>6. count % PidRange = n % PidRange
    <3>1. Congruent(count, n, PidRange)
      BY <2>0, <2>3, <2>4, CongruentPids, Zenon
    <3> QED BY <2>0, <2>3, <3>1, ModulusType, SameRemainder, Zenon
  <2>7. DOMAIN pids' = 1..n + 1
    <3>1. pids' \in Seq(0..PidRange - 1)
      BY <2>0, <2>1, PidType, AppendProperties, Zenon DEF TypeOK
    <3> QED BY <2>2, <3>1, LenProperties, Zenon
  <2>8. ASSUME NEW i \in DOMAIN pids' PROVE pids'[i] = (PidRange - 1) - ((i - 1) % PidRange)
    <3>1. i \in 1..n \/ i = n + 1
      BY <2>3, <2>7, <2>8
    <3>2. CASE i \in 1..n
      BY <2>2, <2>3, <3>2, Zenon DEF PidsFollow
    <3>3. CASE i = n + 1
      <4>1. pids'[i] = (PidRange - 1) - (n % PidRange)
        BY <2>2, <2>6, <3>3, Zenon DEF Pid
      <4> QED BY <2>3, <3>3, <4>1, Zenon
    <3> QED BY <3>1, <3>2, <3>3, Zenon
  <2> QED BY <2>5, <2>8, Zenon DEF PidsFollow
<1>2. ASSUME \/ (\E b \in Bodies : Send(b) /\ b.type = "sync") \/ Recv \/ DeviceConsumes
             \/ (\E w \in Wires : DeviceSends(w)) \/ Lose \/ UNCHANGED vars
      PROVE  PidsFollow'
  <2>1. UNCHANGED <<count, pids>>
    BY <1>2, Zenon
    DEF Send, NextCount, Recv, DeviceConsumes, DeviceSends, Lose, vars, session, ours
  <2> QED BY <2>1, Zenon DEF PidsFollow
<1> QED BY <1>1, <1>2, Zenon DEF Next

(* PIDs that count down differ within their range. *)
LEMMA PidsApart == TypeOK /\ PidsFollow => PidsDistinctInWindow
<1> SUFFICES ASSUME TypeOK, PidsFollow, NEW i \in DOMAIN pids, NEW j \in DOMAIN pids,
                    i < j, j - i < PidRange, pids[i] = pids[j]
             PROVE  FALSE
  BY Zenon DEF PidsDistinctInWindow
<1> DEFINE a == i - 1
           b == j - 1
           x == a % PidRange
           y == b % PidRange
<1>1. a \in Int /\ b \in Int /\ i \in Int /\ j \in Int
  BY LenProperties DEF TypeOK
<1>2. /\ x \in 0..PidRange - 1 /\ Congruent(x, a, PidRange)
      /\ y \in 0..PidRange - 1 /\ Congruent(y, b, PidRange)
  BY <1>1, ModulusType, Remainder, Zenon
<1>3. (PidRange - 1) - x = (PidRange - 1) - y
  BY Zenon DEF PidsFollow
<1>4. a # b /\ -PidRange < a - b /\ a - b < PidRange
  BY <1>1, ModulusType
<1> HIDE DEF x, y, a, b
<1>5. x = y /\ x \in Int
  BY <1>2, <1>3, ModulusType
<1>6. Congruent(a, a, PidRange) /\ PidRange \in Nat
  BY <1>1, ModulusType, CongruentSelf, Zenon
<1>7. Congruent(a, x, PidRange)
  BY <1>1, <1>2, <1>5, <1>6, CongruentChain, Zenon
<1>8. Congruent(a, b, PidRange)
  BY <1>1, <1>2, <1>5, <1>6, <1>7, CongruentChain, Zenon
<1> QED BY <1>1, <1>4, <1>8, ModulusType, CongruentEqual, Zenon

(* The device discards a PID it knows: among PidRange consecutive packets  *)
(* that Session.Send numbers, no two share a PID, also where the counter   *)
(* behind them wraps.                                                      *)
THEOREM PidsDistinct == Spec => []PidsDistinctInWindow
<1> DEFINE IInv == TypeOK /\ PidsFollow
<1>1. Init => IInv
  <2> SUFFICES ASSUME Init PROVE PidsFollow
    BY InitTypeOK, Zenon
  <2>1. Len(pids) = 0 /\ DOMAIN pids = {} /\ count = 0
    BY DEF Init
  <2>2. Congruent(0, 0, Modulus)
    BY ModulusType, CongruentSelf
  <2> QED BY <2>1, <2>2, Zenon DEF PidsFollow
<1>2. IInv /\ [Next]_vars => IInv'
  BY NextTypeOK, NextPids, Zenon
<1>3. IInv => PidsDistinctInWindow
  BY PidsApart, Zenon
<1> QED BY <1>1, <1>2, <1>3, PTL DEF Spec
=============================================================================
