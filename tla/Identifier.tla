----------------------------- MODULE Identifier -----------------------------
(***************************************************************************)
(* The check digits of permanent identifiers (identifier.py).  A character *)
(* is its ordinal value in XDIGITS.  An identifier, without its prefix, is *)
(* a sequence of 4 characters (authorities) or 8 (periods: the 5 of their  *)
(* authority and 3 more), which ends in a check digit.                     *)
(*                                                                         *)
(* The theorems say which slips of a person who copies an identifier its   *)
(* check digit gives away: IDENTIFIER_RE accepts all of them.              *)
(***************************************************************************)
EXTENDS Integers, TLAPS

Base == 27                        \* len(XDIGITS)
Digits == 0..(Base - 1)

AuthorityLength == 4              \* AUTHORITY_SEQUENCE_LENGTH
PeriodLength == AuthorityLength + 1 + 3

Strings == [1..AuthorityLength -> Digits] \cup [1..PeriodLength -> Digits]
LengthOf(s) == IF DOMAIN s = 1..AuthorityLength THEN AuthorityLength ELSE PeriodLength

(* ordinal_value(char): 0 where a sequence has no character, as for a "/". *)
Value(s, i) == IF i \in DOMAIN s THEN s[i] ELSE 0

(* The sum of ordinal_value(char) * position, and its remainder.           *)
Total(s) == Value(s, 1) + Value(s, 2)*2 + Value(s, 3)*3 + Value(s, 4)*4
            + Value(s, 5)*5 + Value(s, 6)*6 + Value(s, 7)*7 + Value(s, 8)*8
CheckDigit(s) == Total(s) % Base

(* OLD_check_digit_for() puts a "/" at position 6 of a period.             *)
OldTotal(s) == Value(s, 1) + Value(s, 2)*2 + Value(s, 3)*3 + Value(s, 4)*4
               + Value(s, 5)*5 + Value(s, 6)*7 + Value(s, 7)*8 + Value(s, 8)*9
OldCheckDigit(s) == OldTotal(s) % Base

(* check() of the sequence s with the last character c.                    *)
Valid(s, c, strict) ==
  \/ c = CheckDigit(s)
  \/ ~strict /\ c = OldCheckDigit(s)

Transposed(s, i) == [s EXCEPT ![i] = s[i + 1], ![i + 1] = s[i]]
Substituted(s, i, d) == [s EXCEPT ![i] = d]

-----------------------------------------------------------------------------
(* Remainders are equal when the totals differ by a multiple of 27.        *)
LEMMA SameRemainder ==
  ASSUME NEW x \in Int, NEW y \in Int, x % 27 = y % 27
  PROVE  \E k \in Int : x - y = k * 27
<1>1. x = 27 * (x \div 27) + (x % 27) /\ x \div 27 \in Int
  OBVIOUS
<1>2. y = 27 * (y \div 27) + (y % 27) /\ y \div 27 \in Int
  OBVIOUS
<1>3. x - y = (x \div 27 - y \div 27) * 27 /\ x \div 27 - y \div 27 \in Int
  BY <1>1, <1>2
<1>. QED BY <1>3

LEMMA Shapes ==
  ASSUME NEW s \in Strings
  PROVE  \/ s \in [1..4 -> 0..26] /\ LengthOf(s) = 4
         \/ s \in [1..8 -> 0..26] /\ LengthOf(s) = 8
<1>1. 1..4 # 1..8
  <2>1. 8 \in 1..8 /\ 8 \notin 1..4
    OBVIOUS
  <2>. QED BY <2>1
<1>. QED
  BY <1>1 DEF Strings, LengthOf, Digits, Base, AuthorityLength, PeriodLength

LEMMA Values ==
  ASSUME NEW s \in Strings, NEW i \in 1..LengthOf(s)
  PROVE  /\ LengthOf(s) \in {4, 8} /\ i \in DOMAIN s /\ Value(s, i) = s[i]
         /\ \A k \in 1..8 : Value(s, k) \in 0..26
BY Shapes DEF Value

LEMMA TransposedTotal ==
  ASSUME NEW s \in Strings, NEW i \in 1..(LengthOf(s) - 1)
  PROVE  /\ Total(Transposed(s, i)) - Total(s) = s[i] - s[i + 1]
         /\ Total(s) \in Int /\ Total(Transposed(s, i)) \in Int
<1>. DEFINE t == Transposed(s, i)
            v(k) == Value(s, k)
            w(k) == Value(t, k)
<1>1. LengthOf(s) \in {4, 8} /\ i \in DOMAIN s /\ i + 1 \in DOMAIN s
  BY Shapes
<1>2. \A k \in 1..8 : v(k) \in 0..26
  BY Values, <1>1
<1>3. w(i) = v(i + 1) /\ w(i + 1) = v(i) /\ v(i) = s[i] /\ v(i + 1) = s[i + 1]
  BY <1>1 DEF Value, Transposed
<1>4. \A k \in 1..8 : k # i /\ k # i + 1 => w(k) = v(k)
  BY <1>1 DEF Value, Transposed
<1>5. Total(s) = v(1) + v(2)*2 + v(3)*3 + v(4)*4 + v(5)*5 + v(6)*6 + v(7)*7 + v(8)*8
  BY DEF Total
<1>6. Total(t) = w(1) + w(2)*2 + w(3)*3 + w(4)*4 + w(5)*5 + w(6)*6 + w(7)*7 + w(8)*8
  BY DEF Total
<1>7. i \in {1, 2, 3, 4, 5, 6, 7}
  BY <1>1
<1>. HIDE DEF t, v, w
<1>8. Total(t) - Total(s) = v(i) - v(i + 1) /\ Total(s) \in Int /\ Total(t) \in Int
  <2>. v(1) \in Int /\ v(2) \in Int /\ v(3) \in Int /\ v(4) \in Int
       /\ v(5) \in Int /\ v(6) \in Int /\ v(7) \in Int /\ v(8) \in Int
    BY <1>2
  <2>1. CASE i = 1
    <3>. w(1) = v(2) /\ w(2) = v(1) /\ w(3) = v(3) /\ w(4) = v(4)
         /\ w(5) = v(5) /\ w(6) = v(6) /\ w(7) = v(7) /\ w(8) = v(8)
      BY <2>1, <1>3, <1>4
    <3>. QED BY <2>1, <1>5, <1>6
  <2>2. CASE i = 2
    <3>. w(1) = v(1) /\ w(2) = v(3) /\ w(3) = v(2) /\ w(4) = v(4)
         /\ w(5) = v(5) /\ w(6) = v(6) /\ w(7) = v(7) /\ w(8) = v(8)
      BY <2>2, <1>3, <1>4
    <3>. QED BY <2>2, <1>5, <1>6
  <2>3. CASE i = 3
    <3>. w(1) = v(1) /\ w(2) = v(2) /\ w(3) = v(4) /\ w(4) = v(3)
         /\ w(5) = v(5) /\ w(6) = v(6) /\ w(7) = v(7) /\ w(8) = v(8)
      BY <2>3, <1>3, <1>4
    <3>. QED BY <2>3, <1>5, <1>6
  <2>4. CASE i = 4
    <3>. w(1) = v(1) /\ w(2) = v(2) /\ w(3) = v(3) /\ w(4) = v(5)
         /\ w(5) = v(4) /\ w(6) = v(6) /\ w(7) = v(7) /\ w(8) = v(8)
      BY <2>4, <1>3, <1>4
    <3>. QED BY <2>4, <1>5, <1>6
  <2>5. CASE i = 5
    <3>. w(1) = v(1) /\ w(2) = v(2) /\ w(3) = v(3) /\ w(4) = v(4)
         /\ w(5) = v(6) /\ w(6) = v(5) /\ w(7) = v(7) /\ w(8) = v(8)
      BY <2>5, <1>3, <1>4
    <3>. QED BY <2>5, <1>5, <1>6
  <2>6. CASE i = 6
    <3>. w(1) = v(1) /\ w(2) = v(2) /\ w(3) = v(3) /\ w(4) = v(4)
         /\ w(5) = v(5) /\ w(6) = v(7) /\ w(7) = v(6) /\ w(8) = v(8)
      BY <2>6, <1>3, <1>4
    <3>. QED BY <2>6, <1>5, <1>6
  <2>7. CASE i = 7
    <3>. w(1) = v(1) /\ w(2) = v(2) /\ w(3) = v(3) /\ w(4) = v(4)
         /\ w(5) = v(5) /\ w(6) = v(6) /\ w(7) = v(8) /\ w(8) = v(7)
      BY <2>7, <1>3, <1>4
    <3>. QED BY <2>7, <1>5, <1>6
  <2>. QED BY <1>7, <2>1, <2>2, <2>3, <2>4, <2>5, <2>6, <2>7
<1>. QED BY <1>3, <1>8 DEF t

(* Two neighbouring characters that change places change the check digit,  *)
(* wherever they are: their weights differ by one, and their values by     *)
(* less than 27 (check_digit_for, identifier.py:109-116).                  *)
THEOREM TranspositionsAreDetected ==
  ASSUME NEW s \in Strings, NEW i \in 1..(LengthOf(s) - 1), s[i] # s[i + 1]
  PROVE  ~Valid(Transposed(s, i), CheckDigit(s), TRUE)
<1>1. s[i] \in 0..26 /\ s[i + 1] \in 0..26
  BY Shapes
<1>2. ASSUME CheckDigit(Transposed(s, i)) = CheckDigit(s)
      PROVE  FALSE
  <2>1. PICK k \in Int : Total(Transposed(s, i)) - Total(s) = k * 27
    BY <1>2, SameRemainder, TransposedTotal DEF CheckDigit, Base
  <2>. QED BY <1>1, <2>1, TransposedTotal
<1>. QED BY <1>2 DEF Valid

LEMMA SubstitutedTotal ==
  ASSUME NEW s \in Strings, NEW i \in 1..LengthOf(s), NEW d \in 0..26
  PROVE  /\ Total(Substituted(s, i, d)) - Total(s) = i * (d - s[i])
         /\ Total(s) \in Int /\ Total(Substituted(s, i, d)) \in Int
<1>. DEFINE t == Substituted(s, i, d)
            v(k) == Value(s, k)
            w(k) == Value(t, k)
<1>1. LengthOf(s) \in {4, 8} /\ i \in DOMAIN s
  BY Shapes
<1>2. \A k \in 1..8 : v(k) \in 0..26
  BY Values, <1>1
<1>3. w(i) = d /\ v(i) = s[i]
  BY <1>1 DEF Value, Substituted
<1>4. \A k \in 1..8 : k # i => w(k) = v(k)
  BY <1>1 DEF Value, Substituted
<1>5. Total(s) = v(1) + v(2)*2 + v(3)*3 + v(4)*4 + v(5)*5 + v(6)*6 + v(7)*7 + v(8)*8
  BY DEF Total
<1>6. Total(t) = w(1) + w(2)*2 + w(3)*3 + w(4)*4 + w(5)*5 + w(6)*6 + w(7)*7 + w(8)*8
  BY DEF Total
<1>7. i \in {1, 2, 3, 4, 5, 6, 7, 8}
  BY <1>1
<1>. HIDE DEF t, v, w
<1>8. Total(t) - Total(s) = i * (d - s[i]) /\ Total(s) \in Int /\ Total(t) \in Int
  <2>. v(1) \in Int /\ v(2) \in Int /\ v(3) \in Int /\ v(4) \in Int
       /\ v(5) \in Int /\ v(6) \in Int /\ v(7) \in Int /\ v(8) \in Int /\ d \in Int
    BY <1>2
  <2>1. CASE i = 1
    <3>. w(2) = v(2) /\ w(3) = v(3) /\ w(4) = v(4) /\ w(5) = v(5)
         /\ w(6) = v(6) /\ w(7) = v(7) /\ w(8) = v(8)
      BY <2>1, <1>4
    <3>1. w(1) = d /\ v(1) = s[i]
      BY <2>1, <1>3
    <3>2. Total(t) - Total(s) = w(1) - v(1) /\ Total(s) \in Int /\ Total(t) \in Int
      BY <3>1, <1>5, <1>6
    <3>. QED BY <2>1, <3>1, <3>2
  <2>2. CASE i = 2
    <3>. w(1) = v(1) /\ w(3) = v(3) /\ w(4) = v(4) /\ w(5) = v(5)
         /\ w(6) = v(6) /\ w(7) = v(7) /\ w(8) = v(8)
      BY <2>2, <1>4
    <3>. QED BY <2>2, <1>3, <1>5, <1>6
  <2>3. CASE i = 3
    <3>. w(1) = v(1) /\ w(2) = v(2) /\ w(4) = v(4) /\ w(5) = v(5)
         /\ w(6) = v(6) /\ w(7) = v(7) /\ w(8) = v(8)
      BY <2>3, <1>4
    <3>. QED BY <2>3, <1>3, <1>5, <1>6
  <2>4. CASE i = 4
    <3>. w(1) = v(1) /\ w(2) = v(2) /\ w(3) = v(3) /\ w(5) = v(5)
         /\ w(6) = v(6) /\ w(7) = v(7) /\ w(8) = v(8)
      BY <2>4, <1>4
    <3>. QED BY <2>4, <1>3, <1>5, <1>6
  <2>5. CASE i = 5
    <3>. w(1) = v(1) /\ w(2) = v(2) /\ w(3) = v(3) /\ w(4) = v(4)
         /\ w(6) = v(6) /\ w(7) = v(7) /\ w(8) = v(8)
      BY <2>5, <1>4
    <3>. QED BY <2>5, <1>3, <1>5, <1>6
  <2>6. CASE i = 6
    <3>. w(1) = v(1) /\ w(2) = v(2) /\ w(3) = v(3) /\ w(4) = v(4)
         /\ w(5) = v(5) /\ w(7) = v(7) /\ w(8) = v(8)
      BY <2>6, <1>4
    <3>. QED BY <2>6, <1>3, <1>5, <1>6
  <2>7. CASE i = 7
    <3>. w(1) = v(1) /\ w(2) = v(2) /\ w(3) = v(3) /\ w(4) = v(4)
         /\ w(5) = v(5) /\ w(6) = v(6) /\ w(8) = v(8)
      BY <2>7, <1>4
    <3>. QED BY <2>7, <1>3, <1>5, <1>6
  <2>8. CASE i = 8
    <3>. w(1) = v(1) /\ w(2) = v(2) /\ w(3) = v(3) /\ w(4) = v(4)
         /\ w(5) = v(5) /\ w(6) = v(6) /\ w(7) = v(7)
      BY <2>8, <1>4
    <3>. QED BY <2>8, <1>3, <1>5, <1>6
  <2>. QED BY <1>7, <2>1, <2>2, <2>3, <2>4, <2>5, <2>6, <2>7, <2>8
<1>. QED BY <1>8 DEF t

(* A wrong character changes the check digit unless it is the third or the *)
(* sixth, whose weights have a factor in common with 27                    *)
(* (check_digit_for, identifier.py:109-116).                               *)
THEOREM SubstitutionsAreDetected ==
  ASSUME NEW s \in Strings, NEW i \in 1..LengthOf(s), NEW d \in Digits,
         d # s[i], i \notin {3, 6}
  PROVE  ~Valid(Substituted(s, i, d), CheckDigit(s), TRUE)
<1>1. s[i] \in 0..26 /\ d \in 0..26 /\ i \in {1, 2, 4, 5, 7, 8}
  BY Shapes DEF Digits, Base
<1>2. ASSUME CheckDigit(Substituted(s, i, d)) = CheckDigit(s)
      PROVE  FALSE
  <2>1. PICK k \in Int : Total(Substituted(s, i, d)) - Total(s) = k * 27
    BY <1>1, <1>2, SameRemainder, SubstitutedTotal DEF CheckDigit, Base
  <2>2. i * (d - s[i]) = k * 27
    BY <1>1, <2>1, SubstitutedTotal
  <2>. DEFINE x == d - s[i]
  <2>3. x \in -26..26 /\ x # 0 /\ i * x = k * 27
    BY <1>1, <2>2
  <2>. HIDE DEF x
  <2>4. CASE i = 1 BY <2>3, <2>4
  <2>5. CASE i = 2 BY <2>3, <2>5
  <2>6. CASE i = 4 BY <2>3, <2>6
  <2>7. CASE i = 5 BY <2>3, <2>7
  <2>8. CASE i = 7 BY <2>3, <2>8
  <2>9. CASE i = 8 BY <2>3, <2>9
  <2>. QED BY <1>1, <2>4, <2>5, <2>6, <2>7, <2>8, <2>9
<1>. QED BY <1>2 DEF Valid

(* There it goes unseen exactly when the values differ by 9 or by 18, as   *)
(* those of 2 of the 26 wrong characters do.  test_identifiers.py:9-14     *)
(* tries a third character that is off by one.                             *)
THEOREM SubstitutionsMissed ==
  ASSUME NEW s \in Strings, NEW i \in {3, 6}, i <= LengthOf(s), NEW d \in Digits
  PROVE  Valid(Substituted(s, i, d), CheckDigit(s), TRUE) <=> (d - s[i]) % 9 = 0
<1>1. s[i] \in 0..26 /\ d \in 0..26 /\ i \in 1..LengthOf(s)
  BY Shapes DEF Digits, Base
<1>. DEFINE T == Total(s)
            U == Total(Substituted(s, i, d))
            x == d - s[i]
<1>2. T \in Int /\ U \in Int /\ x \in Int /\ U = T + i * x
  <2>1. T \in Int /\ U \in Int /\ U - T = i * x
    BY <1>1, SubstitutedTotal
  <2>2. x \in Int /\ i \in Int
    BY <1>1
  <2>3. i * x \in Int
    BY <2>2
  <2>. HIDE DEF T, U, x
  <2>. QED BY <2>1, <2>2, <2>3
<1>3. Valid(Substituted(s, i, d), CheckDigit(s), TRUE) <=> T % 27 = U % 27
  BY DEF Valid, CheckDigit, Base
<1>. HIDE DEF T, U, x
<1>4. T % 27 = U % 27 <=> x % 9 = 0
  <2>1. CASE i = 3
    BY <1>2, <2>1
  <2>2. CASE i = 6
    BY <1>2, <2>2
  <2>. QED BY <2>1, <2>2
<1>. QED BY <1>3, <1>4 DEF x

(* The check digit and the character before it may change places unseen in *)
(* the identifier of a period, when their values differ by a multiple of   *)
(* 3, and never in that of an authority.                                   *)
THEOREM LastTransposition ==
  ASSUME NEW s \in Strings, NEW n, n = LengthOf(s), s[n] # CheckDigit(s)
  PROVE  Valid(Substituted(s, n, CheckDigit(s)), s[n], TRUE)
           <=> n = PeriodLength /\ (CheckDigit(s) - s[n]) % 3 = 0
<1>. DEFINE T == Total(s)
            c == CheckDigit(s)
            U == Total(Substituted(s, n, c))
            y == s[n]
<1>1. y \in 0..26 /\ n \in 1..LengthOf(s) /\ n \in {4, 8}
  BY Shapes
<1>2. T \in Int
  BY <1>1, SubstitutedTotal
<1>3. c \in 0..26 /\ c = T % 27
  BY <1>2 DEF CheckDigit, Base
<1>4. U \in Int /\ U = T + n * (c - y)
  BY <1>1, <1>3, SubstitutedTotal
<1>5. Valid(Substituted(s, n, c), y, TRUE) <=> y = U % 27
  BY DEF Valid, CheckDigit, Base
<1>6. PeriodLength = 8 /\ c # y
  BY DEF PeriodLength, AuthorityLength
<1>. HIDE DEF T, c, U, y
<1>7. y = U % 27 <=> n = 8 /\ (c - y) % 3 = 0
  <2>1. CASE n = 4
    BY <1>1, <1>2, <1>3, <1>4, <1>6, <2>1
  <2>2. CASE n = 8
    BY <1>1, <1>2, <1>3, <1>4, <1>6, <2>2
  <2>. QED BY <1>1, <2>1, <2>2
<1>. QED BY <1>5, <1>6, <1>7 DEF c, y
=============================================================================
