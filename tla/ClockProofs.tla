----------------------------- MODULE ClockProofs -----------------------------
(***************************************************************************)
(* For every zone, calendar and rule for summer time: the texts of local   *)
(* times order as the moments do but at the turns that ServerClock names,  *)
(* and no two local times have one text.                                   *)
(***************************************************************************)
EXTENDS ServerClock, SequenceTheorems, FiniteSetTheorems, TLAPS

-----------------------------------------------------------------------------
(* The order of texts.                                                     *)

\* a comes before b by the k-th character, that both have.
Below(a, b) ==
    \E k \in 1 .. Len(a) :
        /\ k \in 1 .. Len(b)
        /\ \A i \in 1 .. k - 1 : a[i] = b[i]
        /\ a[k] < b[k]

\* Texts that differ at a character are in the order of that character.
LEMMA BelowIsBefore ==
    ASSUME NEW a \in Seq(Nat), NEW b \in Seq(Nat), Below(a, b)
    PROVE  Before(a, b)
<1>1. PICK k \in 1 .. Len(a) : /\ k \in 1 .. Len(b)
                               /\ \A i \in 1 .. k - 1 : a[i] = b[i]
                               /\ a[k] < b[k]
  BY DEF Below
<1>2. Len(a) \in Nat /\ Len(b) \in Nat
  BY LenProperties
<1>3. PICK n \in 0 .. Len(a) : n = k - 1
  BY <1>1, <1>2
<1>4. n < Len(b) /\ n + 1 = k
  BY <1>1, <1>2, <1>3
<1>5. a[n + 1] < b[n + 1]
  BY <1>1, <1>4
<1>6. \A i \in 1 .. n : a[i] = b[i]
  BY <1>1, <1>3
<1>7. QED
  BY <1>4, <1>5, <1>6 DEF Before

\* ... and are not the same.
LEMMA BelowIsOther ==
    ASSUME NEW a \in Seq(Nat), Below(a, a)
    PROVE  FALSE
<1>1. PICK k \in 1 .. Len(a) : a[k] < a[k]
  BY DEF Below
<1>2. a \in [1 .. Len(a) -> Nat]
  BY LenProperties
<1>3. a[k] \in Nat
  BY <1>2
<1>4. QED
  BY <1>1, <1>3

\* The characters of a text and what is written behind it.
LEMMA Joined ==
    ASSUME NEW a \in Seq(Nat), NEW b \in Seq(Nat)
    PROVE  /\ a \o b \in Seq(Nat)
           /\ Len(a) \in Nat /\ Len(b) \in Nat /\ Len(a \o b) = Len(a) + Len(b)
           /\ \A i \in 1 .. Len(a) : (a \o b)[i] = a[i]
           /\ \A i \in 1 .. Len(b) : (a \o b)[Len(a) + i] = b[i]
<1>1. a \o b \in Seq(Nat)
  BY ConcatProperties
<1>2. Len(a) \in Nat /\ Len(b) \in Nat
  BY LenProperties
<1>3. Len(a \o b) = Len(a) + Len(b)
  BY ConcatProperties
<1>4. \A i \in 1 .. Len(a) + Len(b) : (a \o b)[i] = IF i <= Len(a) THEN a[i] ELSE b[i - Len(a)]
  BY ConcatProperties
<1>5. \A i \in 1 .. Len(a) : (a \o b)[i] = a[i]
  BY <1>2, <1>4
<1>6. ASSUME NEW i \in 1 .. Len(b) PROVE (a \o b)[Len(a) + i] = b[i]
  <2>1. /\ Len(a) + i \in 1 .. Len(a) + Len(b)
        /\ ~(Len(a) + i <= Len(a))
        /\ (Len(a) + i) - Len(a) = i
    BY <1>2
  <2>2. QED
    BY <1>4, <2>1
<1>7. QED
  BY <1>1, <1>2, <1>3, <1>5, <1>6

\* What comes first decides, whatever follows it.
LEMMA BelowBefore ==
    ASSUME NEW a \in Seq(Nat), NEW b \in Seq(Nat), Below(a, b),
           NEW s \in Seq(Nat), NEW t \in Seq(Nat)
    PROVE  /\ Below(a \o s, b \o t)
           /\ Below(a \o s, b)
           /\ Below(a, b \o t)
<1>1. PICK k \in 1 .. Len(a) : /\ k \in 1 .. Len(b)
                               /\ \A i \in 1 .. k - 1 : a[i] = b[i]
                               /\ a[k] < b[k]
  BY DEF Below
<1>2. /\ Len(a) \in Nat /\ Len(s) \in Nat /\ Len(a \o s) = Len(a) + Len(s)
      /\ \A i \in 1 .. Len(a) : (a \o s)[i] = a[i]
  BY Joined
<1>3. /\ Len(b) \in Nat /\ Len(t) \in Nat /\ Len(b \o t) = Len(b) + Len(t)
      /\ \A i \in 1 .. Len(b) : (b \o t)[i] = b[i]
  BY Joined
<1>4. k \in 1 .. Len(a \o s) /\ (a \o s)[k] = a[k]
  BY <1>1, <1>2
<1>5. k \in 1 .. Len(b \o t) /\ (b \o t)[k] = b[k]
  BY <1>1, <1>3
<1>6. \A i \in 1 .. k - 1 : (a \o s)[i] = a[i]
  BY <1>1, <1>2
<1>7. \A i \in 1 .. k - 1 : (b \o t)[i] = b[i]
  BY <1>1, <1>3
<1>8. Below(a \o s, b \o t)
  BY <1>1, <1>4, <1>5, <1>6, <1>7 DEF Below
<1>9. Below(a \o s, b)
  BY <1>1, <1>4, <1>6 DEF Below
<1>10. Below(a, b \o t)
  BY <1>1, <1>5, <1>7 DEF Below
<1>11. QED
  BY <1>8, <1>9, <1>10

\* After a common beginning the rest decides.
LEMMA BelowAfter ==
    ASSUME NEW p \in Seq(Nat), NEW a \in Seq(Nat), NEW b \in Seq(Nat), Below(a, b)
    PROVE  Below(p \o a, p \o b)
<1>1. PICK k \in 1 .. Len(a) : /\ k \in 1 .. Len(b)
                               /\ \A i \in 1 .. k - 1 : a[i] = b[i]
                               /\ a[k] < b[k]
  BY DEF Below
<1>2. /\ Len(p) \in Nat /\ Len(a) \in Nat /\ Len(p \o a) = Len(p) + Len(a)
      /\ \A i \in 1 .. Len(p) : (p \o a)[i] = p[i]
      /\ \A i \in 1 .. Len(a) : (p \o a)[Len(p) + i] = a[i]
  BY Joined
<1>3. /\ Len(b) \in Nat /\ Len(p \o b) = Len(p) + Len(b)
      /\ \A i \in 1 .. Len(p) : (p \o b)[i] = p[i]
      /\ \A i \in 1 .. Len(b) : (p \o b)[Len(p) + i] = b[i]
  BY Joined
<1>4. PICK m \in Nat : m = Len(p) + k
  BY <1>2
<1>5. m \in 1 .. Len(p \o a) /\ m \in 1 .. Len(p \o b)
  BY <1>1, <1>2, <1>3, <1>4
<1>6. ASSUME NEW i \in 1 .. m - 1 PROVE (p \o a)[i] = (p \o b)[i]
  <2>1. CASE i \in 1 .. Len(p)
    BY <1>2, <1>3, <2>1
  <2>2. CASE i \notin 1 .. Len(p)
    <3>1. PICK j \in 1 .. k - 1 : j = i - Len(p)
      <4>1. ~(i <= Len(p))
        BY <1>2, <2>2
      <4>2. i - Len(p) \in 1 .. k - 1
        BY <1>2, <1>4, <4>1
      <4>3. QED
        BY <4>2
    <3>2. i = Len(p) + j
      BY <1>2, <3>1
    <3>3. j \in 1 .. Len(a) /\ j \in 1 .. Len(b)
      BY <1>1, <1>2, <1>3
    <3>4. (p \o a)[i] = a[j]
      BY <1>2, <3>2, <3>3
    <3>5. (p \o b)[i] = b[j]
      BY <1>3, <3>2, <3>3
    <3>6. QED
      BY <1>1, <3>4, <3>5
  <2>3. QED
    BY <2>1, <2>2
<1>7. (p \o a)[m] = a[k]
  BY <1>2, <1>4
<1>8. (p \o b)[m] = b[k]
  BY <1>1, <1>3, <1>4
<1>9. (p \o a)[m] < (p \o b)[m]
  BY <1>1, <1>7, <1>8
<1>10. QED
  BY <1>5, <1>6, <1>9 DEF Below

-----------------------------------------------------------------------------
(* The texts of numbers.                                                   *)

\* A digit is one of the characters 0 to 9.
LEMMA DigitTypes ==
    ASSUME NEW n \in Nat, NEW k \in {1, 10, 100, 1000}
    PROVE  Digit(n, k) \in 48 .. 57
BY DEF Digit

\* The numbers that are written with four digits, and those digits.
Years == 1000 .. 9999

LEMMA YearsAreNumbers ==
    ASSUME NEW n \in Years
    PROVE  n \in Int
BY DEF Years

Thousands(n) == Digit(n, 1000)
Hundreds(n) == Digit(n, 100)
Tens(n) == Digit(n, 10)
Ones(n) == Digit(n, 1)

Value(w, x, y, z) == 1000 * (w - 48) + 100 * (x - 48) + 10 * (y - 48) + (z - 48)

\* std::to_string has as many digits as the number needs.
LEMMA OneDigit ==
    ASSUME NEW n \in 0 .. 9
    PROVE  /\ Digits(n) = <<48 + n>> /\ Digits(n) \in Seq(Nat)
           /\ Len(Digits(n)) = 1 /\ Digits(n)[1] = 48 + n
<1>1. Digits(n) = <<48 + n>>
  BY DEF Digits, Digit
<1>2. QED
  BY <1>1

LEMMA TwoDigits ==
    ASSUME NEW n \in 10 .. 99
    PROVE  /\ Digits(n) \in Seq(Nat) /\ Len(Digits(n)) = 2
           /\ Digits(n)[1] = Digit(n, 10) /\ Digits(n)[2] = Digit(n, 1)
<1>1. Digits(n) = <<Digit(n, 10), Digit(n, 1)>>
  BY DEF Digits
<1>2. \A k \in {1, 10, 100, 1000} : Digit(n, k) \in Nat
  BY DigitTypes
<1>3. QED
  BY <1>1, <1>2

LEMMA FourDigits ==
    ASSUME NEW n \in Years
    PROVE  /\ Digits(n) = <<Thousands(n), Hundreds(n), Tens(n), Ones(n)>>
           /\ Thousands(n) \in 48 .. 57 /\ Hundreds(n) \in 48 .. 57
           /\ Tens(n) \in 48 .. 57 /\ Ones(n) \in 48 .. 57
<1>1. n \in Nat /\ ~(n < 10) /\ ~(n < 100) /\ ~(n < 1000)
  BY DEF Years
<1>2. Digits(n) = <<Thousands(n), Hundreds(n), Tens(n), Ones(n)>>
  BY <1>1 DEF Digits, Thousands, Hundreds, Tens, Ones
<1>3. \A k \in {1, 10, 100, 1000} : Digit(n, k) \in 48 .. 57
  BY <1>1, DigitTypes
<1>4. QED
  BY <1>2, <1>3 DEF Thousands, Hundreds, Tens, Ones

LEMMA PaddedDigits ==
    ASSUME NEW n \in 0 .. 99
    PROVE  /\ Padded(n) \in Seq(Nat) /\ Len(Padded(n)) = 2
           /\ Padded(n)[1] = Digit(n, 10) /\ Padded(n)[2] = Digit(n, 1)
<1>1. CASE n \in 0 .. 9
  <2>1. PICK zero \in Seq(Nat) : zero = <<48>>
    <3>1. <<48>> \in Seq(Nat)
      OBVIOUS
    <3>2. QED
      BY <3>1
  <2>2. Len(zero) = 1 /\ zero[1] = 48
    BY <2>1
  <2>3. PICK text \in Seq(Nat) : text = Digits(n) /\ Len(text) = 1 /\ text[1] = 48 + n
    BY <1>1, OneDigit
  <2>4. Padded(n) = zero \o text
    BY <1>1, <2>1, <2>3 DEF Padded
  <2>5. /\ zero \o text \in Seq(Nat)
        /\ Len(zero \o text) = Len(zero) + Len(text)
        /\ \A i \in 1 .. Len(zero) : (zero \o text)[i] = zero[i]
        /\ \A i \in 1 .. Len(text) : (zero \o text)[Len(zero) + i] = text[i]
    BY Joined
  <2>6. (zero \o text)[1] = 48
    BY <2>2, <2>5
  <2>7. (zero \o text)[1 + 1] = text[1]
    BY <2>2, <2>3, <2>5
  <2>8. Digit(n, 10) = 48 /\ Digit(n, 1) = 48 + n
    BY <1>1 DEF Digit
  <2>9. QED
    BY <2>2, <2>3, <2>4, <2>5, <2>6, <2>7, <2>8
<1>2. CASE n \in 10 .. 99
  <2>1. Padded(n) = Digits(n)
    BY <1>2 DEF Padded
  <2>2. QED
    BY <1>2, <2>1, TwoDigits
<1>3. QED
  BY <1>1, <1>2

\* A number is what its digits say.
LEMMA PairValue ==
    ASSUME NEW n \in 0 .. 99
    PROVE  \E x \in 48 .. 57, y \in 48 .. 57 :
              Digit(n, 10) = x /\ Digit(n, 1) = y /\ n = 10 * (x - 48) + (y - 48)
<1>1. n = 10 * (Digit(n, 10) - 48) + (Digit(n, 1) - 48)
  BY DEF Digit
<1>2. n \in Nat
  OBVIOUS
<1>3. Digit(n, 10) \in 48 .. 57
  BY <1>2, DigitTypes
<1>4. Digit(n, 1) \in 48 .. 57
  BY <1>2, DigitTypes
<1>5. QED
  BY <1>1, <1>3, <1>4

\* The four digits of a year are its value.
LEMMA YearValue ==
    ASSUME NEW n \in Years
    PROVE  n = Value(Thousands(n), Hundreds(n), Tens(n), Ones(n))
<1>1. n \in 1000 .. 9999
  BY DEF Years
<1>2. (n \div 1) % 10 = n - 10 * (n \div 10)
  BY <1>1
<1>3. (n \div 10) % 10 = n \div 10 - 10 * (n \div 100)
  BY <1>1
<1>4. (n \div 100) % 10 = n \div 100 - 10 * (n \div 1000)
  BY <1>1
<1>5. (n \div 1000) % 10 = n \div 1000
  <2>1. n \div 1000 \in 0 .. 9
    BY DEF Years
  <2>2. \A k \in 0 .. 9 : k % 10 = k
    OBVIOUS
  <2>3. QED
    BY <2>1, <2>2
<1>6. QED
  BY <1>1, <1>2, <1>3, <1>4, <1>5 DEF Digit, Value, Thousands, Hundreds, Tens, Ones

\* Of two numbers written with the same number of digits the smaller comes first.
LEMMA OneDigitOrder ==
    ASSUME NEW m \in 0 .. 9, NEW n \in 0 .. 9, m < n
    PROVE  Below(Digits(m), Digits(n))
<1>1. Len(Digits(m)) = 1 /\ Digits(m)[1] = 48 + m
  BY OneDigit
<1>2. Len(Digits(n)) = 1 /\ Digits(n)[1] = 48 + n
  BY OneDigit
<1>3. 1 \in 1 .. 1 /\ \A i \in 1 .. 1 - 1 : FALSE
  OBVIOUS
<1>4. Digits(m)[1] < Digits(n)[1]
  BY <1>1, <1>2
<1>5. QED
  BY <1>1, <1>2, <1>3, <1>4 DEF Below

LEMMA PairOrder ==
    ASSUME NEW m \in 0 .. 99, NEW n \in 0 .. 99, m < n,
           NEW a \in Seq(Nat), Len(a) = 2, a[1] = Digit(m, 10), a[2] = Digit(m, 1),
           NEW b \in Seq(Nat), Len(b) = 2, b[1] = Digit(n, 10), b[2] = Digit(n, 1)
    PROVE  Below(a, b)
<1>1. PICK a1 \in 48 .. 57, a2 \in 48 .. 57 :
         a[1] = a1 /\ a[2] = a2 /\ m = 10 * (a1 - 48) + (a2 - 48)
  BY PairValue
<1>2. PICK b1 \in 48 .. 57, b2 \in 48 .. 57 :
         b[1] = b1 /\ b[2] = b2 /\ n = 10 * (b1 - 48) + (b2 - 48)
  BY PairValue
<1>3. \/ a1 < b1
      \/ a1 = b1 /\ a2 < b2
  BY <1>1, <1>2
<1>4. CASE a1 < b1
  <2>1. 1 \in 1 .. Len(a) /\ 1 \in 1 .. Len(b) /\ \A i \in 1 .. 1 - 1 : FALSE
    OBVIOUS
  <2>2. QED
    BY <1>1, <1>2, <1>4, <2>1 DEF Below
<1>5. CASE a1 = b1 /\ a2 < b2
  <2>1. 2 \in 1 .. Len(a) /\ 2 \in 1 .. Len(b) /\ \A i \in 1 .. 2 - 1 : i = 1
    OBVIOUS
  <2>2. a[2] < b[2] /\ \A i \in 1 .. 2 - 1 : a[i] = b[i]
    BY <1>1, <1>2, <1>5, <2>1
  <2>3. QED
    BY <2>1, <2>2 DEF Below
<1>6. QED
  BY <1>3, <1>4, <1>5

LEMMA TwoDigitsOrder ==
    ASSUME NEW m \in 10 .. 99, NEW n \in 10 .. 99, m < n
    PROVE  Below(Digits(m), Digits(n))
<1>1. m \in 0 .. 99 /\ n \in 0 .. 99
  OBVIOUS
<1>2. QED
  BY <1>1, PairOrder, TwoDigits

LEMMA PaddedOrder ==
    ASSUME NEW m \in 0 .. 99, NEW n \in 0 .. 99, m < n
    PROVE  Below(Padded(m), Padded(n))
BY PairOrder, PaddedDigits

\* The first digit of four that differs decides.
LEMMA FourBelow ==
    ASSUME NEW a \in Seq(Nat), Len(a) = 4, NEW b \in Seq(Nat), Len(b) = 4,
           \/ a[1] < b[1]
           \/ a[1] = b[1] /\ a[2] < b[2]
           \/ a[1] = b[1] /\ a[2] = b[2] /\ a[3] < b[3]
           \/ a[1] = b[1] /\ a[2] = b[2] /\ a[3] = b[3] /\ a[4] < b[4]
    PROVE  Below(a, b)
<1>1. Len(a) = 4 /\ Len(b) = 4
  OBVIOUS
<1>2. CASE a[1] < b[1]
  <2>1. 1 \in 1 .. Len(a) /\ 1 \in 1 .. Len(b) /\ \A i \in 1 .. 1 - 1 : FALSE
    BY <1>1
  <2>2. a[1] < b[1] /\ \A i \in 1 .. 1 - 1 : a[i] = b[i]
    BY <1>2, <2>1
  <2>3. QED
    BY <2>1, <2>2 DEF Below
<1>3. CASE a[1] = b[1] /\ a[2] < b[2]
  <2>1. 2 \in 1 .. Len(a) /\ 2 \in 1 .. Len(b) /\ \A i \in 1 .. 2 - 1 : i = 1
    BY <1>1
  <2>2. a[2] < b[2] /\ \A i \in 1 .. 2 - 1 : a[i] = b[i]
    BY <1>3, <2>1
  <2>3. QED
    BY <2>1, <2>2 DEF Below
<1>4. CASE a[1] = b[1] /\ a[2] = b[2] /\ a[3] < b[3]
  <2>1. 3 \in 1 .. Len(a) /\ 3 \in 1 .. Len(b) /\ \A i \in 1 .. 3 - 1 : i = 1 \/ i = 2
    BY <1>1
  <2>2. a[3] < b[3] /\ \A i \in 1 .. 3 - 1 : a[i] = b[i]
    BY <1>4, <2>1
  <2>3. QED
    BY <2>1, <2>2 DEF Below
<1>5. CASE a[1] = b[1] /\ a[2] = b[2] /\ a[3] = b[3] /\ a[4] < b[4]
  <2>1. 4 \in 1 .. Len(a) /\ 4 \in 1 .. Len(b) /\ \A i \in 1 .. 4 - 1 : i = 1 \/ i = 2 \/ i = 3
    BY <1>1
  <2>2. a[4] < b[4] /\ \A i \in 1 .. 4 - 1 : a[i] = b[i]
    BY <1>5, <2>1
  <2>3. QED
    BY <2>1, <2>2 DEF Below
<1>6. QED
  BY <1>2, <1>3, <1>4, <1>5

LEMMA FourOrder ==
    ASSUME NEW a1 \in 48 .. 57, NEW a2 \in 48 .. 57, NEW a3 \in 48 .. 57, NEW a4 \in 48 .. 57,
           NEW b1 \in 48 .. 57, NEW b2 \in 48 .. 57, NEW b3 \in 48 .. 57, NEW b4 \in 48 .. 57,
           Value(a1, a2, a3, a4) < Value(b1, b2, b3, b4)
    PROVE  Below(<<a1, a2, a3, a4>>, <<b1, b2, b3, b4>>)
<1>1. \/ a1 < b1
      \/ a1 = b1 /\ a2 < b2
      \/ a1 = b1 /\ a2 = b2 /\ a3 < b3
      \/ a1 = b1 /\ a2 = b2 /\ a3 = b3 /\ a4 < b4
  BY DEF Value
<1> DEFINE a == <<a1, a2, a3, a4>>
           b == <<b1, b2, b3, b4>>
<1>2. a \in Seq(Nat) /\ Len(a) = 4 /\ a[1] = a1 /\ a[2] = a2 /\ a[3] = a3 /\ a[4] = a4
  OBVIOUS
<1>3. b \in Seq(Nat) /\ Len(b) = 4 /\ b[1] = b1 /\ b[2] = b2 /\ b[3] = b3 /\ b[4] = b4
  OBVIOUS
<1> HIDE DEF a, b
<1>4. \/ a[1] < b[1]
      \/ a[1] = b[1] /\ a[2] < b[2]
      \/ a[1] = b[1] /\ a[2] = b[2] /\ a[3] < b[3]
      \/ a[1] = b[1] /\ a[2] = b[2] /\ a[3] = b[3] /\ a[4] < b[4]
  BY <1>1, <1>2, <1>3
<1>5. Below(a, b)
  BY <1>2, <1>3, <1>4, FourBelow
<1>6. QED
  BY <1>5 DEF a, b

LEMMA YearsOrder ==
    ASSUME NEW m \in Years, NEW n \in Years, m < n
    PROVE  Below(Digits(m), Digits(n))
<1>1. m = Value(Thousands(m), Hundreds(m), Tens(m), Ones(m))
  BY YearValue
<1>2. n = Value(Thousands(n), Hundreds(n), Tens(n), Ones(n))
  BY YearValue
<1>3. /\ Digits(m) = <<Thousands(m), Hundreds(m), Tens(m), Ones(m)>>
      /\ Thousands(m) \in 48 .. 57 /\ Hundreds(m) \in 48 .. 57
      /\ Tens(m) \in 48 .. 57 /\ Ones(m) \in 48 .. 57
  BY FourDigits
<1>4. /\ Digits(n) = <<Thousands(n), Hundreds(n), Tens(n), Ones(n)>>
      /\ Thousands(n) \in 48 .. 57 /\ Hundreds(n) \in 48 .. 57
      /\ Tens(n) \in 48 .. 57 /\ Ones(n) \in 48 .. 57
  BY FourDigits
<1>5. Value(Thousands(m), Hundreds(m), Tens(m), Ones(m))
        < Value(Thousands(n), Hundreds(n), Tens(n), Ones(n))
  BY <1>1, <1>2
<1>6. Below(<<Thousands(m), Hundreds(m), Tens(m), Ones(m)>>,
            <<Thousands(n), Hundreds(n), Tens(n), Ones(n)>>)
  BY <1>3, <1>4, <1>5, FourOrder
<1>7. QED
  BY <1>3, <1>4, <1>6

-----------------------------------------------------------------------------
(* The texts of local times.                                               *)

LocalTimes ==
    [year : Years, month : 1 .. 12, day : 1 .. 31, hour : 0 .. 23, min : 0 .. 59, sec : 0 .. 59]

\* DateText and TimeText are three texts with a separator.
LEMMA PartsTypes ==
    ASSUME NEW d \in Seq(Nat), NEW x \in Seq(Nat), NEW y \in Seq(Nat), NEW z \in Seq(Nat)
    PROVE  /\ x \o d \in Seq(Nat)
           /\ x \o d \o y \in Seq(Nat)
           /\ x \o d \o y \o d \in Seq(Nat)
           /\ x \o d \o y \o d \o z \in Seq(Nat)
<1>1. PICK p \in Seq(Nat) : p = x \o d
  BY ConcatProperties
<1>2. PICK q \in Seq(Nat) : q = p \o y
  BY ConcatProperties
<1>3. PICK r \in Seq(Nat) : r = q \o d
  BY ConcatProperties
<1>4. r \o z \in Seq(Nat)
  BY ConcatProperties
<1>5. QED
  BY <1>1, <1>2, <1>3, <1>4

\* Of three parts with a separator the first that is below decides.
LEMMA PartsOrder ==
    ASSUME NEW d \in Seq(Nat),
           NEW x \in Seq(Nat), NEW y \in Seq(Nat), NEW z \in Seq(Nat),
           NEW u \in Seq(Nat), NEW v \in Seq(Nat), NEW w \in Seq(Nat),
           \/ Below(x, u)
           \/ x = u /\ Below(y, v)
           \/ x = u /\ y = v /\ Below(z, w)
    PROVE  Below(x \o d \o y \o d \o z, u \o d \o v \o d \o w)
<1>1. PICK p1 \in Seq(Nat), q1 \in Seq(Nat), r1 \in Seq(Nat) :
         p1 = x \o d /\ q1 = p1 \o y /\ r1 = q1 \o d
  BY PartsTypes
<1>2. PICK p2 \in Seq(Nat), q2 \in Seq(Nat), r2 \in Seq(Nat) :
         p2 = u \o d /\ q2 = p2 \o v /\ r2 = q2 \o d
  BY PartsTypes
<1>3. SUFFICES Below(r1 \o z, r2 \o w)
  BY <1>1, <1>2
<1>4. CASE Below(x, u)
  <2>1. Below(p1, p2)
    BY <1>1, <1>2, <1>4, BelowBefore
  <2>2. Below(q1, q2)
    BY <1>1, <1>2, <2>1, BelowBefore
  <2>3. Below(r1, r2)
    BY <1>1, <1>2, <2>2, BelowBefore
  <2>4. QED
    BY <2>3, BelowBefore
<1>5. CASE x = u /\ Below(y, v)
  <2>1. p1 = p2
    BY <1>1, <1>2, <1>5
  <2>2. Below(q1, q2)
    BY <1>1, <1>2, <1>5, <2>1, BelowAfter
  <2>3. Below(r1, r2)
    BY <1>1, <1>2, <2>2, BelowBefore
  <2>4. QED
    BY <2>3, BelowBefore
<1>6. CASE x = u /\ y = v /\ Below(z, w)
  <2>1. r1 = r2
    BY <1>1, <1>2, <1>6
  <2>2. QED
    BY <1>6, <2>1, BelowAfter
<1>7. QED
  BY <1>4, <1>5, <1>6

\* Each field of a local time is written as a text.
LEMMA FieldTexts ==
    ASSUME NEW t \in LocalTimes
    PROVE  /\ Digits(t.year) \in Seq(Nat)
           /\ Digits(t.month) \in Seq(Nat)
           /\ Digits(t.day) \in Seq(Nat)
           /\ Padded(t.hour) \in Seq(Nat)
           /\ Padded(t.min) \in Seq(Nat)
           /\ Padded(t.sec) \in Seq(Nat)
<1>1. /\ t.year \in Years
      /\ t.month \in 0 .. 99 /\ t.day \in 0 .. 99
      /\ t.hour \in 0 .. 99 /\ t.min \in 0 .. 99 /\ t.sec \in 0 .. 99
  BY DEF LocalTimes
<1>2. Digits(t.year) \in Seq(Nat)
  <2>1. /\ Digits(t.year) = <<Thousands(t.year), Hundreds(t.year), Tens(t.year), Ones(t.year)>>
        /\ Thousands(t.year) \in 48 .. 57 /\ Hundreds(t.year) \in 48 .. 57
        /\ Tens(t.year) \in 48 .. 57 /\ Ones(t.year) \in 48 .. 57
    BY <1>1, FourDigits
  <2>2. ASSUME NEW w \in 48 .. 57, NEW x \in 48 .. 57, NEW y \in 48 .. 57, NEW z \in 48 .. 57
        PROVE  <<w, x, y, z>> \in Seq(Nat)
    OBVIOUS
  <2>3. QED
    BY <2>1, <2>2
<1>3. ASSUME NEW n \in 0 .. 99 PROVE Digits(n) \in Seq(Nat)
  <2>1. CASE n \in 0 .. 9
    BY <2>1, OneDigit
  <2>2. CASE n \in 10 .. 99
    BY <2>2, TwoDigits
  <2>3. QED
    BY <2>1, <2>2
<1>4. \A n \in 0 .. 99 : Padded(n) \in Seq(Nat)
  BY PaddedDigits
<1>5. QED
  BY <1>1, <1>2, <1>3, <1>4

\* - and space come before the digits.
LEMMA Separators ==
    /\ <<Dash>> \in Seq(Nat) /\ Len(<<Dash>>) = 1 /\ <<Dash>>[1] = 45
    /\ <<Space>> \in Seq(Nat) /\ Len(<<Space>>) = 1 /\ <<Space>>[1] = 32
    /\ <<Colon>> \in Seq(Nat)
BY DEF Dash, Space, Colon

\* What getTimestamp returns is a text.
LEMMA TimestampTypes ==
    ASSUME NEW t \in LocalTimes
    PROVE  /\ DateText(t) \in Seq(Nat)
           /\ TimeText(t) \in Seq(Nat)
           /\ DateText(t) \o <<Space>> \in Seq(Nat)
           /\ Timestamp(t) \in Seq(Nat)
<1>1. DateText(t) \in Seq(Nat)
  BY FieldTexts, Separators, PartsTypes DEF DateText
<1>2. TimeText(t) \in Seq(Nat)
  BY FieldTexts, Separators, PartsTypes DEF TimeText
<1>3. DateText(t) \o <<Space>> \in Seq(Nat)
  BY <1>1, Separators, ConcatProperties
<1>4. Timestamp(t) \in Seq(Nat)
  BY <1>2, <1>3, ConcatProperties DEF Timestamp
<1>5. QED
  BY <1>1, <1>2, <1>3, <1>4

\* The order of the dates, or of the times of one date, is that of the whole texts.
LEMMA TimestampOrder ==
    ASSUME NEW s \in LocalTimes, NEW t \in LocalTimes,
           \/ Below(DateText(s), DateText(t))
           \/ DateText(s) = DateText(t) /\ Below(TimeText(s), TimeText(t))
    PROVE  Below(Timestamp(s), Timestamp(t))
<1>1. PICK a \in Seq(Nat), b \in Seq(Nat), p \in Seq(Nat) :
         a = DateText(s) /\ b = TimeText(s) /\ p = a \o <<Space>> /\ Timestamp(s) = p \o b
  BY TimestampTypes DEF Timestamp
<1>2. PICK c \in Seq(Nat), d \in Seq(Nat), q \in Seq(Nat) :
         c = DateText(t) /\ d = TimeText(t) /\ q = c \o <<Space>> /\ Timestamp(t) = q \o d
  BY TimestampTypes DEF Timestamp
<1>3. CASE Below(a, c)
  <2>1. Below(p, q)
    BY <1>1, <1>2, <1>3, Separators, BelowBefore
  <2>2. Below(p \o b, q \o d)
    BY <2>1, BelowBefore
  <2>3. QED
    BY <1>1, <1>2, <2>2
<1>4. CASE a = c /\ Below(b, d)
  <2>1. p = q
    BY <1>1, <1>2, <1>4
  <2>2. Below(p \o b, p \o d)
    BY <1>4, BelowAfter
  <2>3. QED
    BY <1>1, <1>2, <2>1, <2>2
<1>5. QED
  BY <1>1, <1>2, <1>3, <1>4

\* Earlier, field by field.
LEMMA EarlierField ==
    ASSUME NEW u, NEW v
    PROVE  Earlier(u, v) <=>
              \/ u.year < v.year
              \/ u.year = v.year /\ u.month < v.month
              \/ u.year = v.year /\ u.month = v.month /\ u.day < v.day
              \/ u.year = v.year /\ u.month = v.month /\ u.day = v.day /\ u.hour < v.hour
              \/ /\ u.year = v.year /\ u.month = v.month /\ u.day = v.day /\ u.hour = v.hour
                 /\ u.min < v.min
              \/ /\ u.year = v.year /\ u.month = v.month /\ u.day = v.day /\ u.hour = v.hour
                 /\ u.min = v.min /\ u.sec < v.sec
<1> DEFINE Agree(n) == \A i \in 1 .. n - 1 : Fields(u)[i] = Fields(v)[i]
<1>1. /\ Fields(u)[1] = u.year /\ Fields(u)[2] = u.month /\ Fields(u)[3] = u.day
      /\ Fields(u)[4] = u.hour /\ Fields(u)[5] = u.min /\ Fields(u)[6] = u.sec
  BY DEF Fields
<1>2. /\ Fields(v)[1] = v.year /\ Fields(v)[2] = v.month /\ Fields(v)[3] = v.day
      /\ Fields(v)[4] = v.hour /\ Fields(v)[5] = v.min /\ Fields(v)[6] = v.sec
  BY DEF Fields
<1>3. Agree(1)
  OBVIOUS
<1>4. Agree(2) <=> u.year = v.year
  <2>1. \A i \in 1 .. 2 - 1 : i = 1
    OBVIOUS
  <2>2. 1 \in 1 .. 2 - 1
    OBVIOUS
  <2>3. QED
    BY <1>1, <1>2, <2>1, <2>2
<1>5. Agree(3) <=> Agree(2) /\ u.month = v.month
  <2>1. 1 .. 3 - 1 = (1 .. 2 - 1) \cup {2}
    OBVIOUS
  <2>2. QED
    BY <1>1, <1>2, <2>1
<1>6. Agree(4) <=> Agree(3) /\ u.day = v.day
  <2>1. 1 .. 4 - 1 = (1 .. 3 - 1) \cup {3}
    OBVIOUS
  <2>2. QED
    BY <1>1, <1>2, <2>1
<1>7. Agree(5) <=> Agree(4) /\ u.hour = v.hour
  <2>1. 1 .. 5 - 1 = (1 .. 4 - 1) \cup {4}
    OBVIOUS
  <2>2. QED
    BY <1>1, <1>2, <2>1
<1>8. Agree(6) <=> Agree(5) /\ u.min = v.min
  <2>1. 1 .. 6 - 1 = (1 .. 5 - 1) \cup {5}
    OBVIOUS
  <2>2. QED
    BY <1>1, <1>2, <2>1
<1> DEFINE Less(n) == Fields(u)[n] < Fields(v)[n]
<1>9. Earlier(u, v) <=> \E n \in 1 .. 6 : Agree(n) /\ Less(n)
  BY DEF Earlier
<1>10. /\ Less(1) <=> u.year < v.year
       /\ Less(2) <=> u.month < v.month
       /\ Less(3) <=> u.day < v.day
       /\ Less(4) <=> u.hour < v.hour
       /\ Less(5) <=> u.min < v.min
       /\ Less(6) <=> u.sec < v.sec
  BY <1>1, <1>2
<1>11. 1 .. 6 = {1, 2, 3, 4, 5, 6}
  OBVIOUS
<1> HIDE DEF Agree, Less
<1>12. Earlier(u, v) <=> \/ Agree(1) /\ Less(1)
                         \/ Agree(2) /\ Less(2)
                         \/ Agree(3) /\ Less(3)
                         \/ Agree(4) /\ Less(4)
                         \/ Agree(5) /\ Less(5)
                         \/ Agree(6) /\ Less(6)
  BY <1>9, <1>11
<1>13. QED
  BY <1>3, <1>4, <1>5, <1>6, <1>7, <1>8, <1>10, <1>12

\* One of two texts comes before the other by a character that both have.
Apart(a, b) == Below(a, b) \/ Below(b, a)

\* The first field of the date that is below decides.
LEMMA DateOrder ==
    ASSUME NEW s \in LocalTimes, NEW t \in LocalTimes,
           \/ Below(Digits(s.year), Digits(t.year))
           \/ s.year = t.year /\ Below(Digits(s.month), Digits(t.month))
           \/ s.year = t.year /\ s.month = t.month /\ Below(Digits(s.day), Digits(t.day))
    PROVE  Below(Timestamp(s), Timestamp(t))
<1>1. PICK x \in Seq(Nat), y \in Seq(Nat), z \in Seq(Nat) :
         x = Digits(s.year) /\ y = Digits(s.month) /\ z = Digits(s.day)
  BY FieldTexts
<1>2. PICK u \in Seq(Nat), v \in Seq(Nat), w \in Seq(Nat) :
         u = Digits(t.year) /\ v = Digits(t.month) /\ w = Digits(t.day)
  BY FieldTexts
<1>3. PICK d \in Seq(Nat) : d = <<Dash>>
  BY Separators
<1>4. \/ Below(x, u)
      \/ x = u /\ Below(y, v)
      \/ x = u /\ y = v /\ Below(z, w)
  BY <1>1, <1>2
<1>5. Below(x \o d \o y \o d \o z, u \o d \o v \o d \o w)
  BY <1>4, PartsOrder
<1>6. Below(DateText(s), DateText(t))
  BY <1>1, <1>2, <1>3, <1>5 DEF DateText
<1>7. QED
  BY <1>6, TimestampOrder

\* The first field of the time that is below decides.
LEMMA TimeOrder ==
    ASSUME NEW s \in LocalTimes, NEW t \in LocalTimes,
           s.year = t.year, s.month = t.month, s.day = t.day,
           \/ Below(Padded(s.hour), Padded(t.hour))
           \/ s.hour = t.hour /\ Below(Padded(s.min), Padded(t.min))
           \/ s.hour = t.hour /\ s.min = t.min /\ Below(Padded(s.sec), Padded(t.sec))
    PROVE  Below(Timestamp(s), Timestamp(t))
<1>1. PICK x \in Seq(Nat), y \in Seq(Nat), z \in Seq(Nat) :
         x = Padded(s.hour) /\ y = Padded(s.min) /\ z = Padded(s.sec)
  BY FieldTexts
<1>2. PICK u \in Seq(Nat), v \in Seq(Nat), w \in Seq(Nat) :
         u = Padded(t.hour) /\ v = Padded(t.min) /\ w = Padded(t.sec)
  BY FieldTexts
<1>3. PICK d \in Seq(Nat) : d = <<Colon>>
  BY Separators
<1>4. \/ Below(x, u)
      \/ x = u /\ Below(y, v)
      \/ x = u /\ y = v /\ Below(z, w)
  BY <1>1, <1>2
<1>5. Below(x \o d \o y \o d \o z, u \o d \o v \o d \o w)
  BY <1>4, PartsOrder
<1>6. Below(TimeText(s), TimeText(t))
  BY <1>1, <1>2, <1>3, <1>5 DEF TimeText
<1>7. DateText(s) = DateText(t)
  BY DEF DateText
<1>8. QED
  BY <1>6, <1>7, TimestampOrder

\* The texts order as the times do, but where a month or a day gets its second digit.
LEMMA EarlierIsBelow ==
    ASSUME NEW s \in LocalTimes, NEW t \in LocalTimes, Earlier(s, t),
           ~(s.year = t.year /\ s.month < 10 /\ t.month >= 10),
           ~(s.year = t.year /\ s.month = t.month /\ s.day < 10 /\ t.day >= 10)
    PROVE  Below(Timestamp(s), Timestamp(t))
<1>1. /\ s.year \in Years /\ s.month \in 1 .. 12 /\ s.day \in 1 .. 31
      /\ s.hour \in 0 .. 99 /\ s.min \in 0 .. 99 /\ s.sec \in 0 .. 99
  BY DEF LocalTimes
<1>2. /\ t.year \in Years /\ t.month \in 1 .. 12 /\ t.day \in 1 .. 31
      /\ t.hour \in 0 .. 99 /\ t.min \in 0 .. 99 /\ t.sec \in 0 .. 99
  BY DEF LocalTimes
<1>3. ASSUME NEW m \in 0 .. 99, NEW n \in 0 .. 99, m < n, ~(m < 10 /\ n >= 10)
      PROVE  Below(Digits(m), Digits(n))
  <2>1. CASE n < 10
    <3>1. m \in 0 .. 9 /\ n \in 0 .. 9
      BY <1>3, <2>1
    <3>2. QED
      BY <1>3, <3>1, OneDigitOrder
  <2>2. CASE n >= 10
    <3>1. m \in 10 .. 99 /\ n \in 10 .. 99
      BY <1>3, <2>2
    <3>2. QED
      BY <1>3, <3>1, TwoDigitsOrder
  <2>3. QED
    BY <2>1, <2>2
<1>4. CASE s.year < t.year
  BY <1>1, <1>2, <1>4, YearsOrder, DateOrder
<1>5. CASE s.year = t.year /\ s.month < t.month
  <2>1. s.month \in 0 .. 99 /\ t.month \in 0 .. 99
    BY <1>1, <1>2
  <2>2. Below(Digits(s.month), Digits(t.month))
    BY <1>3, <1>5, <2>1
  <2>3. QED
    BY <1>5, <2>2, DateOrder
<1>6. CASE s.year = t.year /\ s.month = t.month /\ s.day < t.day
  <2>1. s.day \in 0 .. 99 /\ t.day \in 0 .. 99
    BY <1>1, <1>2
  <2>2. Below(Digits(s.day), Digits(t.day))
    BY <1>3, <1>6, <2>1
  <2>3. QED
    BY <1>6, <2>2, DateOrder
<1>7. CASE s.year = t.year /\ s.month = t.month /\ s.day = t.day /\ s.hour < t.hour
  <2>1. Below(Padded(s.hour), Padded(t.hour))
    BY <1>1, <1>2, <1>7, PaddedOrder
  <2>2. QED
    BY <1>7, <2>1, TimeOrder
<1>8. CASE /\ s.year = t.year /\ s.month = t.month /\ s.day = t.day /\ s.hour = t.hour
           /\ s.min < t.min
  <2>1. Below(Padded(s.min), Padded(t.min))
    BY <1>1, <1>2, <1>8, PaddedOrder
  <2>2. QED
    BY <1>8, <2>1, TimeOrder
<1>9. CASE /\ s.year = t.year /\ s.month = t.month /\ s.day = t.day /\ s.hour = t.hour
           /\ s.min = t.min /\ s.sec < t.sec
  <2>1. Below(Padded(s.sec), Padded(t.sec))
    BY <1>1, <1>2, <1>9, PaddedOrder
  <2>2. QED
    BY <1>9, <2>1, TimeOrder
<1>10. QED
  BY <1>4, <1>5, <1>6, <1>7, <1>8, <1>9, EarlierField

\* What follows a number of one digit is not a digit, so that a longer number differs.
LEMMA WidthApart ==
    ASSUME NEW m \in 0 .. 9, NEW n \in 10 .. 99, NEW d \in Seq(Nat),
           Len(d) = 1, d[1] \in 0 .. 47
    PROVE  Apart(Digits(m) \o d, Digits(n))
<1>1. PICK a \in Seq(Nat) : a = Digits(m) /\ Len(a) = 1 /\ a[1] = 48 + m
  BY OneDigit
<1>2. PICK b \in Seq(Nat) : b = Digits(n) /\ Len(b) = 2 /\ b[1] \in 48 .. 57 /\ b[2] \in 48 .. 57
  <2>1. n \in Nat /\ 10 \in {1, 10, 100, 1000} /\ 1 \in {1, 10, 100, 1000}
    OBVIOUS
  <2>2. Digit(n, 10) \in 48 .. 57
    BY <2>1, DigitTypes
  <2>3. Digit(n, 1) \in 48 .. 57
    BY <2>1, DigitTypes
  <2>4. QED
    BY <2>2, <2>3, TwoDigits
<1>3. SUFFICES Apart(a \o d, b)
  BY <1>1, <1>2
<1>4. PICK c \in Seq(Nat) : c = a \o d
  BY ConcatProperties
<1>5. Len(c) = 2 /\ c[1] = 48 + m /\ c[2] \in 0 .. 47
  <2>1. /\ Len(a \o d) = Len(a) + Len(d)
        /\ \A i \in 1 .. Len(a) : (a \o d)[i] = a[i]
        /\ \A i \in 1 .. Len(d) : (a \o d)[Len(a) + i] = d[i]
    BY Joined
  <2>2. Len(c) = 2
    BY <1>1, <1>4, <2>1
  <2>3. c[1] = a[1]
    BY <1>1, <1>4, <2>1
  <2>4. c[1 + 1] = d[1]
    BY <1>1, <1>4, <2>1
  <2>5. QED
    BY <1>1, <2>2, <2>3, <2>4
<1> SUFFICES Apart(c, b)
  BY <1>4
<1>6. 1 \in 1 .. Len(c) /\ 1 \in 1 .. Len(b) /\ \A i \in 1 .. 1 - 1 : FALSE
  BY <1>2, <1>5
<1>7. CASE c[1] < b[1]
  BY <1>7, <1>6 DEF Below, Apart
<1>8. CASE b[1] < c[1]
  BY <1>8, <1>6 DEF Below, Apart
<1>9. CASE c[1] = b[1]
  <2>1. 2 \in 1 .. Len(c) /\ 2 \in 1 .. Len(b) /\ \A i \in 1 .. 2 - 1 : i = 1
    BY <1>2, <1>5
  <2>2. c[2] < b[2]
    <3>1. c[2] \in 0 .. 47
      BY <1>5
    <3>2. b[2] \in 48 .. 57
      BY <1>2
    <3>3. \A x \in 0 .. 47, y \in 48 .. 57 : x < y
      OBVIOUS
    <3>4. QED
      BY <3>1, <3>2, <3>3
  <2>3. \A i \in 1 .. 2 - 1 : c[i] = b[i]
    BY <1>9, <2>1
  <2>4. QED
    BY <2>1, <2>2, <2>3 DEF Below, Apart
<1>10. c[1] < b[1] \/ b[1] < c[1] \/ c[1] = b[1]
  BY <1>2, <1>5
<1>11. QED
  BY <1>7, <1>8, <1>9, <1>10

Cat(a, b) == a \o b

LEMMA Regrouped ==
    ASSUME NEW p \in Seq(Nat), NEW m \in Seq(Nat), NEW d \in Seq(Nat)
    PROVE  Cat(Cat(p, m), d) = Cat(p, Cat(m, d))
BY DEF Cat

\* Two texts that are apart before their ends make the whole texts apart.
LEMMA ApartInside ==
    ASSUME NEW p \in Seq(Nat), NEW m \in Seq(Nat), NEW n \in Seq(Nat), NEW d \in Seq(Nat),
           NEW e \in Seq(Nat), e = m \o d, Apart(e, n),
           NEW a \in Seq(Nat), NEW b \in Seq(Nat)
    PROVE  Apart(p \o m \o d \o a, p \o n \o d \o b)
<1>1. PICK x \in Seq(Nat) : x = p \o e
  BY ConcatProperties
<1>2. PICK q \in Seq(Nat) : q = p \o m
  BY ConcatProperties
<1>3. q \o d = x
  <2>1. Cat(Cat(p, m), d) = Cat(p, Cat(m, d))
    BY Regrouped
  <2>2. e = Cat(m, d) /\ x = Cat(p, e) /\ q = Cat(p, m) /\ q \o d = Cat(q, d)
    BY <1>1, <1>2 DEF Cat
  <2>3. QED
    BY <2>1, <2>2
<1>4. PICK y \in Seq(Nat) : y = p \o n
  BY ConcatProperties
<1>5. PICK z \in Seq(Nat) : z = y \o d
  BY ConcatProperties
<1>6. SUFFICES Apart(x \o a, z \o b)
  BY <1>2, <1>3, <1>4, <1>5
<1>7. CASE Below(e, n)
  <2>1. Below(x, y)
    BY <1>1, <1>4, <1>7, BelowAfter
  <2>2. Below(x, y \o d)
    BY <2>1, BelowBefore
  <2>3. Below(x \o a, z \o b)
    BY <1>5, <2>2, BelowBefore
  <2>4. QED
    BY <2>3 DEF Apart
<1>8. CASE Below(n, e)
  <2>1. Below(y, x)
    BY <1>1, <1>4, <1>8, BelowAfter
  <2>2. Below(y \o d, x)
    BY <2>1, BelowBefore
  <2>3. Below(z \o b, x \o a)
    BY <1>5, <2>2, BelowBefore
  <2>4. QED
    BY <2>3 DEF Apart
<1>9. QED
  BY <1>7, <1>8 DEF Apart

\* The texts of two times in order are apart, in one order or the other.
LEMMA EarlierIsApart ==
    ASSUME NEW s \in LocalTimes, NEW t \in LocalTimes, Earlier(s, t)
    PROVE  Apart(Timestamp(s), Timestamp(t))
<1>1. /\ s.month \in 1 .. 12 /\ s.day \in 1 .. 31 /\ t.month \in 1 .. 12 /\ t.day \in 1 .. 31
  BY DEF LocalTimes
<1>2. CASE s.year = t.year /\ s.month < 10 /\ t.month >= 10
  <2>1. s.month \in 0 .. 9 /\ t.month \in 10 .. 99
    BY <1>1, <1>2
  <2>2. PICK y \in Seq(Nat), m \in Seq(Nat), a \in Seq(Nat) :
           y = Digits(s.year) /\ m = Digits(s.month) /\ a = Digits(s.day)
    BY FieldTexts
  <2>3. PICK n \in Seq(Nat), b \in Seq(Nat) : n = Digits(t.month) /\ b = Digits(t.day)
    BY FieldTexts
  <2>4. PICK d \in Seq(Nat) : d = <<Dash>>
    BY Separators
  <2>5. PICK p \in Seq(Nat) : p = y \o d
    BY ConcatProperties
  <2>6. PICK f \in Seq(Nat) : f = m \o d /\ Apart(f, n)
    <3>1. Len(d) = 1 /\ d[1] \in 0 .. 47
      BY <2>4, Separators
    <3>2. Apart(m \o d, n)
      BY <2>1, <2>2, <2>3, <3>1, WidthApart
    <3>3. QED
      BY <3>2, ConcatProperties
  <2>7. Apart(p \o m \o d \o a, p \o n \o d \o b)
    BY <2>6, ApartInside
  <2>8. Apart(DateText(s), DateText(t))
    BY <1>2, <2>2, <2>3, <2>4, <2>5, <2>7 DEF DateText
  <2>9. QED
    BY <2>8, TimestampOrder DEF Apart
<1>3. CASE s.year = t.year /\ s.month = t.month /\ s.day < 10 /\ t.day >= 10
  <2>1. s.day \in 0 .. 9 /\ t.day \in 10 .. 99
    BY <1>1, <1>3
  <2>2. PICK y \in Seq(Nat), m \in Seq(Nat), a \in Seq(Nat) :
           y = Digits(s.year) /\ m = Digits(s.month) /\ a = Digits(s.day)
    BY FieldTexts
  <2>3. PICK b \in Seq(Nat) : b = Digits(t.day)
    BY FieldTexts
  <2>4. PICK h \in Seq(Nat), k \in Seq(Nat) : h = TimeText(s) /\ k = TimeText(t)
    BY TimestampTypes
  <2>5. PICK d \in Seq(Nat), e \in Seq(Nat) : d = <<Dash>> /\ e = <<Space>>
    BY Separators
  <2>6. PICK p \in Seq(Nat) : p = y \o d \o m \o d
    BY PartsTypes
  <2>7. PICK f \in Seq(Nat) : f = a \o e /\ Apart(f, b)
    <3>1. Len(e) = 1 /\ e[1] \in 0 .. 47
      BY <2>5, Separators
    <3>2. Apart(a \o e, b)
      BY <2>1, <2>2, <2>3, <3>1, WidthApart
    <3>3. QED
      BY <3>2, ConcatProperties
  <2>8. Apart(p \o a \o e \o h, p \o b \o e \o k)
    BY <2>7, ApartInside
  <2>9. QED
    BY <1>3, <2>2, <2>3, <2>4, <2>5, <2>6, <2>8 DEF DateText, Timestamp
<1>4. CASE /\ ~(s.year = t.year /\ s.month < 10 /\ t.month >= 10)
           /\ ~(s.year = t.year /\ s.month = t.month /\ s.day < 10 /\ t.day >= 10)
  BY <1>4, EarlierIsBelow DEF Apart
<1>5. QED
  BY <1>2, <1>3, <1>4

\* Of two local times one is earlier.
LEMMA OneOrderOfTwo ==
    ASSUME NEW s \in LocalTimes, NEW t \in LocalTimes, s # t
    PROVE  Earlier(s, t) \/ Earlier(t, s)
<1>1. \/ s.year # t.year \/ s.month # t.month \/ s.day # t.day
      \/ s.hour # t.hour \/ s.min # t.min \/ s.sec # t.sec
  BY DEF LocalTimes
<1>2. /\ s.year \in Int /\ s.month \in Int /\ s.day \in Int
      /\ s.hour \in Int /\ s.min \in Int /\ s.sec \in Int
  <2>1. s.year \in Years
    BY DEF LocalTimes
  <2>2. s.year \in Int
    BY <2>1, YearsAreNumbers
  <2>3. QED
    BY <2>2 DEF LocalTimes
<1>3. /\ t.year \in Int /\ t.month \in Int /\ t.day \in Int
      /\ t.hour \in Int /\ t.min \in Int /\ t.sec \in Int
  <2>1. t.year \in Years
    BY DEF LocalTimes
  <2>2. t.year \in Int
    BY <2>1, YearsAreNumbers
  <2>3. QED
    BY <2>2 DEF LocalTimes
<1>4. QED
  BY <1>1, <1>2, <1>3, EarlierField

\* No two local times have one text.
LEMMA TextsDiffer ==
    ASSUME NEW s \in LocalTimes, NEW t \in LocalTimes, s # t
    PROVE  Timestamp(s) # Timestamp(t)
<1>1. Apart(Timestamp(s), Timestamp(t))
  BY OneOrderOfTwo, EarlierIsApart DEF Apart
<1>2. Timestamp(s) \in Seq(Nat)
  BY TimestampTypes
<1>3. QED
  BY <1>1, <1>2, BelowIsOther DEF Apart

-----------------------------------------------------------------------------
(* The order of texts and of their places.                                 *)

\* No text is before itself.
LEMMA BeforeIrreflexive ==
    ASSUME NEW a \in Seq(Nat)
    PROVE  ~Before(a, a)
<1>1. Len(a) \in Nat /\ \A n \in 1 .. Len(a) : a[n] \in Nat
  BY LenProperties
<1>2. QED
  BY <1>1 DEF Before

\* Before is transitive.
LEMMA BeforeTransitive ==
    ASSUME NEW a \in Seq(Nat), NEW b \in Seq(Nat), NEW c \in Seq(Nat),
           Before(a, b), Before(b, c)
    PROVE  Before(a, c)
<1>1. /\ Len(a) \in Nat /\ \A n \in 1 .. Len(a) : a[n] \in Nat
      /\ Len(b) \in Nat /\ \A n \in 1 .. Len(b) : b[n] \in Nat
      /\ Len(c) \in Nat /\ \A n \in 1 .. Len(c) : c[n] \in Nat
  BY LenProperties
<1>2. PICK n \in 0 .. Len(a) : /\ n < Len(b)
                               /\ \A i \in 1 .. n : a[i] = b[i]
                               /\ n = Len(a) \/ a[n + 1] < b[n + 1]
  BY DEF Before
<1>3. PICK m \in 0 .. Len(b) : /\ m < Len(c)
                               /\ \A i \in 1 .. m : b[i] = c[i]
                               /\ m = Len(b) \/ b[m + 1] < c[m + 1]
  BY DEF Before
<1>4. CASE n < m
  <2>1. n < Len(c) /\ \A i \in 1 .. n : a[i] = c[i]
    BY <1>1, <1>2, <1>3, <1>4
  <2>2. n + 1 \in 1 .. m
    BY <1>1, <1>2, <1>3, <1>4
  <2>3. n = Len(a) \/ a[n + 1] < c[n + 1]
    BY <1>2, <1>3, <2>2
  <2>4. QED
    BY <2>1, <2>3 DEF Before
<1>5. CASE n = m
  <2>1. n < Len(c) /\ \A i \in 1 .. n : a[i] = c[i]
    BY <1>1, <1>2, <1>3, <1>5
  <2>2. b[n + 1] < c[n + 1]
    BY <1>1, <1>2, <1>3, <1>5
  <2>3. CASE n = Len(a)
    BY <2>1, <2>3 DEF Before
  <2>4. CASE n # Len(a)
    <3>1. n + 1 \in 1 .. Len(a) /\ n + 1 \in 1 .. Len(b) /\ n + 1 \in 1 .. Len(c)
      BY <1>1, <1>2, <2>1, <2>4
    <3>2. a[n + 1] \in Nat /\ b[n + 1] \in Nat /\ c[n + 1] \in Nat
      BY <1>1, <3>1
    <3>3. a[n + 1] < b[n + 1]
      BY <1>2, <2>4
    <3>4. a[n + 1] < c[n + 1]
      BY <2>2, <3>2, <3>3
    <3>5. QED
      BY <2>1, <3>4 DEF Before
  <2>5. QED
    BY <2>3, <2>4
<1>6. CASE n > m
  <2>1. m \in 0 .. Len(a) /\ m < Len(c) /\ \A i \in 1 .. m : a[i] = c[i]
    <3>1. m \in 0 .. Len(a) /\ m < Len(c)
      BY <1>1, <1>2, <1>3, <1>6
    <3>2. ASSUME NEW i \in 1 .. m PROVE a[i] = c[i]
      <4>1. i \in 1 .. n
        BY <1>1, <1>2, <1>3, <1>6
      <4>2. QED
        BY <1>2, <1>3, <4>1
    <3>3. QED
      BY <3>1, <3>2
  <2>2. m # Len(b) /\ m + 1 \in 1 .. n
    BY <1>1, <1>2, <1>3, <1>6
  <2>3. a[m + 1] < c[m + 1]
    BY <1>2, <1>3, <2>2
  <2>4. QED
    BY <2>1, <2>3 DEF Before
<1>7. QED
  BY <1>1, <1>2, <1>3, <1>4, <1>5, <1>6

\* Of two local times one has its text before, unless they are one time.
LEMMA BeforeTotal ==
    ASSUME NEW s \in LocalTimes, NEW t \in LocalTimes
    PROVE  \/ s = t
           \/ Before(Timestamp(s), Timestamp(t))
           \/ Before(Timestamp(t), Timestamp(s))
<1>1. SUFFICES ASSUME s # t
               PROVE  Apart(Timestamp(s), Timestamp(t))
  BY TimestampTypes, BelowIsBefore DEF Apart
<1>2. QED
  BY <1>1, OneOrderOfTwo, EarlierIsApart DEF Apart

\* The places of some local times order as SQLite orders their texts, and two have
\* one place only if they have one text: a rank stands for a text wherever the
\* program only compares dates, which is all that DatabaseHandler's Stamp is used for.
THEOREM RanksOrderTexts ==
    ASSUME NEW S, IsFiniteSet(S), NEW local \in [S -> LocalTimes]
    PROVE  /\ Ranks(local) \in [S -> Nat]
           /\ \A s, t \in S :
                 /\ Ranks(local)[s] < Ranks(local)[t]
                       <=> Before(Timestamp(local[s]), Timestamp(local[t]))
                 /\ Ranks(local)[s] = Ranks(local)[t]
                       <=> Timestamp(local[s]) = Timestamp(local[t])
<1> DEFINE Front(t) == {s \in S : Before(Timestamp(local[s]), Timestamp(local[t]))}
<1>1. Ranks(local) = [t \in S |-> Cardinality(Front(t))]
  BY DEF Ranks
<1>2. \A t \in S : Front(t) \in SUBSET S /\ IsFiniteSet(Front(t)) /\ Cardinality(Front(t)) \in Nat
  BY FS_Subset, FS_CardinalityType
<1>3. \A t \in S : Timestamp(local[t]) \in Seq(Nat)
  BY TimestampTypes
<1>4. ASSUME NEW s \in S, NEW t \in S, Before(Timestamp(local[s]), Timestamp(local[t]))
      PROVE  Cardinality(Front(s)) < Cardinality(Front(t))
  <2>1. Front(s) \in SUBSET Front(t)
    BY <1>3, <1>4, BeforeTransitive
  <2>2. s \in Front(t) /\ s \notin Front(s)
    BY <1>3, <1>4, BeforeIrreflexive
  <2>3. /\ Cardinality(Front(s)) <= Cardinality(Front(t))
        /\ Cardinality(Front(t)) # Cardinality(Front(s))
    BY <1>2, <2>1, <2>2, FS_Subset
  <2>4. QED
    BY <1>2, <2>3
<1>5. ASSUME NEW s \in S, NEW t \in S, Timestamp(local[s]) = Timestamp(local[t])
      PROVE  Cardinality(Front(s)) = Cardinality(Front(t))
  BY <1>5
<1>6. ASSUME NEW s \in S, NEW t \in S
      PROVE  \/ Timestamp(local[s]) = Timestamp(local[t])
             \/ Before(Timestamp(local[s]), Timestamp(local[t]))
             \/ Before(Timestamp(local[t]), Timestamp(local[s]))
  BY BeforeTotal
<1>7. ASSUME NEW s \in S, NEW t \in S, Before(Timestamp(local[s]), Timestamp(local[t]))
      PROVE  Timestamp(local[s]) # Timestamp(local[t])
  BY <1>3, <1>7, BeforeIrreflexive
<1>8. ASSUME NEW s \in S, NEW t \in S
      PROVE  /\ Cardinality(Front(s)) < Cardinality(Front(t))
                   <=> Before(Timestamp(local[s]), Timestamp(local[t]))
             /\ Cardinality(Front(s)) = Cardinality(Front(t))
                   <=> Timestamp(local[s]) = Timestamp(local[t])
  <2>1. Cardinality(Front(s)) \in Nat /\ Cardinality(Front(t)) \in Nat
    BY <1>2
  <2>2. CASE Timestamp(local[s]) = Timestamp(local[t])
    BY <1>5, <1>7, <2>1, <2>2
  <2>3. CASE Before(Timestamp(local[s]), Timestamp(local[t]))
    BY <1>4, <1>7, <2>1, <2>3
  <2>4. CASE Before(Timestamp(local[t]), Timestamp(local[s]))
    <3>1. Cardinality(Front(t)) < Cardinality(Front(s))
      BY <1>4, <2>4
    <3>2. Timestamp(local[s]) # Timestamp(local[t])
      BY <1>7, <2>4
    <3>3. ~Before(Timestamp(local[s]), Timestamp(local[t]))
      BY <1>4, <2>1, <3>1
    <3>4. QED
      BY <2>1, <3>1, <3>2, <3>3
  <2>5. QED
    BY <1>6, <2>2, <2>3, <2>4
<1>9. \A t \in S : Ranks(local)[t] = Cardinality(Front(t))
  BY <1>1
<1>10. Ranks(local) \in [S -> Nat]
  <2> HIDE DEF Front
  <2>1. QED
    BY <1>1, <1>2
<1>11. QED
  <2> HIDE DEF Front
  <2>1. QED
    BY <1>8, <1>9, <1>10

-----------------------------------------------------------------------------
(* Local time.                                                             *)

SameDate(u, v) == u.year = v.year /\ u.month = v.month /\ u.day = v.day

DateBefore(u, v) ==
    \/ u.year < v.year
    \/ u.year = v.year /\ u.month < v.month
    \/ u.year = v.year /\ u.month = v.month /\ u.day < v.day

TimeBefore(u, v) ==
    \/ u.hour < v.hour
    \/ u.hour = v.hour /\ u.min < v.min
    \/ u.hour = v.hour /\ u.min = v.min /\ u.sec < v.sec

\* A moment is earlier by its date, or within it by its time.
LEMMA EarlierParts ==
    ASSUME NEW u, NEW v
    PROVE  Earlier(u, v) <=> DateBefore(u, v) \/ (SameDate(u, v) /\ TimeBefore(u, v))
BY EarlierField DEF DateBefore, SameDate, TimeBefore

\* A month has 28 to 31 days.
LEMMA MonthLength ==
    ASSUME NEW y \in Int, NEW m \in 1 .. 12
    PROVE  DaysOf(y, m) \in 28 .. 31
BY DEF DaysOf

\* The fields of a moment.
LEMMA MomentFields ==
    ASSUME NEW u \in Moments
    PROVE  /\ u = [year |-> u.year, month |-> u.month, day |-> u.day,
                   hour |-> u.hour, min |-> u.min, sec |-> u.sec]
           /\ u.year \in Int /\ u.year >= 1970 /\ u.year <= 3000
           /\ u.month \in 1 .. 12 /\ u.day \in 1 .. 31
           /\ u.hour \in 0 .. 23 /\ u.min \in 0 .. 59 /\ u.sec \in 0 .. 59
           /\ u.day <= DaysOf(u.year, u.month)
           /\ DaysOf(u.year, u.month) \in 28 .. 31
<1>1. /\ u = [year |-> u.year, month |-> u.month, day |-> u.day,
              hour |-> u.hour, min |-> u.min, sec |-> u.sec]
      /\ u.year \in 1970 .. 3000
      /\ u.month \in 1 .. 12 /\ u.day \in 1 .. 31
      /\ u.hour \in 0 .. 23 /\ u.min \in 0 .. 59 /\ u.sec \in 0 .. 59
      /\ u.day <= DaysOf(u.year, u.month)
  BY DEF Moments
<1>2. u.year \in Int /\ u.year >= 1970 /\ u.year <= 3000
  BY <1>1
<1>3. DaysOf(u.year, u.month) \in 28 .. 31
  BY <1>1, <1>2, MonthLength
<1>4. QED
  BY <1>1, <1>2, <1>3

\* What the fields of a local time must be.
LEMMA LocalTimeFields ==
    ASSUME NEW t, t = [year |-> t.year, month |-> t.month, day |-> t.day,
                       hour |-> t.hour, min |-> t.min, sec |-> t.sec],
           t.year \in Int, t.year >= 1970, t.year <= 3001,
           t.month \in 1 .. 12, t.day \in 1 .. 31,
           t.hour \in 0 .. 23, t.min \in 0 .. 59, t.sec \in 0 .. 59
    PROVE  t \in LocalTimes
<1>1. t.year \in Years
  BY DEF Years
<1>2. QED
  BY <1>1 DEF LocalTimes

\* The records that DayAfter returns in the last day of a month and of a year.
LEMMA ChangedDate ==
    ASSUME NEW u \in Moments, NEW x, NEW y
    PROVE  [u EXCEPT !.month = x, !.day = y]
              = [year |-> u.year, month |-> x, day |-> y,
                 hour |-> u.hour, min |-> u.min, sec |-> u.sec]
<1>1. PICK v : v = [u EXCEPT !.month = x]
  OBVIOUS
<1>2. v = [year |-> u.year, month |-> x, day |-> u.day,
           hour |-> u.hour, min |-> u.min, sec |-> u.sec]
  BY <1>1, MomentFields
<1>3. [v EXCEPT !.day = y] = [year |-> u.year, month |-> x, day |-> y,
                              hour |-> u.hour, min |-> u.min, sec |-> u.sec]
  BY <1>2
<1>4. [u EXCEPT !.month = x, !.day = y] = [v EXCEPT !.day = y]
  BY <1>1
<1>5. QED
  BY <1>3, <1>4

LEMMA NewYear ==
    ASSUME NEW u \in Moments, NEW w
    PROVE  [u EXCEPT !.year = w, !.month = 1, !.day = 1]
              = [year |-> w, month |-> 1, day |-> 1,
                 hour |-> u.hour, min |-> u.min, sec |-> u.sec]
<1>1. PICK v : v = [u EXCEPT !.year = w]
  OBVIOUS
<1>2. v = [year |-> w, month |-> u.month, day |-> u.day,
           hour |-> u.hour, min |-> u.min, sec |-> u.sec]
  BY <1>1, MomentFields
<1>3. PICK z : z = [v EXCEPT !.month = 1]
  OBVIOUS
<1>4. z = [year |-> w, month |-> 1, day |-> u.day,
           hour |-> u.hour, min |-> u.min, sec |-> u.sec]
  BY <1>2, <1>3
<1>5. [z EXCEPT !.day = 1] = [year |-> w, month |-> 1, day |-> 1,
                              hour |-> u.hour, min |-> u.min, sec |-> u.sec]
  BY <1>4
<1>6. [u EXCEPT !.year = w, !.month = 1, !.day = 1] = [z EXCEPT !.day = 1]
  BY <1>1, <1>3
<1>7. QED
  BY <1>5, <1>6

\* The day after is a date, and the first one after its day.
LEMMA DayAfterFields ==
    ASSUME NEW u \in Moments
    PROVE  /\ DayAfter(u) = [year |-> DayAfter(u).year, month |-> DayAfter(u).month,
                             day |-> DayAfter(u).day, hour |-> u.hour, min |-> u.min,
                             sec |-> u.sec]
           /\ DayAfter(u).year \in Int /\ DayAfter(u).year >= 1970 /\ DayAfter(u).year <= 3001
           /\ DayAfter(u).month \in 1 .. 12 /\ DayAfter(u).day \in 1 .. 31
           /\ DateBefore(u, DayAfter(u))
           /\ \A v \in Moments :
                 DateBefore(u, v) => SameDate(DayAfter(u), v) \/ DateBefore(DayAfter(u), v)
<1>1. /\ u = [year |-> u.year, month |-> u.month, day |-> u.day,
              hour |-> u.hour, min |-> u.min, sec |-> u.sec]
      /\ u.year \in Int /\ u.year >= 1970 /\ u.year <= 3000
      /\ u.month \in 1 .. 12 /\ u.day \in 1 .. 31
      /\ u.day <= DaysOf(u.year, u.month)
      /\ DaysOf(u.year, u.month) \in 28 .. 31
  BY MomentFields
<1>2. ASSUME NEW v \in Moments
      PROVE  /\ v.year \in Int /\ v.month \in 1 .. 12 /\ v.day \in 1 .. 31
             /\ v.day <= DaysOf(v.year, v.month)
  BY MomentFields
<1>3. CASE u.day < DaysOf(u.year, u.month)
  <2>1. DayAfter(u) = [year |-> u.year, month |-> u.month, day |-> u.day + 1,
                       hour |-> u.hour, min |-> u.min, sec |-> u.sec]
    BY <1>1, <1>3 DEF DayAfter
  <2>2. QED
    BY <1>1, <1>2, <1>3, <2>1 DEF DateBefore, SameDate
<1>4. CASE ~(u.day < DaysOf(u.year, u.month)) /\ u.month < 12
  <2>1. DayAfter(u) = [year |-> u.year, month |-> u.month + 1, day |-> 1,
                       hour |-> u.hour, min |-> u.min, sec |-> u.sec]
    <3>1. DayAfter(u) = [u EXCEPT !.month = u.month + 1, !.day = 1]
      BY <1>4 DEF DayAfter
    <3>2. [u EXCEPT !.month = u.month + 1, !.day = 1]
            = [year |-> u.year, month |-> u.month + 1, day |-> 1,
               hour |-> u.hour, min |-> u.min, sec |-> u.sec]
      BY ChangedDate
    <3>3. QED
      BY <3>1, <3>2
  <2>2. u.day = DaysOf(u.year, u.month)
    BY <1>1, <1>4
  <2>3. QED
    BY <1>1, <1>2, <1>4, <2>1, <2>2 DEF DateBefore, SameDate
<1>5. CASE ~(u.day < DaysOf(u.year, u.month)) /\ ~(u.month < 12)
  <2>1. DayAfter(u) = [year |-> u.year + 1, month |-> 1, day |-> 1,
                       hour |-> u.hour, min |-> u.min, sec |-> u.sec]
    <3>1. DayAfter(u) = [u EXCEPT !.year = u.year + 1, !.month = 1, !.day = 1]
      BY <1>5 DEF DayAfter
    <3>2. [u EXCEPT !.year = u.year + 1, !.month = 1, !.day = 1]
            = [year |-> u.year + 1, month |-> 1, day |-> 1,
               hour |-> u.hour, min |-> u.min, sec |-> u.sec]
      BY NewYear
    <3>3. QED
      BY <3>1, <3>2
  <2>2. u.day = DaysOf(u.year, u.month) /\ u.month = 12
    BY <1>1, <1>5
  <2>3. QED
    BY <1>1, <1>2, <1>5, <2>1, <2>2 DEF DateBefore, SameDate
<1>6. QED
  BY <1>3, <1>4, <1>5

\* Two moments of one day have the same day after.
LEMMA OneDayAfter ==
    ASSUME NEW u \in Moments, NEW v \in Moments, SameDate(u, v)
    PROVE  SameDate(DayAfter(u), DayAfter(v))
<1>1. /\ u = [year |-> u.year, month |-> u.month, day |-> u.day,
              hour |-> u.hour, min |-> u.min, sec |-> u.sec]
      /\ v = [year |-> u.year, month |-> u.month, day |-> u.day,
              hour |-> v.hour, min |-> v.min, sec |-> v.sec]
  BY MomentFields DEF SameDate
<1>2. u.day = v.day /\ u.month = v.month /\ u.year = v.year
  BY DEF SameDate
<1>3. CASE u.day < DaysOf(u.year, u.month)
  <2>1. /\ DayAfter(u) = [u EXCEPT !.day = @ + 1]
        /\ DayAfter(v) = [v EXCEPT !.day = @ + 1]
    BY <1>2, <1>3 DEF DayAfter
  <2>2. QED
    BY <1>1, <2>1 DEF SameDate
<1>4. CASE ~(u.day < DaysOf(u.year, u.month)) /\ u.month < 12
  <2>1. /\ DayAfter(u) = [u EXCEPT !.month = @ + 1, !.day = 1]
        /\ DayAfter(v) = [v EXCEPT !.month = @ + 1, !.day = 1]
    BY <1>2, <1>4 DEF DayAfter
  <2>2. QED
    BY <1>1, <2>1 DEF SameDate
<1>5. CASE ~(u.day < DaysOf(u.year, u.month)) /\ ~(u.month < 12)
  <2>1. /\ DayAfter(u) = [u EXCEPT !.year = @ + 1, !.month = 1, !.day = 1]
        /\ DayAfter(v) = [v EXCEPT !.year = @ + 1, !.month = 1, !.day = 1]
    BY <1>2, <1>5 DEF DayAfter
  <2>2. QED
    BY <1>1, <2>1 DEF SameDate
<1>6. QED
  BY <1>3, <1>4, <1>5

\* An hour is added within the day, or 23 becomes 0 of the day after.
LEMMA SummerFields ==
    ASSUME NEW u \in Instants, SummerTime[u]
    PROVE  LET t == LocalTime(u) IN
           /\ t = [year |-> t.year, month |-> t.month, day |-> t.day,
                   hour |-> t.hour, min |-> u.min, sec |-> u.sec]
           /\ t.year \in Int /\ t.year >= 1970 /\ t.year <= 3001
           /\ t.month \in 1 .. 12 /\ t.day \in 1 .. 31
           /\ t.hour \in 0 .. 23 /\ t.min = u.min /\ t.sec = u.sec
           /\ u.hour < 23 => SameDate(t, u) /\ t.hour = u.hour + 1
           /\ u.hour = 23 => SameDate(t, DayAfter(u)) /\ t.hour = 0
<1>1. u \in Moments
  BY ClockAssumption
<1>2. u.hour \in 0 .. 23
  BY <1>1, MomentFields
<1>3. CASE u.hour < 23
  <2>1. LocalTime(u) = [u EXCEPT !.hour = @ + 1]
    BY <1>3 DEF LocalTime
  <2>2. LocalTime(u) = [year |-> u.year, month |-> u.month, day |-> u.day,
                        hour |-> u.hour + 1, min |-> u.min, sec |-> u.sec]
    BY <1>1, <2>1, MomentFields
  <2>3. /\ u.year \in Int /\ u.year >= 1970 /\ u.year <= 3000
        /\ u.month \in 1 .. 12 /\ u.day \in 1 .. 31
    BY <1>1, MomentFields
  <2>4. QED
    BY <1>2, <1>3, <2>2, <2>3 DEF SameDate
<1>4. CASE u.hour = 23
  <2>1. LocalTime(u) = [DayAfter(u) EXCEPT !.hour = 0]
    BY <1>4 DEF LocalTime
  <2>2. LocalTime(u) = [year |-> DayAfter(u).year, month |-> DayAfter(u).month,
                        day |-> DayAfter(u).day, hour |-> 0, min |-> u.min, sec |-> u.sec]
    BY <1>1, <2>1, DayAfterFields
  <2>3. /\ DayAfter(u).year \in Int
        /\ DayAfter(u).year >= 1970 /\ DayAfter(u).year <= 3001
        /\ DayAfter(u).month \in 1 .. 12 /\ DayAfter(u).day \in 1 .. 31
    BY <1>1, DayAfterFields
  <2>4. QED
    BY <1>4, <2>2, <2>3 DEF SameDate
<1>5. QED
  BY <1>2, <1>3, <1>4

\* localtime_s gives a local time whose fields have their ranges.
LEMMA LocalTypes ==
    ASSUME NEW u \in Instants
    PROVE  LocalTime(u) \in LocalTimes
<1>1. u \in Moments
  BY ClockAssumption
<1>2. CASE ~SummerTime[u]
  <2>1. LocalTime(u) = u
    BY <1>2 DEF LocalTime
  <2>2. QED
    BY <1>1, <2>1, MomentFields, LocalTimeFields
<1>3. CASE SummerTime[u]
  <2>1. u.min \in 0 .. 59 /\ u.sec \in 0 .. 59
    BY <1>1, MomentFields
  <2>2. PICK t : t = LocalTime(u)
    OBVIOUS
  <2>3. /\ t = [year |-> t.year, month |-> t.month, day |-> t.day,
                hour |-> t.hour, min |-> t.min, sec |-> t.sec]
        /\ t.year \in Int /\ t.year >= 1970 /\ t.year <= 3001
        /\ t.month \in 1 .. 12 /\ t.day \in 1 .. 31
        /\ t.hour \in 0 .. 23 /\ t.min \in 0 .. 59 /\ t.sec \in 0 .. 59
    BY <1>3, <2>1, <2>2, SummerFields
  <2>4. QED
    BY <2>2, <2>3, LocalTimeFields
<1>4. QED
  BY <1>2, <1>3

\* The order of the days is one.
LEMMA DateBeforeTransitive ==
    ASSUME NEW u, NEW v, NEW w,
           u.year \in Int, u.month \in Int, u.day \in Int,
           v.year \in Int, v.month \in Int, v.day \in Int,
           w.year \in Int, w.month \in Int, w.day \in Int
    PROVE  /\ DateBefore(u, v) /\ DateBefore(v, w) => DateBefore(u, w)
           /\ DateBefore(u, v) /\ SameDate(v, w) => DateBefore(u, w)
           /\ SameDate(u, v) /\ DateBefore(v, w) => DateBefore(u, w)
BY DEF DateBefore, SameDate

\* The order of the moments is one.
LEMMA EarlierTransitive ==
    ASSUME NEW u \in Moments, NEW v \in Moments, NEW w \in Moments,
           Earlier(u, v), Earlier(v, w)
    PROVE  Earlier(u, w) /\ u # v
<1>1. /\ u.year \in Int /\ u.month \in Int /\ u.day \in Int
      /\ u.hour \in Int /\ u.min \in Int /\ u.sec \in Int
  BY MomentFields
<1>2. /\ v.year \in Int /\ v.month \in Int /\ v.day \in Int
      /\ v.hour \in Int /\ v.min \in Int /\ v.sec \in Int
  BY MomentFields
<1>3. /\ w.year \in Int /\ w.month \in Int /\ w.day \in Int
      /\ w.hour \in Int /\ w.min \in Int /\ w.sec \in Int
  BY MomentFields
<1>4. /\ DateBefore(u, v) \/ (SameDate(u, v) /\ TimeBefore(u, v))
      /\ DateBefore(v, w) \/ (SameDate(v, w) /\ TimeBefore(v, w))
  BY EarlierParts
<1>5. u # v
  BY <1>1, <1>4 DEF DateBefore, TimeBefore
<1>6. DateBefore(u, w) \/ (SameDate(u, w) /\ TimeBefore(u, w))
  <2>1. DateBefore(u, v) \/ DateBefore(v, w) => DateBefore(u, w)
    BY <1>1, <1>2, <1>3, <1>4, DateBeforeTransitive
  <2>2. TimeBefore(u, v) /\ TimeBefore(v, w) => TimeBefore(u, w)
    BY <1>1, <1>2, <1>3 DEF TimeBefore
  <2>3. SameDate(u, v) /\ SameDate(v, w) => SameDate(u, w)
    BY DEF SameDate
  <2>4. QED
    BY <1>4, <2>1, <2>2, <2>3
<1>7. QED
  BY <1>5, <1>6, EarlierParts

\* Local time keeps the order of the moments, unless summer time ends between them.
LEMMA LocalTimeOrder ==
    ASSUME NEW u \in Instants, NEW v \in Instants, Earlier(u, v),
           ~(SummerTime[u] /\ ~SummerTime[v])
    PROVE  Earlier(LocalTime(u), LocalTime(v))
<1>1. u \in Moments /\ v \in Moments
  BY ClockAssumption
<1>2. PICK s : s = LocalTime(u)
  OBVIOUS
<1>3. PICK t : t = LocalTime(v)
  OBVIOUS
<1>4. SUFFICES DateBefore(s, t) \/ (SameDate(s, t) /\ TimeBefore(s, t))
  BY <1>2, <1>3, EarlierParts
<1>5. DateBefore(u, v) \/ (SameDate(u, v) /\ TimeBefore(u, v))
  BY EarlierParts
<1>6. /\ u.year \in Int /\ u.month \in Int /\ u.day \in Int
      /\ u.hour \in 0 .. 23 /\ u.min \in Int /\ u.sec \in Int
  BY <1>1, MomentFields
<1>7. /\ v.year \in Int /\ v.month \in Int /\ v.day \in Int
      /\ v.hour \in 0 .. 23 /\ v.min \in Int /\ v.sec \in Int
  BY <1>1, MomentFields
<1>8. /\ DayAfter(u).year \in Int /\ DayAfter(u).month \in Int /\ DayAfter(u).day \in Int
      /\ DayAfter(v).year \in Int /\ DayAfter(v).month \in Int /\ DayAfter(v).day \in Int
      /\ DateBefore(u, DayAfter(u)) /\ DateBefore(v, DayAfter(v))
      /\ DateBefore(u, v) => SameDate(DayAfter(u), v) \/ DateBefore(DayAfter(u), v)
      /\ SameDate(u, v) => SameDate(DayAfter(u), DayAfter(v))
  BY <1>1, DayAfterFields, OneDayAfter
<1>9. CASE ~SummerTime[u] /\ ~SummerTime[v]
  BY <1>2, <1>3, <1>5, <1>9 DEF LocalTime
<1>10. SummerTime[v] =>
          /\ t.year \in Int /\ t.month \in Int /\ t.day \in Int
          /\ t.min = v.min /\ t.sec = v.sec
          /\ v.hour < 23 => SameDate(t, v) /\ t.hour = v.hour + 1
          /\ v.hour = 23 => SameDate(t, DayAfter(v)) /\ t.hour = 0
  BY <1>3, SummerFields
<1>11. SummerTime[u] =>
          /\ s.year \in Int /\ s.month \in Int /\ s.day \in Int
          /\ s.min = u.min /\ s.sec = u.sec
          /\ u.hour < 23 => SameDate(s, u) /\ s.hour = u.hour + 1
          /\ u.hour = 23 => SameDate(s, DayAfter(u)) /\ s.hour = 0
  BY <1>2, SummerFields
<1>12. CASE ~SummerTime[u] /\ SummerTime[v]
  <2>1. s = u
    BY <1>2, <1>12 DEF LocalTime
  <2>2. CASE v.hour < 23
    <3>1. SameDate(t, v) /\ t.hour = v.hour + 1 /\ t.min = v.min /\ t.sec = v.sec
      BY <1>10, <1>12, <2>2
    <3>2. DateBefore(u, v) => DateBefore(u, t)
      BY <3>1 DEF DateBefore, SameDate
    <3>3. SameDate(u, v) /\ TimeBefore(u, v) => SameDate(u, t) /\ TimeBefore(u, t)
      BY <1>6, <1>7, <3>1 DEF SameDate, TimeBefore
    <3>4. QED
      BY <1>5, <2>1, <3>2, <3>3
  <2>3. CASE v.hour = 23
    <3>1. SameDate(t, DayAfter(v))
      BY <1>10, <1>12, <2>3
    <3>2. DateBefore(u, DayAfter(v))
      BY <1>5, <1>6, <1>7, <1>8, DateBeforeTransitive
    <3>3. DateBefore(u, t)
      BY <3>1, <3>2 DEF DateBefore, SameDate
    <3>4. QED
      BY <2>1, <3>3
  <2>4. QED
    BY <1>7, <2>2, <2>3
<1>13. CASE SummerTime[u] /\ SummerTime[v]
  <2>1. CASE u.hour < 23 /\ v.hour < 23
    <3>1. /\ SameDate(s, u) /\ s.hour = u.hour + 1 /\ s.min = u.min /\ s.sec = u.sec
          /\ SameDate(t, v) /\ t.hour = v.hour + 1 /\ t.min = v.min /\ t.sec = v.sec
      BY <1>10, <1>11, <1>13, <2>1
    <3>2. DateBefore(u, v) => DateBefore(s, t)
      BY <3>1 DEF DateBefore, SameDate
    <3>3. SameDate(u, v) /\ TimeBefore(u, v) => SameDate(s, t) /\ TimeBefore(s, t)
      BY <1>6, <1>7, <3>1 DEF SameDate, TimeBefore
    <3>4. QED
      BY <1>5, <3>2, <3>3
  <2>2. CASE u.hour < 23 /\ v.hour = 23
    <3>1. SameDate(s, u) /\ SameDate(t, DayAfter(v))
      BY <1>10, <1>11, <1>13, <2>2
    <3>2. DateBefore(u, DayAfter(v))
      BY <1>5, <1>6, <1>7, <1>8, DateBeforeTransitive
    <3>3. DateBefore(s, t)
      BY <3>1, <3>2 DEF DateBefore, SameDate
    <3>4. QED
      BY <3>3
  <2>3. CASE u.hour = 23 /\ v.hour < 23
    <3>1. /\ SameDate(s, DayAfter(u)) /\ s.hour = 0
          /\ SameDate(t, v) /\ t.hour = v.hour + 1
      BY <1>10, <1>11, <1>13, <2>3
    <3>2. ~TimeBefore(u, v)
      BY <1>7, <2>3 DEF TimeBefore
    <3>3. DateBefore(u, v)
      BY <1>5, <3>2
    <3>4. SameDate(s, t) \/ DateBefore(s, t)
      BY <1>8, <3>1, <3>3 DEF DateBefore, SameDate
    <3>5. TimeBefore(s, t)
      BY <1>7, <3>1 DEF TimeBefore
    <3>6. QED
      BY <3>4, <3>5
  <2>4. CASE u.hour = 23 /\ v.hour = 23
    <3>1. /\ SameDate(s, DayAfter(u)) /\ s.hour = 0 /\ s.min = u.min /\ s.sec = u.sec
          /\ SameDate(t, DayAfter(v)) /\ t.hour = 0 /\ t.min = v.min /\ t.sec = v.sec
      BY <1>10, <1>11, <1>13, <2>4
    <3>2. DateBefore(u, v) => DateBefore(DayAfter(u), DayAfter(v))
      BY <1>7, <1>8, DateBeforeTransitive
    <3>3. DateBefore(u, v) => DateBefore(s, t)
      BY <3>1, <3>2 DEF DateBefore, SameDate
    <3>4. SameDate(u, v) /\ TimeBefore(u, v) => TimeBefore(s, t)
      BY <1>6, <1>7, <2>4, <3>1 DEF TimeBefore
    <3>5. SameDate(u, v) => SameDate(s, t)
      BY <1>8, <3>1 DEF SameDate
    <3>6. QED
      BY <1>5, <3>3, <3>4, <3>5
  <2>5. QED
    BY <1>6, <1>7, <2>1, <2>2, <2>3, <2>4
<1>14. QED
  BY <1>9, <1>12, <1>13

\* The text of a later moment is behind, unless a turn lies between the two.
LEMMA LaterIsBehind ==
    ASSUME NEW u \in Instants, NEW v \in Instants, Earlier(u, v), ~Turn(u, v)
    PROVE  Before(Timestamp(LocalTime(u)), Timestamp(LocalTime(v)))
<1>1. PICK s \in LocalTimes, t \in LocalTimes : s = LocalTime(u) /\ t = LocalTime(v)
  BY LocalTypes
<1>2. /\ ~(s.year = t.year /\ s.month < 10 /\ t.month >= 10)
      /\ ~(s.year = t.year /\ s.month = t.month /\ s.day < 10 /\ t.day >= 10)
      /\ SummerTime[u] /\ ~SummerTime[v] => Earlier(s, t)
  BY <1>1 DEF Turn
<1>3. Earlier(s, t)
  BY <1>1, <1>2, LocalTimeOrder
<1>4. Below(Timestamp(s), Timestamp(t))
  BY <1>2, <1>3, EarlierIsBelow
<1>5. QED
  BY <1>1, <1>4, BelowIsBefore, TimestampTypes

-----------------------------------------------------------------------------
(* The specification.                                                      *)

\* The clock only goes on: the versions of a file are in the order of their
\* moments, and none is of a moment to come.
ClockInv ==
    /\ now \in Instants
    /\ versions \in Seq(Instants)
    /\ \A i \in 1 .. Len(versions) : versions[i] = now \/ Earlier(versions[i], now)
    /\ \A i, j \in 1 .. Len(versions) : i < j => Earlier(versions[i], versions[j])

\* ClockInv holds at first and after every step.
LEMMA ClockInit == Init => ClockInv
BY DEF Init, ClockInv

LEMMA ClockTick ==
    ASSUME ClockInv, Tick
    PROVE  ClockInv'
<1>1. /\ now \in Instants /\ now' \in Instants
      /\ Earlier(now, now') /\ versions' = versions
  BY DEF ClockInv, Tick
<1>2. ASSUME NEW i \in 1 .. Len(versions)
      PROVE  Earlier(versions[i], now')
  <2>1. versions[i] \in Instants
    BY DEF ClockInv
  <2>2. versions[i] = now \/ Earlier(versions[i], now)
    BY DEF ClockInv
  <2>3. QED
    BY <1>1, <2>1, <2>2, EarlierTransitive, ClockAssumption
<1>3. \A i \in 1 .. Len(versions') : versions'[i] = now' \/ Earlier(versions'[i], now')
  BY <1>1, <1>2
<1>4. \A i, j \in 1 .. Len(versions') : i < j => Earlier(versions'[i], versions'[j])
  BY <1>1 DEF ClockInv
<1>5. versions' \in Seq(Instants)
  BY <1>1 DEF ClockInv
<1>6. QED
  BY <1>1, <1>3, <1>4, <1>5 DEF ClockInv

LEMMA ClockNewVersion ==
    ASSUME ClockInv, NewVersion
    PROVE  ClockInv'
<1>1. /\ now \in Instants /\ now' = now
      /\ versions \in Seq(Instants) /\ versions' = Append(versions, now)
  BY DEF ClockInv, NewVersion
<1>2. ASSUME NEW i \in 1 .. Len(versions)
      PROVE  Earlier(versions[i], now)
  <2>1. versions[i] # now
    BY DEF NewVersion
  <2>2. QED
    BY <2>1 DEF ClockInv
<1>3. /\ versions' \in Seq(Instants)
      /\ Len(versions') = Len(versions) + 1
      /\ versions'[Len(versions) + 1] = now
      /\ \A i \in 1 .. Len(versions) : versions'[i] = versions[i]
      /\ Len(versions) \in Nat
  BY <1>1
<1>4. \A i \in 1 .. Len(versions') : versions'[i] = now' \/ Earlier(versions'[i], now')
  BY <1>1, <1>2, <1>3
<1>5. ASSUME NEW i \in 1 .. Len(versions'), NEW j \in 1 .. Len(versions'), i < j
      PROVE  Earlier(versions'[i], versions'[j])
  <2>1. i \in 1 .. Len(versions)
    BY <1>3, <1>5
  <2>2. CASE j \in 1 .. Len(versions)
    BY <1>3, <1>5, <2>1, <2>2 DEF ClockInv
  <2>3. CASE j = Len(versions) + 1
    BY <1>2, <1>3, <2>1, <2>3
  <2>4. QED
    BY <1>3, <2>2, <2>3
<1>6. QED
  BY <1>1, <1>3, <1>4, <1>5 DEF ClockInv

LEMMA ClockStep ==
    ASSUME ClockInv, [Next]_vars
    PROVE  ClockInv'
<1>1. CASE Tick
  BY <1>1, ClockTick
<1>2. CASE NewVersion
  BY <1>2, ClockNewVersion
<1>3. CASE UNCHANGED vars
  BY <1>3 DEF vars, ClockInv
<1>4. QED
  BY <1>1, <1>2, <1>3 DEF Next

\* In every state of ClockInv the version with the greatest text is the last one.
LEMMA LastIsNewest == ClockInv => MaxIsNewest
<1>1. SUFFICES ASSUME ClockInv,
                      NEW i \in 1 .. Len(versions), i # Len(versions),
                      ~Turn(versions[i], versions[Len(versions)])
               PROVE  ~IsLast(i)
  BY DEF MaxIsNewest
<1>2. Len(versions) \in 1 .. Len(versions) /\ i < Len(versions)
  BY <1>1 DEF ClockInv
<1>3. PICK u \in Instants, v \in Instants : u = versions[i] /\ v = versions[Len(versions)]
  BY <1>1, <1>2 DEF ClockInv
<1>4. Earlier(u, v)
  BY <1>1, <1>2, <1>3 DEF ClockInv
<1>5. Before(Timestamp(LocalTime(u)), Timestamp(LocalTime(v)))
  BY <1>1, <1>3, <1>4, LaterIsBehind
<1>6. QED
  BY <1>2, <1>3, <1>5 DEF IsLast, Date

\* No local time is earlier than itself.
LEMMA EarlierIsOther ==
    ASSUME NEW s \in LocalTimes
    PROVE  ~Earlier(s, s)
<1>1. \A n \in 1 .. 6 : Fields(s)[n] \in Int
  BY YearsAreNumbers DEF Fields, LocalTimes
<1>2. QED
  BY <1>1 DEF Earlier

\* In every state of ClockInv another second has another text, but in the hour that
\* comes twice.
LEMMA OtherSecondOtherText == ClockInv => OneTextOneSecond
<1>1. SUFFICES ASSUME ClockInv, NEW i \in 1 .. Len(versions)
               PROVE  Timestamp(LocalTime(versions[i])) = Timestamp(LocalTime(now)) <=>
                          versions[i] = now \/ Again(versions[i], now)
  BY DEF OneTextOneSecond, Date
<1>2. PICK u \in Instants, v \in Instants : u = versions[i] /\ v = now
  BY <1>1 DEF ClockInv
<1>3. LocalTime(u) \in LocalTimes /\ LocalTime(v) \in LocalTimes
  BY LocalTypes
<1>4. Timestamp(LocalTime(u)) = Timestamp(LocalTime(v)) => LocalTime(u) = LocalTime(v)
  BY <1>3, TextsDiffer
<1>5. u = v \/ Earlier(u, v)
  BY <1>1, <1>2 DEF ClockInv
<1>6. u # v /\ LocalTime(u) = LocalTime(v) => SummerTime[u] /\ ~SummerTime[v]
  BY <1>3, <1>5, LocalTimeOrder, EarlierIsOther
<1>7. ~SummerTime[v] => LocalTime(v) = v
  BY DEF LocalTime
<1>8. QED
  BY <1>2, <1>4, <1>6, <1>7 DEF Again

\* The moments of the versions are in order in every behaviour.
LEMMA ClockInvariant == Spec => []ClockInv
<1>1. Init => ClockInv
  BY ClockInit
<1>2. ClockInv /\ [Next]_vars => ClockInv'
  BY ClockStep
<1>3. QED
  BY <1>1, <1>2, PTL DEF Spec

\* SELECT MAX over the texts of the dates gives the version made last, whatever
\* the moments, the zone and the days of summer time, unless one of the turns of
\* Turn lies between the two (DatabaseHandler getLastVersion on the texts of
\* getTimestamp).
THEOREM NewestByText == Spec => []MaxIsNewest
<1>1. ClockInv => MaxIsNewest
  BY LastIsNewest
<1>2. QED
  BY <1>1, ClockInvariant, PTL

\* The key of VERSIONS refuses a version for the date of another one in that one's
\* second, in the second that repeats its local time when summer time ends, and never
\* else: getTimestamp writes no two local times alike.
THEOREM TextsNameSeconds == Spec => []OneTextOneSecond
<1>1. ClockInv => OneTextOneSecond
  BY OtherSecondOtherText
<1>2. QED
  BY <1>1, ClockInvariant, PTL

\* The seconds of a server that runs through none of the turns are such a Stamp as
\* NewestVersionProofs and DownloadProofs ask for (StampsIncrease).
THEOREM StampsIncreaseBetweenTurns ==
    ASSUME NEW n \in Nat, NEW at \in [1 .. n -> Instants],
           \A s, t \in 1 .. n : s < t => Earlier(at[s], at[t]) /\ ~Turn(at[s], at[t])
    PROVE  LET stamp == Ranks([t \in 1 .. n |-> LocalTime(at[t])])
           IN  /\ stamp \in [1 .. n -> Nat]
               /\ \A s, t \in 1 .. n : s < t => stamp[s] < stamp[t]
<1>1. PICK local : local = [t \in 1 .. n |-> LocalTime(at[t])]
  OBVIOUS
<1>2. local \in [1 .. n -> LocalTimes]
  BY <1>1, LocalTypes
<1>3. IsFiniteSet(1 .. n)
  BY FS_Interval
<1>4. /\ Ranks(local) \in [1 .. n -> Nat]
      /\ \A s, t \in 1 .. n : Before(Timestamp(local[s]), Timestamp(local[t]))
                                 => Ranks(local)[s] < Ranks(local)[t]
  BY <1>2, <1>3, RanksOrderTexts
<1>5. ASSUME NEW s \in 1 .. n, NEW t \in 1 .. n, s < t
      PROVE  Before(Timestamp(local[s]), Timestamp(local[t]))
  BY <1>1, <1>5, LaterIsBehind
<1>6. QED
  BY <1>1, <1>4, <1>5

=============================================================================
