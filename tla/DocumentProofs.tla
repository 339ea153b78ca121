----------------------------- MODULE DocumentProofs -----------------------------
(****************************************************************************)
(* The values of documents: that the canonical text of a number says the    *)
(* number and no other text does (lsml/hash.py), and that the adapters take *)
(* documents in order and show what was read (server/adapters).             *)
(*                                                                          *)
(* That _flatten calls itself is a hypothesis here (Recursion), what it     *)
(* then finds in a document is proved.                                      *)
(****************************************************************************)
EXTENDS Adapters, Numerals, Lists

------------------------------------------------------------------------------
(* Numbers.                                                                 *)

Digit == 0..9

(* What a float's digits are.                                               *)
WellFormed(d) ==
  /\ d.neg \in BOOLEAN /\ d.point \in Int
  /\ d.digits \in Seq(Digit)
  /\ d.digits = << 0 >> \/ \E i \in 1..Len(d.digits) : d.digits[i] # 0

(* The digits of a sequence that count, each at its power of ten.           *)
Marks(digits, point) ==
  {[power |-> point - i, digit |-> digits[i]] : i \in {k \in 1..Len(digits) : digits[k] # 0}}

(* Membership in Marks, with the place that is marked.                      *)
LEMMA MarksIs ==
  ASSUME NEW digits \in Seq(Digit), NEW point \in Int, NEW x
  PROVE  x \in Marks(digits, point) <=>
           \E i \in 1..Len(digits) : digits[i] # 0 /\ x = [power |-> point - i, digit |-> digits[i]]
BY DEF Marks

(* Zeros before or after the digits, or taken from there, change nothing.   *)
LEMMA ZerosDoNotCount ==
  ASSUME NEW ds \in Seq(Digit), NEW es \in Seq(Digit), NEW point \in Int, NEW a \in Int,
         \A i \in 1..Len(es) : es[i] # 0 => i - a \in 1..Len(ds) /\ es[i] = ds[i - a],
         \A k \in 1..Len(ds) : ds[k] # 0 => k + a \in 1..Len(es) /\ es[k + a] = ds[k]
  PROVE  Marks(es, point + a) = Marks(ds, point)
<1>1. ASSUME NEW x \in Marks(es, point + a)
      PROVE  x \in Marks(ds, point)
  <2>1. PICK i \in 1..Len(es) : es[i] # 0 /\ x = [power |-> (point + a) - i, digit |-> es[i]]
    BY <1>1 DEF Marks
  <2>2. i - a \in 1..Len(ds) /\ ds[i - a] = es[i] /\ (point + a) - i = point - (i - a)
    BY <2>1
  <2> QED
    BY <2>1, <2>2, MarksIs
<1>2. ASSUME NEW x \in Marks(ds, point)
      PROVE  x \in Marks(es, point + a)
  <2>1. PICK k \in 1..Len(ds) : ds[k] # 0 /\ x = [power |-> point - k, digit |-> ds[k]]
    BY <1>2 DEF Marks
  <2>2. k + a \in 1..Len(es) /\ es[k + a] = ds[k] /\ point - k = (point + a) - (k + a)
    BY <2>1
  <2>3. point + a \in Int
    OBVIOUS
  <2> QED
    BY <2>1, <2>2, <2>3, MarksIs
<1> QED
  BY <1>1, <1>2

(* Zeros after the digits.                                                  *)
LEMMA ZerosAfter ==
  ASSUME NEW ds \in Seq(Digit), NEW es \in Seq(Digit), NEW point \in Int, Len(ds) <= Len(es),
         \A i \in 1..Len(es) : es[i] = IF i <= Len(ds) THEN ds[i] ELSE 0
  PROVE  Marks(es, point) = Marks(ds, point)
<1> DEFINE a == 0
<1>1. \A i \in 1..Len(es) : es[i] # 0 => i - a \in 1..Len(ds) /\ es[i] = ds[i - a]
  OBVIOUS
<1>2. \A k \in 1..Len(ds) : ds[k] # 0 => k + a \in 1..Len(es) /\ es[k + a] = ds[k]
  OBVIOUS
<1>3. a \in Int /\ point + a = point
  OBVIOUS
<1> HIDE DEF a
<1>4. Marks(es, point + a) = Marks(ds, point)
  BY <1>1, <1>2, <1>3, ZerosDoNotCount
<1> QED
  BY <1>3, <1>4

(* What a spelling says: its digits, the point after the whole ones and     *)
(* moved by the exponent.                                                   *)
Written(whole, frac, exp, ds, point) ==
  /\ whole \o frac \in Seq(Digit)
  /\ Len(whole) \in Nat
  /\ Marks(whole \o frac, Len(whole) + exp) = Marks(ds, point)

(* Digits with the point between two of them.                               *)
LEMMA SplitSays ==
  ASSUME NEW ds \in Seq(Digit), NEW point \in 0..Len(ds)
  PROVE  Written(SubSeq(ds, 1, point), SubSeq(ds, point + 1, Len(ds)), 0, ds, point)
<1> DEFINE left == SubSeq(ds, 1, point)
           right == SubSeq(ds, point + 1, Len(ds))
<1>1. /\ left \in Seq(Digit) /\ Len(left) = point
      /\ \A i \in 1..point : left[i] = ds[i]
  OBVIOUS
<1>2. /\ right \in Seq(Digit) /\ Len(right) = Len(ds) - point
      /\ \A i \in 1..(Len(ds) - point) : right[i] = ds[point + i]
  OBVIOUS
<1> HIDE DEF left, right
<1>3. /\ left \o right \in Seq(Digit) /\ Len(left \o right) = Len(ds)
      /\ \A i \in 1..Len(ds) : (left \o right)[i] = ds[i]
  <2>1. left \o right \in Seq(Digit) /\ Len(left \o right) = Len(ds)
    BY <1>1, <1>2
  <2>2. ASSUME NEW i \in 1..Len(ds)
        PROVE  (left \o right)[i] = ds[i]
    <3>1. CASE i <= point
      BY <1>1, <1>2, <3>1
    <3>2. CASE ~(i <= point)
      <4>1. (left \o right)[i] = right[i - point]
        BY <1>1, <1>2, <3>2
      <4>2. i - point \in 1..(Len(ds) - point) /\ point + (i - point) = i
        BY <3>2
      <4> QED
        BY <1>2, <4>1, <4>2
    <3> QED
      BY <3>1, <3>2
  <2> QED
    BY <2>1, <2>2
<1>4. left \o right = ds
  BY <1>3, SameItems
<1>5. Written(left, right, 0, ds, point)
  BY <1>1, <1>4 DEF Written
<1> QED
  BY <1>5 DEF left, right

(* Digits with the point after the first and an exponent.                   *)
LEMMA ExponentSays ==
  ASSUME NEW ds \in Seq(Digit), ds # <<>>, NEW point \in Int
  PROVE  Written(<<ds[1]>>, Tail(ds), point - 1, ds, point)
<1>1. <<ds[1]>> \o Tail(ds) = ds
  OBVIOUS
<1>2. Len(<<ds[1]>>) = 1 /\ 1 + (point - 1) = point
  OBVIOUS
<1> QED
  BY <1>1, <1>2 DEF Written

(* What Zeros are.                                                          *)
LEMMA ZerosAre ==
  ASSUME NEW n \in Nat
  PROVE  Zeros(n) \in Seq(Digit) /\ Len(Zeros(n)) = n /\ \A i \in 1..n : Zeros(n)[i] = 0
BY DEF Zeros, Digit

(* Digits with zeros and the point before them.                             *)
LEMMA LeadSays ==
  ASSUME NEW ds \in Seq(Digit), NEW point \in Int, point <= 0
  PROVE  Written(<< 0 >>, Zeros(-point) \o ds, 0, ds, point)
<1> DEFINE n == -point
           es == << 0 >> \o (Zeros(n) \o ds)
<1>1. n \in Nat /\ Zeros(n) \in Seq(Digit) /\ Len(Zeros(n)) = n /\ \A i \in 1..n : Zeros(n)[i] = 0
  BY ZerosAre
<1>2. << 0 >> \in Seq(Digit)
  BY DEF Digit
<1>3. /\ es \in Seq(Digit) /\ Len(es) = 1 + n + Len(ds)
      /\ \A i \in 1..Len(es) : es[i] = IF i <= 1 + n THEN 0 ELSE ds[i - (1 + n)]
  BY <1>1, <1>2
<1> HIDE DEF es
<1>4. Marks(es, point + (1 + n)) = Marks(ds, point)
  <2> DEFINE a == 1 + n
  <2>1. a \in Int
    BY <1>1
  <2>2. \A i \in 1..Len(es) : es[i] # 0 => i - a \in 1..Len(ds) /\ es[i] = ds[i - a]
    BY <1>1, <1>3
  <2>3. \A k \in 1..Len(ds) : ds[k] # 0 => k + a \in 1..Len(es) /\ es[k + a] = ds[k]
    BY <1>1, <1>3
  <2>4. es \in Seq(Digit)
    BY <1>3
  <2> HIDE DEF a
  <2>5. Marks(es, point + a) = Marks(ds, point)
    BY <2>1, <2>2, <2>3, <2>4, ZerosDoNotCount
  <2> QED
    BY <2>5 DEF a
<1>5. point + (1 + n) = Len(<< 0 >>) + 0 /\ Len(<< 0 >>) \in Nat
  OBVIOUS
<1> QED
  BY <1>3, <1>4, <1>5 DEF Written, es

(* Digits with zeros after them.                                            *)
LEMMA Padded ==
  ASSUME NEW ds \in Seq(Digit), NEW n \in Nat, NEW point \in Int
  PROVE  /\ ds \o Zeros(n) \in Seq(Digit) /\ Len(ds \o Zeros(n)) = Len(ds) + n
         /\ \A i \in 1..(Len(ds) + n) :
              (ds \o Zeros(n))[i] = IF i <= Len(ds) THEN ds[i] ELSE 0
         /\ Marks(ds \o Zeros(n), point) = Marks(ds, point)
<1> DEFINE es == ds \o Zeros(n)
<1>1. Zeros(n) \in Seq(Digit) /\ Len(Zeros(n)) = n /\ \A i \in 1..n : Zeros(n)[i] = 0
  BY ZerosAre
<1>2. /\ es \in Seq(Digit) /\ Len(es) = Len(ds) + n
      /\ \A i \in 1..(Len(ds) + n) : es[i] = IF i <= Len(ds) THEN ds[i] ELSE 0
  BY <1>1
<1> HIDE DEF es
<1>3. Marks(es, point) = Marks(ds, point)
  BY <1>2, ZerosAfter
<1> QED
  BY <1>2, <1>3 DEF es

(* repr says the number.                                                    *)
LEMMA ReprSays ==
  ASSUME NEW d, WellFormed(d), d.digits # <<>>
  PROVE  Written(Repr(d).whole, Repr(d).frac, Repr(d).exp, d.digits, d.point) /\ Repr(d).exp \in Int
<1>0. PICK ds, point : ds = d.digits /\ point = d.point
  OBVIOUS
<1>1. ds \in Seq(Digit) /\ point \in Int /\ ds # <<>> /\ Len(ds) \in Nat
  BY <1>0 DEF WellFormed
<1> DEFINE padded == ds \o Zeros(16)
<1>2. Repr(d) = IF point > 16 \/ point < -3
                  THEN [whole |-> <<ds[1]>>, frac |-> Tail(ds), exp |-> point - 1]
                ELSE IF point <= 0
                  THEN [whole |-> << 0 >>, frac |-> Zeros(-point) \o ds, exp |-> 0]
                ELSE [whole |-> SubSeq(padded, 1, point),
                      frac  |-> IF point < Len(ds) THEN SubSeq(ds, point + 1, Len(ds)) ELSE << 0 >>,
                      exp   |-> 0]
  BY <1>0 DEF Repr
<1>3. /\ padded \in Seq(Digit) /\ Len(padded) = Len(ds) + 16
      /\ \A i \in 1..(Len(ds) + 16) : padded[i] = IF i <= Len(ds) THEN ds[i] ELSE 0
  BY <1>1, Padded
<1> HIDE DEF padded
<1>4. CASE point > 16 \/ point < -3
  <2>1. Written(<<ds[1]>>, Tail(ds), point - 1, ds, point) /\ point - 1 \in Int
    BY <1>1, ExponentSays
  <2> QED
    BY <1>0, <1>2, <1>4, <2>1
<1>5. CASE ~(point > 16 \/ point < -3) /\ point <= 0
  <2>1. Written(<< 0 >>, Zeros(-point) \o ds, 0, ds, point)
    BY <1>1, <1>5, LeadSays
  <2> QED
    BY <1>0, <1>2, <1>5, <2>1
<1>6. CASE point \in 1..16 /\ point < Len(ds)
  <2> DEFINE whole == SubSeq(padded, 1, point)
             left == SubSeq(ds, 1, point)
  <2>1. /\ whole \in Seq(Digit) /\ Len(whole) = point
        /\ \A i \in 1..point : whole[i] = padded[i]
    BY <1>1, <1>3, <1>6
  <2>2. /\ left \in Seq(Digit) /\ Len(left) = point
        /\ \A i \in 1..point : left[i] = ds[i]
    BY <1>1, <1>6
  <2> HIDE DEF whole, left
  <2>3. \A i \in 1..point : padded[i] = ds[i]
    BY <1>1, <1>3, <1>6
  <2>4. whole = left
    BY <2>1, <2>2, <2>3, SameItems
  <2>5. Written(left, SubSeq(ds, point + 1, Len(ds)), 0, ds, point)
    BY <1>1, <1>6, SplitSays DEF left
  <2>6. Repr(d) = [whole |-> whole, frac |-> SubSeq(ds, point + 1, Len(ds)), exp |-> 0]
    BY <1>2, <1>6 DEF whole
  <2> QED
    BY <1>0, <2>4, <2>5, <2>6
<1>7. CASE point \in 1..16 /\ ~(point < Len(ds))
  <2> DEFINE whole == SubSeq(padded, 1, point)
             es == whole \o << 0 >>
  <2>1. /\ whole \in Seq(Digit) /\ Len(whole) = point
        /\ \A i \in 1..point : whole[i] = padded[i]
    BY <1>1, <1>3, <1>7
  <2>2. << 0 >> \in Seq(Digit)
    BY DEF Digit
  <2>3. Repr(d) = [whole |-> whole, frac |-> << 0 >>, exp |-> 0]
    BY <1>2, <1>7
  <2> HIDE DEF whole
  <2>4. \A i \in 1..point : whole[i] = IF i <= Len(ds) THEN ds[i] ELSE 0
    BY <1>1, <1>3, <1>7, <2>1
  <2>5. /\ es \in Seq(Digit) /\ Len(es) = point + 1
        /\ \A i \in 1..(point + 1) : es[i] = IF i <= point THEN whole[i] ELSE 0
    BY <1>7, <2>1, <2>2
  <2> HIDE DEF es
  <2>6. \A i \in 1..Len(es) : es[i] = IF i <= Len(ds) THEN ds[i] ELSE 0
    BY <1>1, <1>7, <2>4, <2>5
  <2>7. Marks(es, point) = Marks(ds, point)
    BY <1>1, <1>7, <2>5, <2>6, ZerosAfter
  <2>8. Written(whole, << 0 >>, 0, ds, point)
    BY <1>1, <1>7, <2>1, <2>5, <2>7 DEF Written, es
  <2> QED
    BY <1>0, <2>3, <2>8
<1>8. point \in 1..16 \/ point > 16 \/ point <= 0
  BY <1>1
<1> QED
  BY <1>1, <1>4, <1>5, <1>6, <1>7, <1>8

(* The digits without the zeros at either end.                              *)
Trimmed(ds, point) ==
  /\ ds \in Seq(Digit) /\ point \in Int
  /\ ds # <<>> /\ ds[1] # 0 /\ ds[Len(ds)] # 0

(* _shortest_digits unfolded, with names for its parts.                      *)
LEMMA ShortestDigitsAre ==
  ASSUME NEW text, NEW raw, raw = text.whole \o text.frac,
         NEW counts, counts = {i \in DOMAIN raw : raw[i] # 0}
  PROVE  /\ ShortestDigits(text).digits = SubSeq(raw, FirstOf(counts), LastOf(counts))
         /\ ShortestDigits(text).point = Len(text.whole) + text.exp - (FirstOf(counts) - 1)
BY DEF ShortestDigits

(* _shortest_digits: of a text that says a number other than 0 it keeps the  *)
(* number and no zero at either end.                                        *)
LEMMA ShortestDigitsSay ==
  ASSUME NEW text, text.whole \o text.frac \in Seq(Digit), Len(text.whole) \in Nat, text.exp \in Int,
         Marks(text.whole \o text.frac, Len(text.whole) + text.exp) # {}
  PROVE  /\ Trimmed(ShortestDigits(text).digits, ShortestDigits(text).point)
         /\ Marks(ShortestDigits(text).digits, ShortestDigits(text).point)
              = Marks(text.whole \o text.frac, Len(text.whole) + text.exp)
<1>0. PICK raw, point : raw = text.whole \o text.frac /\ point = Len(text.whole) + text.exp
  OBVIOUS
<1>1. raw \in Seq(Digit) /\ point \in Int /\ Marks(raw, point) # {}
  BY <1>0
<1>6. PICK counts : counts = {i \in DOMAIN raw : raw[i] # 0}
  OBVIOUS
<1>7. /\ ShortestDigits(text).digits = SubSeq(raw, FirstOf(counts), LastOf(counts))
      /\ ShortestDigits(text).point = Len(text.whole) + text.exp - (FirstOf(counts) - 1)
  BY ONLY <1>0, <1>6, ShortestDigitsAre
<1> DEFINE lo == FirstOf(counts)
           hi == LastOf(counts)
<1>2. raw \in Seq(Digit) /\ point \in Int /\ Len(raw) \in Nat
  BY <1>1
<1>3. counts \subseteq 1..Len(raw) /\ counts \subseteq Nat
  BY <1>2, <1>6
<1>4. counts # {}
  BY <1>1, <1>2, <1>6 DEF Marks
<1>5. /\ \A i \in 1..Len(raw) : raw[i] # 0 => i \in counts
      /\ \A i \in counts : raw[i] # 0
  BY <1>2, <1>6
<1>8. lo \in counts /\ \A j \in counts : lo <= j
  BY <1>3, <1>4, LeastNatural DEF FirstOf
<1>9. hi \in counts /\ \A j \in counts : hi >= j
  BY <1>2, <1>3, <1>4, GreatestOf DEF LastOf
<1> HIDE DEF lo, hi
<1> DEFINE es == SubSeq(raw, lo, hi)
           a == 1 - lo
<1>10. lo \in 1..Len(raw) /\ hi \in 1..Len(raw) /\ lo <= hi
  BY <1>3, <1>8, <1>9
<1>11. /\ es \in Seq(Digit) /\ Len(es) = hi - lo + 1
       /\ \A i \in 1..(hi - lo + 1) : es[i] = raw[i + lo - 1]
  BY <1>2, <1>10
<1>12. a \in Int /\ point + a = point - (lo - 1) /\ \A i \in Int : i - a = i + lo - 1
  BY <1>2, <1>10
<1> HIDE DEF es
<1>13. ASSUME NEW i \in 1..Len(es)
       PROVE  i - a \in 1..Len(raw) /\ es[i] = raw[i - a]
  <2>1. i - a = i + lo - 1 /\ i \in 1..(hi - lo + 1)
    BY <1>10, <1>11, <1>12
  <2>2. es[i] = raw[i + lo - 1] /\ i + lo - 1 \in 1..Len(raw)
    BY <1>2, <1>10, <1>11, <2>1
  <2> QED
    BY <2>1, <2>2
<1>14. ASSUME NEW k \in 1..Len(raw), raw[k] # 0
       PROVE  k + a \in 1..Len(es) /\ es[k + a] = raw[k]
  <2>1. lo <= k /\ k <= hi
    BY <1>3, <1>5, <1>8, <1>9, <1>14
  <2>2. k + a \in 1..(hi - lo + 1) /\ (k + a) + lo - 1 = k
    BY <1>10, <2>1
  <2> QED
    BY <1>11, <2>2
<1> HIDE DEF a
<1>15. Marks(es, point + a) = Marks(raw, point)
  BY <1>2, <1>11, <1>12, <1>13, <1>14, ZerosDoNotCount
<1>16. Trimmed(es, point + a)
  <2>1. es[1] = raw[lo] /\ es[Len(es)] = raw[hi] /\ es # <<>>
    BY <1>10, <1>11
  <2> QED
    BY <1>2, <1>5, <1>8, <1>9, <1>11, <1>12, <2>1 DEF Trimmed
<1>17. ShortestDigits(text).digits = es /\ ShortestDigits(text).point = point + a
  <2>1. ShortestDigits(text).point = Len(text.whole) + text.exp - (lo - 1)
    BY <1>7 DEF lo
  <2>3. Len(text.whole) + text.exp - (lo - 1) = point + (1 - lo)
    BY <1>0, <1>10
  <2>2. ShortestDigits(text).digits = es
    BY <1>7 DEF es, lo, hi
  <2> QED
    BY <2>1, <2>2, <2>3 DEF a
<1> QED
  BY <1>0, <1>15, <1>16, <1>17

(* A digit that counts is found at the same power in what says the same.    *)
LEMMA MarkIsThere ==
  ASSUME NEW ds \in Seq(Digit), NEW p \in Int, NEW es \in Seq(Digit), NEW q \in Int,
         Marks(ds, p) = Marks(es, q), NEW i \in 1..Len(ds), ds[i] # 0
  PROVE  \E k \in 1..Len(es) : es[k] = ds[i] /\ q - k = p - i
<1>1. PICK x : x = [power |-> p - i, digit |-> ds[i]]
  OBVIOUS
<1>2. x \in Marks(es, q)
  BY <1>1, MarksIs
<1>3. PICK k \in 1..Len(es) : x = [power |-> q - k, digit |-> es[k]]
  BY <1>2, MarksIs
<1> QED
  BY <1>1, <1>3

(* Trimmed digits and the place of their point are all there is to tell.    *)
LEMMA MarksTell ==
  ASSUME NEW ds, NEW p, NEW es, NEW q, Trimmed(ds, p), Trimmed(es, q), Marks(ds, p) = Marks(es, q)
  PROVE  ds = es /\ p = q
<1>1. /\ ds \in Seq(Digit) /\ p \in Int /\ ds # <<>> /\ ds[1] # 0 /\ ds[Len(ds)] # 0
      /\ es \in Seq(Digit) /\ q \in Int /\ es # <<>> /\ es[1] # 0 /\ es[Len(es)] # 0
  BY DEF Trimmed
<1>2. /\ Len(ds) \in Nat /\ 1 \in 1..Len(ds) /\ Len(ds) \in 1..Len(ds)
      /\ Len(es) \in Nat /\ 1 \in 1..Len(es) /\ Len(es) \in 1..Len(es)
  BY <1>1
<1>3. ASSUME NEW i \in 1..Len(ds), ds[i] # 0
      PROVE  \E k \in 1..Len(es) : es[k] = ds[i] /\ q - k = p - i
  BY <1>1, <1>3, MarkIsThere
<1>4. ASSUME NEW k \in 1..Len(es), es[k] # 0
      PROVE  \E i \in 1..Len(ds) : ds[i] = es[k] /\ p - i = q - k
  BY <1>1, <1>4, MarkIsThere
<1>5. p = q
  <2>1. PICK k \in 1..Len(es) : q - k = p - 1
    BY <1>1, <1>2, <1>3
  <2>2. PICK i \in 1..Len(ds) : p - i = q - 1
    BY <1>1, <1>2, <1>4
  <2> QED
    BY <1>1, <2>1, <2>2
<1>6. Len(ds) = Len(es)
  <2>1. PICK k \in 1..Len(es) : q - k = p - Len(ds)
    BY <1>1, <1>2, <1>3
  <2>2. PICK i \in 1..Len(ds) : p - i = q - Len(es)
    BY <1>1, <1>2, <1>4
  <2> QED
    BY <1>1, <1>2, <1>5, <2>1, <2>2
<1>7. ASSUME NEW i \in 1..Len(ds)
      PROVE  ds[i] = es[i]
  <2>1. CASE ds[i] # 0
    <3>1. PICK k \in 1..Len(es) : es[k] = ds[i] /\ q - k = p - i
      BY <1>3, <2>1
    <3>2. k = i
      BY <1>1, <1>5, <3>1
    <3> QED
      BY <3>1, <3>2
  <2>2. CASE ds[i] = 0 /\ es[i] # 0
    <3>1. PICK k \in 1..Len(ds) : ds[k] = es[i] /\ p - k = q - i
      BY <1>4, <1>6, <2>2
    <3>2. k = i
      BY <1>1, <1>5, <3>1
    <3> QED
      BY <2>2, <3>1, <3>2
  <2> QED
    BY <2>1, <2>2
<1> QED
  BY <1>1, <1>5, <1>6, <1>7, SameItems

(* The canonical spelling of trimmed digits and their point.                *)
Spelled(neg, digits, point) ==
  LET count == Len(digits)
  IN  IF count <= point /\ point <= ExpUpper
        THEN Numeral(neg, digits \o Zeros(point - count), <<>>, 0)
      ELSE IF 0 < point /\ point <= ExpUpper
        THEN Numeral(neg, SubSeq(digits, 1, point), SubSeq(digits, point + 1, count), 0)
      ELSE IF -6 < point /\ point <= 0
        THEN Numeral(neg, << 0 >>, Zeros(-point) \o digits, 0)
      ELSE Numeral(neg, <<digits[1]>>, Tail(digits), point - 1)

(* It says the number.                                                      *)
LEMMA SpelledSays ==
  ASSUME NEW neg, NEW ds, NEW point, Trimmed(ds, point)
  PROVE  \E whole, frac, exp :
           /\ Spelled(neg, ds, point) = Numeral(neg, whole, frac, exp)
           /\ Written(whole, frac, exp, ds, point) /\ exp \in Int
<1>1. ds \in Seq(Digit) /\ point \in Int /\ ds # <<>> /\ Len(ds) \in Nat
  BY DEF Trimmed
<1>2. CASE Len(ds) <= point /\ point <= ExpUpper
  <2>1. point - Len(ds) \in Nat /\ Len(ds) + (point - Len(ds)) = point
    BY <1>1, <1>2
  <2> DEFINE es == ds \o Zeros(point - Len(ds))
  <2>2. es \in Seq(Digit) /\ Len(es) = point /\ Marks(es, point) = Marks(ds, point)
    <3>1. PICK n \in Nat : n = point - Len(ds)
      BY <2>1
    <3>2. ds \o Zeros(n) \in Seq(Digit) /\ Len(ds \o Zeros(n)) = Len(ds) + n
          /\ Marks(ds \o Zeros(n), point) = Marks(ds, point)
      BY <1>1, Padded
    <3> QED
      BY <2>1, <3>1, <3>2
  <2> HIDE DEF es
  <2>3. es \o <<>> = es /\ Len(es) + 0 = point
    BY <1>1, <2>2
  <2>4. Written(es, <<>>, 0, ds, point)
    BY <1>1, <1>2, <2>2, <2>3 DEF Written
  <2>5. Spelled(neg, ds, point) = Numeral(neg, es, <<>>, 0)
    BY <1>2 DEF Spelled, es
  <2> QED
    BY <2>4, <2>5
<1>3. CASE ~(Len(ds) <= point /\ point <= ExpUpper) /\ 0 < point /\ point <= ExpUpper
  <2>1. point \in 0..Len(ds)
    BY <1>1, <1>3 DEF ExpUpper
  <2>2. Written(SubSeq(ds, 1, point), SubSeq(ds, point + 1, Len(ds)), 0, ds, point)
    BY <1>1, <2>1, SplitSays
  <2>3. Spelled(neg, ds, point)
          = Numeral(neg, SubSeq(ds, 1, point), SubSeq(ds, point + 1, Len(ds)), 0)
    BY <1>3 DEF Spelled
  <2> QED
    BY <2>2, <2>3
<1>4. CASE ~(Len(ds) <= point /\ point <= ExpUpper) /\ ~(0 < point /\ point <= ExpUpper)
           /\ -6 < point /\ point <= 0
  <2>1. Written(<< 0 >>, Zeros(-point) \o ds, 0, ds, point)
    BY <1>1, <1>4, LeadSays
  <2>2. Spelled(neg, ds, point) = Numeral(neg, << 0 >>, Zeros(-point) \o ds, 0)
    BY <1>4 DEF Spelled
  <2> QED
    BY <2>1, <2>2
<1>5. CASE ~(Len(ds) <= point /\ point <= ExpUpper) /\ ~(0 < point /\ point <= ExpUpper)
           /\ ~(-6 < point /\ point <= 0)
  <2>1. Written(<<ds[1]>>, Tail(ds), point - 1, ds, point) /\ point - 1 \in Int
    BY <1>1, ExponentSays
  <2>2. Spelled(neg, ds, point) = Numeral(neg, <<ds[1]>>, Tail(ds), point - 1)
    BY <1>5 DEF Spelled
  <2> QED
    BY <2>1, <2>2
<1> QED
  BY <1>2, <1>3, <1>4, <1>5

(* A float that is not zero has a digit that counts.                        *)
LEMMA NotZero ==
  ASSUME NEW d, WellFormed(d), d.digits # << 0 >>
  PROVE  Marks(d.digits, d.point) # {} /\ d.digits # <<>>
<1>1. PICK i \in 1..Len(d.digits) : d.digits[i] # 0
  BY DEF WellFormed
<1>2. d.digits \in Seq(Digit) /\ d.point \in Int
  BY DEF WellFormed
<1>3. [power |-> d.point - i, digit |-> d.digits[i]] \in Marks(d.digits, d.point)
  BY <1>1, <1>2, MarksIs
<1>4. d.digits # <<>>
  BY <1>1
<1> QED
  BY <1>3, <1>4

(* format_number spells what is left of repr's text.                        *)
LEMMA FormatNumberIs ==
  ASSUME NEW j, WellFormed(Float(j)), Float(j).digits # << 0 >>
  PROVE  \E ds, point :
           /\ Trimmed(ds, point)
           /\ Marks(ds, point) = Marks(Float(j).digits, Float(j).point)
           /\ FormatNumber(j) = Spelled(Float(j).neg, ds, point)
<1>1. PICK d : d = Float(j)
  OBVIOUS
<1>2. PICK text : text = Repr(d)
  OBVIOUS
<1>3. Marks(d.digits, d.point) # {} /\ d.digits # <<>>
  BY <1>1, NotZero
<1>4. Written(text.whole, text.frac, text.exp, d.digits, d.point) /\ text.exp \in Int
  BY <1>1, <1>2, <1>3, ReprSays
<1>5. PICK split : split = ShortestDigits(text)
  OBVIOUS
<1>6. Trimmed(split.digits, split.point) /\ Marks(split.digits, split.point) = Marks(d.digits, d.point)
  <2>1. /\ text.whole \o text.frac \in Seq(Digit) /\ Len(text.whole) \in Nat
        /\ Marks(text.whole \o text.frac, Len(text.whole) + text.exp) = Marks(d.digits, d.point)
    BY <1>4 DEF Written
  <2> QED
    BY <1>3, <1>4, <1>5, <2>1, ShortestDigitsSay
<1>7. FormatNumber(j) = Spelled(d.neg, split.digits, split.point)
  BY ONLY <1>1, <1>2, <1>5, Float(j).digits # << 0 >> DEF FormatNumber, Spelled
<1> QED
  BY <1>1, <1>6, <1>7

(* A quantity is its sign and the digits that count.                        *)
LEMMA QuantitySame ==
  ASSUME NEW neg, NEW A, NEW B, {x \in A : x.digit # 0} = {x \in B : x.digit # 0}
  PROVE  Quantity(neg, A) = Quantity(neg, B)
BY DEF Quantity

(* There is one zero.                                                       *)
LEMMA QuantityNone ==
  ASSUME NEW neg \in BOOLEAN, NEW A, NEW B, {x \in A : x.digit # 0} = {}, {x \in B : x.digit # 0} = {}
  PROVE  Quantity(neg, A) = Quantity(FALSE, B)
BY DEF Quantity

(* The digits that count are the marks.                                     *)
LEMMA MarksCount ==
  ASSUME NEW ds \in Seq(Digit), NEW point \in Int
  PROVE  {x \in AtPowers(ds, point) : x.digit # 0} = Marks(ds, point)
BY DEF AtPowers, Marks

(* format_number: the text says the number.                                 *)
THEOREM NumeralSaysNumber ==
  ASSUME NEW j, WellFormed(Float(j))
  PROVE  NumeralSays(FormatNumber(j)) = DecimalSays(Float(j))
<1>1. PICK d : d = Float(j)
  OBVIOUS
<1>2. d.digits \in Seq(Digit) /\ d.point \in Int /\ d.neg \in BOOLEAN
  BY <1>1 DEF WellFormed
<1>3. CASE d.digits # << 0 >>
  <2>1. PICK ds, point : /\ Trimmed(ds, point)
                         /\ Marks(ds, point) = Marks(d.digits, d.point)
                         /\ FormatNumber(j) = Spelled(d.neg, ds, point)
    BY <1>1, <1>3, FormatNumberIs
  <2>2. PICK whole, frac, exp : /\ Spelled(d.neg, ds, point) = Numeral(d.neg, whole, frac, exp)
                                /\ Written(whole, frac, exp, ds, point) /\ exp \in Int
    BY <2>1, SpelledSays
  <2>3. PICK n : n = FormatNumber(j)
    OBVIOUS
  <2>4. n.neg = d.neg /\ n.whole = whole /\ n.frac = frac /\ n.exp = exp
    BY <2>1, <2>2, <2>3 DEF Numeral
  <2>5. NumeralSays(n) = DecimalSays(d)
    <3>1. PICK raw, p : raw = whole \o frac /\ p = Len(whole) + exp
      OBVIOUS
    <3>2. raw \in Seq(Digit) /\ p \in Int /\ Marks(raw, p) = Marks(d.digits, d.point)
      BY <2>1, <2>2, <3>1 DEF Written
    <3>3. NumeralSays(n) = Quantity(d.neg, AtPowers(raw, p))
      BY ONLY <2>4, <3>1 DEF NumeralSays
    <3>4. DecimalSays(d) = Quantity(d.neg, AtPowers(d.digits, d.point))
      BY DEF DecimalSays
    <3> QED
      BY <1>2, <3>2, <3>3, <3>4, MarksCount, QuantitySame
  <2> QED
    BY <1>1, <2>3, <2>5
<1>4. CASE d.digits = << 0 >>
  <2>1. FormatNumber(j) = Numeral(FALSE, << 0 >>, <<>>, 0)
    BY <1>1, <1>4 DEF FormatNumber
  <2>2. PICK n : n = FormatNumber(j)
    OBVIOUS
  <2>3. n.neg = FALSE /\ n.whole \o n.frac = << 0 >> /\ Len(n.whole) + n.exp = 1
    BY <2>1, <2>2 DEF Numeral
  <2>4. NumeralSays(n) = Quantity(FALSE, AtPowers(<< 0 >>, 1))
    BY ONLY <2>3 DEF NumeralSays
  <2>5. DecimalSays(d) = Quantity(d.neg, AtPowers(d.digits, d.point))
    BY DEF DecimalSays
  <2>6. /\ {x \in AtPowers(<< 0 >>, 1) : x.digit # 0} = {}
        /\ {x \in AtPowers(d.digits, d.point) : x.digit # 0} = {}
    <3>1. \A i \in DOMAIN << 0 >> : << 0 >>[i] = 0
      OBVIOUS
    <3> QED
      BY <1>4, <3>1 DEF AtPowers
  <2>7. Quantity(d.neg, AtPowers(d.digits, d.point)) = Quantity(FALSE, AtPowers(<< 0 >>, 1))
    BY <1>2, <2>6, QuantityNone
  <2> QED
    BY <1>1, <2>2, <2>4, <2>5, <2>7
<1> QED
  BY <1>1, <1>3, <1>4

(* format_number: two numbers have one spelling if and only if they are     *)
(* one number.                                                              *)
THEOREM NumbersTell ==
  ASSUME NEW j, NEW k, WellFormed(Float(j)), WellFormed(Float(k))
  PROVE  FormatNumber(j) = FormatNumber(k) <=> DecimalSays(Float(j)) = DecimalSays(Float(k))
<1>1. FormatNumber(j) = FormatNumber(k) => DecimalSays(Float(j)) = DecimalSays(Float(k))
  <2>1. NumeralSays(FormatNumber(j)) = DecimalSays(Float(j))
    BY NumeralSaysNumber
  <2>2. NumeralSays(FormatNumber(k)) = DecimalSays(Float(k))
    BY NumeralSaysNumber
  <2> QED
    BY ONLY <2>1, <2>2
<1>2. ASSUME DecimalSays(Float(j)) = DecimalSays(Float(k))
      PROVE  FormatNumber(j) = FormatNumber(k)
  <2>1. PICK d, e : d = Float(j) /\ e = Float(k)
    OBVIOUS
  <2>2. /\ d.digits \in Seq(Digit) /\ d.point \in Int /\ d.neg \in BOOLEAN
        /\ e.digits \in Seq(Digit) /\ e.point \in Int /\ e.neg \in BOOLEAN
    BY <2>1 DEF WellFormed
  <2>3. /\ Marks(d.digits, d.point) = Marks(e.digits, e.point)
        /\ Marks(d.digits, d.point) # {} => d.neg = e.neg
    <3>1. ASSUME NEW f, f.digits \in Seq(Digit), f.point \in Int, f.neg \in BOOLEAN
          PROVE  /\ DecimalSays(f).at = Marks(f.digits, f.point)
                 /\ Marks(f.digits, f.point) # {} => DecimalSays(f).neg = f.neg
      <4> DEFINE B == AtPowers(f.digits, f.point)
      <4>1. {x \in B : x.digit # 0} = Marks(f.digits, f.point)
        BY <3>1, MarksCount
      <4>2. DecimalSays(f) = Quantity(f.neg, B)
        BY DEF DecimalSays
      <4> HIDE DEF B
      <4>3. /\ Quantity(f.neg, B).at = {x \in B : x.digit # 0}
            /\ {x \in B : x.digit # 0} # {} => Quantity(f.neg, B).neg = f.neg
        BY <3>1 DEF Quantity
      <4> QED
        BY <4>1, <4>2, <4>3
    <3>2. DecimalSays(d) = DecimalSays(e)
      BY <1>2, <2>1
    <3> QED
      BY <2>2, <3>1, <3>2
  <2>4. CASE d.digits # << 0 >> /\ e.digits # << 0 >>
    <3>1. PICK ds, p : /\ Trimmed(ds, p) /\ Marks(ds, p) = Marks(d.digits, d.point)
                       /\ FormatNumber(j) = Spelled(d.neg, ds, p)
      BY <2>1, <2>4, FormatNumberIs
    <3>2. PICK es, q : /\ Trimmed(es, q) /\ Marks(es, q) = Marks(e.digits, e.point)
                       /\ FormatNumber(k) = Spelled(e.neg, es, q)
      BY <2>1, <2>4, FormatNumberIs
    <3>3. ds = es /\ p = q
      BY <2>3, <3>1, <3>2, MarksTell
    <3>4. d.neg = e.neg
      BY <2>1, <2>3, <2>4, NotZero
    <3> QED
      BY <3>1, <3>2, <3>3, <3>4
  <2>5. CASE d.digits = << 0 >> /\ e.digits = << 0 >>
    BY <2>1, <2>5 DEF FormatNumber
  <2>6. ASSUME NEW f, f.digits = << 0 >>, f.point \in Int
        PROVE  Marks(f.digits, f.point) = {}
    BY <2>6 DEF Marks
  <2>7. CASE d.digits = << 0 >> /\ e.digits # << 0 >>
    BY <2>1, <2>2, <2>3, <2>6, <2>7, NotZero
  <2>8. CASE d.digits # << 0 >> /\ e.digits = << 0 >>
    BY <2>1, <2>2, <2>3, <2>6, <2>8, NotZero
  <2> QED
    BY <2>4, <2>5, <2>7, <2>8
<1> QED
  BY <1>1, <1>2

(* What the recursion of DigitsOf builds.                                   *)
DigitsTo(f, n) ==
  f = [m \in 0..n |-> IF m < 10 THEN <<m>> ELSE Append(f[m \div 10], m % 10)]

(* What a number is made of: its tenth and its last digit.                  *)
LEMMA TenthIsLess ==
  ASSUME NEW m \in Nat, ~(m < 10)
  PROVE  m \div 10 \in 0..(m - 1) /\ m \div 10 # 0 /\ m % 10 \in Digit /\ m = 10 * (m \div 10) + (m % 10)
<1>1. m \div 10 \in Int
  OBVIOUS
<1>2. m % 10 \in 0..9
  OBVIOUS
<1>3. m = 10 * (m \div 10) + (m % 10)
  OBVIOUS
<1> DEFINE a == m \div 10
           b == m % 10
<1>4. a \in Int /\ b \in 0..9 /\ m = 10 * a + b
  BY <1>1, <1>2, <1>3
<1> HIDE DEF a, b
<1>5. a \in 0..(m - 1) /\ a # 0 /\ b \in Digit
  BY <1>4 DEF Digit
<1> QED
  BY <1>4, <1>5 DEF a, b

(* The recursion has a value for every number.                              *)
LEMMA DigitsExist ==
  ASSUME NEW n \in Nat
  PROVE  \E f : DigitsTo(f, n)
<1> DEFINE T == {k \in Nat : ~\E f : DigitsTo(f, k)}
<1>1. SUFFICES ASSUME T # {}
               PROVE  FALSE
  OBVIOUS
<1>2. PICK k \in T : \A i \in T : k <= i
  BY <1>1, LeastNatural
<1>3. k \in Nat
  BY <1>2
<1>4. k # 0
  <2>1. DigitsTo([m \in 0..0 |-> <<m>>], 0)
    BY DEF DigitsTo
  <2> QED
    BY <1>2, <2>1
<1>5. PICK f : DigitsTo(f, k - 1)
  <2>1. k - 1 \in Nat /\ k - 1 \notin T
    BY <1>2, <1>4
  <2> QED
    BY <2>1
<1>6. \A m \in 0..(k - 1) : f[m] = IF m < 10 THEN <<m>> ELSE Append(f[m \div 10], m % 10)
  BY <1>5 DEF DigitsTo
<1> DEFINE next(m) == IF m < 10 THEN <<m>> ELSE Append(f[m \div 10], m % 10)
           g == [m \in 0..k |-> next(m)]
<1>7. \A m \in 0..(k - 1) : g[m] = f[m]
  <2>1. ASSUME NEW m \in 0..(k - 1)
        PROVE  g[m] = f[m]
    <3>1. m \in 0..k
      BY <1>3
    <3>2. g[m] = next(m)
      BY <3>1
    <3> QED
      BY <1>6, <3>2
  <2> QED
    BY <2>1
<1>8. ASSUME NEW m \in 0..k
      PROVE  g[m] = IF m < 10 THEN <<m>> ELSE Append(g[m \div 10], m % 10)
  <2>1. ~(m < 10) => g[m \div 10] = f[m \div 10]
    <3>1. SUFFICES ASSUME ~(m < 10)
                   PROVE  m \div 10 \in 0..(k - 1)
      BY <1>7
    <3> QED
      BY <1>3, <3>1, TenthIsLess
  <2> QED
    BY <2>1
<1> HIDE DEF g
<1>9. g = [m \in 0..k |-> IF m < 10 THEN <<m>> ELSE Append(g[m \div 10], m % 10)]
  BY <1>8 DEF g
<1> QED
  BY <1>2, <1>9 DEF DigitsTo

(* However far two such recursions go, they agree where both have a value.  *)
LEMMA DigitsAgree ==
  ASSUME NEW n \in Nat, NEW k \in Nat, n <= k, NEW f, DigitsTo(f, n), NEW g, DigitsTo(g, k)
  PROVE  \A m \in 0..n : f[m] = g[m]
<1> DEFINE T == {m \in 0..n : f[m] # g[m]}
<1>1. SUFFICES ASSUME T # {}
               PROVE  FALSE
  OBVIOUS
<1>2. PICK m \in T : \A i \in T : m <= i
  <2>1. T \subseteq Nat
    OBVIOUS
  <2> QED
    BY <1>1, <2>1, LeastNatural
<1>3. m \in 0..n /\ m \in 0..k /\ m \in Nat
  BY <1>2
<1>4. f[m] = IF m < 10 THEN <<m>> ELSE Append(f[m \div 10], m % 10)
  BY <1>3 DEF DigitsTo
<1>5. g[m] = IF m < 10 THEN <<m>> ELSE Append(g[m \div 10], m % 10)
  BY <1>3 DEF DigitsTo
<1>6. ~(m < 10) => f[m \div 10] = g[m \div 10]
  <2>1. SUFFICES ASSUME ~(m < 10)
                 PROVE  m \div 10 \in 0..n /\ m \div 10 \notin T
    OBVIOUS
  <2>2. m \div 10 \in 0..(m - 1)
    BY <1>3, <2>1, TenthIsLess
  <2> QED
    BY <1>2, <1>3, <2>2
<1> QED
  BY <1>2, <1>4, <1>5, <1>6

(* DigitsOf is the value of that recursion.                                 *)
LEMMA DigitsOfIs ==
  ASSUME NEW n \in Nat, NEW f, DigitsTo(f, n)
  PROVE  DigitsOf(n) = f[n]
<1> DEFINE g == CHOOSE g : DigitsTo(g, n)
<1>1. DigitsTo(g, n)
  OBVIOUS
<1>2. DigitsOf(n) = g[n]
  BY DEF DigitsOf, DigitsTo
<1> HIDE DEF g
<1> QED
  BY <1>1, <1>2, DigitsAgree

(* The digits of a number are those of its tenth and its last.              *)
LEMMA DigitsOfStep ==
  ASSUME NEW n \in Nat
  PROVE  DigitsOf(n) = IF n < 10 THEN <<n>> ELSE Append(DigitsOf(n \div 10), n % 10)
<1>1. PICK f : DigitsTo(f, n)
  BY DigitsExist
<1>2. f[n] = IF n < 10 THEN <<n>> ELSE Append(f[n \div 10], n % 10)
  <2>1. n \in 0..n
    OBVIOUS
  <2> QED
    BY <1>1, <2>1 DEF DigitsTo
<1>3. ~(n < 10) => f[n \div 10] = DigitsOf(n \div 10)
  <2>1. SUFFICES ASSUME ~(n < 10)
                 PROVE  f[n \div 10] = DigitsOf(n \div 10)
    OBVIOUS
  <2>2. PICK k \in Nat : k = n \div 10 /\ k <= n
    BY <2>1, TenthIsLess
  <2>3. PICK g : DigitsTo(g, k)
    BY DigitsExist
  <2>4. g[k] = f[k]
    BY <1>1, <2>2, <2>3, DigitsAgree
  <2> QED
    BY <2>2, <2>3, <2>4, DigitsOfIs
<1> QED
  BY <1>1, <1>2, <1>3, DigitsOfIs

(* The digits of a number: at least one, the first of them not 0 but for    *)
(* the number 0.                                                            *)
LEMMA DigitsOfTyped ==
  ASSUME NEW n \in Nat
  PROVE  /\ DigitsOf(n) \in Seq(Digit) /\ DigitsOf(n) # <<>>
         /\ n = 0 => DigitsOf(n) = << 0 >>
         /\ n # 0 => DigitsOf(n)[1] # 0
<1> DEFINE Right(k) == /\ DigitsOf(k) \in Seq(Digit) /\ DigitsOf(k) # <<>>
                       /\ k # 0 => DigitsOf(k)[1] # 0
           T == {k \in Nat : ~Right(k)}
<1>1. T = {}
  <2>1. SUFFICES ASSUME T # {}
                 PROVE  FALSE
    OBVIOUS
  <2>2. PICK k \in T : \A i \in T : k <= i
    BY <2>1, LeastNatural
  <2>3. CASE k < 10
    <3>1. DigitsOf(k) = <<k>>
      BY <2>2, <2>3, DigitsOfStep
    <3>2. k \in Digit
      BY <2>2, <2>3 DEF Digit
    <3>3. <<k>> \in Seq(Digit) /\ <<k>> # <<>> /\ <<k>>[1] = k
      BY <3>2
    <3>4. Right(k)
      BY <3>1, <3>3
    <3> QED
      BY <2>2, <3>4
  <2>4. CASE ~(k < 10)
    <3>1. k \div 10 \in Nat /\ k \div 10 # 0 /\ k % 10 \in Digit /\ k \div 10 < k
      BY <2>2, <2>4, TenthIsLess
    <3>2. Right(k \div 10)
      BY <2>2, <3>1
    <3>3. DigitsOf(k) = Append(DigitsOf(k \div 10), k % 10)
      BY <2>2, <2>4, DigitsOfStep
    <3>4. Right(k)
      BY <3>1, <3>2, <3>3
    <3> QED
      BY <2>2, <3>4
  <2> QED
    BY <2>3, <2>4
<1>2. n = 0 => DigitsOf(n) = << 0 >>
  BY DigitsOfStep
<1> QED
  BY <1>1, <1>2

(* Two numbers have not the same digits.                                    *)
LEMMA DigitsOfTell ==
  ASSUME NEW m \in Nat, NEW n \in Nat, DigitsOf(m) = DigitsOf(n)
  PROVE  m = n
<1> DEFINE T == {k \in Nat : \E i \in Nat : i # k /\ DigitsOf(k) = DigitsOf(i)}
<1>1. SUFFICES ASSUME T # {}
               PROVE  FALSE
  OBVIOUS
<1>2. PICK k \in T : \A i \in T : k <= i
  BY <1>1, LeastNatural
<1>3. PICK i \in Nat : i # k /\ DigitsOf(k) = DigitsOf(i)
  BY <1>2
<1>4. k < i
  BY <1>2, <1>3
<1>5. ASSUME NEW p \in Nat
      PROVE  DigitsOf(p) = IF p < 10 THEN <<p>> ELSE Append(DigitsOf(p \div 10), p % 10)
  BY DigitsOfStep
<1>6. CASE i < 10
  <2>1. DigitsOf(i) = <<i>> /\ DigitsOf(k) = <<k>>
    BY <1>2, <1>3, <1>4, <1>5, <1>6
  <2> QED
    BY <1>3, <2>1
<1>7. CASE ~(i < 10)
  <2>1. PICK a \in Nat, b \in Digit : a = i \div 10 /\ b = i % 10 /\ i = 10 * a + b /\ a # 0
    BY <1>7, TenthIsLess
  <2>2. DigitsOf(i) = Append(DigitsOf(a), b) /\ DigitsOf(a) \in Seq(Digit) /\ DigitsOf(a) # <<>>
    BY <1>5, <1>7, <2>1, DigitsOfTyped
  <2>3. Len(DigitsOf(i)) >= 2 /\ Len(DigitsOf(i)) = Len(DigitsOf(a)) + 1
    BY <2>2
  <2>4. ~(k < 10)
    <3>1. k < 10 => DigitsOf(k) = <<k>>
      BY <1>2, <1>5
    <3>2. k < 10 => Len(DigitsOf(k)) = 1
      BY <3>1
    <3> QED
      BY <1>3, <2>3, <3>2
  <2>5. PICK c \in Nat, e \in Digit : c = k \div 10 /\ e = k % 10 /\ k = 10 * c + e /\ c < k
    BY <1>2, <2>4, TenthIsLess
  <2>6. DigitsOf(k) = Append(DigitsOf(c), e) /\ DigitsOf(c) \in Seq(Digit)
    BY <1>2, <1>5, <2>4, <2>5, DigitsOfTyped
  <2>7. DigitsOf(c) = DigitsOf(a) /\ e = b
    <3>1. PICK s, t : s = DigitsOf(c) /\ t = DigitsOf(a)
      OBVIOUS
    <3>2. s \in Seq(Digit) /\ t \in Seq(Digit) /\ Append(s, e) = Append(t, b)
      BY <1>3, <2>2, <2>6, <3>1
    <3>3. Len(s) = Len(t) /\ e = b
      <4>1. Len(Append(s, e)) = Len(s) + 1 /\ Len(Append(t, b)) = Len(t) + 1
        BY <3>2
      <4>2. Append(s, e)[Len(s) + 1] = e /\ Append(t, b)[Len(t) + 1] = b
        BY <3>2
      <4>3. Len(s) \in Nat /\ Len(t) \in Nat
        BY <3>2
      <4>4. Len(s) = Len(t)
        BY <3>2, <4>1, <4>3
      <4> QED
        BY <3>2, <4>2, <4>4
    <3>4. \A x \in 1..Len(s) : s[x] = t[x]
      BY <3>2, <3>3
    <3>5. s = t
      BY <3>2, <3>3, <3>4, SameItems
    <3> QED
      BY <3>1, <3>3, <3>5
  <2>8. c \notin T
    BY <1>2, <2>5
  <2>9. a = c
    BY <2>7, <2>8
  <2> QED
    BY <1>3, <2>1, <2>5, <2>7, <2>9
<1> QED
  BY <1>6, <1>7

(* The ints that a float holds, with or without a half.                     *)
Exact == {n \in Int : -(2^52) < n /\ n < 2^52}

Absolute(n) == IF n < 0 THEN -n ELSE n

(* float() of an int, of the float equal to it and of what is a half more.  *)
LEMMA FloatIs ==
  ASSUME NEW n \in Int
  PROVE  /\ Absolute(n) \in Nat
         /\ Float(Num(n)) = Decimal(n < 0, DigitsOf(Absolute(n)), Len(DigitsOf(Absolute(n))))
         /\ Float(Real(n, TRUE)) = Float(Num(n))
         /\ Float(Real(n, FALSE))
              = Decimal(n < 0, Append(DigitsOf(Absolute(n)), 5), Len(DigitsOf(Absolute(n))))
<1>1. Absolute(n) \in Nat
  BY DEF Absolute
<1>2. Float(Num(n)) = Decimal(n < 0, DigitsOf(Absolute(n)), Len(DigitsOf(Absolute(n))))
  BY DEF Float, Num, Absolute
<1>3. Float(Real(n, TRUE)) = Decimal(n < 0, DigitsOf(Absolute(n)), Len(DigitsOf(Absolute(n))))
  BY DEF Float, Real, Absolute
<1>4. Float(Real(n, FALSE))
        = Decimal(n < 0, Append(DigitsOf(Absolute(n)), 5), Len(DigitsOf(Absolute(n))))
  BY DEF Float, Real, Absolute
<1> QED
  BY <1>1, <1>2, <1>3, <1>4

(* These are floats as floats are.                                          *)
LEMMA FloatWellFormed ==
  ASSUME NEW n \in Int
  PROVE  WellFormed(Float(Num(n))) /\ WellFormed(Float(Real(n, FALSE)))
<1> DEFINE ds == DigitsOf(Absolute(n))
<1>1. Absolute(n) \in Nat
  BY FloatIs
<1>2. /\ ds \in Seq(Digit) /\ ds # <<>>
      /\ Absolute(n) = 0 => ds = << 0 >>
      /\ Absolute(n) # 0 => ds[1] # 0
  BY <1>1, DigitsOfTyped
<1>3. /\ Float(Num(n)) = Decimal(n < 0, ds, Len(ds))
      /\ Float(Real(n, FALSE)) = Decimal(n < 0, Append(ds, 5), Len(ds))
  BY FloatIs
<1> HIDE DEF ds
<1>4. 1 \in 1..Len(ds) /\ Len(ds) \in Int
  BY <1>2
<1>5. 5 \in Digit
  BY DEF Digit
<1>6. /\ Append(ds, 5) \in Seq(Digit)
      /\ Append(ds, 5)[Len(ds) + 1] = 5 /\ Len(ds) + 1 \in 1..Len(Append(ds, 5))
  BY <1>2, <1>5
<1>7. (n < 0) \in BOOLEAN
  OBVIOUS
<1>8. ASSUME NEW d, NEW es, d = Decimal(n < 0, es, Len(ds)), es \in Seq(Digit),
             es = << 0 >> \/ \E i \in 1..Len(es) : es[i] # 0
      PROVE  WellFormed(d)
  <2>1. d.digits = es /\ d.point = Len(ds) /\ d.neg = (n < 0)
    BY <1>8 DEF Decimal
  <2> QED
    BY <1>4, <1>7, <1>8, <2>1 DEF WellFormed
<1>9. ds = << 0 >> \/ \E i \in 1..Len(ds) : ds[i] # 0
  BY <1>2, <1>4
<1>10. \E i \in 1..Len(Append(ds, 5)) : Append(ds, 5)[i] # 0
  BY <1>6
<1> QED
  BY <1>2, <1>3, <1>6, <1>8, <1>9, <1>10

(* Digits whose first counts, with the point after the last.                *)
LEMMA LeadingTell ==
  ASSUME NEW ds \in Seq(Digit), NEW es \in Seq(Digit), ds # <<>>, es # <<>>, ds[1] # 0, es[1] # 0,
         Marks(ds, Len(ds)) = Marks(es, Len(es))
  PROVE  ds = es
<1>1. Len(ds) \in Nat /\ Len(es) \in Nat /\ 1 \in 1..Len(ds) /\ 1 \in 1..Len(es)
  OBVIOUS
<1>2. PICK p \in Int, q \in Int : p = Len(ds) /\ q = Len(es) /\ Marks(ds, p) = Marks(es, q)
  BY <1>1
<1>7. p \in Int /\ q \in Int /\ Marks(ds, p) = Marks(es, q)
  BY <1>2
<1>3. ASSUME NEW i \in 1..Len(ds), ds[i] # 0
      PROVE  \E k \in 1..Len(es) : es[k] = ds[i] /\ q - k = p - i
  BY <1>7, <1>3, MarkIsThere
<1>4. ASSUME NEW k \in 1..Len(es), es[k] # 0
      PROVE  \E i \in 1..Len(ds) : ds[i] = es[k] /\ p - i = q - k
  BY <1>7, <1>4, MarkIsThere
<1>5. p = q
  <2>1. PICK k \in 1..Len(es) : q - k = p - 1
    BY <1>1, <1>3
  <2>2. PICK i \in 1..Len(ds) : p - i = q - 1
    BY <1>1, <1>4
  <2> QED
    BY <1>1, <2>1, <2>2
<1>6. ASSUME NEW i \in 1..Len(ds)
      PROVE  ds[i] = es[i]
  <2>1. CASE ds[i] # 0
    <3>1. PICK k \in 1..Len(es) : es[k] = ds[i] /\ q - k = p - i
      BY <1>3, <2>1
    <3>2. k = i
      BY <1>1, <1>5, <3>1
    <3> QED
      BY <3>1, <3>2
  <2>2. CASE ds[i] = 0 /\ es[i] # 0
    <3>1. PICK k \in 1..Len(ds) : ds[k] = es[i] /\ p - k = q - i
      BY <1>2, <1>4, <1>5, <2>2
    <3>2. k = i
      BY <1>1, <1>5, <3>1
    <3> QED
      BY <2>2, <3>1, <3>2
  <2> QED
    BY <2>1, <2>2
<1> QED
  BY <1>2, <1>5, <1>6, SameItems

(* canonicalise: an int and the float equal to it have one spelling, two    *)
(* ints have two.                                                           *)
THEOREM IntegersTell ==
  ASSUME NEW m \in Exact, NEW n \in Exact
  PROVE  /\ FormatNumber(Num(m)) = FormatNumber(Num(n)) <=> m = n
         /\ FormatNumber(Real(m, TRUE)) = FormatNumber(Num(m))
<1>1. m \in Int /\ n \in Int
  BY DEF Exact
<1>2. FormatNumber(Real(m, TRUE)) = FormatNumber(Num(m))
  <2>1. Float(Real(m, TRUE)) = Float(Num(m))
    BY <1>1, FloatIs
  <2> QED
    BY ONLY <2>1 DEF FormatNumber
<1>3. ASSUME FormatNumber(Num(m)) = FormatNumber(Num(n))
      PROVE  m = n
  <2> DEFINE a == Absolute(m)
             b == Absolute(n)
             ds == DigitsOf(a)
             es == DigitsOf(b)
  <2>1. a \in Nat /\ b \in Nat
    BY <1>1, FloatIs
  <2>2. /\ ds \in Seq(Digit) /\ ds # <<>> /\ (a = 0 => ds = << 0 >>) /\ (a # 0 => ds[1] # 0)
        /\ es \in Seq(Digit) /\ es # <<>> /\ (b = 0 => es = << 0 >>) /\ (b # 0 => es[1] # 0)
    BY <2>1, DigitsOfTyped
  <2>3. Float(Num(m)) = Decimal(m < 0, ds, Len(ds)) /\ Float(Num(n)) = Decimal(n < 0, es, Len(es))
    BY <1>1, FloatIs
  <2>4. DecimalSays(Float(Num(m))) = DecimalSays(Float(Num(n)))
    BY <1>1, <1>3, FloatWellFormed, NumbersTell
  <2>5. ds = es => a = b
    BY <2>1, DigitsOfTell
  <2> HIDE DEF ds, es
  <2>6. /\ DecimalSays(Float(Num(m))) = Quantity(m < 0, AtPowers(ds, Len(ds)))
        /\ DecimalSays(Float(Num(n))) = Quantity(n < 0, AtPowers(es, Len(es)))
    BY <2>3 DEF DecimalSays, Decimal
  <2>7. /\ Quantity(m < 0, AtPowers(ds, Len(ds))).at = Marks(ds, Len(ds))
        /\ Quantity(n < 0, AtPowers(es, Len(es))).at = Marks(es, Len(es))
    BY <2>2, MarksCount DEF Quantity
  <2>8. Marks(ds, Len(ds)) = Marks(es, Len(es))
    BY <2>4, <2>6, <2>7
  <2>9. ASSUME NEW fs \in Seq(Digit), fs = << 0 >>
        PROVE  Marks(fs, Len(fs)) = {}
    BY <2>9 DEF Marks
  <2>10. ASSUME NEW fs \in Seq(Digit), fs # <<>>, fs[1] # 0
         PROVE  Marks(fs, Len(fs)) # {}
    <3>1. 1 \in 1..Len(fs) /\ Len(fs) \in Int
      BY <2>10
    <3>2. [power |-> Len(fs) - 1, digit |-> fs[1]] \in Marks(fs, Len(fs))
      BY <2>10, <3>1, MarksIs
    <3> QED
      BY <3>2
  <2>11. CASE a = 0 \/ b = 0
    <3>1. a = 0 /\ b = 0
      BY <2>2, <2>8, <2>9, <2>10, <2>11
    <3> QED
      BY <1>1, <3>1 DEF Absolute
  <2>12. CASE a # 0 /\ b # 0
    <3>1. a = b
      BY <2>2, <2>5, <2>8, <2>12, LeadingTell
    <3>2. (m < 0) <=> (n < 0)
      <4>1. Marks(ds, Len(ds)) # {} /\ Marks(es, Len(es)) # {}
        BY <2>2, <2>10, <2>12
      <4>2. ASSUME NEW neg \in BOOLEAN, NEW fs \in Seq(Digit), Marks(fs, Len(fs)) # {}
            PROVE  Quantity(neg, AtPowers(fs, Len(fs))).neg = neg
        <5>1. {x \in AtPowers(fs, Len(fs)) : x.digit # 0} # {}
          BY <4>2, MarksCount
        <5> QED
          BY <4>2, <5>1 DEF Quantity
      <4>3. (m < 0) \in BOOLEAN /\ (n < 0) \in BOOLEAN
        OBVIOUS
      <4> QED
        BY <2>2, <2>4, <2>6, <4>1, <4>2, <4>3
    <3> QED
      BY <1>1, <3>1, <3>2 DEF Absolute
  <2> QED
    BY <2>11, <2>12
<1> QED
  BY <1>2, <1>3

------------------------------------------------------------------------------
(* A relayed connection.                                                    *)

(* What the second upstream can send, and what can be under way.            *)
Texts == Documents \cup {Garbage}
Frames == {Sent(text) : text \in Texts} \cup {Close(how) : how \in {"clean", "broken"}}

(* Raises and Good for a transform that is given.                           *)
Throws(how, doc) == how = "custom" /\ doc \notin DOMAIN Custom

Kept(how, texts) ==
  SX!FlattenSeq([i \in DOMAIN texts |->
                   IF texts[i] = Garbage \/ Throws(how, texts[i]) THEN <<>> ELSE <<texts[i]>>])

(* Of the texts sent the first n have been taken, the next k are under way. *)
Account(n, k) ==
  /\ n + k <= Len(sent)
  /\ relayed = Kept(transform, SubSeq(sent, 1, n))
  /\ \A i \in 1..n : sent[i] = Garbage \/ ~Throws(transform, sent[i])
  /\ \A i \in 1..k : wire[i] = Sent(sent[n + i])
  /\ \/ Len(wire) = k /\ n + k = Len(sent)
     \/ Len(wire) = k + 1 /\ IsClose(wire[k + 1])

(* The invariant of a connection.                                           *)
Delivered ==
  /\ sent \in Seq(Texts)
  /\ wire \in Seq(Frames)
  /\ link # "open" => wire = <<>> /\ sent = <<>> /\ relayed = <<>>
  /\ \E n, k \in Nat : Account(n, k)

(* A text is not a close, and holds what was sent.                          *)
LEMMA FrameIs ==
  /\ \A text : ~IsClose(Sent(text)) /\ Sent(text).text = text
  /\ \A how : IsClose(Close(how))
BY DEF IsClose, Sent, Close

(* What is kept of one text more.                                           *)
LEMMA KeptGrows ==
  ASSUME NEW how, NEW texts \in Seq(Texts), NEW text \in Texts
  PROVE  /\ Kept(how, texts) \in Seq(Texts)
         /\ Kept(how, Append(texts, text))
              = IF text = Garbage \/ Throws(how, text) THEN Kept(how, texts)
                                                       ELSE Append(Kept(how, texts), text)
<1> DEFINE piece(t) == IF t = Garbage \/ Throws(how, t) THEN <<>> ELSE <<t>>
           pieces == [i \in DOMAIN texts |-> piece(texts[i])]
           more == Append(texts, text)
<1>1. \A t \in Texts : piece(t) \in Seq(Texts)
  OBVIOUS
<1>3. DOMAIN texts = 1..Len(texts) /\ Len(texts) \in Nat
  OBVIOUS
<1>2. pieces \in Seq(Seq(Texts)) /\ Len(pieces) = Len(texts)
  <2>1. \A i \in 1..Len(texts) : texts[i] \in Texts
    OBVIOUS
  <2> HIDE DEF piece
  <2>2. \A i \in 1..Len(texts) : piece(texts[i]) \in Seq(Texts)
    BY <1>1, <2>1
  <2> QED
    BY <1>3, <2>2
<1>4. /\ DOMAIN more = 1..(Len(texts) + 1) /\ more[Len(texts) + 1] = text
      /\ \A i \in 1..Len(texts) : more[i] = texts[i]
  OBVIOUS
<1>5. [i \in DOMAIN more |-> piece(more[i])] = Append(pieces, piece(text))
  <2>1. Append(pieces, piece(text))
          = [i \in 1..(Len(texts) + 1) |-> IF i <= Len(texts) THEN pieces[i] ELSE piece(text)]
    BY <1>1, <1>2, <1>3
  <2>2. \A i \in 1..(Len(texts) + 1) :
          piece(more[i]) = IF i <= Len(texts) THEN pieces[i] ELSE piece(text)
    BY <1>3, <1>4
  <2> QED
    BY <1>4, <2>1, <2>2
<1>6. \A ss : SX!FlattenSeq(ss) = LX!FlattenSeq(ss)
  BY DEF SX!FlattenSeq, LX!FlattenSeq
<1>7. Kept(how, texts) = LX!FlattenSeq(pieces)
  BY <1>6 DEF Kept
<1>8. Kept(how, more) = LX!FlattenSeq(Append(pieces, piece(text)))
  BY <1>5, <1>6 DEF Kept
<1> HIDE DEF pieces, more, piece
<1>9. /\ LX!FlattenSeq(pieces) \in Seq(Texts)
      /\ LX!FlattenSeq(Append(pieces, piece(text))) = LX!FlattenSeq(pieces) \o piece(text)
  BY <1>1, <1>2, FlattenAppend
<1>10. PICK kept \in Seq(Texts) : kept = Kept(how, texts)
  BY <1>7, <1>9
<1>11. Kept(how, more) = kept \o piece(text)
  BY <1>7, <1>8, <1>9, <1>10
<1>12. CASE text = Garbage \/ Throws(how, text)
  <2>1. piece(text) = <<>>
    BY <1>12 DEF piece
  <2>2. kept \o <<>> = kept
    OBVIOUS
  <2> QED
    BY <1>10, <1>11, <1>12, <2>1, <2>2 DEF more
<1>13. CASE ~(text = Garbage \/ Throws(how, text))
  <2>1. piece(text) = <<text>>
    BY <1>13 DEF piece
  <2>2. kept \o <<text>> = Append(kept, text)
    OBVIOUS
  <2> QED
    BY <1>10, <1>11, <1>13, <2>1, <2>2 DEF more
<1> QED
  BY <1>12, <1>13

(* Of no texts nothing is kept.                                             *)
LEMMA KeptNone ==
  ASSUME NEW how
  PROVE  Kept(how, <<>>) = <<>>
BY DEF Kept, SX!FlattenSeq

(* One item more of the first ones.                                         *)
LEMMA FirstOnes ==
  ASSUME NEW T, NEW s \in Seq(T), NEW n \in Nat, n < Len(s)
  PROVE  /\ SubSeq(s, 1, n) \in Seq(T) /\ s[n + 1] \in T
         /\ SubSeq(s, 1, n + 1) = Append(SubSeq(s, 1, n), s[n + 1])
<1>1. /\ SubSeq(s, 1, n) \in Seq(T) /\ Len(SubSeq(s, 1, n)) = n
      /\ \A i \in 1..n : SubSeq(s, 1, n)[i] = s[i]
  OBVIOUS
<1>2. /\ SubSeq(s, 1, n + 1) \in Seq(T) /\ Len(SubSeq(s, 1, n + 1)) = n + 1
      /\ \A i \in 1..(n + 1) : SubSeq(s, 1, n + 1)[i] = s[i]
  OBVIOUS
<1>3. s[n + 1] \in T
  OBVIOUS
<1> DEFINE a == SubSeq(s, 1, n)
           b == SubSeq(s, 1, n + 1)
<1> HIDE DEF a, b
<1>4. b = Append(a, s[n + 1])
  <2>1. a \in Seq(T) /\ Len(a) = n /\ \A i \in 1..n : a[i] = s[i]
    BY <1>1 DEF a
  <2>2. b \in Seq(T) /\ Len(b) = n + 1 /\ \A i \in 1..(n + 1) : b[i] = s[i]
    BY <1>2 DEF b
  <2>3. Append(a, s[n + 1]) \in Seq(T) /\ Len(Append(a, s[n + 1])) = n + 1
    BY <1>3, <2>1
  <2>4. ASSUME NEW i \in 1..(n + 1)
        PROVE  Append(a, s[n + 1])[i] = s[i]
    BY <1>3, <2>1
  <2> QED
    BY <2>2, <2>3, <2>4, SameItems
<1> QED
  BY <1>1, <1>3, <1>4 DEF a, b

(* Before the first connection the account is empty.                        *)
LEMMA InitDelivered == Init => Delivered
<1> SUFFICES ASSUME Init
             PROVE  Delivered
  OBVIOUS
<1>1. wire = <<>> /\ sent = <<>> /\ relayed = <<>>
  BY DEF Init
<1>2. SubSeq(sent, 1, 0) = <<>>
  BY <1>1
<1>3. Account(0, 0)
  <2>1. relayed = Kept(transform, SubSeq(sent, 1, 0))
    BY <1>1, <1>2, KeptNone
  <2>2. Len(wire) = 0 /\ Len(sent) = 0
    BY <1>1
  <2> QED
    BY <2>1, <2>2 DEF Account
<1> QED
  BY <1>1, <1>3 DEF Delivered

(* A closed connection has an empty account.                                *)
LEMMA LeaveDelivers ==
  ASSUME NEW next, Leave(next)
  PROVE  Delivered'
<1>1. wire' = <<>> /\ sent' = <<>> /\ relayed' = <<>>
  BY DEF Leave
<1>2. SubSeq(sent', 1, 0) = <<>>
  BY <1>1
<1>3. Account(0, 0)'
  <2>1. relayed' = Kept(transform', SubSeq(sent', 1, 0))
    BY <1>1, <1>2, KeptNone
  <2>2. Len(wire') = 0 /\ Len(sent') = 0
    BY <1>1
  <2> QED
    BY <2>1, <2>2 DEF Account
<1> QED
  BY <1>1, <1>3 DEF Delivered

(* The connection is made, not made or waited for.                          *)
LEMMA DialDelivers ==
  ASSUME Delivered, link # "open", UNCHANGED <<transform, wire, sent, relayed>>
  PROVE  Delivered'
<1>1. wire' = <<>> /\ sent' = <<>> /\ relayed' = <<>>
  BY DEF Delivered
<1>2. PICK n, k \in Nat : Account(n, k)
  BY DEF Delivered
<1>3. Account(n, k)'
  BY <1>2 DEF Account
<1> QED
  BY <1>1, <1>2, <1>3 DEF Delivered

(* As long as the connection stands all that was sent is under way.         *)
LEMMA StandingAccount ==
  ASSUME Delivered, Standing, NEW n \in Nat, NEW k \in Nat, Account(n, k)
  PROVE  Len(wire) = k /\ n + k = Len(sent)
<1>1. wire \in Seq(Frames) /\ DOMAIN wire = 1..Len(wire)
  BY DEF Delivered
<1>2. CASE Len(wire) = k + 1 /\ IsClose(wire[k + 1])
  <2>1. k + 1 \in DOMAIN wire
    BY <1>1, <1>2
  <2> QED
    BY <1>2, <2>1 DEF Standing
<1> QED
  BY <1>2 DEF Account

(* One text more is sent.                                                   *)
LEMMA SendsDelivers ==
  ASSUME Delivered, NEW text \in Texts, Sends(text)
  PROVE  Delivered'
<1>1. PICK n, k \in Nat : Account(n, k)
  BY DEF Delivered
<1>2. /\ sent \in Seq(Texts) /\ wire \in Seq(Frames) /\ link = "open"
      /\ Len(wire) = k /\ n + k = Len(sent)
  BY <1>1, StandingAccount DEF Sends, Standing, Delivered
<1>3. /\ wire' = Append(wire, Sent(text)) /\ sent' = Append(sent, text)
      /\ relayed' = relayed /\ link' = link /\ transform' = transform
  BY DEF Sends
<1>4. Sent(text) \in Frames
  BY DEF Frames
<1>5. /\ wire' \in Seq(Frames) /\ Len(wire') = k + 1 /\ wire'[k + 1] = Sent(text)
      /\ \A i \in 1..k : wire'[i] = wire[i]
  BY <1>2, <1>3, <1>4
<1>6. /\ sent' \in Seq(Texts) /\ Len(sent') = n + k + 1 /\ sent'[n + k + 1] = text
      /\ \A i \in 1..(n + k) : sent'[i] = sent[i]
  BY <1>2, <1>3
<1>7. SubSeq(sent', 1, n) = SubSeq(sent, 1, n)
  <2>1. SubSeq(sent', 1, n) \in Seq(Texts) /\ Len(SubSeq(sent', 1, n)) = n
        /\ \A i \in 1..n : SubSeq(sent', 1, n)[i] = sent'[i]
    BY <1>6
  <2>2. SubSeq(sent, 1, n) \in Seq(Texts) /\ Len(SubSeq(sent, 1, n)) = n
        /\ \A i \in 1..n : SubSeq(sent, 1, n)[i] = sent[i]
    BY <1>2
  <2> QED
    BY <1>6, <2>1, <2>2, SameItems
<1>8. Account(n, k + 1)'
  <2>1. relayed' = Kept(transform', SubSeq(sent', 1, n))
    BY <1>1, <1>3, <1>7 DEF Account
  <2>2. \A i \in 1..n : sent'[i] = Garbage \/ ~Throws(transform', sent'[i])
    BY <1>1, <1>3, <1>6 DEF Account
  <2>3. ASSUME NEW i \in 1..(k + 1)
        PROVE  wire'[i] = Sent(sent'[n + i])
    <3>1. CASE i <= k
      BY <1>1, <1>5, <1>6, <3>1 DEF Account
    <3>2. CASE i = k + 1
      BY <1>5, <1>6, <3>2
    <3> QED
      BY <3>1, <3>2
  <2>4. n + (k + 1) = Len(sent')
    BY <1>6
  <2> QED
    BY <1>5, <2>1, <2>2, <2>3, <2>4 DEF Account
<1> QED
  BY <1>2, <1>3, <1>5, <1>6, <1>8 DEF Delivered

(* The end of a connection comes after what still arrives.                  *)
LEMMA DisconnectsDelivers ==
  ASSUME Delivered, Disconnects
  PROVE  Delivered'
<1>1. PICK n, k \in Nat : Account(n, k)
  BY DEF Delivered
<1>2. /\ sent \in Seq(Texts) /\ wire \in Seq(Frames) /\ link = "open"
      /\ Len(wire) = k /\ n + k = Len(sent)
  BY <1>1, StandingAccount DEF Disconnects, Standing, Delivered
<1>3. sent' = sent /\ relayed' = relayed /\ link' = link /\ transform' = transform
  BY DEF Disconnects
<1>4. PICK m \in 0..k, how \in {"clean", "broken"} :
        wire' = Append(SubSeq(wire, 1, m), Close(how))
  <2>1. SubSeq(wire, 1, Len(wire)) = wire
    BY <1>2
  <2> QED
    BY <1>2, <2>1 DEF Disconnects
<1>5. Close(how) \in Frames
  BY DEF Frames
<1>6. /\ wire' \in Seq(Frames) /\ Len(wire') = m + 1 /\ wire'[m + 1] = Close(how)
      /\ \A i \in 1..m : wire'[i] = wire[i]
  BY <1>2, <1>4, <1>5
<1>7. Account(n, m)'
  <2>1. relayed' = Kept(transform', SubSeq(sent', 1, n))
    BY <1>1, <1>3 DEF Account
  <2>2. \A i \in 1..n : sent'[i] = Garbage \/ ~Throws(transform', sent'[i])
    BY <1>1, <1>3 DEF Account
  <2>3. \A i \in 1..m : wire'[i] = Sent(sent'[n + i])
    BY <1>1, <1>3, <1>6 DEF Account
  <2>4. n + m <= Len(sent')
    BY <1>2, <1>3
  <2> QED
    BY <1>6, <2>1, <2>2, <2>3, <2>4, FrameIs DEF Account
<1> QED
  BY <1>2, <1>3, <1>6, <1>7 DEF Delivered

(* The next text is taken.                                                  *)
LEMMA TakenDelivers ==
  ASSUME Delivered, link = "open", wire # <<>>, ~IsClose(wire[1]),
         wire' = Tail(wire), sent' = sent, link' = link, transform' = transform,
         wire[1].text = Garbage \/ ~Raises(wire[1].text),
         relayed' = IF wire[1].text = Garbage THEN relayed ELSE Append(relayed, wire[1].text)
  PROVE  Delivered'
<1>1. PICK n, k \in Nat : Account(n, k)
  BY DEF Delivered
<1>2. sent \in Seq(Texts) /\ wire \in Seq(Frames)
  BY DEF Delivered
<1>3. k # 0 /\ wire[1] = Sent(sent[n + 1]) /\ n < Len(sent)
  <2>1. k # 0
    <3>1. k = 0 => Len(wire) = 0 \/ IsClose(wire[1])
      BY <1>1 DEF Account
    <3> QED
      BY <1>2, <3>1
  <2>2. 1 \in 1..k
    BY <2>1
  <2> QED
    BY <1>1, <1>2, <2>1, <2>2 DEF Account
<1>4. PICK text \in Texts : text = sent[n + 1]
  BY <1>2, <1>3, FirstOnes
<1>5. wire[1].text = text
  BY <1>3, <1>4, FrameIs
<1>6. text = Garbage \/ ~Throws(transform, text)
  BY <1>5 DEF Raises, Throws
<1>7. /\ wire' \in Seq(Frames) /\ Len(wire') = Len(wire) - 1
      /\ \A i \in 1..(Len(wire) - 1) : wire'[i] = wire[i + 1]
  BY <1>2
<1>8. Account(n + 1, k - 1)'
  <2>1. relayed' = Kept(transform', SubSeq(sent', 1, n + 1))
    <3>1. /\ SubSeq(sent, 1, n) \in Seq(Texts)
          /\ SubSeq(sent, 1, n + 1) = Append(SubSeq(sent, 1, n), text)
      BY <1>2, <1>3, <1>4, FirstOnes
    <3>2. relayed = Kept(transform, SubSeq(sent, 1, n))
      BY <1>1 DEF Account
    <3>3. Kept(transform, SubSeq(sent, 1, n + 1))
            = IF text = Garbage \/ Throws(transform, text) THEN relayed ELSE Append(relayed, text)
      BY <3>1, <3>2, KeptGrows
    <3> QED
      BY <1>5, <1>6, <3>3
  <2>2. \A i \in 1..(n + 1) : sent'[i] = Garbage \/ ~Throws(transform', sent'[i])
    BY <1>1, <1>4, <1>6 DEF Account
  <2>3. ASSUME NEW i \in 1..(k - 1)
        PROVE  wire'[i] = Sent(sent'[(n + 1) + i])
    <3>1. i + 1 \in 1..k /\ (n + 1) + i = n + (i + 1)
      BY <1>3
    <3>2. wire[i + 1] = Sent(sent[n + (i + 1)])
      BY <1>1, <3>1 DEF Account
    <3>3. i \in 1..(Len(wire) - 1)
      BY <1>1, <1>2 DEF Account
    <3> QED
      BY <1>7, <3>1, <3>2, <3>3
  <2>4. (n + 1) + (k - 1) <= Len(sent')
    BY <1>1, <1>2 DEF Account
  <2>5. \/ Len(wire') = k - 1 /\ (n + 1) + (k - 1) = Len(sent')
        \/ Len(wire') = (k - 1) + 1 /\ IsClose(wire'[(k - 1) + 1])
    <3>1. CASE Len(wire) = k /\ n + k = Len(sent)
      BY <1>2, <1>7, <3>1
    <3>2. CASE Len(wire) = k + 1 /\ IsClose(wire[k + 1])
      <4>1. k \in 1..(Len(wire) - 1) /\ (k - 1) + 1 = k
        BY <1>3, <3>2
      <4> QED
        BY <1>7, <3>2, <4>1
    <3> QED
      BY <1>1, <3>1, <3>2 DEF Account
  <2> QED
    BY <2>1, <2>2, <2>3, <2>4, <2>5 DEF Account
<1>9. n + 1 \in Nat /\ k - 1 \in Nat
  BY <1>3
<1> QED
  BY <1>2, <1>7, <1>8, <1>9 DEF Delivered

(* Every step keeps the account.                                            *)
LEMMA NextDelivers == Delivered /\ [Next]_vars => Delivered'
<1> SUFFICES ASSUME Delivered, [Next]_vars
             PROVE  Delivered'
  OBVIOUS
<1>1. ASSUME UNCHANGED <<transform, link, wire, sent, relayed>>
      PROVE  Delivered'
  <2>1. PICK n, k \in Nat : Account(n, k)
    BY DEF Delivered
  <2>2. Account(n, k)'
    BY <1>1, <2>1 DEF Account
  <2> QED
    BY <1>1, <2>1, <2>2 DEF Delivered
<1>2. ASSUME NEW doc \in Documents, Changes(doc)
      PROVE  Delivered'
  BY <1>1, <1>2 DEF Changes, relay
<1>3. CASE Answers
  BY <1>1, <1>3 DEF Answers, relay
<1>4. CASE PollFails
  BY <1>1, <1>4 DEF PollFails, relay
<1>5. CASE Polled
  BY <1>1, <1>5 DEF Polled, relay
<1>6. CASE IntervalOver
  BY <1>1, <1>6 DEF IntervalOver, relay
<1>7. CASE Connects \/ DialFails \/ DelayOver
  BY <1>7, DialDelivers DEF Connects, DialFails, DelayOver
<1>8. CASE Disconnects
  BY <1>8, DisconnectsDelivers
<1>9. ASSUME NEW text \in Texts, Sends(text)
      PROVE  Delivered'
  BY <1>9, SendsDelivers
<1>10. CASE Relays
  <2>1. link = "open" /\ wire # <<>> /\ ~IsClose(wire[1]) /\ transform' = transform
    BY <1>10 DEF Relays
  <2>2. CASE wire[1].text = Garbage
    <3>1. wire' = Tail(wire) /\ link' = link /\ sent' = sent /\ relayed' = relayed
      BY <1>10, <2>2 DEF Relays
    <3> QED
      BY <2>1, <2>2, <3>1, TakenDelivers
  <2>3. CASE wire[1].text # Garbage /\ Raises(wire[1].text)
    BY <1>10, <2>3, LeaveDelivers DEF Relays
  <2>4. CASE wire[1].text # Garbage /\ ~Raises(wire[1].text)
    <3>1. /\ wire' = Tail(wire) /\ link' = link /\ sent' = sent
          /\ relayed' = Append(relayed, wire[1].text)
      BY <1>10, <2>4 DEF Relays
    <3> QED
      BY <2>1, <2>4, <3>1, TakenDelivers
  <2> QED
    BY <2>2, <2>3, <2>4
<1>11. CASE LinkEnds
  BY <1>11, LeaveDelivers DEF LinkEnds
<1>12. CASE Recovers
  BY <1>1, <1>12 DEF Recovers, relay
<1>13. CASE UNCHANGED vars
  BY <1>1, <1>13 DEF vars
<1> QED
  BY <1>2, <1>3, <1>4, <1>5, <1>6, <1>7, <1>8, <1>9, <1>10, <1>11, <1>12, <1>13 DEF Next, Texts

(* ws_subscribe_adapter: of the messages of a connection each is taken      *)
(* once and in order; those under way are the next that were sent.          *)
THEOREM DeliveredInvariance == Spec => []Delivered
BY InitDelivered, NextDelivers, PTL DEF Spec

(* The account is what RelaysInOrder asks for.                              *)
LEMMA DeliveredInOrder == Delivered => RelaysInOrder
<1> SUFFICES ASSUME Delivered
             PROVE  RelaysInOrder
  OBVIOUS
<1>1. PICK n, k \in Nat : Account(n, k)
  BY DEF Delivered
<1>2. sent \in Seq(Texts) /\ wire \in Seq(Frames) /\ n + k <= Len(sent)
  BY <1>1 DEF Delivered, Account
<1>3. n \in 0..Len(sent)
  BY <1>2
<1>4. relayed = Good(SubSeq(sent, 1, n))
  BY <1>1 DEF Account, Good, Kept, Raises, Throws
<1>5. \A i \in 1..n : sent[i] = Garbage \/ ~Raises(sent[i])
  BY <1>1 DEF Account, Raises, Throws
<1>6. ASSUME Standing
      PROVE  [i \in DOMAIN wire |-> wire[i].text] = SubSeq(sent, n + 1, Len(sent))
  <2>1. Len(wire) = k /\ n + k = Len(sent)
    BY <1>1, <1>6, StandingAccount
  <2>2. /\ SubSeq(sent, n + 1, Len(sent)) \in Seq(Texts) /\ Len(SubSeq(sent, n + 1, Len(sent))) = k
        /\ \A i \in 1..k : SubSeq(sent, n + 1, Len(sent))[i] = sent[n + i]
    BY <1>2, <2>1
  <2>3. DOMAIN wire = 1..k
    BY <1>2, <2>1
  <2>4. \A i \in 1..k : wire[i].text = sent[n + i] /\ sent[n + i] \in Texts
    BY <1>1, <1>2, <2>1, FrameIs DEF Account
  <2> DEFINE texts == [i \in DOMAIN wire |-> wire[i].text]
             rest == SubSeq(sent, n + 1, Len(sent))
  <2>5. texts \in Seq(Texts) /\ Len(texts) = k /\ \A i \in 1..k : texts[i] = sent[n + i]
    BY <2>3, <2>4
  <2> HIDE DEF texts, rest
  <2>6. rest \in Seq(Texts) /\ Len(rest) = k /\ \A i \in 1..k : rest[i] = sent[n + i]
    BY <2>2 DEF rest
  <2>7. texts = rest
    BY <2>5, <2>6, SameItems
  <2> QED
    BY <2>7 DEF texts, rest
<1> QED
  BY <1>3, <1>4, <1>5, <1>6 DEF RelaysInOrder

(* ws_subscribe_adapter: each message of a connection is emitted once, in   *)
(* order and none left out, up to the first that is lost or makes the       *)
(* transform raise; as long as the connection stands none is lost.          *)
THEOREM RelaysInOrderHolds == Spec => []RelaysInOrder
BY DeliveredInvariance, DeliveredInOrder, PTL

------------------------------------------------------------------------------
(* What the poller shows.                                                   *)

(* _flatten and the reference, each a call of itself on a smaller value.    *)
CONSTANTS Json,                 \* the values there are
          Depth,                \* [Json -> Nat]: how deep each is
          Flatten(_, _), LeavesOf(_, _)

(* JSON values are trees.                                                   *)
Trees ==
  /\ Documents \subseteq Json
  /\ Depth \in [Json -> Nat]
  /\ \A v \in Json : v.is = "dict" =>
       /\ \E n \in Nat : DOMAIN v.items = 1..n
       /\ \A i \in DOMAIN v.items : v.items[i].value \in Json /\ Depth[v.items[i].value] < Depth[v]

(* What the RECURSIVE definitions of MCAdapters say.                        *)
Recursion ==
  \A v \in Json : \A at :
    /\ LET calls == Calls(v, at)
       IN  Flatten(v, at) =
             FlattenWith([i \in DOMAIN calls |-> Flatten(calls[i].value, calls[i].prefix)], v, at)
    /\ LeavesOf(v, at) = LeavesWith(LeavesOf, v, at)

(* The constants of Adapters are made with them, and Paths has room.        *)
MadeOfDocuments ==
  /\ Flattened = [doc \in Documents |-> Flatten(doc, <<>>)]
  /\ Leaves = [doc \in Documents |-> LeavesOf(doc, <<>>)]
  /\ \A doc \in Documents : \A leaf \in LeavesOf(doc, <<>>) : leaf.at \in Paths
  /\ \A doc \in DOMAIN Custom : DOMAIN Custom[doc] \subseteq Paths

(* A sequence of dicts, one updated with the next: its keys are theirs, and *)
(* each has the value one of them gives it.                                 *)
LEMMA UpdatedHas ==
  ASSUME NEW n \in Nat, NEW parts, DOMAIN parts = 1..n
  PROVE  /\ \A p : p \in DOMAIN Updated(parts) <=> \E i \in 1..n : p \in DOMAIN parts[i]
         /\ \A p \in DOMAIN Updated(parts) :
              \E i \in 1..n : p \in DOMAIN parts[i] /\ Updated(parts)[p] = parts[i][p]
<1> DEFINE Having(p) == {i \in 1..n : p \in DOMAIN parts[i]}
           keys == UNION {DOMAIN parts[i] : i \in 1..n}
<1>1. Updated(parts) = [p \in keys |-> parts[FX!Max(Having(p))][p]]
  BY DEF Updated
<1>2. \A p : p \in keys <=> \E i \in 1..n : p \in DOMAIN parts[i]
  OBVIOUS
<1>3. DOMAIN Updated(parts) = keys
  BY <1>1
<1>4. ASSUME NEW p \in keys
      PROVE  \E i \in 1..n : p \in DOMAIN parts[i] /\ Updated(parts)[p] = parts[i][p]
  <2>1. Having(p) \subseteq 1..n /\ Having(p) # {}
    BY <1>2, <1>4
  <2>2. \E x \in Having(p) : \A y \in Having(p) : x >= y
    BY <2>1, GreatestOf
  <2>3. FX!Max(Having(p)) \in Having(p)
    BY <2>2 DEF FX!Max
  <2>4. Updated(parts)[p] = parts[FX!Max(Having(p))][p]
    BY <1>1, <1>4
  <2> QED
    BY <2>3, <2>4
<1> QED
  BY <1>2, <1>3, <1>4

(* A value is flattened right: each leaf has its key, and each key the      *)
(* value of a leaf.                                                         *)
FlattenedRight(v) ==
  \A at :
    /\ \A leaf \in LeavesOf(v, at) :
         leaf = [at |-> leaf.at, value |-> leaf.value] /\ leaf.at \in DOMAIN Flatten(v, at)
    /\ \A p \in DOMAIN Flatten(v, at) : [at |-> p, value |-> Flatten(v, at)[p]] \in LeavesOf(v, at)

(* A value that is no dict.                                                 *)
LEMMA ScalarRight ==
  ASSUME Recursion, NEW v \in Json, v.is # "dict"
  PROVE  FlattenedRight(v)
<1>1. SUFFICES ASSUME NEW at
               PROVE  /\ \A leaf \in LeavesOf(v, at) :
                           /\ leaf = [at |-> leaf.at, value |-> leaf.value]
                           /\ leaf.at \in DOMAIN Flatten(v, at)
                      /\ \A p \in DOMAIN Flatten(v, at) :
                           [at |-> p, value |-> Flatten(v, at)[p]] \in LeavesOf(v, at)
  BY DEF FlattenedRight
<1>2. Flatten(v, at) = [p \in {Place(at)} |-> v]
  BY DEF Recursion, FlattenWith, Single
<1>3. LeavesOf(v, at) = {[at |-> Place(at), value |-> v]}
  BY DEF Recursion, LeavesWith
<1> QED
  BY <1>2, <1>3

(* A dict of values that are flattened right.                               *)
LEMMA DictRight ==
  ASSUME Trees, Recursion, NEW v \in Json, v.is = "dict",
         \A i \in DOMAIN v.items : FlattenedRight(v.items[i].value)
  PROVE  FlattenedRight(v)
<1>1. SUFFICES ASSUME NEW at
               PROVE  /\ \A leaf \in LeavesOf(v, at) :
                           /\ leaf = [at |-> leaf.at, value |-> leaf.value]
                           /\ leaf.at \in DOMAIN Flatten(v, at)
                      /\ \A p \in DOMAIN Flatten(v, at) :
                           [at |-> p, value |-> Flatten(v, at)[p]] \in LeavesOf(v, at)
  BY DEF FlattenedRight
<1>2. PICK n \in Nat : DOMAIN v.items = 1..n
  BY DEF Trees
<1> DEFINE below(i) == v.items[i].value
           key(i) == at \o v.items[i].key
           parts == [i \in 1..n |-> Flatten(below(i), key(i))]
<1>3. Flatten(v, at) = Updated(parts)
  <2> DEFINE calls == Calls(v, at)
             found == [i \in DOMAIN calls |-> Flatten(calls[i].value, calls[i].prefix)]
  <2>1. calls = [i \in 1..n |-> [value |-> below(i), prefix |-> key(i)]]
    BY <1>2 DEF Calls, KeyOf
  <2>2. found = parts
    BY <2>1
  <2>3. Flatten(v, at) = FlattenWith(found, v, at)
    BY DEF Recursion
  <2> HIDE DEF found, parts
  <2> QED
    BY <2>2, <2>3 DEF FlattenWith
<1>4. LeavesOf(v, at) = UNION {LeavesOf(below(i), key(i)) : i \in 1..n}
  BY <1>2 DEF Recursion, LeavesWith
<1>5. ASSUME NEW i \in 1..n
      PROVE  /\ \A leaf \in LeavesOf(below(i), key(i)) :
                  /\ leaf = [at |-> leaf.at, value |-> leaf.value]
                  /\ leaf.at \in DOMAIN parts[i]
             /\ \A p \in DOMAIN parts[i] :
                  [at |-> p, value |-> parts[i][p]] \in LeavesOf(below(i), key(i))
  <2>1. FlattenedRight(below(i)) /\ parts[i] = Flatten(below(i), key(i))
    BY <1>2
  <2> HIDE DEF below, key, parts
  <2> QED
    BY <2>1 DEF FlattenedRight
<1>6. DOMAIN parts = 1..n
  OBVIOUS
<1> HIDE DEF below, key, parts
<1>7. ASSUME NEW leaf \in LeavesOf(v, at)
      PROVE  leaf = [at |-> leaf.at, value |-> leaf.value] /\ leaf.at \in DOMAIN Flatten(v, at)
  <2>1. PICK i \in 1..n : leaf \in LeavesOf(below(i), key(i))
    BY <1>4
  <2>2. leaf = [at |-> leaf.at, value |-> leaf.value] /\ leaf.at \in DOMAIN parts[i]
    BY <1>5, <2>1
  <2> QED
    BY <1>3, <1>6, <2>2, UpdatedHas
<1>8. ASSUME NEW p \in DOMAIN Flatten(v, at)
      PROVE  [at |-> p, value |-> Flatten(v, at)[p]] \in LeavesOf(v, at)
  <2>1. PICK i \in 1..n : p \in DOMAIN parts[i] /\ Flatten(v, at)[p] = parts[i][p]
    BY <1>3, <1>6, UpdatedHas
  <2>2. [at |-> p, value |-> parts[i][p]] \in LeavesOf(below(i), key(i))
    BY <1>5, <2>1
  <2> QED
    BY <1>4, <2>1, <2>2
<1> QED
  BY <1>7, <1>8

(* _flatten: whatever the document, each leaf is under the path that leads  *)
(* to it and each path has a value the document has there, keys given twice *)
(* and keys with dots in them included.                                     *)
THEOREM FlattenIsRight ==
  ASSUME Trees, Recursion
  PROVE  \A v \in Json : FlattenedRight(v)
<1> DEFINE wrong == {v \in Json : ~FlattenedRight(v)}
           depths == {Depth[v] : v \in wrong}
<1>1. SUFFICES ASSUME wrong # {}
               PROVE  FALSE
  OBVIOUS
<1>2. depths \subseteq Nat /\ depths # {}
  BY <1>1 DEF Trees
<1>3. PICK least \in depths : \A d \in depths : least <= d
  BY <1>2, LeastNatural
<1>4. PICK v \in wrong : Depth[v] = least
  OBVIOUS
<1>5. CASE v.is # "dict"
  BY <1>5, ScalarRight
<1>6. CASE v.is = "dict"
  <2>1. ASSUME NEW i \in DOMAIN v.items
        PROVE  FlattenedRight(v.items[i].value)
    <3>1. v.items[i].value \in Json /\ Depth[v.items[i].value] < Depth[v]
      BY <1>6 DEF Trees
    <3>2. Depth[v.items[i].value] \in Nat /\ Depth[v] \in Nat
      BY <3>1 DEF Trees
    <3>3. Depth[v.items[i].value] \notin depths
      BY <1>3, <1>4, <3>1, <3>2
    <3> QED
      BY <3>1, <3>3
  <2> QED
    BY <1>6, <2>1, DictRight
<1> QED
  BY <1>5, <1>6

(* What an emission of the poller needs of it.                              *)
FlattensRight ==
  /\ \A doc \in DOMAIN Custom : DOMAIN Custom[doc] \subseteq Paths
  /\ \A doc \in Documents :
       /\ DOMAIN Flattened[doc] \subseteq Paths
       /\ \A leaf \in Leaves[doc] :
            /\ leaf.at \in DOMAIN Flattened[doc]
            /\ [leaf EXCEPT !.value = Flattened[doc][leaf.at]] \in Leaves[doc]

LEMMA DocumentsFlattenRight ==
  ASSUME Trees, Recursion, MadeOfDocuments
  PROVE  FlattensRight
<1>1. ASSUME NEW doc \in Documents
      PROVE  /\ DOMAIN Flattened[doc] \subseteq Paths
             /\ \A leaf \in Leaves[doc] :
                  /\ leaf.at \in DOMAIN Flattened[doc]
                  /\ [leaf EXCEPT !.value = Flattened[doc][leaf.at]] \in Leaves[doc]
  <2>1. FlattenedRight(doc)
    BY FlattenIsRight DEF Trees
  <2>2. Flattened[doc] = Flatten(doc, <<>>) /\ Leaves[doc] = LeavesOf(doc, <<>>)
    BY DEF MadeOfDocuments
  <2>3. /\ \A leaf \in Leaves[doc] :
             leaf = [at |-> leaf.at, value |-> leaf.value] /\ leaf.at \in DOMAIN Flattened[doc]
        /\ \A p \in DOMAIN Flattened[doc] : [at |-> p, value |-> Flattened[doc][p]] \in Leaves[doc]
    BY <2>1, <2>2 DEF FlattenedRight
  <2>4. \A leaf \in Leaves[doc] : leaf.at \in Paths
    BY <2>2 DEF MadeOfDocuments
  <2>5. DOMAIN Flattened[doc] \subseteq Paths
    <3>1. ASSUME NEW p \in DOMAIN Flattened[doc]
          PROVE  p \in Paths
      <4>1. [at |-> p, value |-> Flattened[doc][p]].at \in Paths
        BY <2>3, <2>4
      <4> QED
        BY <4>1
    <3> QED
      BY <3>1
  <2>6. ASSUME NEW leaf \in Leaves[doc]
        PROVE  [leaf EXCEPT !.value = Flattened[doc][leaf.at]] \in Leaves[doc]
    <3>1. PICK p, x : leaf = [at |-> p, value |-> x] /\ p \in DOMAIN Flattened[doc]
      BY <2>3
    <3>2. [leaf EXCEPT !.value = Flattened[doc][leaf.at]] = [at |-> p, value |-> Flattened[doc][p]]
      BY <3>1
    <3> QED
      BY <2>3, <3>1, <3>2
  <2> QED
    BY <2>3, <2>5, <2>6
<1> QED
  BY <1>1 DEF FlattensRight, MadeOfDocuments

(* The invariant: what is read is a document, and the store is one.         *)
Shown ==
  /\ document \in Documents
  /\ "at" \in DOMAIN poller
  /\ poller.at = "answered" => poller.read[1] \in Documents
  /\ store = [p \in Paths |-> store[p]]
  /\ SaysTheDocument

(* At first nothing was emitted.                                            *)
LEMMA InitShown == Init => Shown
BY DEF Init, Shown, SaysTheDocument, S!Blank

(* What an emission leaves.                                                 *)
LEMMA EmitsWrites ==
  ASSUME store = [p \in Paths |-> store[p]], NEW who, NEW doc, NEW patches,
         Emits(who, doc, patches)
  PROVE  /\ store' = [p \in Paths |-> store'[p]]
         /\ \A p \in DOMAIN patches \cap Paths : store'[p] = patches[p]
         /\ DOMAIN patches = {} => store' = store /\ last' = last
         /\ DOMAIN patches # {} => last'.by = who /\ last'.doc = doc
<1>1. store' = [p \in Paths |-> IF p \in DOMAIN patches THEN patches[p] ELSE store[p]]
  BY DEF Emits, S!Apply
<1>2. DOMAIN patches = {} => store' = store
  BY <1>1
<1>3. /\ DOMAIN patches = {} => last' = last
      /\ DOMAIN patches # {} => last'.by = who /\ last'.doc = doc
  BY DEF Emits
<1>4. store' = [p \in Paths |-> store'[p]]
  BY <1>1
<1> QED
  BY <1>1, <1>2, <1>3, <1>4

(* A step that does not emit.                                               *)
LEMMA StillShown ==
  ASSUME Shown, store' = store, last' = last, transform' = transform, document' \in Documents,
         "at" \in DOMAIN poller', poller'.at = "answered" => poller'.read[1] \in Documents
  PROVE  Shown'
BY DEF Shown, SaysTheDocument, Shows, Raises

(* The relay writes what it writes, and then it was the last to emit.       *)
LEMMA RelaysShown ==
  ASSUME Shown, Relays
  PROVE  Shown'
<1>1. /\ transform' = transform /\ document' = document /\ poller' = poller
      /\ document \in Documents /\ "at" \in DOMAIN poller
      /\ poller.at = "answered" => poller.read[1] \in Documents
      /\ store = [p \in Paths |-> store[p]]
  BY DEF Relays, upstream, Shown
<1>2. CASE store' = store /\ last' = last
  BY <1>1, <1>2, StillShown
<1>3. CASE ~(store' = store /\ last' = last)
  <2>1. PICK doc : Emits("relay", doc, RelayedPatches(doc))
    BY <1>3 DEF Relays
  <2>2. DOMAIN RelayedPatches(doc) # {}
    BY <1>1, <1>3, <2>1, EmitsWrites
  <2>3. store' = [p \in Paths |-> store'[p]] /\ last'.by = "relay"
    BY <1>1, <2>1, <2>2, EmitsWrites
  <2> QED
    BY <1>1, <2>3 DEF Shown, SaysTheDocument
<1> QED
  BY <1>2, <1>3

(* The poller writes every leaf of what it read.                            *)
LEMMA PolledShown ==
  ASSUME FlattensRight, Shown, Polled
  PROVE  Shown'
<1>1. PICK doc \in Documents : doc = poller.read[1]
  BY DEF Shown, Polled
<1>2. /\ transform' = transform /\ document' = document /\ document \in Documents
      /\ store = [p \in Paths |-> store[p]]
  BY DEF Polled, upstream, Shown
<1>3. poller'.at # "answered" /\ "at" \in DOMAIN poller'
  <2>0. "at" \in DOMAIN poller
    BY DEF Shown
  <2>1. poller' = [poller EXCEPT !.at = "ended"] \/ poller' = Pausing
    BY DEF Polled
  <2> QED
    BY <2>0, <2>1 DEF Pausing
<1>4. CASE store' = store /\ last' = last
  BY <1>2, <1>3, <1>4, StillShown
<1>5. CASE ~(store' = store /\ last' = last)
  <2>1. ~Raises(doc) /\ Emits("poller", doc, PolledPatches(doc))
    BY <1>1, <1>5 DEF Polled
  <2>2. DOMAIN PolledPatches(doc) # {}
    BY <1>2, <1>5, <2>1, EmitsWrites
  <2>3. /\ store' = [p \in Paths |-> store'[p]]
        /\ \A p \in DOMAIN PolledPatches(doc) \cap Paths : store'[p] = PolledPatches(doc)[p]
        /\ last'.by = "poller" /\ last'.doc = doc
    BY <1>2, <2>1, <2>2, EmitsWrites
  <2>4. Shows(doc)'
    <3>1. CASE transform = "custom"
      <4>1. doc \in DOMAIN Custom
        BY <2>1, <3>1 DEF Raises
      <4>2. DOMAIN Custom[doc] \subseteq Paths /\ PolledPatches(doc) = Custom[doc]
        BY <3>1, <4>1 DEF FlattensRight, PolledPatches
      <4> QED
        BY <1>2, <2>3, <3>1, <4>1, <4>2 DEF Shows, Raises
    <3>2. CASE transform # "custom"
      <4>1. DOMAIN Flattened[doc] \subseteq Paths /\ PolledPatches(doc) = Flattened[doc]
        BY <3>2 DEF FlattensRight, PolledPatches
      <4>2. ASSUME NEW leaf \in Leaves[doc]
            PROVE  [leaf EXCEPT !.value = store'[leaf.at]] \in Leaves[doc]
        <5>1. /\ leaf.at \in DOMAIN Flattened[doc]
              /\ [leaf EXCEPT !.value = Flattened[doc][leaf.at]] \in Leaves[doc]
          BY DEF FlattensRight
        <5>2. store'[leaf.at] = Flattened[doc][leaf.at]
          BY <2>3, <4>1, <5>1
        <5> QED
          BY <5>1, <5>2
      <4> QED
        BY <1>2, <3>2, <4>2 DEF Shows
    <3> QED
      BY <3>1, <3>2
  <2>5. SaysTheDocument'
    BY <2>3, <2>4 DEF SaysTheDocument, Shows, Raises
  <2> QED
    BY <1>2, <1>3, <2>3, <2>5 DEF Shown
<1> QED
  BY <1>4, <1>5

(* Every step leaves what the poller showed.                                *)
LEMMA NextShown ==
  ASSUME FlattensRight
  PROVE  Shown /\ [Next]_vars => Shown'
<1> SUFFICES ASSUME Shown, [Next]_vars
             PROVE  Shown'
  OBVIOUS
<1>1. /\ document \in Documents /\ "at" \in DOMAIN poller
      /\ poller.at = "answered" => poller.read[1] \in Documents
  BY DEF Shown
<1>2. ASSUME UNCHANGED <<store, transform, document, poller, last>>
      PROVE  Shown'
  BY <1>1, <1>2, StillShown
<1>3. ASSUME NEW doc \in Documents, Changes(doc)
      PROVE  Shown'
  BY <1>1, <1>3, StillShown DEF Changes
<1>4. CASE Answers
  <2>1. poller'.read[1] = document /\ "at" \in DOMAIN poller'
    BY <1>4 DEF Answers
  <2> QED
    BY <1>1, <1>4, <2>1, StillShown DEF Answers, upstream
<1>5. CASE PollFails
  BY <1>1, <1>5, StillShown DEF PollFails, Pausing, upstream
<1>6. CASE Polled
  BY <1>6, PolledShown
<1>7. CASE IntervalOver
  <2>1. poller'.at # "answered" /\ "at" \in DOMAIN poller'
    BY <1>1, <1>7 DEF IntervalOver
  <2> QED
    BY <1>1, <1>7, <2>1, StillShown DEF IntervalOver, upstream
<1>8. CASE Connects
  BY <1>2, <1>8 DEF Connects, upstream
<1>9. CASE DialFails
  BY <1>2, <1>9 DEF DialFails, upstream
<1>10. CASE Disconnects
  BY <1>2, <1>10 DEF Disconnects, upstream
<1>11. ASSUME NEW text \in Documents \cup {Garbage}, Sends(text)
       PROVE  Shown'
  BY <1>2, <1>11 DEF Sends, upstream
<1>12. CASE Relays
  BY <1>12, RelaysShown
<1>13. CASE LinkEnds
  BY <1>2, <1>13 DEF LinkEnds, upstream
<1>14. CASE DelayOver
  BY <1>2, <1>14 DEF DelayOver, upstream
<1>15. CASE Recovers
  BY <1>2, <1>15 DEF Recovers
<1>16. CASE UNCHANGED vars
  BY <1>2, <1>16 DEF vars
<1> QED
  BY <1>3, <1>4, <1>5, <1>6, <1>7, <1>8, <1>9, <1>10, <1>11, <1>12, <1>13, <1>14, <1>15, <1>16
     DEF Next

(* http_poll_adapter: the scene shows what was read from one emission to    *)
(* the next, whatever the other adapter does, each leaf at the path that    *)
(* leads to it (_flatten).                                                  *)
THEOREM SaysTheDocumentHolds ==
  ASSUME Trees, Recursion, MadeOfDocuments
  PROVE  Spec => []SaysTheDocument
<1>0. FlattensRight
  BY DocumentsFlattenRight
<1>1. Init => Shown
  BY InitShown
<1>2. Shown /\ [Next]_vars => Shown'
  BY <1>0, NextShown
<1>3. Shown => SaysTheDocument
  BY DEF Shown
<1> QED
  BY <1>1, <1>2, <1>3, PTL DEF Spec

================================================================================
