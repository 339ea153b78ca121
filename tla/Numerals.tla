-------------------------------- MODULE Numerals --------------------------------
(****************************************************************************)
(* The numbers of lsml/hash.py: a float by the digits repr gives it, and    *)
(* the one spelling the canonical form has for it.                          *)
(*                                                                          *)
(* Beside the numbers of the codec there are decimals: floats given by the  *)
(* shortest digits that tell them from others and the place of their point, *)
(* 0.d1d2.. * 10^point.  Digits are numbers from 0 to 9; zero, which has a  *)
(* sign, has the one digit 0.                                               *)
(****************************************************************************)
EXTENDS Codec

Decimal(neg, digits, point) == [is |-> "decimal", neg |-> neg, digits |-> digits, point |-> point]

Zeros(n) == [i \in 1..n |-> 0]

DigitsOf(n) ==
  LET upTo[m \in 0..n] == IF m < 10 THEN <<m>> ELSE Append(upTo[m \div 10], m % 10)
  IN  upTo[n]

(* float(), exact for what is small; a fraction is a half.                  *)
Float(j) ==
  LET digits == DigitsOf(IF j.n < 0 THEN -j.n ELSE j.n)
  IN  CASE j.is = "decimal" -> j
        [] j.is = "int" \/ (j.is = "float" /\ j.whole) -> Decimal(j.n < 0, digits, Len(digits))
        [] OTHER -> Decimal(j.n < 0, Append(digits, 5), Len(digits))

(* repr() of a float: its digits, padded up to the point or down from it,   *)
(* or with an exponent where that would be long.                            *)
Repr(d) ==
  LET padded == d.digits \o Zeros(16)
  IN  IF d.point > 16 \/ d.point < -3
        THEN [whole |-> <<d.digits[1]>>, frac |-> Tail(d.digits), exp |-> d.point - 1]
      ELSE IF d.point <= 0
        THEN [whole |-> <<0>>, frac |-> Zeros(-d.point) \o d.digits, exp |-> 0]
      ELSE [whole |-> SubSeq(padded, 1, d.point),
            frac  |-> IF d.point < Len(d.digits) THEN SubSeq(d.digits, d.point + 1, Len(d.digits))
                                                 ELSE <<0>>,
            exp   |-> 0]

------------------------------------------------------------------------------
(* Canonical form.                                                          *)

FirstOf(places) == CHOOSE i \in places : \A j \in places : i <= j
LastOf(places) == CHOOSE i \in places : \A j \in places : i >= j

MisplacedDigits(text) ==        \* a mistake to be caught: 0.5 becomes 5
  LET raw == text.whole \o text.frac
      counts == {i \in DOMAIN raw : raw[i] # 0}
  IN  [digits |-> SubSeq(raw, FirstOf(counts), LastOf(counts)),
       point |-> Len(text.whole) + text.exp]

(* Digits and point, read back from the text.                               *)
ShortestDigits(text) ==
  LET raw == text.whole \o text.frac
      counts == {i \in DOMAIN raw : raw[i] # 0}
  IN  [digits |-> SubSeq(raw, FirstOf(counts), LastOf(counts)),
       point |-> Len(text.whole) + text.exp - (FirstOf(counts) - 1)]

(* A number in JSON; exp is 0 where none is written.                        *)
Numeral(neg, whole, frac, exp) ==
  [is |-> "numeral", neg |-> neg, whole |-> whole, frac |-> frac, exp |-> exp]

ExpUpper == 21

FormatNumber(j) ==
  LET d     == Float(j)
      split == ShortestDigits(Repr(d))
      digits == split.digits
      point == split.point
      count == Len(digits)
  IN  IF d.digits = <<0>>
        THEN Numeral(FALSE, <<0>>, <<>>, 0)
      ELSE IF count <= point /\ point <= ExpUpper
        THEN Numeral(d.neg, digits \o Zeros(point - count), <<>>, 0)
      ELSE IF 0 < point /\ point <= ExpUpper
        THEN Numeral(d.neg, SubSeq(digits, 1, point), SubSeq(digits, point + 1, count), 0)
      ELSE IF -6 < point /\ point <= 0
        THEN Numeral(d.neg, <<0>>, Zeros(-point) \o digits, 0)
      ELSE Numeral(d.neg, <<digits[1]>>, Tail(digits), point - 1)

------------------------------------------------------------------------------
(* The reference: a number is its sign and the digits other than 0 at their *)
(* powers of ten.                                                           *)

Quantity(neg, at) ==
  LET counts == {x \in at : x.digit # 0}
  IN  [is |-> "quantity", neg |-> neg /\ counts # {}, at |-> counts]

AtPowers(digits, point) == {[power |-> point - i, digit |-> digits[i]] : i \in DOMAIN digits}

DecimalSays(d) == Quantity(d.neg, AtPowers(d.digits, d.point))

NumeralSays(n) == Quantity(n.neg, AtPowers(n.whole \o n.frac, Len(n.whole) + n.exp))

================================================================================
