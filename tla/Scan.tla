-------------------------------- MODULE Scan --------------------------------
(***************************************************************************)
(* The scanners and parsers of src/scan.hpp.  A text is a sequence of      *)
(* one-character strings, grown by one character a step; every reachable   *)
(* text is given to every parser.  A scanner answers [value, rest]: the    *)
(* view it was given has been shortened to rest.  A parser answers <<v>>,  *)
(* or Throws.                                                              *)
(***************************************************************************)
EXTENDS Integers, Sequences, FiniteSets, SequencesExt

CONSTANTS
    Letters,    \* the characters texts are made of
    MaxText,    \* bound: characters of a text
    Big,        \* uint64_t and size_t hold 0..Big-1
    Small,      \* unsigned holds 0..Small-1
    Kilo,       \* what 1024 is to those widths
    HexDigits   \* get_hex reads this many digits at most (8)

\* What a row of digits adds to the start of a number.
Number(radix, start, digits) ==
    LET value[n \in 0..Len(digits)] ==
            IF n = 0 THEN start ELSE radix * value[n - 1] + digits[n]
    IN  value[Len(digits)]

\* numeric_limits<T>::max() of a type of n nibbles
AllOnes(n) == Number(16, 0, [i \in 1..n |-> 15])

ASSUME ScanAssumption ==
    /\ MaxText \in Nat
    /\ {Big, Small, Kilo, HexDigits} \subseteq Nat \ {0}
    /\ Big % Small = 0
    /\ 10 * Small <= Big
    /\ Small > 10
    /\ AllOnes(HexDigits) < Big

VARIABLE text

Throws == <<>>

hex_digits == <<"0", "1", "2", "3", "4", "5", "6", "7", "8", "9", "a", "b", "c", "d", "e", "f">>

Decimal == {"0", "1", "2", "3", "4", "5", "6", "7", "8", "9"}
DigitOf == [c \in ToSet(hex_digits) |-> (CHOOSE i \in DOMAIN hex_digits : hex_digits[i] = c) - 1]

\* std::tolower on the letters that a scanner tells apart
Lowered(c) ==
    CASE c = "A" -> "a" [] c = "B" -> "b" [] c = "C" -> "c" [] c = "D" -> "d"
      [] c = "E" -> "e" [] c = "F" -> "f" [] c = "G" -> "g" [] c = "H" -> "h"
      [] c = "K" -> "k" [] c = "M" -> "m" [] c = "S" -> "s" [] OTHER -> c

Values(s) == [i \in DOMAIN s |-> DigitOf[s[i]]]

ScanFrom(s, n) == SubSeq(s, n + 1, Len(s))
Starts(s, c) == s # <<>> /\ s[1] = c

-----------------------------------------------------------------------------
(* namespace scan.  CheckedLate takes no part in the specification: it is  *)
(* get_integer with a slip that breaks a property.                         *)

decode_hex(ch) == IF Lowered(ch) \in DOMAIN DigitOf THEN DigitOf[Lowered(ch)] ELSE 255

consume_prefix(s, prefix) ==
    IF IsPrefix(prefix, s) THEN ScanFrom(s, Len(prefix))
    ELSE IF Starts(s, "$") THEN ScanFrom(s, 1) ELSE s

Nibbles(s, n) == Number(16, 0, [i \in 1..n |-> decode_hex(s[i])])

\* A character that is no digit makes the value 0 and stays in the rest.
get_hex(s, digits) ==
    LET n == Min({digits, Len(s)})
        bad == {i \in 1..n : decode_hex(s[i]) = 255}
    IN  IF digits > HexDigits THEN [value |-> 0, rest |-> s]
        ELSE IF bad # {} THEN [value |-> 0, rest |-> ScanFrom(s, Min(bad) - 1)]
        ELSE [value |-> Nibbles(s, n), rest |-> ScanFrom(s, n)]

\* The product is taken in 64 bits before it is compared with max.
Accumulated(s, n) ==
    LET result[k \in 0..n] ==
            IF k = 0 THEN 0 ELSE ((10 * result[k - 1]) + DigitOf[s[k]]) % Big
    IN  result[n]

DigitRun(s) == Min({i \in 1..Len(s) : s[i] \notin Decimal} \cup {Len(s) + 1}) - 1

CheckedLate(s, max) ==
    LET over == {i \in 1..DigitRun(s) : Accumulated(s, i - 1) > max}
        n == IF over = {} THEN DigitRun(s) ELSE Min(over) - 1
    IN  [value |-> Accumulated(s, n), rest |-> ScanFrom(s, n)]

\* Stops before the first digit that would take the value above max.
get_integer(s, max) ==
    LET over == {i \in 1..DigitRun(s) : Accumulated(s, i) > max}
        n == IF over = {} THEN DigitRun(s) ELSE Min(over) - 1
    IN  [value |-> Accumulated(s, n), rest |-> ScanFrom(s, n)]

\* A double is the pair <<mantissa, exponent>>; its rounding is left out.
get_decimal(s, max) ==
    LET whole == get_integer(s, max)
        after == ScanFrom(whole.rest, 1)
        n == DigitRun(after)
        digits == Number(10, whole.value, Values(SubSeq(after, 1, n)))
    IN  IF Starts(whole.rest, ".")
          THEN [value |-> <<digits, -n>>, rest |-> ScanFrom(after, n)]
          ELSE [value |-> <<whole.value, 0>>, rest |-> whole.rest]

get_double(s, max) ==
    LET number == get_decimal(s, max)
        after == ScanFrom(number.rest, 1)
        signed == Starts(after, "+") \/ Starts(after, "-")
        power == get_integer(IF signed THEN ScanFrom(after, 1) ELSE after, Small \div 2 - 1)
        sign == IF Starts(after, "-") THEN -1 ELSE 1
    IN  IF Starts(number.rest, "e") \/ Starts(number.rest, "E")
          THEN [value |-> <<number.value[1], number.value[2] + sign * power.value>>,
                rest |-> power.rest]
          ELSE number

-----------------------------------------------------------------------------
(* The parsers                                                             *)

Within(scanned, value, min, max) ==
    IF scanned.rest # <<>> \/ value < min \/ value > max THEN Throws ELSE <<value>>

\* nibbles: twice sizeof(T)
parse_hex(s, nibbles, min, max) ==
    LET hex == get_hex(consume_prefix(s, <<"0", "x">>), nibbles)
    IN  Within(hex, hex.value, min, max)

\* static_cast<std::int64_t>
Signed(v) == IF v % Big >= Big \div 2 THEN (v % Big) - Big ELSE v % Big

parse_integer(s, min, max) ==
    LET scanned == get_integer(s, max % Big)
    IN  Within(scanned, Signed(scanned.value), Signed(min), Signed(max))

parse_unsigned(s, min, max) ==
    LET scanned == get_integer(s, max)
    IN  IF Starts(s, "-") THEN Throws ELSE Within(scanned, scanned.value, min, max)

\* parse_decimal with get_decimal, parse_real with get_double
Negatable(s, Scan(_, _)) ==
    LET minus == Starts(s, "-")
        scanned == Scan(IF minus THEN ScanFrom(s, 1) ELSE s, Small \div 2 - 1)
    IN  IF scanned.rest # <<>> THEN Throws
        ELSE <<[negative |-> minus, number |-> scanned.value]>>

parse_decimal(s) == Negatable(s, get_decimal)
parse_real(s) == Negatable(s, get_double)

SizeUnits == [b |-> 1, k |-> Kilo, m |-> Kilo * Kilo, g |-> Kilo * Kilo * Kilo]

\* 'g' is narrowed to an unsigned.
parse_size(s) ==
    LET scanned == get_integer(s, Big - 1)
        unit == Lowered(scanned.rest[1])
    IN  IF Starts(s, "-") THEN Throws
        ELSE IF scanned.rest = <<>> THEN <<scanned.value>>
        ELSE IF Len(scanned.rest) > 1 \/ unit \notin DOMAIN SizeUnits THEN Throws
        ELSE <<(scanned.value * SizeUnits[unit]) % (IF unit = "g" THEN Small ELSE Big)>>

Seconds == [s |-> 1, m |-> 60, h |-> 3600, d |-> 86400]

parse_duration(s, ms) ==
    LET scanned == get_integer(s, Small - 1)
        unit == Lowered(scanned.rest[1])
        scale == IF ms THEN 1000 ELSE 1
    IN  IF Starts(s, "-") THEN Throws
        ELSE IF scanned.rest = <<>> \/ (ms /\ scanned.rest = <<"m", "s">>) THEN <<scanned.value>>
        ELSE IF Len(scanned.rest) > 1 \/ unit \notin DOMAIN Seconds THEN Throws
        ELSE <<(((scanned.value * scale) % Small) * Seconds[unit]) % Small>>

-----------------------------------------------------------------------------
ScanInit == text = <<>>

Grows ==
    /\ Len(text) < MaxText
    /\ \E c \in Letters : text' = Append(text, c)

ScanSpec == ScanInit /\ [][Grows]_text

-----------------------------------------------------------------------------
\* The number a text of decimal digits writes, of whatever size.
Written(s) == Number(10, 0, Values(s))
AllDigits(s) == ToSet(s) \subseteq Decimal

\* NarrowExact: a parser for a type narrower than 64 bits answers the number
\* written, or throws; and it throws for nothing but a text with another
\* character or a number outside the bounds.
NarrowExact ==
    \A bounds \in {<<0, 0>>, <<0, 9>>, <<1, 10>>, <<0, Small \div 2 - 1>>,
                   <<1, Small - 1>>, <<Small - 1, Small - 1>>} :
        LET min == bounds[1]
            max == bounds[2]
            exact == IF AllDigits(text) /\ Written(text) \in min..max
                       THEN <<Written(text)>> ELSE Throws
        IN  parse_unsigned(text, min, max) = exact /\ parse_integer(text, min, max) = exact

\* WideWraps: for the types of 64 bits themselves no number is too large:
\* parse_unsigned answers it modulo 2^64, and parse_integer, whose default
\* bound becomes -1, answers nothing at all.
WideWraps ==
    /\ parse_unsigned(text, 0, Big - 1)
         = IF AllDigits(text) THEN <<Written(text) % Big>> ELSE Throws
    /\ parse_integer(text, 0, Big - 1) = Throws

\* HexExact: a hexadecimal text with one prefix or none, and no more digits
\* than the type has, answers its value; a type of more digits than get_hex
\* reads answers to a text without digits only.
HexExact ==
    LET body == consume_prefix(text, <<"0", "x">>)
        value == Number(16, 0, [i \in DOMAIN body |-> DigitOf[Lowered(body[i])]])
        hex == \A i \in DOMAIN body : Lowered(body[i]) \in DOMAIN DigitOf
    IN  /\ \A nibbles \in 1..HexDigits :
             parse_hex(text, nibbles, 0, AllOnes(nibbles))
               = IF hex /\ Len(body) <= nibbles THEN <<value>> ELSE Throws
        /\ parse_hex(text, HexDigits + 1, 0, Big - 1)
             = IF body = <<>> THEN <<0>> ELSE Throws

\* UnitsWrap: a size or a duration is digits and one unit; the product wraps
\* at the width of the result, which for gigabytes is that of an unsigned.
UnitsWrap ==
    LET n == DigitRun(text)
        number == Written(SubSeq(text, 1, n))
        unit == Lowered(text[n + 1])
        last == Len(text) = n + 1
    IN  /\ parse_size(text) =
             IF Len(text) = n THEN <<number % Big>>
             ELSE IF last /\ unit = "g" THEN <<(number * (Kilo * Kilo * Kilo)) % Small>>
             ELSE IF last /\ unit \in DOMAIN SizeUnits
               THEN <<(number * SizeUnits[unit]) % Big>>
             ELSE Throws
        /\ \A ms \in BOOLEAN : parse_duration(text, ms) =
             IF number >= Small THEN Throws
             ELSE IF Len(text) = n \/ (ms /\ ScanFrom(text, n) = <<"m", "s">>) THEN <<number>>
             ELSE IF last /\ unit \in DOMAIN Seconds
               THEN <<(number * (IF ms THEN 1000 ELSE 1) * (Seconds[unit] % Small)) % Small>>
             ELSE Throws

\* RealExact: what parse_decimal accepts parse_real accepts with the same
\* value; and both accept digits, with or without a point, as the number
\* they write, unless the part before the point exceeds an int.
RealExact ==
    /\ parse_decimal(text) # Throws => parse_real(text) = parse_decimal(text)
    /\ \A p \in 0..Len(text) :
         LET whole == SubSeq(text, 1, p)
             places == ScanFrom(text, p + 1)
         IN  (p < Len(text) /\ text[p + 1] = "." /\ AllDigits(whole) /\ AllDigits(places)) =>
               parse_real(text) =
                 IF Written(whole) >= Small \div 2 THEN Throws
                 ELSE <<[negative |-> FALSE,
                         number |-> <<Written(whole \o places), -Len(places)>>]>>

ScanInv == NarrowExact /\ WideWraps /\ HexExact /\ UnitsWrap /\ RealExact
=============================================================================
