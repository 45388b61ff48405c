----------------------------- MODULE IniValues -----------------------------
(***************************************************************************)
(* How SimpleIni.h turns the text of a value into a number or a Boolean    *)
(* and back: Get- and SetLongValue, Get- and SetDoubleValue, Get- and      *)
(* SetBoolValue without the search for the key.  A text is a string, and   *)
(* SubSeq takes its characters.  A double is a multiple of the tenth part  *)
(* of the last place that is printed, and stands for how many.             *)
(***************************************************************************)
EXTENDS Integers, SequencesExt, TLC

CONSTANTS
    LongMax,   \* LONG_MAX
    Places,    \* places behind the point that "%f" prints (6)
    TextSize   \* size of the buffers a number's text is converted in (64)

ASSUME IniValuesAssumption == LongMax \in Nat \ {0} /\ Places \in Nat \ {0} /\ TextSize \in Nat \ {0}

\* the terminating zero, and what is behind it, reads as the empty text
Char(t, i) == IF i \in 1..Len(t) THEN SubSeq(t, i, i) ELSE ""
Chars(t)   == [i \in 1..Len(t) |-> Char(t, i)]
From(t, i) == SubSeq(t, i, Len(t))

\* SI_ConvertA copies a text, with its terminating zero, if there is room
Converts(t, size) == Len(t) + 1 <= size

-----------------------------------------------------------------------------
(* strtol, strtod and snprintf of the C library *)

DigitChars == <<"0", "1", "2", "3", "4", "5", "6", "7", "8", "9", "a", "b", "c", "d", "e", "f">>

DigitOf(c) == CHOOSE i \in 0..15 : DigitChars[i + 1] = c

IsDigit(c, base) == c \in {DigitChars[i] : i \in 1..base}

\* how many characters of t from its i-th on have the property
Run(t, i, Is(_)) ==
    CHOOSE n \in 0..(Len(t) - i + 1) :
        /\ \A j \in i..(i + n - 1) : Is(Char(t, j))
        /\ i + n <= Len(t) => ~Is(Char(t, i + n))

Clamp(n) == IF n > LongMax THEN LongMax ELSE IF n < -LongMax - 1 THEN -LongMax - 1 ELSE n

\* the number t starts with and what is left of t, all of it if there is none
strtol(t, base) ==
    LET space  == Run(t, 1, LAMBDA c : c = " ")
        signed == Char(t, space + 1) \in {"+", "-"}
        sign   == space + IF signed THEN 1 ELSE 0
        \* "0x" is part of the number only if a digit follows
        pre    == IF base = 16 /\ Char(t, sign + 1) \o Char(t, sign + 2) = "0x" /\ IsDigit(Char(t, sign + 3), 16)
                  THEN sign + 2 ELSE sign
        n      == Run(t, pre + 1, LAMBDA c : IsDigit(c, base))
        value  == FoldLeft(LAMBDA a, c : a * base + DigitOf(c), 0, Chars(SubSeq(t, pre + 1, pre + n)))
    IN IF n = 0 THEN [n |-> 0, rest |-> t]
       ELSE [n    |-> Clamp(IF signed /\ Char(t, sign) = "-" THEN -value ELSE value),
             rest |-> From(t, pre + n + 1)]

Number(chars) == FoldLeft(LAMBDA a, c : a * 10 + DigitOf(c), 0, chars)

\* digits with a point among or behind them; no exponent
strtod(t) ==
    LET sign  == IF Char(t, 1) = "-" THEN 1 ELSE 0
        whole == Run(t, sign + 1, LAMBDA c : IsDigit(c, 10))
        point == sign + whole + IF Char(t, sign + whole + 1) = "." THEN 1 ELSE 0
        parts == IF point > sign + whole THEN Run(t, point + 1, LAMBDA c : IsDigit(c, 10)) ELSE 0
        shown == Chars(SubSeq(t, point + 1, point + parts)) \o [i \in 1..(Places + 1) |-> "0"]
        value == Number(Chars(SubSeq(t, sign + 1, sign + whole)) \o SubSeq(shown, 1, Places + 1))
    IN IF whole + parts = 0 THEN [n |-> 0, rest |-> t]
       ELSE [n |-> IF sign = 1 THEN -value ELSE value, rest |-> From(t, point + parts + 1)]

\* "%f": the nearest number with that many places
Rounded(d) == IF d < 0 THEN -((5 - d) \div 10) ELSE (d + 5) \div 10

Digits(n, places) ==
    [i \in 1..places |-> DigitChars[((n \div 10^(places - i)) % 10) + 1]]

PrintDouble(d) ==
    LET r == IF d < 0 THEN -Rounded(d) ELSE Rounded(d)
    IN (IF d < 0 THEN "-" ELSE "") \o ToString(r \div 10^Places) \o "."
       \o FoldLeft(LAMBDA a, c : a \o c, "", Digits(r, Places))

-----------------------------------------------------------------------------
(* Numbers *)

\* wrong: what is left behind the number is not looked at
LongOfLoose(t, default) == IF t = "" THEN default ELSE strtol(t, 10).n

\* a text that is no number, or does not fit the buffer, is the default
LongOf(t, default) ==
    LET hex == Char(t, 1) \o Char(t, 2) \in {"0x", "0X"}
        got == IF hex THEN strtol(From(t, 3), 16) ELSE strtol(t, 10)
    IN IF t = "" \/ ~Converts(t, TextSize) \/ (hex /\ Len(t) = 2) \/ got.rest # ""
       THEN default ELSE got.n

HexText[n \in Nat] == (IF n < 16 THEN "" ELSE HexText[n \div 16]) \o DigitChars[(n % 16) + 1]

\* "0x%lx" prints the number as unsigned long
LongText(n, hex) ==
    IF hex THEN "0x" \o HexText[n % (2 * (LongMax + 1))] ELSE ToString(n)

\* GetDoubleValue's conversion, and SetDoubleValue's: snprintf cuts a text that
\* does not fit, a large number loses its last digits without an error
DoubleOf(t, default) ==
    IF t = "" \/ ~Converts(t, TextSize) \/ strtod(t).rest # "" THEN default ELSE strtod(t).n

DoubleText(d) == SubSeq(PrintDouble(d), 1, TextSize - 1)

-----------------------------------------------------------------------------
(* Booleans: the first letter decides, the second one of on and off *)

BoolOf(t, default) ==
    LET c == Char(t, 1)
        d == Char(t, 2)
    IN CASE c \in {"t", "T", "y", "Y", "1"} -> TRUE
         [] c \in {"f", "F", "n", "N", "0"} -> FALSE
         [] c \in {"o", "O"} /\ d \in {"n", "N"} -> TRUE
         [] c \in {"o", "O"} /\ d \in {"f", "F"} -> FALSE
         [] OTHER -> default

BoolText(b) == IF b THEN "true" ELSE "false"
=============================================================================
