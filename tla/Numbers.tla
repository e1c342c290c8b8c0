-------------------------------- MODULE Numbers --------------------------------
(***************************************************************************)
(* How TextDrawer prints a number of an integral type: the loop that fills *)
(* a buffer with digits from its end, for unsigned and for signed types,   *)
(* and the hexadecimal form.  Characters are their codes.                  *)
(***************************************************************************)
EXTENDS Integers, Sequences

CONSTANTS
  Types,      \* sizeof(T), std::numeric_limits<T>::is_signed
  Arguments   \* numbers, each printed in every type that can hold it

ASSUME NumbersAssumption ==
  Types \subseteq [bytes : 1 .. 8, signed : BOOLEAN] /\ Arguments \subseteq Int

VARIABLES
  type,
  v,          \* the argument
  value, index, negativ,
  s,          \* the characters written so far
  pc

numberVars == <<type, v, value, index, negativ, s, pc>>

Zero == 48
Minus == 45

(* 256 to the power of k.                                                  *)
Power[k \in 0 .. 8] == IF k = 0 THEN 1 ELSE 256 * Power[k - 1]

Modulus == Power[type.bytes]
Minimum == IF type.signed THEN -(Modulus \div 2) ELSE 0
Values == Minimum .. Minimum + Modulus - 1

(* Where the last digit goes.                                              *)
Last == IF type.signed THEN 20 ELSE 19

-------------------------------------------------------------------------------
(* Division and remainder round towards zero.                              *)
Quotient(n) == IF n >= 0 THEN n \div 10 ELSE -((-n) \div 10)
Remainder(n) == n - 10 * Quotient(n)

(* Mutant: the sign is taken off by inverting all bits.                    *)
NegatedBits(n) == -n - 1

(* value *= -1, which has no effect on the minimum of T.                   *)
Negated(n) == IF n = Minimum THEN n ELSE -n

(* uint8_t remainder, to which '0' is added in the buffer's type.          *)
Digit(n) == (Remainder(n) + Zero) % 256

MoreDigits(n) == Quotient(n) > 0

(* negativ has no initial value.                                           *)
NumbersInit ==
  /\ type \in Types
  /\ v \in Arguments \intersect Values
  /\ value = (IF v < 0 THEN Negated(v) ELSE v)
  /\ negativ \in (IF v < 0 THEN {TRUE} ELSE IF type.signed THEN BOOLEAN ELSE {FALSE})
  /\ index = 0 /\ s = << >> /\ pc = "digits"

Put(position, char) ==
  s' = [i \in DOMAIN s \union {position} |-> IF i = position THEN char ELSE s[i]]

(* index is a uint8_t.                                                     *)
NextIndex == (index + 1) % 256

NextDigit ==
  /\ pc = "digits" /\ MoreDigits(value)
  /\ Put(Last - index, Digit(value))
  /\ value' = Quotient(value)
  /\ index' = NextIndex
  /\ UNCHANGED <<type, v, negativ, pc>>

LastDigit ==
  /\ pc = "digits" /\ ~MoreDigits(value)
  /\ Put(Last - index, Digit(value))
  /\ pc' = IF negativ THEN "sign" ELSE "done"
  /\ UNCHANGED <<type, v, value, index, negativ>>

Sign ==
  /\ pc = "sign"
  /\ index' = NextIndex
  /\ Put(Last - index - 1, Minus)
  /\ pc' = "done"
  /\ UNCHANGED <<type, v, value, negativ>>

NumbersNext == NextDigit \/ LastDigit \/ Sign

NumbersSpec == NumbersInit /\ [][NumbersNext]_numberVars

(* What putString gets.                                                    *)
PrintedNumber == [i \in 1 .. index + 1 |-> s[Last - index + i - 1]]

-------------------------------------------------------------------------------
(* printIntHex: the bytes from the last in memory to the first.            *)
Byte(n, k) == ((n % Modulus) \div Power[k]) % 256

Nibble(n) == n + (IF n > 9 THEN 55 ELSE Zero)

HexPosition(i) == type.bytes - (i \div 2) - 1

Hex(n) ==
  [i \in 0 .. 2 * type.bytes - 1 |->
     LET byte == Byte(n, HexPosition(i))
     IN  Nibble(IF i % 2 = 0 THEN byte \div 16 ELSE byte % 16)]

-------------------------------------------------------------------------------
(* A reader of numerals: the reference the printed text is compared with.  *)
Reads(numeral, base, digitOf) ==
  LET number[i \in 0 .. Len(numeral)] ==
        IF i = 0 THEN 0 ELSE number[i - 1] * base + digitOf[numeral[i]]
  IN  number[Len(numeral)]

Decimal == [char \in 0 .. 255 |-> IF char \in Zero .. Zero + 9 THEN char - Zero ELSE -Modulus]

Hexadecimal ==
  [char \in 0 .. 255 |-> IF char \in 65 .. 70 THEN char - 55 ELSE Decimal[char]]

(* Types; the loop writes and putString reads inside of the buffer, s[21]  *)
(* or s[22] without its terminator (print.h:65, 87, 100).                  *)
NumbersTypeOK ==
  /\ type \in Types /\ v \in Values /\ value \in Values
  /\ negativ \in BOOLEAN /\ pc \in {"digits", "sign", "done"}
  /\ DOMAIN s \subseteq 0 .. Last /\ index \in 0 .. Last
  /\ pc = "done" => Last - index .. Last = DOMAIN s

Size(n) == IF n < 0 THEN -n ELSE n

(* The text is the number without leading zeros, with a sign if it is      *)
(* negative (print.h:61-102).  Excepted are the minimum of a signed type,  *)
(* whose negation overflows, and a sign before a number that is not        *)
(* negative, as negativ is not initialised.                                *)
PrintsNumber ==
  pc = "done" /\ (type.signed => v # Minimum) =>
    LET digits == IF negativ THEN Tail(PrintedNumber) ELSE PrintedNumber
    IN  /\ Reads(digits, 10, Decimal) = Size(v)
        /\ digits[1] = Zero => Len(digits) = 1
        /\ v < 0 => PrintedNumber[1] = Minus

(* The hexadecimal form of every value has its bits, with two digits for   *)
(* each byte, whatever its sign (print.h:104-117).                         *)
HexPrintsBits ==
  Reads([i \in 1 .. 2 * type.bytes |-> Hex(v)[i - 1]], 16, Hexadecimal) = v % Modulus

(* Decimal and hexadecimal text reads back as the number, but for the two  *)
(* failures of signed types above, and is put inside of its buffer         *)
(* (print.h:61-117).                                                       *)
NumbersReadBack == NumbersTypeOK /\ PrintsNumber /\ HexPrintsBits

===============================================================================
