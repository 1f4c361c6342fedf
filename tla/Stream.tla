------------------------------- MODULE Stream -------------------------------
(***************************************************************************)
(* src/stream.c and src/stdarg.c: numbers and formats, printed from the    *)
(* memory of module Strings.  A stream is what has been written to it;     *)
(* console, screen and serial port only differ in where it goes.           *)
(***************************************************************************)
EXTENDS Strings

CONSTANTS
  Percent, LetterD, LetterX, LetterP, LetterS,    \* the characters of formats
  DigitZero,        \* digits are the characters from here on
  Nil,              \* "(nil)", as a sequence of characters
  IntModulus,       \* 2^32
  Arguments         \* what is passed for ...: numbers that may be addresses

ASSUME StreamAssumption ==
  /\ {Percent, LetterD, LetterX, LetterP, LetterS} \subseteq Int
  /\ Percent # NUL
  /\ Nil \in Seq(Int)
  /\ DigitZero \in Nat
  /\ IntModulus \in Nat \ {0}
  /\ Arguments \subseteq Int

Digit(v) == DigitZero + v

\* Mutant of MoreDigits: one division too few.
MoreDigitsAbove(value, radix) == value > radix

\* The loop condition of itoa.
MoreDigits(value, radix) == value >= radix

\* itoa fills its buffer from the end.
Itoa(n, radix) ==
  LET digits[value \in 0 .. n] ==
        IF MoreDigits(value, radix)
        THEN Append(digits[value \div radix], Digit(value % radix))
        ELSE <<Digit(value)>>
  IN  digits[n]

\* stream_write_integer: an int becomes an unsigned long.
Integer(n, radix) == Itoa(n % IntModulus, radix)

\* What stream_write_string writes.
StringAt(s) == [i \in 1 .. Strlen(s) |-> mem[s + i - 1]]

\* Mutant of Consumes: %p looks at its argument and leaves it.
ConsumesNotP(next) == IF next \in {LetterD, LetterX, LetterS} THEN 1 ELSE 0

\* Arguments va_arg has moved past behind a conversion.
Consumes(next) == IF next \in {LetterD, LetterX, LetterP, LetterS} THEN 1 ELSE 0

\* What a conversion writes.  'p' falls through to 'x'; what is no conversion
\* is written as it stands.
Converted(next, value) ==
  CASE next = LetterD -> Integer(value, 10)
    [] next = LetterX -> Integer(value, 16)
    [] next = LetterP -> <<Digit(0), LetterX>> \o Integer(value, 16)
    [] next = LetterS -> IF value = NULL THEN Nil ELSE StringAt(value)
    [] OTHER          -> <<Percent, next>>

\* One turn of the loop of stream_vprintf, at a character of the format and
\* with some arguments consumed: what has been written, and chars_written.
\* A '%' at the end is dropped, and the end is found behind it; at the end the
\* loop is over.
Turn(v, args) ==
  LET next == mem[v.at + 1]
      item == Converted(next, args[v.taken + 1])
  IN  CASE mem[v.at] = NUL -> v
        [] mem[v.at] = Percent /\ next = NUL -> [v EXCEPT !.at = @ + 1]
        [] mem[v.at] = Percent /\ next # NUL ->
             [at      |-> v.at + 2,
              taken   |-> v.taken + Consumes(next),
              out     |-> v.out \o item,
              written |-> v.written + Len(item)]
        [] OTHER -> [v EXCEPT !.at = @ + 1, !.out = @ \o <<mem[v.at]>>, !.written = @ + 1]

Vprintf(fmt, args) ==
  LET after[turn \in 0 .. Strlen(fmt)] ==
        IF turn = 0 THEN [at |-> fmt, taken |-> 0, out |-> <<>>, written |-> 0]
        ELSE Turn(after[turn - 1], args)
  IN  after[Strlen(fmt)]

-----------------------------------------------------------------------------
(***************************************************************************)
(* Properties                                                              *)
(***************************************************************************)

\* The number in three bytes of the memory.
NumberAt(a) == mem[a] + CharModulus * (mem[a + 1] + CharModulus * mem[a + 2])

\* The number a sequence of digits stands for
ReadBack(s, radix) ==
  LET value[i \in 0 .. Len(s)] ==
        IF i = 0 THEN 0 ELSE value[i - 1] * radix + (s[i] - DigitZero)
  IN  value[Len(s)]

\* A number reads back as itself, in either radix, without leading zeros.
NumbersReadBack ==
  \A a \in 0 .. Bytes - 3, radix \in {10, 16} :
    LET s == Itoa(NumberAt(a), radix)
    IN  /\ ReadBack(s, radix) = NumberAt(a)
        /\ \A i \in DOMAIN s : s[i] - DigitZero \in 0 .. radix - 1
        /\ Len(s) > 1 => s[1] # Digit(0)

(***************************************************************************)
(* A format without a parser: a '%' begins a conversion if an even number  *)
(* of them stand directly before it, as every other one is the second      *)
(* character of a conversion itself.                                       *)
(***************************************************************************)
BeginsAt(t, i) ==
  /\ t[i] = Percent
  /\ \E n \in 0 .. i - 1 :
       /\ n % 2 = 0
       /\ \A j \in i - n .. i - 1 : t[j] = Percent
       /\ n + 1 < i => t[i - n - 1] # Percent

Conversions(t) == {i \in 1 .. Len(t) - 1 : BeginsAt(t, i)}

\* The conversions before character i that take an argument
Taken(t, i) ==
  Cardinality({j \in Conversions(t) :
                 j < i /\ t[j + 1] \in {LetterD, LetterX, LetterP, LetterS}})

\* What character i of format t stands for.
Expansion(t, args, i) ==
  IF i \in Conversions(t) THEN Converted(t[i + 1], args[Taken(t, i) + 1])
  ELSE IF i - 1 \in Conversions(t) \/ BeginsAt(t, i) THEN <<>>
  ELSE <<t[i]>>

\* Each argument a %s takes is a string or NULL.
StringsPassed(t, args) ==
  \A i \in Conversions(t) :
    LET a == args[Taken(t, i) + 1] IN t[i + 1] = LetterS /\ a # NULL => IsString(a)

\* Every character of the format is written or converted once, in order, the
\* arguments are used in order, one for each conversion that takes one, the
\* format is left at its end, and the number returned is the number of
\* characters written.
PrintfExpandsFormat ==
  \A fmt \in Addresses, args \in [1 .. Bytes \div 2 -> Arguments] :
    IsString(fmt) /\ StringsPassed(Text(mem, fmt), args) =>
      LET t      == Text(mem, fmt)
          result == Vprintf(fmt, args)
      IN  /\ result.out = FlattenSeq([i \in 1 .. Len(t) |-> Expansion(t, args, i)])
          /\ result.written = Len(result.out)
          /\ result.at = fmt + Len(t)
=============================================================================
