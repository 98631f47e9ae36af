---------------------------- MODULE PropertyText ----------------------------
(***************************************************************************)
(* How kvdb/common.c writes typed values as text and reads them again.     *)
(*                                                                         *)
(* A text is the sequence of its characters, each a string of length one,  *)
(* without the terminating NUL.  Integers keep their widths, which are     *)
(* parameters; snprintf and strtol belong to the C library.                *)
(***************************************************************************)
EXTENDS Integers, Sequences, SequencesExt

CONSTANTS
    IntBits,       \* the bits of an int32_t
    LongBits,      \* the bits of the long that strtol returns
    LongLongBits   \* the bits of an int64_t and of a long long

ASSUME BitsAssumption ==
    /\ {IntBits, LongBits, LongLongBits} \subseteq Nat \ {0, 1}
    /\ IntBits <= LongBits /\ LongBits <= LongLongBits
    /\ \A bits \in {IntBits, LongBits, LongLongBits} :
          2^(bits - 1) \in Nat \ {0} /\ 2^bits = 2 * 2^(bits - 1)

IntMin(bits) == -(2^(bits - 1))
IntMax(bits) == 2^(bits - 1) - 1
Ints(bits) == IntMin(bits) .. IntMax(bits)

\* n assigned to a signed integer of this width.
Cut(n, bits) == ((n - IntMin(bits)) % 2^bits) + IntMin(bits)

-----------------------------------------------------------------------------
(* Characters *)

LowerDigits == << "0", "1", "2", "3", "4", "5", "6", "7", "8", "9", "a", "b", "c", "d", "e", "f" >>
UpperDigits == << "0", "1", "2", "3", "4", "5", "6", "7", "8", "9", "A", "B", "C", "D", "E", "F" >>
HexDigits == Range(LowerDigits) \cup Range(UpperDigits)

Blank == " "

nibble2ascii_skips(n) == LowerDigits[IF n < 10 THEN n + 1 ELSE n]
nibble2ascii(n) == LowerDigits[n + 1]

ascii2nibble(c) == (CHOOSE i \in 1..16 : c \in {LowerDigits[i], UpperDigits[i]}) - 1

-----------------------------------------------------------------------------
(* Numbers *)

Decimal[n \in Nat] ==
    IF n < 10 THEN << LowerDigits[n + 1] >>
    ELSE Append(Decimal[n \div 10], LowerDigits[(n % 10) + 1])

\* snprintf(buf, 32, "%" PRId32, n), and the same for PRId64.
FormatInt(n) == IF n < 0 THEN << "-" >> \o Decimal[-n] ELSE Decimal[n]

\* strtol takes the digits from the left.
NumberOf(digits, base) ==
    LET sum[i \in 0..Len(digits)] ==
            IF i = 0 THEN 0 ELSE sum[i - 1] * base + ascii2nibble(digits[i])
    IN sum[Len(digits)]

\* strtol(text, &end, 0), up to what the callers look at: is the whole text a
\* number that the result can hold, and which number?  Blanks before it are
\* skipped; a sign may follow; 0x makes it hexadecimal and 0 octal.
strtol(text, bits) ==
    LET starts == {i \in 1..Len(text) : text[i] # Blank}
        a == IF starts = {} THEN <<>> ELSE SubSeq(text, Min(starts), Len(text))
        s == IF a # <<>> /\ a[1] \in {"+", "-"} THEN Tail(a) ELSE a
        hex == Len(s) > 2 /\ s[1] = "0" /\ s[2] \in {"x", "X"}
        base == IF hex THEN 16 ELSE IF s # <<>> /\ s[1] = "0" THEN 8 ELSE 10
        digits == IF hex THEN SubSeq(s, 3, Len(s)) ELSE s
        whole == /\ digits # <<>>
                 /\ \A c \in Range(digits) : c \in HexDigits /\ ascii2nibble(c) < base
        size == NumberOf(digits, base)
        value == IF a[1] = "-" THEN -size ELSE size
    IN IF whole /\ value \in Ints(bits)
       THEN [ok |-> TRUE, value |-> value]
       ELSE [ok |-> FALSE, value |-> 0]

\* What property_get_int32 and property_get_int64 make of a text.
ToInt32(text, default) ==
    LET n == strtol(text, LongBits)
    IN IF n.ok THEN Cut(n.value, IntBits) ELSE default

ToInt64(text, default) ==
    LET n == strtol(text, LongLongBits)
    IN IF n.ok THEN n.value ELSE default

-----------------------------------------------------------------------------
(* Truth values and buffers *)

FormatBool(b) == IF b # 0 THEN << "t", "r", "u", "e" >> ELSE << "f", "a", "l", "s", "e" >>

ToBool(text, default) ==
    IF text \in {<< "0" >>, << "n" >>, << "n", "o" >>, << "o", "f", "f" >>, FormatBool(0)} THEN 0
    ELSE IF text \in {<< "1" >>, << "y" >>, << "y", "e", "s" >>, << "o", "n" >>, FormatBool(1)}
         THEN 1 ELSE default

\* Two digits for each byte.
FormatBuffer(bytes) ==
    [i \in 1 .. 2 * Len(bytes) |->
        LET byte == bytes[(i + 1) \div 2]
        IN nibble2ascii(IF i % 2 = 1 THEN byte \div 16 ELSE byte % 16)]

\* What property_get_buffer makes of a text, for a buffer of size bytes: the
\* pairs are read in order until one is wrong or there is no room for the next.
ToBuffer(text, size) ==
    LET n == Len(text)
        bad == {i \in 1 .. n + (n % 2) : i > n \/ text[i] \notin HexDigits}
    IN IF \E i \in bad : i <= 2 * size THEN [ret |-> "ERANGE", bytes |-> <<>>]
       ELSE IF n > 2 * size THEN [ret |-> "E2BIG", bytes |-> <<>>]
       ELSE [ret |-> "ok",
             bytes |-> [j \in 1 .. n \div 2 |->
                           16 * ascii2nibble(text[2 * j - 1]) + ascii2nibble(text[2 * j])]]

=============================================================================
