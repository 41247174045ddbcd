------------------------------- MODULE Samples -------------------------------
(***************************************************************************)
(* A sample's way from three bytes on the SPI to the float a client reads: *)
(* the 24-bit assembly and sign extension of read_data_samples, the        *)
(* temperature conversion of m20_strain_ble.c and the byte order of the    *)
(* sender.  int32_t is a number of -2^31 .. 2^31 - 1; gcc's shifts of      *)
(* negative numbers are those of two's complement.                         *)
(***************************************************************************)
EXTENDS Integers, Sequences

Byte == 0 .. 255

\* The number the low n bits of x stand for in two's complement.
Signed(x, n) == LET low == x % 2^n IN IF low < 2^(n - 1) THEN low ELSE low - 2^n

\* x << n and x >> n on an int32_t: the top n bits are lost; the sign is kept.
Shl(x, n) == Signed(x, 32 - n) * 2^n
Shr(x, n) == x \div 2^n

\* The tail of read_data_samples, on the three bytes of the static buffer.
\* Mutant: the two shifts that extend the sign are left out.
MutNoSignExtension(b) == Shl(Shl(b[1], 8) + b[2], 8) + b[3]
Assemble(b) ==
  LET low24 == Shl(Shl(b[1], 8) + b[2], 8) + b[3]
  IN  Shr(Shl(low24, 8), 8)

\* The reference: the value of a 24-bit two's complement number, byte by byte.
TwosComplement24(b) ==
  (IF b[1] < 128 THEN b[1] ELSE b[1] - 256) * 65536 + b[2] * 256 + b[3]

\* convertToMicroVTemp: (data >> 10) * 0.03125, counted in units of 0.03125 degrees.  The
\* 14 bits that are left fit a float's mantissa, so the conversion is exact.
convertToMicroVTemp(data) == Shr(data, 10)

\* A float in memory: the four bytes of v, the least significant first.
FloatSize == 4
FloatBytes(v) == [k \in 1 .. FloatSize |-> [of |-> v, byte |-> k - 1]]

\* reverse: rebmun[ix] = number[size - ix - 1].
\* Mutant: one byte too far, so that the next quarter's first byte comes along.
MutReverseOffByOne(number, size) == [ix \in 1 .. size |-> number[size - ix + 2]]
reverse(number, size) == [ix \in 1 .. size |-> number[size - ix + 1]]

\* What a client expects of value v: most significant byte first.
BigEndian(v) == [k \in 1 .. FloatSize |-> [of |-> v, byte |-> FloatSize - k]]
=============================================================================
