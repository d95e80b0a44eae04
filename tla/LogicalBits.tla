----------------------------- MODULE LogicalBits -----------------------------
(***************************************************************************)
(* LogicalBits of slave/slave.rs, the place of a PDO entry or of an FMMU   *)
(* in the process data image, with its conversions between the image and   *)
(* the buffer of a caller.                                                 *)
(*                                                                         *)
(* A bit is represented by the set of the bits it is the logical or of, an *)
(* octet by eight such sets.  What an operation does to every value of the *)
(* image is then seen from one image whose bits have names of their own.   *)
(***************************************************************************)
EXTENDS Integers, Sequences

BitNumber == 0 .. 7

\* A buffer or an image of n octets in which every bit has a name of its own.
NamedOctets(name, n) == [i \in 1 .. n |-> [k \in BitNumber |-> {<<name, i, k>>}]]

ZeroOctet == [k \in BitNumber |-> {}]

\* v >> n, v << n, v | w, v & (0xFF >> (8 - n)) and v & (0xFF << n) of u8.
Shr(v, n) == [k \in BitNumber |-> IF k + n \in BitNumber THEN v[k + n] ELSE {}]
Shl(v, n) == [k \in BitNumber |-> IF k - n \in BitNumber THEN v[k - n] ELSE {}]
Or(v, w) == [k \in BitNumber |-> v[k] \cup w[k]]
LowBits(v, n) == [k \in BitNumber |-> IF k < n THEN v[k] ELSE {}]
HighBits(v, n) == [k \in BitNumber |-> IF k >= n THEN v[k] ELSE {}]

----------------------------------------------------------------------------
\* LogicalBits, without a logical address when address is NoAddress.
NoAddress == -1

NewLogicalBits(bits) == [address |-> NoAddress, start_bit |-> 0, bit_length |-> bits]

ByteLength(b) ==
  LET length == b.bit_length + b.start_bit IN
  IF length % 8 = 0 THEN length \div 8 ELSE length \div 8 + 1

EndBit(b) ==
  LET mod8 == (b.bit_length + b.start_bit) % 8 IN IF mod8 = 0 THEN 7 ELSE mod8 - 1

\* read_to_buffer of the image that begins at the logical address offset, into len
\* octets of zeros.  The next octet is shifted by 7 - start_bit.
ReadToBuffer(b, offset, image, len) ==
  LET size == ByteLength(b)
      first == b.address - offset + 1
      Octet(i) == Or(Shr(image[first + i - 1], b.start_bit),
                     Shl(image[first + i], 7 - b.start_bit))
  IN CASE b.address = NoAddress \/ first + size - 1 > Len(image) \/ len < size -> <<"None">>
       [] OTHER -> <<"Some", [i \in 1 .. len |->
                      CASE i < size -> Octet(i)
                        [] i = size -> Shr(image[first + i - 1], b.start_bit)
                        [] OTHER -> ZeroOctet]>>

\* What write_from_buffer leaves of an octet of the image, the i-th of size.
Kept(b, i, size, v) ==
  LET mod8 == (b.bit_length + b.start_bit) % 8 IN
  CASE i = 1 -> LowBits(v, b.start_bit)
    [] i # 1 /\ i = size /\ mod8 # 0 -> HighBits(v, mod8)
    [] OTHER -> ZeroOctet

\* write_from_buffer: buf is indexed without a check.
WriteFromBuffer(b, offset, image, buf) ==
  LET size == ByteLength(b)
      first == b.address - offset + 1
      Carried(i) == IF i > 1 /\ b.start_bit # 0 THEN Shr(buf[i - 1], 8 - b.start_bit)
                    ELSE ZeroOctet
      Octet(i) == Or(Or(Kept(b, i, size, image[first + i - 1]), Shl(buf[i], b.start_bit)),
                     Carried(i))
  IN CASE b.address = NoAddress \/ first + size - 1 > Len(image) -> <<"None">>
       [] b.address # NoAddress /\ first + size - 1 <= Len(image) /\ Len(buf) < size ->
            <<"panic">>
       [] OTHER -> <<"Some", [n \in DOMAIN image |->
                      IF n \in first .. first + size - 1 THEN Octet(n - first + 1)
                      ELSE image[n]]>>
=============================================================================
