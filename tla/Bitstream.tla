------------------------------ MODULE Bitstream ------------------------------
(***************************************************************************)
(* PUTs/01pwp, deps/bitstream: values of any width packed one after the    *)
(* other, from the highest bit of a word down.  The words of the code have *)
(* 32 bits, its bytes 8; both are WordBits here, and shifts drop what      *)
(* leaves a word.                                                          *)
(* A behaviour writes into a buffer bitstream_init has cleared, with one   *)
(* of the three ways to write at a bit position, and reads it back.        *)
(***************************************************************************)
EXTENDS Subject, Integers, Sequences, SequencesExt

CONSTANTS
    WordBits,
    StreamWords    \* words in the buffer

Shl(v, n) == (v * 2 ^ n) % 2 ^ WordBits
Shr(v, n) == v \div 2 ^ n

\* v | w where no bit is set in both
Or(v, w) == v + w

Word(pos) == pos \div WordBits
Offset(pos) == pos % WordBits

bitstream_init == [i \in 0 .. StreamWords - 1 |-> 0]

\* Mutation: what crosses the end of the word is dropped.
MutDropsRight(b, val, nbits, pos) ==
    [b EXCEPT ![Word(pos)] = Or(@, Shr(Shl(val, WordBits - nbits), Offset(pos)))]

bitstream_write_uint32_from_bitoffset(b, val, nbits, pos) ==
    LET left == [b EXCEPT ![Word(pos)] = Or(@, Shr(Shl(val, WordBits - nbits), Offset(pos)))]
        over == Offset(pos) + nbits
    IN  IF WordBits < over
        THEN [left EXCEPT ![Word(pos) + 1] = Shl(val, WordBits - (over % WordBits))]
        ELSE left

bitstream_read_uint32_from_bitoffset(b, nbits, pos) ==
    LET left == Shr(Shl(b[Word(pos)], Offset(pos)), WordBits - nbits)
        over == Offset(pos) + nbits
    IN  IF WordBits < over
        THEN Or(left, Shr(b[Word(pos) + 1], WordBits - (over % WordBits)))
        ELSE left

bitstream_write_bit_from_bitoffset(b, val, pos) ==
    [b EXCEPT ![Word(pos)] = Or(@, Shr(Shl(IF val # 0 THEN 1 ELSE 0, WordBits - 1), Offset(pos)))]

bitstream_read_bit(b, pos) == Shr(Shl(b[Word(pos)], Offset(pos)), WordBits - 1) = 1

\* The byte is split over two; b then moves on one byte, which bit_pos
\* counts here
bitstream_write_ubyte_from_bitoffset(b, value, pos) ==
    [b EXCEPT ![Word(pos)] = Or(Shl(Shr(@, Offset(pos)), Offset(pos)), Shr(value, Offset(pos))),
              ![Word(pos) + 1] = Shl(value, Offset(pos))]

-----------------------------------------------------------------------------
\* abs: the bits written, highest first
Bits(val, nbits) == [i \in 1 .. nbits |-> (val \div 2 ^ (nbits - i)) % 2]

StreamInit ==
    /\ subject = "bitstream"
    /\ \E mode \in {"words", "bits", "bytes"} :
          obj = [mode |-> mode, b |-> bitstream_init, bit_pos |-> 0]
    /\ abs = <<>>

WriteField(nbits, val) ==
    /\ obj.mode = "words"
    /\ obj.bit_pos + nbits <= StreamWords * WordBits
    /\ Becomes([obj EXCEPT !.b = bitstream_write_uint32_from_bitoffset(@, val, nbits, obj.bit_pos),
                           !.bit_pos = @ + nbits], abs \o Bits(val, nbits))

WriteBit(val) ==
    /\ obj.mode = "bits"
    /\ obj.bit_pos < StreamWords * WordBits
    /\ Becomes([obj EXCEPT !.b = bitstream_write_bit_from_bitoffset(@, val, obj.bit_pos),
                           !.bit_pos = @ + 1], Append(abs, val))

\* Both halves are shifted by the same number of bits, and as many bits are
\* cleared: only in the middle of a byte is that the right number, so bytes
\* are written there, behind as many single bits.
WriteLeadingBit ==
    /\ obj.mode = "bytes"
    /\ obj.bit_pos < WordBits \div 2
    /\ Becomes([obj EXCEPT !.b = bitstream_write_bit_from_bitoffset(@, 1, obj.bit_pos),
                           !.bit_pos = @ + 1], Append(abs, 1))

WriteByte(val) ==
    /\ obj.mode = "bytes"
    /\ Offset(obj.bit_pos) = WordBits \div 2
    /\ Word(obj.bit_pos) + 1 < StreamWords
    /\ Becomes([obj EXCEPT !.b = bitstream_write_ubyte_from_bitoffset(@, val, obj.bit_pos),
                           !.bit_pos = @ + WordBits], abs \o Bits(val, WordBits))

StreamNext ==
    /\ subject = "bitstream"
    /\ \/ \E n \in 1 .. WordBits : \E v \in 0 .. 2 ^ n - 1 : WriteField(n, v)
       \/ \E v \in {0, 1} : WriteBit(v)
       \/ WriteLeadingBit
       \/ \E v \in 0 .. 2 ^ WordBits - 1 : WriteByte(v)

\* Every bit written is read back by bitstream_read_bit where it was written, and
\* bitstream_read_uint32_from_bitoffset reads any run of them as the number they
\* spell, also where a value crosses the end of a word.
BitsReadBack ==
    subject = "bitstream" =>
        /\ Len(abs) = obj.bit_pos
        /\ \A i \in DOMAIN abs : bitstream_read_bit(obj.b, i - 1) <=> abs[i] = 1
        /\ \A pos \in 0 .. Len(abs) - 1 : \A n \in 1 .. WordBits :
              pos + n <= Len(abs) =>
                  Bits(bitstream_read_uint32_from_bitoffset(obj.b, n, pos), n) = SubSeq(abs, pos + 1, pos + n)
=============================================================================
