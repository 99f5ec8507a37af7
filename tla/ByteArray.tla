----------------------------- MODULE ByteArray -----------------------------
(***************************************************************************)
(* Byte strings as the code uses them (inc/ByteArray.h, inc/DoIPAddress.h). *)
(* A byte string is a sequence of bytes; an index counts from 0 as in the   *)
(* code. An optional value is the empty sequence or a sequence of one.      *)
(***************************************************************************)
EXTENDS Integers, Sequences

Byte == 0..255

None == <<>>
Some(v) == <<v>>
HasValue(opt) == opt # None
Value(opt) == opt[1]

\* The byte data[index], the slice of n bytes from index, what is left after n.
At(data, index) == data[index + 1]
Slice(data, index, n) == SubSeq(data, index + 1, index + n)
Rest(data, n) == SubSeq(data, n + 1, Len(data))

\* Multi-byte integers are big-endian.
readU16BE(data, index) == At(data, index) * 256 + At(data, index + 1)

readU32BE(data, index) ==
    ((At(data, index) * 256 + At(data, index + 1)) * 256
        + At(data, index + 2)) * 256 + At(data, index + 3)

U16BE(value) == << (value \div 256) % 256, value % 256 >>

U32BE(value) ==
    << (value \div 16777216) % 256, (value \div 65536) % 256,
       (value \div 256) % 256, value % 256 >>

\* The appending writers; writeEnum of a one-byte enumeration.
writeU16BE(data, value) == data \o U16BE(value)
writeU32BE(data, value) == data \o U32BE(value)
writeEnum(data, value) == Append(data, value % 256)

\* readAddressFrom: an address is two bytes, ZERO_ADDRESS without data.
DoIPAddress == 0..65535
ZERO_ADDRESS == 0
readAddressFrom(data, index) ==
    IF data = <<>> THEN ZERO_ADDRESS ELSE readU16BE(data, index)
=============================================================================
