---------------------------- MODULE Identifiers ----------------------------
(***************************************************************************)
(* The identifiers of fixed length (inc/DoIPIdentifiers.h): the VIN of 17   *)
(* bytes, padded with the character '0', and the EID and GID of 6 bytes,    *)
(* padded with zero bytes.                                                  *)
(***************************************************************************)
EXTENDS ByteArray

VIN_LENGTH == 17
EID_LENGTH == 6
PadChar == 48

Smaller(a, b) == IF a < b THEN a ELSE b

\* The constructors from a string, a C string, raw bytes and a ByteArray:
\* copy what fits, cut the rest, pad what is missing.
FixedId(length, padByte, bytes) ==
    [i \in 1..length |-> IF i <= Len(bytes) THEN bytes[i] ELSE padByte]

\* The constructor from an integer, given as its bytes in big-endian order:
\* the low bytes that fit come first, the rest stays zero. It does not pad.
IntegralId(length, bytes) ==
    LET n == Smaller(Len(bytes), length)
    IN  [i \in 1..length |-> IF i <= n THEN bytes[Len(bytes) - n + i] ELSE 0]

toupper(c) == IF c \in 97..122 THEN c - 32 ELSE c

\* normalizeVin as the constructors call it: upper case, not validated.
normalizeVin(string) == [i \in 1..Len(string) |-> toupper(string[i])]

\* DoIpVin from a string.
DoIpVin(string) == FixedId(VIN_LENGTH, PadChar, normalizeVin(string))
VinZero == DoIpVin(<<>>)

DoIpEid(bytes) == FixedId(EID_LENGTH, 0, bytes)
EidZero == DoIpEid(<<>>)
=============================================================================
