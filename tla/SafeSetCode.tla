----------------------------- MODULE SafeSetCode -----------------------------
(***************************************************************************)
(* Class codes as bits of a byte vector.  The compiler numbers the classes *)
(* of a family 1..n; the vector of an object has bit k set when the object *)
(* may be cast to the class of code k.  The vector starts with the two     *)
(* bytes of the class index (BitypeUtil.cpp computeCode); the verifier     *)
(* looks at one byte only (bitype.cpp bitype_verify_cast).                 *)
(***************************************************************************)
EXTENDS Integers

Byte == 0 .. 255

(* Bytes of class index that precede the code bits.                        *)
HeaderBytes == 2

(* The byte index and the one-bit mask the compiler passes to the check.   *)
ByteIndex(code) == (code - 1) \div 8
BitMask(code)   == 2^((code - 1) % 8)

(* byte ^ mask, for a mask of one bit.                                     *)
XorBit(byte, mask) == IF (byte \div mask) % 2 = 1 THEN byte - mask
                                                  ELSE byte + mask

(* (tempChar ^ code) > tempChar: the cast is a type confusion.             *)
Rejects(byte, code) == XorBit(byte, BitMask(code)) > byte

Covers(vector, code) == HeaderBytes + ByteIndex(code) \in DOMAIN vector

(* What arr[index] may yield: past the end of the vector, any byte.        *)
ByteAt(vector, code) ==
  IF Covers(vector, code) THEN {vector[HeaderBytes + ByteIndex(code)]} ELSE Byte

(* The safe set a vector stands for.                                       *)
InSafeSet(vector, code) ==
  /\ Covers(vector, code)
  /\ (vector[HeaderBytes + ByteIndex(code)] \div BitMask(code)) % 2 = 1
=============================================================================
