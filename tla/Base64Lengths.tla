--------------------------- MODULE Base64Lengths ---------------------------
(***************************************************************************)
(* The lengths csp-policy computes for base64 text: what encode of         *)
(* base64.rs emits for a number of bytes, and what hash.rs expects of a    *)
(* digest and of a nonce.  The encoder counts whole groups and a           *)
(* remainder, the expectations are rounded divisions.                      *)
(***************************************************************************)
EXTENDS Naturals

\* usize::div_ceil.
CeilDiv(m, n) == (m + n - 1) \div n

\* encode: four characters for three bytes, and one more than the bytes left over.
ContentLen(bytes) ==
    4 * (bytes \div 3) + (IF bytes % 3 = 0 THEN 0 ELSE (bytes % 3) + 1)

\* encode: the "=" that complete the last group.
PaddingLen(bytes) == (3 - (bytes % 3)) % 3

HashAlgorithm == {"sha256", "sha384", "sha512"}

\* HashAlgorithm::digest_len, in bytes.
DigestLen == [sha256 |-> 32, sha384 |-> 48, sha512 |-> 64]

\* A faulty unpadded_len: rounds down.
UnpaddedDown(bytes) == (bytes * 4) \div 3

\* HashAlgorithm::unpadded_len and padded_len, for a digest of that many bytes.
UnpaddedLen(bytes) == CeilDiv(bytes * 4, 3)

PaddedLen(bytes) == CeilDiv(bytes, 3) * 4

\* The characters that carry 128 bits.
MinNonceChars == CeilDiv(128, 6)
=============================================================================
