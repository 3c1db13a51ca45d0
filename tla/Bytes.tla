-------------------------------- MODULE Bytes --------------------------------
(***************************************************************************)
(* Bytes, and the sums and bits that the compressions, the ciphers and the *)
(* checksums compute with.                                                 *)
(***************************************************************************)
EXTENDS Naturals, Sequences

Byte == 0..255

Zeros(n) == [i \in 1..n |-> 0]

LeastOf(a, b) == IF a < b THEN a ELSE b

\* What each bit of a byte counts, the lowest first.
PlaceValue == <<1, 2, 4, 8, 16, 32, 64, 128>>

SumOf(numbers) ==
    LET sum[i \in 0..Len(numbers)] == IF i = 0 THEN 0 ELSE sum[i - 1] + numbers[i]
    IN  sum[Len(numbers)]
=============================================================================
