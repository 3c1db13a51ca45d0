-------------------------- MODULE FlashFileProofs --------------------------
(***************************************************************************)
(* Proofs about FlashFile, for every module table and every container that *)
(* satisfy its assumptions.  From the bottom up:                           *)
(*                                                                         *)
(*   - recursive functions: Stepwise is the induction that the operators'  *)
(*     values need, and every loop is shown to run by it;                  *)
(*   - the ciphers, the compressions and the container: what the vendor    *)
(*     put in comes out (OdxIs, FrfIs);                                    *)
(*   - the checksums: each family's correction keeps a block's length and  *)
(*     leaves a block that its own check accepts alone;                    *)
(*   - the image: what is written into it is cut out of it again           *)
(*     (WrittenHolds, RestoredIs);                                         *)
(*   - the tool: Inv says how what the commands leave on the disk is laid  *)
(*     out, and every command keeps it so;                                 *)
(*   - the wire: what is decoded is what was encoded (ReceivedIs), a       *)
(*     corrected checksum holds (BlockAgain, CorrectedEcm3), and SentInv   *)
(*     says of which files the blocks of a download were made;             *)
(*   - the two ways to a flash: a pass of `checksum` changes nothing that  *)
(*     splitting or a second pass looks at (WrittenSplit, PassOver), and   *)
(*     BootInv says that what can be patched is of the own version.        *)
(***************************************************************************)
EXTENDS FlashFileInvariants, FiniteSetTheorems, SequenceTheorems, TLAPS

\* A set that holds 0 and with each number below n the next one holds them all
\* up to n: else the map k |-> k + 1 inside of it and k |-> k outside would put
\* 0..m into 1..m without a collision, for the m that it misses.
LEMMA Stepwise ==
  ASSUME NEW n \in Nat, NEW T, 0 \in T, \A i \in 1..n : i - 1 \in T => i \in T
  PROVE  0..n \subseteq T
<1> SUFFICES ASSUME NEW m \in 0..n, m \notin T PROVE FALSE
  OBVIOUS
<1> DEFINE f == [k \in 0..m |-> IF k \in T THEN k + 1 ELSE k]
<1>0. ASSUME NEW k \in 0..m PROVE f[k] \in 1..m
  <2>1. CASE k \in T
    BY <2>1
  <2>2. CASE k \notin T
    BY <2>2
  <2> QED BY <2>1, <2>2
<1>1. f \in [0..m -> 1..m]
  BY <1>0
<1>2. ASSUME NEW x \in 0..m, NEW y \in 0..m, f[x] = f[y] PROVE x = y
  <2>1. CASE x \in T /\ y \notin T
    BY <1>2, <2>1
  <2>2. CASE x \notin T /\ y \in T
    BY <1>2, <2>2
  <2>3. CASE (x \in T) <=> (y \in T)
    BY <1>2, <2>3
  <2> QED BY <2>1, <2>2, <2>3
<1> HIDE DEF f
<1>3. /\ IsFiniteSet(0..m) /\ Cardinality(0..m) = m + 1
      /\ IsFiniteSet(1..m) /\ Cardinality(1..m) = m
  BY FS_Interval
<1>4. Cardinality(1..m) < Cardinality(0..m)
  BY <1>3
<1>5. \E x, y \in 0..m : x # y /\ f[x] = f[y]
  BY <1>1, <1>3, <1>4, FS_PigeonHole, Zenon
<1> QED BY <1>2, <1>5

\* A recursion over 0..n with values in D has a solution.
LEMMA Recursion ==
  ASSUME NEW n \in Nat, NEW D, NEW init \in D, NEW step \in [1..n -> [D -> D]]
  PROVE  \E f : Solves(f, n, n, D, init, step)
<1> DEFINE T == {m \in 0..n : \E f : Solves(f, m, n, D, init, step)}
<1>1. 0 \in T
  <2> DEFINE f == [i \in 0..n |-> init]
  <2>1. Solves(f, 0, n, D, init, step)
    BY DEF Solves
  <2> HIDE DEF f
  <2> QED BY <2>1
<1>2. ASSUME NEW m \in 1..n, m - 1 \in T PROVE m \in T
  <2>1. PICK f : Solves(f, m - 1, n, D, init, step)
    BY <1>2
  <2> DEFINE g == [i \in 0..n |-> IF i = m THEN step[m][f[m - 1]] ELSE f[i]]
  <2>0. /\ f \in [0..n -> D] /\ f[0] = init
        /\ \A i \in 1..(m - 1) : f[i] = step[i][f[i - 1]]
    BY <2>1 DEF Solves
  <2>2. f[m - 1] \in D
    BY <2>0
  <2>3. step[m][f[m - 1]] \in D
    BY <2>2
  <2>4. g \in [0..n -> D] /\ g[0] = init
    BY <2>0, <2>3
  <2>5. ASSUME NEW i \in 1..m PROVE g[i] = step[i][g[i - 1]]
    <3>1. g[i - 1] = f[i - 1]
      OBVIOUS
    <3>2. CASE i = m
      <4>1. g[m] = step[m][f[m - 1]]
        OBVIOUS
      <4> HIDE DEF g
      <4> QED BY <3>1, <3>2, <4>1
    <3>3. CASE i # m
      BY <2>0, <3>1, <3>3
    <3> QED BY <3>2, <3>3
  <2>6. Solves(g, m, n, D, init, step)
    BY <2>4, <2>5 DEF Solves
  <2> HIDE DEF g
  <2> QED BY <2>6
<1>3. n \in T
  <2> HIDE DEF T
  <2>1. 0..n \subseteq T
    BY <1>1, <1>2, Stepwise
  <2> QED BY <2>1
<1> QED BY <1>3

-----------------------------------------------------------------------------
(***************************************************************************)
(* Sums, CRCs, flattening.                                                 *)
(***************************************************************************)
LEMMA SumOfSolved ==
  ASSUME NEW s \in Seq(Nat)
  PROVE  \E f : Summing(f, s) /\ SumOf(s) = f[Len(s)]
<1> DEFINE n == Len(s)
           Is(f) == f = [i \in 0..n |-> IF i = 0 THEN 0 ELSE f[i - 1] + s[i]]
           step == [i \in 1..n |-> [x \in Nat |-> x + s[i]]]
<1>1. n \in Nat /\ 0 \in Nat
  OBVIOUS
<1>2. step \in [1..n -> [Nat -> Nat]] /\ \A i \in 1..n, x \in Nat : step[i][x] = x + s[i]
  OBVIOUS
<1> HIDE DEF step, n
<1>3. PICK f : Solves(f, n, n, Nat, 0, step)
  BY <1>1, <1>2, Recursion, Zenon
<1>4. \A i \in 1..n : f[i - 1] \in Nat
  BY <1>1, <1>3 DEF Solves
<1>5. Is(f)
  <2>1. f[0] = 0 /\ f = [i \in 0..n |-> f[i]]
    BY <1>3 DEF Solves
  <2>2. \A i \in 1..n : f[i] = step[i][f[i - 1]]
    BY <1>3 DEF Solves
  <2>3. \A i \in 1..n : f[i] = f[i - 1] + s[i]
    BY <1>2, <1>4, <2>2
  <2>4. \A i \in 0..n : f[i] = IF i = 0 THEN 0 ELSE f[i - 1] + s[i]
    BY <1>1, <2>1, <2>3
  <2> QED BY <2>1, <2>4
<1> DEFINE g == CHOOSE h : Is(h)
<1>6. Is(g)
  <2> HIDE DEF Is
  <2> QED BY <1>5
<1>7. SumOf(s) = g[n]
  BY DEF SumOf, n
<1> HIDE DEF g
<1>8. g[0] = 0 /\ \A i \in 1..n : g[i] = g[i - 1] + s[i]
  BY <1>1, <1>6
<1>9. g \in [0..n -> Nat]
  <2> DEFINE T == {i \in 0..n : g[i] \in Nat}
  <2>1. 0 \in T
    BY <1>1, <1>8
  <2>2. ASSUME NEW i \in 1..n, i - 1 \in T PROVE i \in T
    BY <1>8, <2>2 DEF n
  <2>3. 0..n \subseteq T
    <3> HIDE DEF T
    <3> QED BY <1>1, <2>1, <2>2, Stepwise
  <2> QED BY <1>6, <2>3
<1> QED BY <1>7, <1>8, <1>9 DEF n, Summing

LEMMA SumOfType == ASSUME NEW s \in Seq(Nat) PROVE SumOf(s) \in Nat
  BY SumOfSolved DEF Summing

LEMMA SumOf5 ==
  ASSUME NEW s \in [1..5 -> Nat]
  PROVE  SumOf(s) = s[1] + s[2] + s[3] + s[4] + s[5]
<1>1. s \in Seq(Nat) /\ Len(s) = 5
  <2>1. 5 \in Nat /\ s \in [1..5 -> Nat]
    OBVIOUS
  <2>2. s \in Seq(Nat)
    BY <2>1, SeqDef
  <2> QED BY <2>1, <2>2, LenProperties
<1>2. PICK f : Summing(f, s) /\ SumOf(s) = f[5]
  BY <1>1, SumOfSolved, Zenon
<1>3. /\ f[0] = 0 /\ \A i \in 0..5 : f[i] \in Nat
      /\ \A i \in 1..5 : f[i] = f[i - 1] + s[i]
  BY <1>1, <1>2 DEF Summing
<1>4. f[1] = s[1] /\ f[2] = f[1] + s[2] /\ f[3] = f[2] + s[3] /\ f[4] = f[3] + s[4] /\ f[5] = f[4] + s[5]
  BY <1>3
<1> QED BY <1>2, <1>4

LEMMA SumOf8 ==
  ASSUME NEW s \in [1..8 -> Nat]
  PROVE  SumOf(s) = s[1] + s[2] + s[3] + s[4] + s[5] + s[6] + s[7] + s[8]
<1>1. s \in Seq(Nat) /\ Len(s) = 8
  <2>1. 8 \in Nat /\ s \in [1..8 -> Nat]
    OBVIOUS
  <2>2. s \in Seq(Nat)
    BY <2>1, SeqDef
  <2> QED BY <2>1, <2>2, LenProperties
<1>2. PICK f : Summing(f, s) /\ SumOf(s) = f[8]
  BY <1>1, SumOfSolved, Zenon
<1>3. /\ f[0] = 0 /\ \A i \in 0..8 : f[i] \in Nat
      /\ \A i \in 1..8 : f[i] = f[i - 1] + s[i]
  BY <1>1, <1>2 DEF Summing
<1>4. /\ f[1] = s[1] /\ f[2] = f[1] + s[2] /\ f[3] = f[2] + s[3] /\ f[4] = f[3] + s[4]
      /\ f[5] = f[4] + s[5] /\ f[6] = f[5] + s[6] /\ f[7] = f[6] + s[7] /\ f[8] = f[7] + s[8]
  BY <1>3
<1> QED BY <1>2, <1>4

-----------------------------------------------------------------------------
(***************************************************************************)
(* The ciphers undo themselves, up to the zeros that AES fills up with.    *)
(***************************************************************************)
LEMMA AsSeq ==
  ASSUME NEW n \in Nat, NEW S, NEW s \in [1..n -> S]
  PROVE  s \in Seq(S) /\ Len(s) = n /\ DOMAIN s = 1..n
<1>1. s \in Seq(S)
  BY SeqDef
<1> QED BY <1>1, LenProperties

LEMMA SeqAs ==
  ASSUME NEW S, NEW s \in Seq(S)
  PROVE  Len(s) \in Nat /\ DOMAIN s = 1..Len(s) /\ s \in [1..Len(s) -> S]
         /\ s = [i \in 1..Len(s) |-> s[i]]
BY LenProperties

LEMMA SameSeq ==
  ASSUME NEW S, NEW s \in Seq(S), NEW T, NEW t \in Seq(T), Len(s) = Len(t),
         \A i \in 1..Len(s) : s[i] = t[i]
  PROVE  s = t
<1>1. s = [i \in 1..Len(s) |-> s[i]] /\ t = [i \in 1..Len(s) |-> t[i]]
  BY SeqAs
<1> QED BY <1>1

LEMMA ZerosType ==
  ASSUME NEW n \in Nat
  PROVE  /\ Zeros(n) \in Seq(Byte) /\ Len(Zeros(n)) = n /\ DOMAIN Zeros(n) = 1..n
         /\ \A i \in 1..n : Zeros(n)[i] = 0
<1>1. Zeros(n) \in [1..n -> Byte] /\ \A i \in 1..n : Zeros(n)[i] = 0
  BY DEF Zeros, Byte
<1> QED BY <1>1, AsSeq

LEMMA EvaluatedIs ==
  ASSUME NEW S, NEW s \in Seq(S)
  PROVE  Evaluated(s) = s
BY SubSeqFull DEF Evaluated

LEMMA AesByte ==
  ASSUME NEW v \in 0..255
  PROVE  (v + 85) % 256 \in 0..255 /\ (((v + 85) % 256) + 171) % 256 = v
<1>1. (v + 85) % 256 = IF v + 85 < 256 THEN v + 85 ELSE v - 171
  OBVIOUS
<1> QED BY <1>1

LEMMA AesRoundTrip ==
  ASSUME NEW data \in Seq(Byte)
  PROVE  /\ AesEncrypt(data) \in Seq(Byte)
         /\ Len(AesEncrypt(data)) >= Len(data)
         /\ AesDecrypt(AesEncrypt(data)) = data \o AesPad(data)
         /\ data \o AesPad(data) \in Seq(Byte)
<1> DEFINE padded == data \o AesPad(data)
           e == [i \in DOMAIN padded |-> (padded[i] + 85) % 256]
           d == [i \in DOMAIN e |-> (e[i] + 171) % 256]
           n == Len(data) + Len(AesPad(data))
<1>1. Len(data) \in Nat
  OBVIOUS
<1>2. (16 - (Len(data) % 16)) % 16 \in Nat
  BY <1>1
<1>3. AesPad(data) \in Seq(Byte) /\ Len(AesPad(data)) \in Nat
  BY <1>2, ZerosType DEF AesPad
<1>4. padded \in Seq(Byte) /\ Len(padded) = n /\ n \in Nat
  BY <1>1, <1>3
<1> HIDE DEF padded
<1>5. DOMAIN padded = 1..n /\ padded \in [1..n -> Byte]
  BY <1>4, SeqAs
<1>6. e \in [1..n -> Byte] /\ \A i \in 1..n : e[i] = (padded[i] + 85) % 256
  <2>1. ASSUME NEW i \in 1..n PROVE (padded[i] + 85) % 256 \in Byte
    BY <1>5, AesByte DEF Byte
  <2>2. e = [i \in 1..n |-> (padded[i] + 85) % 256]
    BY <1>5
  <2> QED BY <2>1, <2>2
<1> HIDE DEF e
<1>7. \A i \in 1..n : d[i] = padded[i]
  <2> TAKE i \in 1..n
  <2>1. padded[i] \in 0..255
    BY <1>5 DEF Byte
  <2>2. d[i] = (((padded[i] + 85) % 256) + 171) % 256
    BY <1>6
  <2> QED BY <2>1, <2>2, AesByte
<1>8. d = padded
  BY <1>5, <1>6, <1>7
<1>9. e \in Seq(Byte) /\ Len(e) = n
  BY <1>4, <1>6, AsSeq
<1>10. AesEncrypt(data) = e
  BY DEF AesEncrypt, AesPad, padded, e
<1>11. AesDecrypt(e) = d
  BY DEF AesDecrypt
<1> QED BY <1>1, <1>3, <1>4, <1>8, <1>9, <1>10, <1>11 DEF padded

LEMMA Bits ==
  ASSUME NEW a \in Byte
  PROVE  \E b : BitsOf(a, b)
<1> DEFINE b == [k \in 1..8 |-> CASE k = 1 -> a % 2 [] k = 2 -> (a \div 2) % 2 [] k = 3 -> (a \div 4) % 2
                   [] k = 4 -> (a \div 8) % 2 [] k = 5 -> (a \div 16) % 2 [] k = 6 -> (a \div 32) % 2
                   [] k = 7 -> (a \div 64) % 2 [] k = 8 -> (a \div 128) % 2]
<1>1. b \in [1..8 -> 0..1]
  BY DEF Byte
<1>2. /\ b[1] = a % 2 /\ b[2] = (a \div 2) % 2 /\ b[3] = (a \div 4) % 2 /\ b[4] = (a \div 8) % 2
      /\ b[5] = (a \div 16) % 2 /\ b[6] = (a \div 32) % 2 /\ b[7] = (a \div 64) % 2 /\ b[8] = (a \div 128) % 2
  OBVIOUS
<1> HIDE DEF b
<1>3. a = b[1] + 2 * b[2] + 4 * b[3] + 8 * b[4] + 16 * b[5] + 32 * b[6] + 64 * b[7] + 128 * b[8]
  BY <1>2 DEF Byte
<1>4. BitsOf(a, b)
  BY <1>1, <1>3 DEF BitsOf
<1> QED BY <1>4, Zenon

LEMMA Quotients ==
  ASSUME NEW a, NEW x, BitsOf(a, x)
  PROVE  /\ a \div 1 = x[1] + 2 * x[2] + 4 * x[3] + 8 * x[4] + 16 * x[5] + 32 * x[6] + 64 * x[7] + 128 * x[8]
         /\ a \div 2 = x[2] + 2 * x[3] + 4 * x[4] + 8 * x[5] + 16 * x[6] + 32 * x[7] + 64 * x[8]
         /\ a \div 4 = x[3] + 2 * x[4] + 4 * x[5] + 8 * x[6] + 16 * x[7] + 32 * x[8]
         /\ a \div 8 = x[4] + 2 * x[5] + 4 * x[6] + 8 * x[7] + 16 * x[8]
         /\ a \div 16 = x[5] + 2 * x[6] + 4 * x[7] + 8 * x[8]
         /\ a \div 32 = x[6] + 2 * x[7] + 4 * x[8]
         /\ a \div 64 = x[7] + 2 * x[8]
         /\ a \div 128 = x[8]
<1>0. /\ x[1] \in 0..1 /\ x[2] \in 0..1 /\ x[3] \in 0..1 /\ x[4] \in 0..1
      /\ x[5] \in 0..1 /\ x[6] \in 0..1 /\ x[7] \in 0..1 /\ x[8] \in 0..1
      /\ a = x[1] + 2 * x[2] + 4 * x[3] + 8 * x[4] + 16 * x[5] + 32 * x[6] + 64 * x[7] + 128 * x[8]
  BY DEF BitsOf
<1>1. a \div 1 = x[1] + 2 * x[2] + 4 * x[3] + 8 * x[4] + 16 * x[5] + 32 * x[6] + 64 * x[7] + 128 * x[8]
  BY <1>0
<1>12. /\ a = (x[1]) + 2 * (x[2] + 2 * x[3] + 4 * x[4] + 8 * x[5] + 16 * x[6] + 32 * x[7] + 64 * x[8])
      /\ x[1] \in 0..1
      /\ x[2] + 2 * x[3] + 4 * x[4] + 8 * x[5] + 16 * x[6] + 32 * x[7] + 64 * x[8] \in Nat
  <2>1. a = (x[1]) + 2 * (x[2] + 2 * x[3] + 4 * x[4] + 8 * x[5] + 16 * x[6] + 32 * x[7] + 64 * x[8])
    BY <1>0
  <2>2. x[1] \in 0..1
    BY <1>0
  <2>3. x[2] + 2 * x[3] + 4 * x[4] + 8 * x[5] + 16 * x[6] + 32 * x[7] + 64 * x[8] \in Nat
    BY <1>0
  <2> QED BY <2>1, <2>2, <2>3
<1>2. a \div 2 = x[2] + 2 * x[3] + 4 * x[4] + 8 * x[5] + 16 * x[6] + 32 * x[7] + 64 * x[8]
  BY <1>12
<1>13. /\ a = (x[1] + 2 * x[2]) + 4 * (x[3] + 2 * x[4] + 4 * x[5] + 8 * x[6] + 16 * x[7] + 32 * x[8])
      /\ x[1] + 2 * x[2] \in 0..3
      /\ x[3] + 2 * x[4] + 4 * x[5] + 8 * x[6] + 16 * x[7] + 32 * x[8] \in Nat
  <2>1. a = (x[1] + 2 * x[2]) + 4 * (x[3] + 2 * x[4] + 4 * x[5] + 8 * x[6] + 16 * x[7] + 32 * x[8])
    BY <1>0
  <2>2. x[1] + 2 * x[2] \in 0..3
    BY <1>0
  <2>3. x[3] + 2 * x[4] + 4 * x[5] + 8 * x[6] + 16 * x[7] + 32 * x[8] \in Nat
    BY <1>0
  <2> QED BY <2>1, <2>2, <2>3
<1>3. a \div 4 = x[3] + 2 * x[4] + 4 * x[5] + 8 * x[6] + 16 * x[7] + 32 * x[8]
  BY <1>13
<1>14. /\ a = (x[1] + 2 * x[2] + 4 * x[3]) + 8 * (x[4] + 2 * x[5] + 4 * x[6] + 8 * x[7] + 16 * x[8])
      /\ x[1] + 2 * x[2] + 4 * x[3] \in 0..7
      /\ x[4] + 2 * x[5] + 4 * x[6] + 8 * x[7] + 16 * x[8] \in Nat
  <2>1. a = (x[1] + 2 * x[2] + 4 * x[3]) + 8 * (x[4] + 2 * x[5] + 4 * x[6] + 8 * x[7] + 16 * x[8])
    BY <1>0
  <2>2. x[1] + 2 * x[2] + 4 * x[3] \in 0..7
    BY <1>0
  <2>3. x[4] + 2 * x[5] + 4 * x[6] + 8 * x[7] + 16 * x[8] \in Nat
    BY <1>0
  <2> QED BY <2>1, <2>2, <2>3
<1>4. a \div 8 = x[4] + 2 * x[5] + 4 * x[6] + 8 * x[7] + 16 * x[8]
  BY <1>14
<1>15. /\ a = (x[1] + 2 * x[2] + 4 * x[3] + 8 * x[4]) + 16 * (x[5] + 2 * x[6] + 4 * x[7] + 8 * x[8])
      /\ x[1] + 2 * x[2] + 4 * x[3] + 8 * x[4] \in 0..15
      /\ x[5] + 2 * x[6] + 4 * x[7] + 8 * x[8] \in Nat
  <2>1. a = (x[1] + 2 * x[2] + 4 * x[3] + 8 * x[4]) + 16 * (x[5] + 2 * x[6] + 4 * x[7] + 8 * x[8])
    BY <1>0
  <2>2. x[1] + 2 * x[2] + 4 * x[3] + 8 * x[4] \in 0..15
    BY <1>0
  <2>3. x[5] + 2 * x[6] + 4 * x[7] + 8 * x[8] \in Nat
    BY <1>0
  <2> QED BY <2>1, <2>2, <2>3
<1>5. a \div 16 = x[5] + 2 * x[6] + 4 * x[7] + 8 * x[8]
  BY <1>15
<1>16. /\ a = (x[1] + 2 * x[2] + 4 * x[3] + 8 * x[4] + 16 * x[5]) + 32 * (x[6] + 2 * x[7] + 4 * x[8])
      /\ x[1] + 2 * x[2] + 4 * x[3] + 8 * x[4] + 16 * x[5] \in 0..31
      /\ x[6] + 2 * x[7] + 4 * x[8] \in Nat
  <2>1. a = (x[1] + 2 * x[2] + 4 * x[3] + 8 * x[4] + 16 * x[5]) + 32 * (x[6] + 2 * x[7] + 4 * x[8])
    BY <1>0
  <2>2. x[1] + 2 * x[2] + 4 * x[3] + 8 * x[4] + 16 * x[5] \in 0..31
    BY <1>0
  <2>3. x[6] + 2 * x[7] + 4 * x[8] \in Nat
    BY <1>0
  <2> QED BY <2>1, <2>2, <2>3
<1>6. a \div 32 = x[6] + 2 * x[7] + 4 * x[8]
  BY <1>16
<1>17. /\ a = (x[1] + 2 * x[2] + 4 * x[3] + 8 * x[4] + 16 * x[5] + 32 * x[6]) + 64 * (x[7] + 2 * x[8])
      /\ x[1] + 2 * x[2] + 4 * x[3] + 8 * x[4] + 16 * x[5] + 32 * x[6] \in 0..63
      /\ x[7] + 2 * x[8] \in Nat
  <2>1. a = (x[1] + 2 * x[2] + 4 * x[3] + 8 * x[4] + 16 * x[5] + 32 * x[6]) + 64 * (x[7] + 2 * x[8])
    BY <1>0
  <2>2. x[1] + 2 * x[2] + 4 * x[3] + 8 * x[4] + 16 * x[5] + 32 * x[6] \in 0..63
    BY <1>0
  <2>3. x[7] + 2 * x[8] \in Nat
    BY <1>0
  <2> QED BY <2>1, <2>2, <2>3
<1>7. a \div 64 = x[7] + 2 * x[8]
  BY <1>17
<1>18. /\ a = (x[1] + 2 * x[2] + 4 * x[3] + 8 * x[4] + 16 * x[5] + 32 * x[6] + 64 * x[7]) + 128 * (x[8])
      /\ x[1] + 2 * x[2] + 4 * x[3] + 8 * x[4] + 16 * x[5] + 32 * x[6] + 64 * x[7] \in 0..127
      /\ x[8] \in Nat
  <2>1. a = (x[1] + 2 * x[2] + 4 * x[3] + 8 * x[4] + 16 * x[5] + 32 * x[6] + 64 * x[7]) + 128 * (x[8])
    BY <1>0
  <2>2. x[1] + 2 * x[2] + 4 * x[3] + 8 * x[4] + 16 * x[5] + 32 * x[6] + 64 * x[7] \in 0..127
    BY <1>0
  <2>3. x[8] \in Nat
    BY <1>0
  <2> QED BY <2>1, <2>2, <2>3
<1>8. a \div 128 = x[8]
  BY <1>18
<1> QED BY <1>1, <1>2, <1>3, <1>4, <1>5, <1>6, <1>7, <1>8

LEMMA Halved ==
  ASSUME NEW p \in [1..8 -> 0..1]
  PROVE  p[1] + 2 * p[2] + 4 * p[3] + 8 * p[4] + 16 * p[5] + 32 * p[6] + 64 * p[7] + 128 * p[8]
         = p[1] + 2 * (p[2] + 2 * p[3] + 4 * p[4] + 8 * p[5] + 16 * p[6] + 32 * p[7] + 64 * p[8])
<1>1. p[1] \in Int /\ p[2] \in Int /\ p[3] \in Int /\ p[4] \in Int /\ p[5] \in Int /\ p[6] \in Int /\ p[7] \in Int /\ p[8] \in Int
  OBVIOUS
<1> QED BY <1>1

LEMMA XorBits ==
  ASSUME NEW a, NEW b, NEW x, NEW y, BitsOf(a, x), BitsOf(b, y)
  PROVE  BitsOf(Xor(a, b), [k \in 1..8 |-> (x[k] + y[k]) % 2]) /\ Xor(a, b) \in Byte
<1> DEFINE z == [k \in 1..8 |-> (x[k] + y[k]) % 2]
           s == [k \in 1..8 |-> PlaceValue[k] * ((a \div PlaceValue[k] + b \div PlaceValue[k]) % 2)]
<1>0. /\ x \in [1..8 -> 0..1] /\ y \in [1..8 -> 0..1]
      /\ a = x[1] + 2 * x[2] + 4 * x[3] + 8 * x[4] + 16 * x[5] + 32 * x[6] + 64 * x[7] + 128 * x[8]
      /\ b = y[1] + 2 * y[2] + 4 * y[3] + 8 * y[4] + 16 * y[5] + 32 * y[6] + 64 * y[7] + 128 * y[8]
  BY DEF BitsOf
<1>z. z \in [1..8 -> 0..1] /\ \A k \in 1..8 : z[k] = (x[k] + y[k]) % 2
  BY <1>0
<1>p. /\ PlaceValue[1] = 1 /\ PlaceValue[2] = 2 /\ PlaceValue[3] = 4 /\ PlaceValue[4] = 8
      /\ PlaceValue[5] = 16 /\ PlaceValue[6] = 32 /\ PlaceValue[7] = 64 /\ PlaceValue[8] = 128
  BY DEF PlaceValue
<1>s. \A k \in 1..8 : s[k] = PlaceValue[k] * ((a \div PlaceValue[k] + b \div PlaceValue[k]) % 2)
  OBVIOUS
<1>d. DOMAIN s = 1..8 /\ s = [k \in 1..8 |-> s[k]]
  OBVIOUS
<1>x. Xor(a, b) = SumOf(s)
  BY DEF Xor
<1> HIDE DEF z, s
<1>t. /\ x[1] \in 0..1 /\ x[2] \in 0..1 /\ x[3] \in 0..1 /\ x[4] \in 0..1
      /\ x[5] \in 0..1 /\ x[6] \in 0..1 /\ x[7] \in 0..1 /\ x[8] \in 0..1
      /\ y[1] \in 0..1 /\ y[2] \in 0..1 /\ y[3] \in 0..1 /\ y[4] \in 0..1
      /\ y[5] \in 0..1 /\ y[6] \in 0..1 /\ y[7] \in 0..1 /\ y[8] \in 0..1
  BY <1>0
<1>q. /\ a \div 1 = x[1] + 2 * x[2] + 4 * x[3] + 8 * x[4] + 16 * x[5] + 32 * x[6] + 64 * x[7] + 128 * x[8]
      /\ a \div 2 = x[2] + 2 * x[3] + 4 * x[4] + 8 * x[5] + 16 * x[6] + 32 * x[7] + 64 * x[8]
      /\ a \div 4 = x[3] + 2 * x[4] + 4 * x[5] + 8 * x[6] + 16 * x[7] + 32 * x[8]
      /\ a \div 8 = x[4] + 2 * x[5] + 4 * x[6] + 8 * x[7] + 16 * x[8]
      /\ a \div 16 = x[5] + 2 * x[6] + 4 * x[7] + 8 * x[8]
      /\ a \div 32 = x[6] + 2 * x[7] + 4 * x[8]
      /\ a \div 64 = x[7] + 2 * x[8]
      /\ a \div 128 = x[8]
  BY Quotients
<1>r. /\ b \div 1 = y[1] + 2 * y[2] + 4 * y[3] + 8 * y[4] + 16 * y[5] + 32 * y[6] + 64 * y[7] + 128 * y[8]
      /\ b \div 2 = y[2] + 2 * y[3] + 4 * y[4] + 8 * y[5] + 16 * y[6] + 32 * y[7] + 64 * y[8]
      /\ b \div 4 = y[3] + 2 * y[4] + 4 * y[5] + 8 * y[6] + 16 * y[7] + 32 * y[8]
      /\ b \div 8 = y[4] + 2 * y[5] + 4 * y[6] + 8 * y[7] + 16 * y[8]
      /\ b \div 16 = y[5] + 2 * y[6] + 4 * y[7] + 8 * y[8]
      /\ b \div 32 = y[6] + 2 * y[7] + 4 * y[8]
      /\ b \div 64 = y[7] + 2 * y[8]
      /\ b \div 128 = y[8]
  BY Quotients
<1>1. s[1] = z[1]
  <2>1. s[1] = 1 * ((a \div 1 + b \div 1) % 2) /\ z[1] = (x[1] + y[1]) % 2
    BY <1>p, <1>s, <1>z
  <2> QED
    <3> DEFINE u == a \div 2
               w == b \div 2
    <3>1. a \div 1 = x[1] + 2 * u /\ u \in Nat
      <4>1. a \div 1 = x[1] + 2 * x[2] + 4 * x[3] + 8 * x[4] + 16 * x[5] + 32 * x[6] + 64 * x[7] + 128 * x[8]
        BY <1>q, Zenon
      <4>2. u = x[2] + 2 * x[3] + 4 * x[4] + 8 * x[5] + 16 * x[6] + 32 * x[7] + 64 * x[8]
        BY <1>q, Zenon
      <4>3. u \in Nat
        BY <4>2, <1>t
      <4> HIDE DEF u
      <4> QED BY <1>0, <4>1, <4>2, <4>3, Halved, Zenon
    <3>2. b \div 1 = y[1] + 2 * w /\ w \in Nat
      <4>1. b \div 1 = y[1] + 2 * y[2] + 4 * y[3] + 8 * y[4] + 16 * y[5] + 32 * y[6] + 64 * y[7] + 128 * y[8]
        BY <1>r, Zenon
      <4>2. w = y[2] + 2 * y[3] + 4 * y[4] + 8 * y[5] + 16 * y[6] + 32 * y[7] + 64 * y[8]
        BY <1>r, Zenon
      <4>3. w \in Nat
        BY <4>2, <1>t
      <4> HIDE DEF w
      <4> QED BY <1>0, <4>1, <4>2, <4>3, Halved, Zenon
    <3> HIDE DEF u, w
    <3>3. (a \div 1 + b \div 1) % 2 = (x[1] + y[1]) % 2
      BY <3>1, <3>2, <1>t
    <3>4. (x[1] + y[1]) % 2 \in 0..1
      BY <1>t
    <3> QED BY <2>1, <3>3, <3>4
<1>2. s[2] = 2 * z[2]
  BY <1>q, <1>r, <1>t, <1>p, <1>s, <1>z
<1>3. s[3] = 4 * z[3]
  BY <1>q, <1>r, <1>t, <1>p, <1>s, <1>z
<1>4. s[4] = 8 * z[4]
  BY <1>q, <1>r, <1>t, <1>p, <1>s, <1>z
<1>5. s[5] = 16 * z[5]
  BY <1>q, <1>r, <1>t, <1>p, <1>s, <1>z
<1>6. s[6] = 32 * z[6]
  BY <1>q, <1>r, <1>t, <1>p, <1>s, <1>z
<1>7. s[7] = 64 * z[7]
  BY <1>q, <1>r, <1>t, <1>p, <1>s, <1>z
<1>8. s[8] = 128 * z[8]
  BY <1>q, <1>r, <1>t, <1>p, <1>s, <1>z
<1>9. s \in [1..8 -> Nat]
  BY <1>d, <1>z, <1>1, <1>2, <1>3, <1>4, <1>5, <1>6, <1>7, <1>8
<1>10. SumOf(s) = z[1] + 2 * z[2] + 4 * z[3] + 8 * z[4] + 16 * z[5] + 32 * z[6] + 64 * z[7] + 128 * z[8]
  BY <1>1, <1>2, <1>3, <1>4, <1>5, <1>6, <1>7, <1>8, <1>9, SumOf8
<1>11. SumOf(s) \in Byte
  BY <1>10, <1>z DEF Byte
<1> QED BY <1>x, <1>10, <1>11, <1>z DEF BitsOf, z

LEMMA XorTwice ==
  ASSUME NEW a \in Byte, NEW b \in Byte
  PROVE  Xor(a, b) \in Byte /\ Xor(Xor(a, b), b) = a
<1>1. PICK x : BitsOf(a, x)
  BY Bits, Zenon
<1>2. PICK y : BitsOf(b, y)
  BY Bits, Zenon
<1> DEFINE z == [k \in 1..8 |-> (x[k] + y[k]) % 2]
           w == [k \in 1..8 |-> (z[k] + y[k]) % 2]
<1>3. BitsOf(Xor(a, b), z) /\ Xor(a, b) \in Byte
  BY <1>1, <1>2, XorBits
<1>4. BitsOf(Xor(Xor(a, b), b), w)
  <2> HIDE DEF z
  <2> QED BY <1>2, <1>3, XorBits
<1>5. x \in [1..8 -> 0..1] /\ y \in [1..8 -> 0..1]
  BY <1>1, <1>2 DEF BitsOf
<1>6. w = x
  BY <1>5
<1> QED
  <2> HIDE DEF w
  <2> QED BY <1>1, <1>3, <1>4, <1>6 DEF BitsOf

LEMMA XorRoundTrip ==
  ASSUME NEW data \in Seq(Byte)
  PROVE  SimosXor(data) \in Seq(Byte) /\ Len(SimosXor(data)) = Len(data)
         /\ SimosXor(SimosXor(data)) = data
<1> DEFINE n == Len(data)
           e == [i \in 1..n |-> Xor(data[i], (i - 1) % 256)]
<1>1. n \in Nat /\ DOMAIN data = 1..n /\ data \in [1..n -> Byte]
  BY SeqAs
<1> HIDE DEF n
<1>2. ASSUME NEW i \in 1..n
      PROVE  Xor(data[i], (i - 1) % 256) \in Byte
             /\ Xor(Xor(data[i], (i - 1) % 256), (i - 1) % 256) = data[i]
  <2>1. data[i] \in Byte /\ (i - 1) % 256 \in Byte
    BY <1>1 DEF Byte
  <2> QED BY <2>1, XorTwice
<1>3. e \in [1..n -> Byte] /\ SimosXor(data) = e
  BY <1>1, <1>2 DEF SimosXor
<1>4. \A i \in 1..n : e[i] = Xor(data[i], (i - 1) % 256)
  OBVIOUS
<1> HIDE DEF e
<1>5. e \in Seq(Byte) /\ Len(e) = n /\ DOMAIN e = 1..n
  BY <1>1, <1>3, AsSeq
<1>6. SimosXor(e) = [i \in 1..n |-> data[i]]
  BY <1>2, <1>4, <1>5 DEF SimosXor
<1>7. data = [i \in 1..n |-> data[i]]
  BY <1>1
<1> QED BY <1>3, <1>5, <1>6, <1>7 DEF n

LEMMA DsgKeyInverse ==
  ASSUME NEW p \in Byte
  PROVE  DSG_INV[p] \in Byte /\ DSG_KEY[DSG_INV[p]] = p
<1> DEFINE i == (205 * (p + 253)) % 256
<1>1. p \in 0..255
  BY DEF Byte
<1>2. i \in 0..255
  BY <1>1
<1>3. (5 * i + 3) % 256 = p
  BY <1>1
<1> HIDE DEF i
<1>4. DSG_KEY[i] = p
  BY <1>2, <1>3 DEF DSG_KEY
<1>5. DSG_INV[p] = CHOOSE j \in 0..255 : DSG_KEY[j] = p
  BY <1>1 DEF DSG_INV
<1>6. (CHOOSE j \in 0..255 : DSG_KEY[j] = p) \in 0..255
      /\ DSG_KEY[CHOOSE j \in 0..255 : DSG_KEY[j] = p] = p
  BY <1>2, <1>4, Zenon
<1> QED BY <1>5, <1>6 DEF Byte

LEMMA DsgKeyType ==
  ASSUME NEW i \in Byte
  PROVE  DSG_KEY[i] \in Byte
BY DEF DSG_KEY, Byte

LEMMA FourBytes ==
  ASSUME NEW a \in 0..255, NEW b \in 0..255, NEW c \in 0..255, NEW d \in 0..255
  PROVE  (a + b + c + d) % 256 \in 0..255
OBVIOUS

LEMMA DsgRollType ==
  ASSUME NEW s \in RollState, NEW i \in Nat, NEW plain \in Byte
  PROVE  DsgRoll(s, i, plain) \in RollState
<1> DEFINE k == ((i * 359) \div 256) % 256
           o == (s.offset + plain + s.last + DSG_KEY[k]) % 256
<1>1. k \in Byte
  BY DEF Byte
<1> HIDE DEF k
<1>2. DSG_KEY[k] \in Byte
  BY <1>1, DsgKeyType
<1>3. s.offset \in Byte /\ s.last \in Byte
  BY DEF RollState
<1>4. o \in Byte
  <2> DEFINE b == DSG_KEY[k]
  <2>1. b \in 0..255 /\ s.offset \in 0..255 /\ s.last \in 0..255 /\ plain \in 0..255
    BY <1>2, <1>3 DEF Byte
  <2> HIDE DEF b
  <2>2. (s.offset + plain + s.last + b) % 256 \in 0..255
    BY <2>1, FourBytes, Zenon
  <2> QED BY <2>2 DEF Byte, b
<1> HIDE DEF o
<1>5. DsgRoll(s, i, plain) = [offset |-> o, last |-> plain]
  BY DEF DsgRoll, o, k
<1> QED BY <1>4, <1>5 DEF RollState

LEMMA DsgEncryptRolls ==
  ASSUME NEW data \in Seq(Byte)
  PROVE  \E f : Rolling(f, data) /\ EncryptedBy(f, data)
<1> DEFINE n == Len(data)
           Is(f) == f = [i \in 0..n |-> IF i = 0 THEN DsgStart ELSE DsgRoll(f[i - 1], i, data[i])]
           step == [i \in 1..n |-> [x \in RollState |-> DsgRoll(x, i, data[i])]]
<1>1. n \in Nat /\ DsgStart \in RollState /\ \A i \in 1..n : data[i] \in Byte
  <2>1. DsgStart \in RollState
    BY DEF RollState, DsgStart, Byte
  <2> QED BY <2>1
<1>2. step \in [1..n -> [RollState -> RollState]]
      /\ \A i \in 1..n, x \in RollState : step[i][x] = DsgRoll(x, i, data[i])
  BY <1>1, DsgRollType
<1>d. DOMAIN data = 1..n
  BY SeqAs
<1> HIDE DEF step, n
<1>3. PICK f : Solves(f, n, n, RollState, DsgStart, step)
  BY <1>1, <1>2, Recursion, Zenon
<1>4. \A i \in 1..n : f[i - 1] \in RollState
  BY <1>1, <1>3 DEF Solves
<1>5. Is(f)
  <2>1. f[0] = DsgStart /\ f = [i \in 0..n |-> f[i]]
    BY <1>3 DEF Solves
  <2>2. \A i \in 1..n : f[i] = step[i][f[i - 1]]
    BY <1>3 DEF Solves
  <2>3. \A i \in 1..n : f[i] = DsgRoll(f[i - 1], i, data[i])
    BY <1>2, <1>4, <2>2
  <2>4. \A i \in 0..n : f[i] = IF i = 0 THEN DsgStart ELSE DsgRoll(f[i - 1], i, data[i])
    BY <1>1, <2>1, <2>3
  <2> QED BY <2>1, <2>4
<1> DEFINE g == CHOOSE h : Is(h)
<1>6. Is(g)
  <2> HIDE DEF Is
  <2> QED BY <1>5
<1>7. DsgEncrypt(data) = [i \in 1..n |-> (DSG_INV[data[i]] - g[i - 1].offset) % 256]
  BY <1>d DEF DsgEncrypt, n
<1> HIDE DEF g
<1>8. g[0] = DsgStart /\ \A i \in 1..n : g[i] = DsgRoll(g[i - 1], i, data[i])
  BY <1>1, <1>6
<1>9. g \in [0..n -> RollState]
  <2> DEFINE T == {i \in 0..n : g[i] \in RollState}
  <2>1. 0 \in T
    BY <1>1, <1>8
  <2>2. ASSUME NEW i \in 1..n, i - 1 \in T PROVE i \in T
    BY <1>1, <1>8, <2>2, DsgRollType
  <2>3. 0..n \subseteq T
    <3> HIDE DEF T
    <3> QED BY <1>1, <2>1, <2>2, Stepwise
  <2> QED BY <1>6, <2>3
<1> QED BY <1>7, <1>8, <1>9 DEF n, Rolling, EncryptedBy

LEMMA DsgByte ==
  ASSUME NEW v \in 0..255, NEW o \in 0..255
  PROVE  (v - o) % 256 \in 0..255 /\ (((v - o) % 256) + o) % 256 = v
OBVIOUS

LEMMA DsgRoundTrip ==
  ASSUME NEW data \in Seq(Byte)
  PROVE  DsgEncrypt(data) \in Seq(Byte) /\ Len(DsgEncrypt(data)) = Len(data)
         /\ DsgDecrypt(DsgEncrypt(data)) = data
<1>0. PICK f : Rolling(f, data) /\ EncryptedBy(f, data)
  BY DsgEncryptRolls, Zenon
<1> DEFINE n == Len(data)
           e == [i \in 1..n |-> (DSG_INV[data[i]] - f[i - 1].offset) % 256]
           plain(s, i) == DSG_KEY[(e[i] + s.offset) % 256]
           Is(h) == h = [i \in 0..n |-> IF i = 0 THEN DsgStart
                                        ELSE LET s == h[i - 1] IN DsgRoll(s, i, plain(s, i))]
           g == CHOOSE h : Is(h)
<1>1. n \in Nat /\ (\A i \in 1..n : data[i] \in Byte) /\ data = [i \in 1..n |-> data[i]]
  BY SeqAs
<1>2. /\ f \in [0..n -> RollState] /\ f[0] = DsgStart
      /\ \A i \in 1..n : f[i] = DsgRoll(f[i - 1], i, data[i])
      /\ \A i \in 1..n : f[i - 1] \in RollState /\ f[i - 1].offset \in 0..255
  <2>1. /\ f \in [0..n -> RollState] /\ f[0] = DsgStart
        /\ \A i \in 1..n : f[i] = DsgRoll(f[i - 1], i, data[i])
    BY <1>0 DEF Rolling
  <2>2. ASSUME NEW i \in 1..n PROVE f[i - 1] \in RollState /\ f[i - 1].offset \in 0..255
    <3>1. f[i - 1] \in RollState
      BY <1>1, <2>1
    <3> QED BY <3>1 DEF RollState, Byte
  <2> QED BY <2>1, <2>2
<1>3. DsgEncrypt(data) = e
  BY <1>0 DEF EncryptedBy
<1>4. ASSUME NEW i \in 1..n
      PROVE  e[i] \in Byte /\ plain(f[i - 1], i) = data[i]
  <2>1. DSG_INV[data[i]] \in 0..255 /\ DSG_KEY[DSG_INV[data[i]]] = data[i]
    BY <1>1, DsgKeyInverse DEF Byte
  <2>2. e[i] = (DSG_INV[data[i]] - f[i - 1].offset) % 256
    OBVIOUS
  <2> HIDE DEF e
  <2>4. f[i - 1].offset \in 0..255
    BY <1>2
  <2> DEFINE v == DSG_INV[data[i]]
             o == f[i - 1].offset
  <2>5. v \in 0..255 /\ o \in 0..255 /\ e[i] = (v - o) % 256
    BY <2>1, <2>2, <2>4
  <2> HIDE DEF v, o
  <2>3. e[i] \in 0..255 /\ (e[i] + o) % 256 = v
    <3>1. (v - o) % 256 \in 0..255 /\ (((v - o) % 256) + o) % 256 = v
      BY <2>5, DsgByte
    <3> QED BY <2>5, <3>1, Zenon
  <2> QED BY <2>1, <2>3 DEF Byte, v, o
<1>5. e \in Seq(Byte) /\ Len(e) = n /\ DOMAIN e = 1..n
  <2>1. e \in [1..n -> Byte]
    BY <1>4
  <2> HIDE DEF e
  <2> QED BY <1>1, <2>1, AsSeq
<1>6. DsgDecrypt(e) = [i \in 1..n |-> plain(g[i - 1], i)]
  <2> HIDE DEF e
  <2> QED BY <1>5 DEF DsgDecrypt
<1> HIDE DEF e
<1>7. Is(f)
  <2>1. f = [i \in 0..n |-> f[i]]
    BY <1>2
  <2>2. ASSUME NEW i \in 1..n PROVE f[i] = DsgRoll(f[i - 1], i, plain(f[i - 1], i))
    <3> HIDE DEF plain
    <3> QED BY <1>2, <1>4
  <2> HIDE DEF plain
  <2>3. \A i \in 0..n : f[i] = IF i = 0 THEN DsgStart ELSE LET s == f[i - 1] IN DsgRoll(s, i, plain(s, i))
    BY <1>1, <1>2, <2>2
  <2> QED BY <2>1, <2>3
<1>8. Is(g)
  <2> HIDE DEF Is
  <2> QED BY <1>7
<1> HIDE DEF g, plain
<1>9. g[0] = DsgStart /\ \A i \in 1..n : g[i] = DsgRoll(g[i - 1], i, plain(g[i - 1], i))
  BY <1>1, <1>8
<1>10. \A i \in 0..n : g[i] = f[i]
  <2> DEFINE T == {i \in 0..n : g[i] = f[i]}
  <2>1. 0 \in T
    BY <1>1, <1>2, <1>9
  <2>2. ASSUME NEW i \in 1..n, i - 1 \in T PROVE i \in T
    BY <1>2, <1>4, <1>9, <2>2
  <2> HIDE DEF T
  <2>3. 0..n \subseteq T
    BY <1>1, <2>1, <2>2, Stepwise
  <2> QED BY <2>3 DEF T
<1>11. \A i \in 1..n : plain(g[i - 1], i) = data[i]
  <2> TAKE i \in 1..n
  <2>1. g[i - 1] = f[i - 1]
    BY <1>1, <1>10
  <2> QED BY <1>4, <2>1
<1>12. DsgDecrypt(e) = data
  BY <1>1, <1>6, <1>11
<1> QED BY <1>3, <1>5, <1>12

LEMMA CipherRoundTrip ==
  ASSUME NEW data \in Seq(Byte), NEW crypto \in {"Aes", "Xor", "Dsg", "NoCrypto"}
  PROVE  /\ encrypt(crypto, data) \in Seq(Byte)
         /\ Len(encrypt(crypto, data)) >= Len(data)
         /\ decrypt(crypto, encrypt(crypto, data)) = Padded(crypto, data)
         /\ Padded(crypto, data) \in Seq(Byte)
<1>0. Len(data) \in Nat
  OBVIOUS
<1>1. CASE crypto = "Aes"
  BY <1>1, AesRoundTrip, EvaluatedIs DEF encrypt, decrypt, Padded
<1>2. CASE crypto = "Xor"
  BY <1>0, <1>2, XorRoundTrip, EvaluatedIs DEF encrypt, decrypt, Padded
<1>3. CASE crypto = "Dsg"
  BY <1>0, <1>3, DsgRoundTrip, EvaluatedIs DEF encrypt, decrypt, Padded
<1>4. CASE crypto = "NoCrypto"
  BY <1>0, <1>4, EvaluatedIs DEF encrypt, decrypt, Padded
<1> QED BY <1>1, <1>2, <1>3, <1>4

LEMMA RunExists ==
  ASSUME NEW n \in Nat, NEW S, NEW init \in S[0], NEW step, Steps(n, S, step)
  PROVE  \E f : Runs(f, n, S, init, step)
<1> DEFINE D == UNION {S[i] : i \in 0..n}
           total == [i \in 1..n |-> [x \in D |-> IF x \in S[i - 1] THEN step[i][x] ELSE init]]
<1>1. \A i \in 0..n : \A x : x \in S[i] => x \in D
  OBVIOUS
<1> HIDE DEF D
<1>2. init \in D
  BY <1>1
<1>3. ASSUME NEW i \in 1..n, NEW x \in D
      PROVE  (IF x \in S[i - 1] THEN step[i][x] ELSE init) \in D
  <2>1. CASE x \in S[i - 1]
    BY <1>1, <2>1 DEF Steps
  <2>2. CASE x \notin S[i - 1]
    BY <1>2, <2>2
  <2> QED BY <2>1, <2>2
<1>4. total \in [1..n -> [D -> D]]
  BY <1>3
<1>5. \A i \in 1..n, x \in D : x \in S[i - 1] => total[i][x] = step[i][x]
  OBVIOUS
<1> HIDE DEF total
<1>6. PICK f : Solves(f, n, n, D, init, total)
  BY <1>2, <1>4, Recursion, Zenon
<1>7. /\ f \in [0..n -> D] /\ f[0] = init
      /\ \A i \in 1..n : f[i] = total[i][f[i - 1]]
  BY <1>6 DEF Solves
<1> DEFINE T == {i \in 0..n : f[i] \in S[i]}
<1>8. 0 \in T
  BY <1>7
<1>9. ASSUME NEW i \in 1..n, i - 1 \in T
      PROVE  i \in T /\ f[i] = step[i][f[i - 1]]
  BY <1>5, <1>7, <1>9 DEF Steps
<1>10. 0..n \subseteq T
  <2> HIDE DEF T
  <2> QED BY <1>8, <1>9, Stepwise
<1>11. \A i \in 1..n : i - 1 \in T
  BY <1>10
<1>12. Runs(f, n, S, init, step)
  BY <1>7, <1>9, <1>10, <1>11 DEF Runs
<1> QED BY <1>12

\* Whatever computes the same steps runs through the same sets.
LEMMA RunFollowed ==
  ASSUME NEW n \in Nat, NEW S, NEW init \in S[0], NEW step, Steps(n, S, step),
         NEW g, g = [i \in 0..n |-> g[i]], g[0] = init,
         \A i \in 1..n : g[i - 1] \in S[i - 1] => g[i] = step[i][g[i - 1]]
  PROVE  Runs(g, n, S, init, step)
<1> DEFINE T == {i \in 0..n : g[i] \in S[i]}
<1>1. 0 \in T
  OBVIOUS
<1>2. ASSUME NEW i \in 1..n, i - 1 \in T PROVE i \in T
  <2>1. g[i] = step[i][g[i - 1]] /\ g[i - 1] \in S[i - 1]
    BY <1>2
  <2> QED BY <2>1 DEF Steps
<1>3. 0..n \subseteq T
  <2> HIDE DEF T
  <2> QED BY <1>1, <1>2, Stepwise
<1>4. \A i \in 1..n : i - 1 \in T
  BY <1>3
<1> QED BY <1>3, <1>4 DEF Runs

-----------------------------------------------------------------------------
(***************************************************************************)
(* What the vendor compressed, the extractor unpacks.                      *)
(***************************************************************************)
LEMMA Nines ==
  ASSUME NEW n \in Nat
  PROVE  /\ (n + 7) \div 8 \in Nat
         /\ \A k \in 1..n :
              /\ k + ((k + 7) \div 8) \in 1..(n + ((n + 7) \div 8))
              /\ (k + ((k + 7) \div 8)) % 9 # 1
              /\ (k + ((k + 7) \div 8)) - ((k + ((k + 7) \div 8) + 8) \div 9) = k
         /\ \A p \in 1..(n + ((n + 7) \div 8)) : p % 9 # 1 => p - ((p + 8) \div 9) \in 1..n
<1>1. (n + 7) \div 8 \in Nat
  OBVIOUS
<1>2. ASSUME NEW k \in 1..n
      PROVE  /\ k + ((k + 7) \div 8) \in 1..(n + ((n + 7) \div 8))
             /\ (k + ((k + 7) \div 8)) % 9 # 1
             /\ (k + ((k + 7) \div 8)) - ((k + ((k + 7) \div 8) + 8) \div 9) = k
  <2> DEFINE c == (k + 7) \div 8
  <2>1. c \in Nat /\ 8 * c >= k /\ 8 * c < k + 8 /\ c >= 1
    OBVIOUS
  <2>2. c <= (n + 7) \div 8
    OBVIOUS
  <2> HIDE DEF c
  <2>3. (k + c) % 9 # 1 /\ (k + c + 8) \div 9 = c
    BY <2>1
  <2>4. k + c \in 1..(n + ((n + 7) \div 8))
    BY <1>1, <2>1, <2>2
  <2>5. (k + c) - c = k
    BY <2>1
  <2> QED BY <2>3, <2>4, <2>5 DEF c
<1>3. ASSUME NEW p \in 1..(n + ((n + 7) \div 8)), p % 9 # 1
      PROVE  p - ((p + 8) \div 9) \in 1..n
  <2> DEFINE m == (n + 7) \div 8
             d == (p + 8) \div 9
  <2>1. m \in Nat /\ 8 * m >= n /\ 8 * m < n + 8
    OBVIOUS
  <2>2. d \in Nat /\ 9 * d >= p /\ 9 * d < p + 9
    OBVIOUS
  <2>3. p \in 1..(n + m)
    OBVIOUS
  <2> HIDE DEF m, d
  <2>4. 9 * d # p + 8
    <3>1. CASE 9 * d = p + 8
      BY <1>3, <2>2, <2>3, <3>1
    <3> QED BY <3>1
  <2>5. p - d \in 1..n
    BY <2>1, <2>2, <2>3, <2>4
  <2> QED BY <2>5 DEF d
<1> QED BY <1>1, <1>2, <1>3

LEMMA VendorLzssLiterals ==
  ASSUME NEW data \in Seq(Byte), NEW pad \in Nat
  PROVE  /\ VendorLzss(data) \in Seq(Byte)
         /\ Len(VendorLzss(data)) = Len(data) + ((Len(data) + 7) \div 8)
         /\ Literals(data, VendorLzss(data) \o Zeros(pad))
<1> DEFINE n == Len(data)
           L == n + ((n + 7) \div 8)
           v == [p \in 1..L |-> IF p % 9 = 1 THEN 0 ELSE data[p - ((p + 8) \div 9)]]
           z == Zeros(pad)
<1>1. n \in Nat /\ \A i \in 1..n : data[i] \in Byte
  OBVIOUS
<1>2. L \in Nat /\ \A p \in 1..L : p % 9 # 1 => p - ((p + 8) \div 9) \in 1..n
  BY <1>1, Nines
<1>3. VendorLzss(data) = v
  BY DEF VendorLzss
<1> HIDE DEF n, L
<1>4. v \in [1..L -> Byte] /\ \A p \in 1..L : v[p] = IF p % 9 = 1 THEN 0 ELSE data[p - ((p + 8) \div 9)]
  <2>1. ASSUME NEW p \in 1..L
        PROVE  (IF p % 9 = 1 THEN 0 ELSE data[p - ((p + 8) \div 9)]) \in Byte
    <3>1. CASE p % 9 = 1
      BY <3>1 DEF Byte
    <3>2. CASE p % 9 # 1
      BY <1>1, <1>2, <3>2
    <3> QED BY <3>1, <3>2
  <2> QED BY <2>1
<1> HIDE DEF v
<1>5. v \in Seq(Byte) /\ Len(v) = L
  BY <1>2, <1>4, AsSeq
<1>6. z \in Seq(Byte) /\ Len(z) = pad /\ \A i \in 1..pad : z[i] = 0
  BY ZerosType
<1> HIDE DEF z
<1>7. /\ v \o z \in Seq(Byte) /\ Len(v \o z) = L + pad
      /\ \A p \in 1..(L + pad) : (v \o z)[p] = IF p <= L THEN v[p] ELSE z[p - L]
  BY <1>5, <1>6, ConcatProperties
<1>8. ASSUME NEW p \in 1..(L + pad)
      PROVE  (v \o z)[p] = IF p % 9 = 1 \/ p > L THEN 0 ELSE data[p - ((p + 8) \div 9)]
  <2>1. CASE p <= L
    BY <1>2, <1>4, <1>7, <2>1
  <2>2. CASE ~(p <= L)
    BY <1>2, <1>6, <1>7, <2>2
  <2> QED BY <2>1, <2>2
<1>9. Literals(data, v \o z)
  BY <1>2, <1>7, <1>8 DEF Literals, L, n
<1> QED BY <1>3, <1>5, <1>9 DEF z, L, n

\* At one literal the flag byte is read before every eighth, and is zero.
LEMMA UnpackLiteral ==
  ASSUME NEW data \in Seq(Byte), NEW stream, Literals(data, stream), NEW k \in Nat \ {0},
         NEW s \in LiteralStates(data, k - 1), NEW zero
  PROVE  Unpack(stream, s, k, zero) \in LiteralStates(data, k)
<1> DEFINE n == Len(data)
           L == n + ((n + 7) \div 8)
           reload == (k - 1) % 8 = 0
           pos == IF reload THEN s.pos + 1 ELSE s.pos
           flags == IF reload /\ pos <= Len(stream) THEN stream[pos] ELSE s.flags
           place == PlaceValue[8 - ((k - 1) % 8)]
           next == [done |-> FALSE, pos |-> pos + 1, flags |-> flags, out |-> Append(s.out, stream[pos + 1])]
<1>1. n \in Nat /\ L \in Nat /\ Len(stream) \in Nat /\ Len(stream) >= L
  BY DEF Literals
<1>2. /\ s \in [done : BOOLEAN, pos : Nat, flags : {0}, out : Seq(Byte)]
      /\ s.done \in BOOLEAN /\ s.pos \in Nat /\ s.flags = 0 /\ s.out \in Seq(Byte)
  BY DEF LiteralStates
<1>3. \A p \in 1..Len(stream) : /\ stream[p] \in Byte
                                /\ p % 9 = 1 => stream[p] = 0
                                /\ p > L => stream[p] = 0
                                /\ p % 9 # 1 /\ p <= L => stream[p] = data[p - ((p + 8) \div 9)]
  BY DEF Literals
<1>4. /\ k - 1 <= n => ~s.done /\ s.pos = (k - 1) + (((k - 1) + 7) \div 8) /\ s.out = SubSeq(data, 1, k - 1)
      /\ k - 1 > n => s.pos >= L /\ Len(s.out) >= n /\ SubSeq(s.out, 1, n) = data
  BY <1>1 DEF LiteralStates
<1>5. reload \in BOOLEAN /\ pos \in Nat /\ pos >= s.pos
  BY <1>2
<1>6. flags = 0
  <2>1. CASE reload /\ pos <= Len(stream)
    <3>1. pos \in 1..Len(stream)
      BY <1>2, <1>5, <2>1
    <3>2. CASE k - 1 <= n
      <4>1. pos = (k - 1) + (((k - 1) + 7) \div 8) + 1
        BY <1>4, <2>1, <3>2
      <4>2. pos % 9 = 1
        BY <2>1, <4>1
      <4> HIDE DEF pos
      <4> QED BY <1>3, <2>1, <3>1, <4>2
    <3>3. CASE k - 1 > n
      <4>1. pos > L
        BY <1>1, <1>2, <1>4, <2>1, <3>3
      <4> HIDE DEF pos, L
      <4> QED BY <1>3, <2>1, <3>1, <4>1
    <3> QED BY <1>1, <3>2, <3>3
  <2>2. CASE ~(reload /\ pos <= Len(stream))
    <3> HIDE DEF pos, reload
    <3> QED BY <1>2, <2>2
  <2> QED BY <2>1, <2>2
<1>7. place \in {1, 2, 4, 8, 16, 32, 64, 128}
  BY DEF PlaceValue
<1>8. ~((flags \div place) % 2 = 1)
  <2> HIDE DEF flags, place
  <2>1. 0 \div place = 0
    BY <1>7
  <2> QED BY <1>6, <2>1
<1>9. Unpack(stream, s, k, zero)
        = IF s.done \/ pos + 1 > Len(stream) THEN [s EXCEPT !.done = TRUE] ELSE next
  BY <1>8 DEF Unpack
<1> HIDE DEF flags
<1>10. CASE k <= n
  <2>1. pos = k + ((k + 7) \div 8) - 1
    <3>1. s.pos = (k - 1) + (((k - 1) + 7) \div 8)
      BY <1>1, <1>4, <1>10
    <3>2. (k + 7) \div 8 = (((k - 1) + 7) \div 8) + (IF (k - 1) % 8 = 0 THEN 1 ELSE 0)
      OBVIOUS
    <3>3. ((k - 1) + 7) \div 8 \in Nat
      OBVIOUS
    <3> QED BY <3>1, <3>2, <3>3
  <2>2. pos + 1 \in 1..L /\ (pos + 1) % 9 # 1 /\ (pos + 1) - ((pos + 1 + 8) \div 9) = k
    <3>1. /\ k + ((k + 7) \div 8) \in 1..L
          /\ (k + ((k + 7) \div 8)) % 9 # 1
          /\ (k + ((k + 7) \div 8)) - ((k + ((k + 7) \div 8) + 8) \div 9) = k
      <4>1. k \in 1..n
        BY <1>1, <1>10
      <4> HIDE DEF n
      <4> QED BY <1>1, <4>1, Nines
    <3>2. pos + 1 = k + ((k + 7) \div 8)
      BY <2>1, <1>5
    <3> HIDE DEF pos
    <3> QED BY <3>1, <3>2
  <2> HIDE DEF pos, L
  <2>3. pos + 1 <= Len(stream) /\ stream[pos + 1] = data[k] /\ data[k] \in Byte
    BY <1>1, <1>3, <1>10, <2>2
  <2>4. ~s.done /\ s.out = SubSeq(data, 1, k - 1)
    BY <1>1, <1>4, <1>10
  <2>5. Append(s.out, data[k]) = SubSeq(data, 1, k)
    BY <1>1, <1>10, <2>4
  <2>6. pos + 1 = k + ((k + 7) \div 8)
    BY <2>1, <1>5
  <2>7. Unpack(stream, s, k, zero)
          = [done |-> FALSE, pos |-> pos + 1, flags |-> flags, out |-> SubSeq(data, 1, k)]
    <3>1. ~(pos + 1 > Len(stream))
      BY <1>1, <1>5, <2>3
    <3> QED BY <1>9, <2>3, <2>4, <2>5, <3>1
  <2>8. SubSeq(data, 1, k) \in Seq(Byte) /\ pos + 1 \in Nat
    BY <1>1, <1>5, <1>10
  <2> HIDE DEF n
  <2> QED BY <1>6, <1>10, <2>6, <2>7, <2>8 DEF LiteralStates, n
<1>11. CASE ~(k <= n)
  <2>1. /\ Len(s.out) >= n /\ SubSeq(s.out, 1, n) = data /\ s.pos >= L
    <3>1. CASE k - 1 > n
      BY <1>4, <3>1
    <3>2. CASE k - 1 = n
      BY <1>1, <1>4, <3>2, SubSeqFull
    <3> QED BY <1>1, <1>11, <3>1, <3>2
  <2>2. CASE s.done \/ pos + 1 > Len(stream)
    <3>1. Unpack(stream, s, k, zero) = [s EXCEPT !.done = TRUE]
      BY <1>9, <2>2
    <3> DEFINE u == [s EXCEPT !.done = TRUE]
    <3>2. u \in [done : BOOLEAN, pos : Nat, flags : {0}, out : Seq(Byte)] /\ u.pos = s.pos /\ u.out = s.out
      BY <1>2
    <3> HIDE DEF u
    <3> QED BY <1>11, <2>1, <3>1, <3>2 DEF LiteralStates, u
  <2>3. CASE ~(s.done \/ pos + 1 > Len(stream))
    <3>0. pos + 1 \in 1..Len(stream)
      BY <1>1, <1>5, <2>3
    <3> DEFINE b == stream[pos + 1]
    <3>1. b \in Byte
      BY <1>3, <3>0
    <3>2. pos + 1 \in Nat /\ pos + 1 >= L
      BY <1>1, <1>2, <1>5, <2>1
    <3>3. Unpack(stream, s, k, zero) = [done |-> FALSE, pos |-> pos + 1, flags |-> flags, out |-> Append(s.out, b)]
      BY <1>9, <2>3
    <3> HIDE DEF b, pos, L
    <3>4. Append(s.out, b) \in Seq(Byte) /\ Len(Append(s.out, b)) >= n
          /\ SubSeq(Append(s.out, b), 1, n) = data
      BY <1>1, <1>2, <2>1, <3>1
    <3> DEFINE u == Unpack(stream, s, k, zero)
    <3>5. u \in [done : BOOLEAN, pos : Nat, flags : {0}, out : Seq(Byte)]
          /\ u.pos = pos + 1 /\ u.out = Append(s.out, b)
      BY <1>6, <3>2, <3>3, <3>4
    <3> HIDE DEF u
    <3> QED BY <1>11, <3>2, <3>4, <3>5 DEF LiteralStates, L, u
  <2> QED BY <2>2, <2>3
<1> QED BY <1>10, <1>11

\* Where each step stays within the next set, the output is one of the last.
LEMMA UnpackedRuns ==
  ASSUME NEW input, Len(input) \in Nat, NEW start, NEW zero, NEW S,
         UnpackStart(start) \in S[0],
         \A k \in 1..Len(input) : \A s \in S[k - 1] : Unpack(input, s, k, zero) \in S[k]
  PROVE  OutOf(S[Len(input)], Unpacked(input, start, zero))
<1> DEFINE n == Len(input)
           Is(f) == f = [k \in 0..n |->
                           IF k = 0 THEN UnpackStart(start)
                           ELSE Unpack(input, f[k - 1], k, zero)]
           step == [k \in 1..n |-> [s \in S[k - 1] |-> Unpack(input, s, k, zero)]]
           g == CHOOSE h : Is(h)
<1>1. n \in Nat
  OBVIOUS
<1>2. Unpacked(input, start, zero) = g[n].out
  BY DEF Unpacked, UnpackStart
<1>3. \A k \in 1..n : \A s \in S[k - 1] :
         step[k][s] = Unpack(input, s, k, zero) /\ step[k][s] \in S[k]
  OBVIOUS
<1> HIDE DEF n, step, g
<1>4. Steps(n, S, step)
  BY <1>3 DEF Steps
<1>5. PICK f : Runs(f, n, S, UnpackStart(start), step)
  BY <1>1, <1>4, RunExists, Zenon
<1>6. Is(f)
  <2>1. f = [k \in 0..n |-> f[k]] /\ f[0] = UnpackStart(start)
    BY <1>5 DEF Runs
  <2>2. \A k \in 1..n : f[k] = Unpack(input, f[k - 1], k, zero)
    BY <1>3, <1>5 DEF Runs
  <2>3. \A k \in 0..n : f[k] = IF k = 0 THEN UnpackStart(start)
                               ELSE Unpack(input, f[k - 1], k, zero)
    <3> TAKE k \in 0..n
    <3>1. CASE k = 0
      BY <2>1, <3>1
    <3>2. CASE k # 0
      BY <1>1, <2>2, <3>2
    <3> QED BY <3>1, <3>2
  <2> QED BY <2>1, <2>3
<1>7. Is(g)
  <2> HIDE DEF Is
  <2> QED BY <1>6 DEF g
<1>8. g[0] = UnpackStart(start) /\ \A k \in 1..n : g[k] = Unpack(input, g[k - 1], k, zero)
  BY <1>1, <1>7
<1>9. g = [k \in 0..n |-> g[k]]
  BY <1>7
<1>10. Runs(g, n, S, UnpackStart(start), step)
  BY <1>1, <1>3, <1>4, <1>8, <1>9, RunFollowed
<1>11. g[n] \in S[n]
  BY <1>1, <1>10 DEF Runs
<1> QED BY <1>2, <1>11 DEF OutOf, n

LEMMA Lzss10Literals ==
  ASSUME NEW data \in Seq(Byte), NEW stream, Literals(data, stream)
  PROVE  decompress_lzss10(stream, Len(data)) = data
<1> DEFINE N == Len(stream)
           n == Len(data)
           S == [k \in 0..N |-> LiteralStates(data, k)]
           out == Unpacked(stream, <<>>, 0)
<1>1. N \in Nat /\ n \in Nat /\ N >= n
  BY DEF Literals
<1>2. UnpackStart(<<>>) \in LiteralStates(data, 0)
  <2>1. SubSeq(data, 1, 0) = <<>> /\ (0 + 7) \div 8 = 0
    BY SubSeqEmpty
  <2> QED
    <3> DEFINE u == UnpackStart(<<>>)
    <3>1. u \in [done : BOOLEAN, pos : Nat, flags : {0}, out : Seq(Byte)]
          /\ u.done = FALSE /\ u.pos = 0 /\ u.out = <<>>
      BY EmptySeq DEF UnpackStart
    <3> HIDE DEF u
    <3> QED BY <1>1, <2>1, <3>1 DEF LiteralStates, u
<1>3. \A k \in 1..N : \A s \in LiteralStates(data, k - 1) : Unpack(stream, s, k, 0) \in LiteralStates(data, k)
  BY <1>1, UnpackLiteral
<1>4. \A k \in 0..N : S[k] = LiteralStates(data, k)
  OBVIOUS
<1> HIDE DEF S
<1>5. /\ UnpackStart(<<>>) \in S[0]
      /\ \A k \in 1..N : \A s \in S[k - 1] : Unpack(stream, s, k, 0) \in S[k]
  BY <1>1, <1>2, <1>3, <1>4
<1>6. OutOf(S[N], out)
  BY <1>1, <1>5, UnpackedRuns
<1>7. PICK s \in LiteralStates(data, N) : out = s.out
  BY <1>1, <1>4, <1>6 DEF OutOf
<1> HIDE DEF out
<1>8. out \in Seq(Byte) /\ Len(out) >= n /\ SubSeq(out, 1, n) = data
  <2>1. CASE N <= n
    BY <1>1, <1>7, <2>1, SubSeqFull DEF LiteralStates
  <2>2. CASE ~(N <= n)
    BY <1>7, <2>2 DEF LiteralStates
  <2> QED BY <2>1, <2>2
<1>9. decompress_lzss10(stream, n) = SubSeq(out, 1, LeastOf(n, Len(out)))
  BY DEF decompress_lzss10, out
<1>10. LeastOf(n, Len(out)) = n
  BY <1>1, <1>8 DEF LeastOf
<1> QED BY <1>8, <1>9, <1>10

LEMMA SubSeqIs ==
  ASSUME NEW S, NEW s \in Seq(S), NEW a \in Int, NEW b \in Int, a >= 1, b <= Len(s), b - a + 1 >= 0
  PROVE  /\ SubSeq(s, a, b) \in Seq(S) /\ Len(SubSeq(s, a, b)) = b - a + 1
         /\ \A i \in 1..(b - a + 1) : SubSeq(s, a, b)[i] = s[a + i - 1]
<1>1. \A i \in a..b : s[i] \in S
  OBVIOUS
<1> QED BY <1>1, SubSeqProperties

LEMMA AppendIs ==
  ASSUME NEW S, NEW s \in Seq(S), NEW e \in S
  PROVE  /\ Append(s, e) \in Seq(S) /\ Len(Append(s, e)) = Len(s) + 1
         /\ \A i \in 1..(Len(s) + 1) : Append(s, e)[i] = IF i <= Len(s) THEN s[i] ELSE e
OBVIOUS

\* A reference that does not run into itself repeats a part of what was there.
LEMMA CopiedIs ==
  ASSUME NEW S, NEW h \in Seq(S), NEW dist \in 1..Len(h), NEW length \in 0..dist
  PROVE  Copied(h, dist, length) = h \o SubSeq(h, Len(h) - dist + 1, Len(h) - dist + length)
<1> DEFINE L == Len(h)
           part(k) == SubSeq(h, L - dist + 1, L - dist + k)
           sofar(k) == h \o part(k)
           next(x) == Append(x, x[Len(x) + 1 - dist])
           Is(f) == f = [k \in 0..length |-> IF k = 0 THEN h ELSE LET x == f[k - 1] IN next(x)]
           T == [k \in 0..length |-> {sofar(k)}]
           step == [k \in 1..length |-> [x \in {sofar(k - 1)} |-> next(x)]]
           g == CHOOSE f : Is(f)
<1>1. L \in Nat /\ dist \in Nat /\ length \in Nat /\ 1 <= dist /\ dist <= L /\ length <= dist
  OBVIOUS
<1>2. ASSUME NEW k \in 0..length
      PROVE  /\ part(k) \in Seq(S) /\ Len(part(k)) = k
             /\ \A i \in 1..k : part(k)[i] = h[L - dist + i]
             /\ sofar(k) \in Seq(S) /\ Len(sofar(k)) = L + k
             /\ \A i \in 1..(L + k) : sofar(k)[i] = IF i <= L THEN h[i] ELSE h[i - dist]
  <2>0. L - dist + 1 \in Int /\ L - dist + k \in Int /\ L - dist + 1 >= 1 /\ L - dist + k <= L
        /\ (L - dist + k) - (L - dist + 1) + 1 = k /\ k >= 0
    BY <1>1
  <2>1. /\ part(k) \in Seq(S) /\ Len(part(k)) = k
        /\ \A i \in 1..k : part(k)[i] = h[(L - dist + 1) + i - 1]
    BY <2>0, SubSeqIs
  <2>2. \A i \in 1..k : (L - dist + 1) + i - 1 = L - dist + i
    BY <1>1
  <2>3. \A i \in 1..k : part(k)[i] = h[L - dist + i]
    BY <2>1, <2>2
  <2> HIDE DEF part
  <2>4. /\ sofar(k) \in Seq(S) /\ Len(sofar(k)) = L + k
        /\ \A i \in 1..(L + k) : sofar(k)[i] = IF i <= L THEN h[i] ELSE part(k)[i - L]
    BY <2>1, ConcatProperties
  <2>5. \A i \in 1..(L + k) : ~(i <= L) => i - L \in 1..k /\ L - dist + (i - L) = i - dist
    BY <1>1
  <2>6. \A i \in 1..(L + k) : sofar(k)[i] = IF i <= L THEN h[i] ELSE h[i - dist]
    BY <2>3, <2>4, <2>5
  <2> QED BY <2>1, <2>3, <2>4, <2>6
<1> HIDE DEF part
<1>3. sofar(0) = h
  BY <1>1, <1>2, ConcatEmptySeq
<1> HIDE DEF sofar
<1>4. ASSUME NEW k \in 1..length PROVE next(sofar(k - 1)) = sofar(k)
  <2> DEFINE x == sofar(k - 1)
             e == x[Len(x) + 1 - dist]
             y == sofar(k)
  <2>1. x \in Seq(S) /\ Len(x) = L + k - 1
        /\ \A i \in 1..(L + k - 1) : x[i] = IF i <= L THEN h[i] ELSE h[i - dist]
    <3>1. k - 1 \in 0..length /\ L + (k - 1) = L + k - 1
      BY <1>1
    <3> QED BY <1>2, <3>1
  <2>2. y \in Seq(S) /\ Len(y) = L + k
        /\ \A i \in 1..(L + k) : y[i] = IF i <= L THEN h[i] ELSE h[i - dist]
    BY <1>1, <1>2
  <2> HIDE DEF x, y
  <2>3. Len(x) + 1 - dist = L + k - dist /\ L + k - dist \in 1..L
    BY <1>1, <2>1
  <2>4. e = h[L + k - dist] /\ e \in S
    BY <1>1, <2>1, <2>3
  <2> HIDE DEF e
  <2>5. /\ Append(x, e) \in Seq(S) /\ Len(Append(x, e)) = L + k
        /\ \A i \in 1..(L + k) : Append(x, e)[i] = IF i <= L + k - 1 THEN x[i] ELSE e
    <3>1. Len(x) + 1 = L + k /\ Len(x) = L + k - 1
      BY <1>1, <2>1
    <3>2. /\ Append(x, e) \in Seq(S) /\ Len(Append(x, e)) = Len(x) + 1
          /\ \A i \in 1..(Len(x) + 1) : Append(x, e)[i] = IF i <= Len(x) THEN x[i] ELSE e
      BY <2>1, <2>4, AppendIs
    <3> QED BY <3>1, <3>2, Zenon
  <2>6. ASSUME NEW i \in 1..(L + k) PROVE Append(x, e)[i] = y[i]
    <3>1. CASE i <= L + k - 1
      <4>1. i \in 1..(L + k - 1)
        BY <1>1, <3>1
      <4>2. Append(x, e)[i] = x[i]
        BY <2>5, <3>1
      <4> QED BY <2>1, <2>2, <4>1, <4>2
    <3>2. CASE ~(i <= L + k - 1)
      <4>1. i = L + k /\ ~(i <= L)
        BY <1>1, <3>2
      <4>2. Append(x, e)[i] = e
        BY <2>5, <3>2
      <4> QED BY <2>2, <2>4, <4>1, <4>2
    <3> QED BY <3>1, <3>2
  <2>7. Append(x, e) = y
    BY <2>2, <2>5, <2>6, SameSeq
  <2> QED BY <2>7 DEF x, y, e
<1> HIDE DEF next
<1>5. \A k \in 1..length : \A x \in T[k - 1] : x = sofar(k - 1) /\ step[k][x] = next(x) /\ step[k][x] \in T[k]
  BY <1>4
<1>6. h \in T[0] /\ T[length] = {sofar(length)}
  BY <1>1, <1>3
<1>c. Copied(h, dist, length) = g[length]
  BY DEF Copied, next
<1> HIDE DEF T, step, g
<1>7. Steps(length, T, step)
  BY <1>5 DEF Steps
<1>8. PICK f : Runs(f, length, T, h, step)
  BY <1>1, <1>6, <1>7, RunExists, Zenon
<1>9. Is(f)
  <2>1. f = [k \in 0..length |-> f[k]] /\ f[0] = h
    BY <1>8 DEF Runs
  <2>2. \A k \in 1..length : f[k] = next(f[k - 1])
    BY <1>5, <1>8 DEF Runs
  <2>3. \A k \in 0..length : f[k] = IF k = 0 THEN h ELSE LET x == f[k - 1] IN next(x)
    <3> TAKE k \in 0..length
    <3>1. CASE k = 0
      BY <2>1, <3>1
    <3>2. CASE k # 0
      BY <1>1, <2>2, <3>2
    <3> QED BY <3>1, <3>2
  <2> QED BY <2>1, <2>3
<1>10. Is(g)
  <2> HIDE DEF Is
  <2> QED BY <1>9 DEF g
<1>11. g[0] = h /\ \A k \in 1..length : g[k] = next(g[k - 1])
  BY <1>1, <1>10
<1>12. g = [k \in 0..length |-> g[k]]
  BY <1>10
<1>13. Runs(g, length, T, h, step)
  BY <1>1, <1>5, <1>6, <1>7, <1>11, <1>12, RunFollowed
<1>14. g[length] = sofar(length)
  BY <1>1, <1>6, <1>13 DEF Runs
<1> QED BY <1>c, <1>14 DEF sofar, part

\* What the old container holds of data, behind the header's eleven bytes.
LEMMA LegacyStream ==
  ASSUME NEW data \in Seq(Byte), Len(data) \in 3..255
  PROVE  LET n == Len(data)
             input == VendorLegacy(data)
         IN  /\ input \in Seq(Byte) /\ Len(input) = 11 + n
             /\ input[1] = 254 /\ input[2] = 12 /\ input[3] = 4 /\ input[7] = n
             /\ \A p \in 1..n : ~Again(data) \/ p \notin 4..6 => input[11 + p] = data[p]
             /\ Again(data) => input[15] = 254 /\ input[16] = 0 /\ input[17] = 51
<1> DEFINE n == Len(data)
           again == Len(data) >= 7 /\ SubSeq(data, 4, 6) = SubSeq(data, 1, 3)
           a == SubSeq(data, 1, 3)
           b == <<254, 0, 3 * 16 + 3>>
           c == SubSeq(data, 7, n)
           tokens == IF again THEN a \o b \o c ELSE data
           header == <<254, 12, 4, 0, 0, 0, n, 0, 0, 0, 0>>
           input == header \o tokens
<1>1. n \in 3..255 /\ n \in Nat /\ n \in Byte
  BY DEF Byte
<1>2. VendorLegacy(data) = input
  BY DEF VendorLegacy
<1>3. again <=> Again(data)
  BY DEF Again
<1>4. /\ header \in Seq(Byte) /\ Len(header) = 11
      /\ header[1] = 254 /\ header[2] = 12 /\ header[3] = 4 /\ header[7] = n
  <2> HIDE DEF n
  <2>0. 254 \in Byte /\ 12 \in Byte /\ 4 \in Byte /\ 0 \in Byte /\ n \in Byte
    BY <1>1 DEF Byte
  <2>1. header \in Seq(Byte)
    BY <2>0
  <2> QED BY <2>1
<1>5. ASSUME Again(data)
      PROVE  /\ a \o b \o c \in Seq(Byte) /\ Len(a \o b \o c) = n
             /\ \A p \in 1..n : p \notin 4..6 => (a \o b \o c)[p] = data[p]
             /\ (a \o b \o c)[4] = 254 /\ (a \o b \o c)[5] = 0 /\ (a \o b \o c)[6] = 51
  <2>0. n >= 7
    BY <1>5 DEF Again
  <2>1. a \in Seq(Byte) /\ Len(a) = 3 /\ \A i \in 1..3 : a[i] = data[i]
    BY <1>1, <2>0, SubSeqIs
  <2>2. b \in Seq(Byte) /\ Len(b) = 3 /\ b[1] = 254 /\ b[2] = 0 /\ b[3] = 51
    BY DEF Byte
  <2>3. c \in Seq(Byte) /\ Len(c) = n - 6 /\ \A i \in 1..(n - 6) : c[i] = data[6 + i]
    BY <1>1, <2>0, SubSeqIs
  <2> HIDE DEF a, b, c, n
  <2>4. /\ a \o b \in Seq(Byte) /\ Len(a \o b) = 6
        /\ \A i \in 1..6 : (a \o b)[i] = IF i <= 3 THEN a[i] ELSE b[i - 3]
    <3>1. /\ a \o b \in Seq(Byte) /\ Len(a \o b) = Len(a) + Len(b)
          /\ \A i \in 1..(Len(a) + Len(b)) : (a \o b)[i] = IF i <= Len(a) THEN a[i] ELSE b[i - Len(a)]
      <4>1. a \in Seq(Byte) /\ b \in Seq(Byte)
        BY <2>1, <2>2
      <4> QED BY <4>1, ConcatProperties, Zenon
    <3>2. Len(a) + Len(b) = 6
      BY <2>1, <2>2
    <3> QED BY <2>1, <3>1, <3>2
  <2>5. /\ a \o b \o c \in Seq(Byte) /\ Len(a \o b \o c) = n
        /\ \A i \in 1..n : (a \o b \o c)[i] = IF i <= 6 THEN (a \o b)[i] ELSE c[i - 6]
    <3>1. Len(a \o b) + Len(c) = n
      BY <1>1, <2>3, <2>4
    <3> QED BY <2>3, <2>4, <3>1, ConcatProperties
  <2>6. ASSUME NEW p \in 1..n, p \notin 4..6 PROVE (a \o b \o c)[p] = data[p]
    <3>1. CASE p <= 3
      <4>1. p \in 1..3 /\ p \in 1..6 /\ p <= 6
        BY <1>1, <3>1
      <4>2. (a \o b \o c)[p] = (a \o b)[p] /\ (a \o b)[p] = a[p]
        BY <2>4, <2>5, <3>1, <4>1
      <4> QED BY <2>1, <4>1, <4>2
    <3>2. CASE ~(p <= 3)
      <4>1. p - 6 \in 1..(n - 6) /\ 6 + (p - 6) = p /\ ~(p <= 6)
        BY <1>1, <2>6, <3>2
      <4> QED BY <2>3, <2>5, <4>1
    <3> QED BY <3>1, <3>2
  <2>7. /\ (a \o b \o c)[4] = (a \o b)[4] /\ (a \o b \o c)[5] = (a \o b)[5] /\ (a \o b \o c)[6] = (a \o b)[6]
    <3>1. 4 \in 1..n /\ 5 \in 1..n /\ 6 \in 1..n /\ 4 <= 6 /\ 5 <= 6 /\ 6 <= 6
      BY <1>1, <2>0
    <3> QED BY <2>5, <3>1
  <2>8. (a \o b)[4] = b[1] /\ (a \o b)[5] = b[2] /\ (a \o b)[6] = b[3]
    BY <2>4
  <2> QED BY <2>2, <2>5, <2>6, <2>7, <2>8
<1> HIDE DEF a, b, c, n
<1>6. /\ tokens \in Seq(Byte) /\ Len(tokens) = n
      /\ \A p \in 1..n : ~Again(data) \/ p \notin 4..6 => tokens[p] = data[p]
      /\ Again(data) => tokens[4] = 254 /\ tokens[5] = 0 /\ tokens[6] = 51
  <2>1. CASE Again(data)
    <3>1. tokens = a \o b \o c
      BY <1>3, <2>1
    <3> HIDE DEF tokens
    <3> QED BY <1>5, <2>1, <3>1
  <2>2. CASE ~Again(data)
    <3>1. tokens = data
      BY <1>3, <2>2
    <3> HIDE DEF tokens
    <3> QED BY <2>2, <3>1 DEF n
  <2> QED BY <2>1, <2>2
<1> HIDE DEF header, tokens
<1>7. /\ input \in Seq(Byte) /\ Len(input) = 11 + n
      /\ \A i \in 1..(11 + n) : input[i] = IF i <= 11 THEN header[i] ELSE tokens[i - 11]
  <2>1. /\ header \o tokens \in Seq(Byte) /\ Len(header \o tokens) = Len(header) + Len(tokens)
        /\ \A i \in 1..(Len(header) + Len(tokens)) :
              (header \o tokens)[i] = IF i <= Len(header) THEN header[i] ELSE tokens[i - Len(header)]
    <3>1. header \in Seq(Byte) /\ tokens \in Seq(Byte)
      BY <1>4, <1>6
    <3> QED BY <3>1, ConcatProperties, Zenon
  <2> QED
    <3>1. Len(header) = 11 /\ Len(tokens) = n
      BY <1>4, <1>6
    <3> QED BY <2>1, <3>1, Zenon
<1> HIDE DEF input
<1>8. \A p \in 1..n : input[11 + p] = tokens[p]
  <2> TAKE p \in 1..n
  <2>1. 11 + p \in 1..(11 + n) /\ ~(11 + p <= 11) /\ 11 + p - 11 = p
    BY <1>1
  <2> QED BY <1>7, <2>1
<1>9. input[1] = header[1] /\ input[2] = header[2] /\ input[3] = header[3] /\ input[7] = header[7]
  BY <1>1, <1>7
<1>10. Again(data) => n >= 7
  BY DEF Again, n
<1>11. n >= 7 => input[15] = tokens[4] /\ input[16] = tokens[5] /\ input[17] = tokens[6]
  BY <1>1, <1>7
<1>12. input[1] = 254 /\ input[2] = 12 /\ input[3] = 4 /\ input[7] = n
  BY <1>4, <1>9
<1>13. \A p \in 1..n : ~Again(data) \/ p \notin 4..6 => input[11 + p] = data[p]
  BY <1>6, <1>8
<1>14. Again(data) => input[15] = 254 /\ input[16] = 0 /\ input[17] = 51
  BY <1>6, <1>10, <1>11
<1> QED BY <1>2, <1>7, <1>12, <1>13, <1>14, Zenon DEF n

LEMMA LegacyRoundTrip ==
  ASSUME NEW data \in Seq(Byte), Len(data) \in 3..255, \A i \in DOMAIN data : data[i] # 254
  PROVE  decompress_legacy(VendorLegacy(data)) = data
<1> DEFINE n == Len(data)
           input == VendorLegacy(data)
           N == Len(input)
           size == input[7]
           pair(pos) == input[pos] * 256 + input[pos + 1]
           copy(out, w) ==
             LET length == LeastOf(w % (2 ^ input[3]), size - Len(out))
             IN  Copied(out, w \div (2 ^ (16 - input[2])), length)
           literal(s) == IF s.pos < Len(input) /\ Len(s.out) < size
                         THEN [pos |-> s.pos + 1, out |-> Append(s.out, input[s.pos + 1])]
                         ELSE s
           next(s) == IF s.pos < Len(input) /\ input[s.pos + 1] = input[1] /\ Len(s.out) < size
                      THEN IF s.pos + 2 >= Len(input) THEN [s EXCEPT !.pos = Len(input)]
                           ELSE literal([pos |-> s.pos + 3, out |-> copy(s.out, pair(s.pos + 2))])
                      ELSE literal(s)
           start == [pos |-> 11, out |-> <<>>]
           Is(f) == f = [k \in 0..N |-> IF k = 0 THEN start ELSE next(f[k - 1])]
           g == CHOOSE f : Is(f)
           S == [k \in 0..N |-> {LegacyState(data, j) : j \in LegacyReach(data, k)}]
           step == [k \in 1..N |-> [s \in S[k - 1] |-> next(s)]]
<1>1. n \in 3..255 /\ n \in Nat /\ N = 11 + n /\ N \in Nat /\ size = n
  BY LegacyStream
<1>2. /\ input[1] = 254 /\ input[2] = 12 /\ input[3] = 4
      /\ Again(data) => input[15] = 254 /\ input[16] = 0 /\ input[17] = 51 /\ n >= 7
  BY LegacyStream DEF Again
<1>3. \A p \in 1..n : /\ ~Again(data) \/ p \notin 4..6 => input[11 + p] = data[p]
                      /\ data[p] \in Byte /\ data[p] # 254
  BY LegacyStream
<1>c. decompress_legacy(input) = g[N].out \o [i \in 1..(size - Len(g[N].out)) |-> 0]
  BY DEF decompress_legacy
<1>4. \A j \in 0..n : SubSeq(data, 1, j) \in Seq(Byte) /\ Len(SubSeq(data, 1, j)) = j
  OBVIOUS
<1>5. ASSUME NEW j \in 0..n, j < n, ~(Again(data) /\ j \in 3..5)
      PROVE  literal(LegacyState(data, j)) = LegacyState(data, j + 1) /\ input[11 + j + 1] = data[j + 1]
  <2> DEFINE s == LegacyState(data, j)
  <2>1. s.pos = 11 + j /\ s.out = SubSeq(data, 1, j)
    BY DEF LegacyState
  <2> HIDE DEF s
  <2>2. j + 1 \in 1..n /\ 11 + j + 1 = 11 + (j + 1) /\ (Again(data) => j + 1 \notin 4..6)
    BY <1>1, <1>5
  <2>3. input[11 + j + 1] = data[j + 1]
    BY <1>3, <2>2
  <2>4. Append(SubSeq(data, 1, j), data[j + 1]) = SubSeq(data, 1, j + 1)
    BY <1>1, <1>5
  <2>5. s.pos < Len(input) /\ Len(s.out) < size
    BY <1>1, <1>4, <1>5, <2>1
  <2>6. literal(s) = [pos |-> s.pos + 1, out |-> Append(s.out, input[s.pos + 1])]
    BY <2>5
  <2> HIDE DEF input
  <2>7. s.pos + 1 = 11 + (j + 1) /\ Append(s.out, input[s.pos + 1]) = SubSeq(data, 1, j + 1)
    BY <1>1, <2>1, <2>2, <2>3, <2>4
  <2>8. literal(s) = LegacyState(data, j + 1)
    BY <2>6, <2>7 DEF LegacyState
  <2> QED BY <2>3, <2>8 DEF s
<1>6. ASSUME Again(data)
      PROVE  next(LegacyState(data, 3)) = LegacyState(data, 7)
  <2> DEFINE s == LegacyState(data, 3)
             h == SubSeq(data, 1, 3)
             t == [pos |-> s.pos + 3, out |-> copy(s.out, pair(s.pos + 2))]
  <2>0. n >= 7 /\ SubSeq(data, 4, 6) = SubSeq(data, 1, 3)
    BY <1>6 DEF Again
  <2>1. s.pos = 14 /\ s.out = h
    BY DEF LegacyState
  <2> HIDE DEF s
  <2>2. h \in Seq(Byte) /\ Len(h) = 3
    BY <2>0
  <2>3. s.pos < Len(input) /\ input[s.pos + 1] = input[1] /\ Len(s.out) < size /\ ~(s.pos + 2 >= Len(input))
    BY <1>1, <1>2, <1>6, <2>0, <2>1, <2>2
  <2>4. next(s) = literal(t)
    BY <2>3
  <2>5. pair(s.pos + 2) = 51
    BY <1>2, <1>6, <2>1
  <2>6. copy(s.out, 51) = Copied(h, 3, 3)
    <3>1. 2 ^ input[3] = 16 /\ 2 ^ (16 - input[2]) = 16
      BY <1>2
    <3>2. 51 % 16 = 3 /\ 51 \div 16 = 3
      OBVIOUS
    <3>3. LeastOf(3, size - Len(h)) = 3
      BY <1>1, <2>0, <2>2 DEF LeastOf
    <3> QED
      <4>1. copy(s.out, 51) = Copied(s.out, 51 \div (2 ^ (16 - input[2])),
                                     LeastOf(51 % (2 ^ input[3]), size - Len(s.out)))
        OBVIOUS
      <4> HIDE DEF copy, size, input, h
      <4>2. Copied(s.out, 51 \div (2 ^ (16 - input[2])), LeastOf(51 % (2 ^ input[3]), size - Len(s.out)))
              = Copied(h, 51 \div 16, LeastOf(51 % 16, size - Len(h)))
        BY <2>1, <3>1
      <4>3. Copied(h, 51 \div 16, LeastOf(51 % 16, size - Len(h))) = Copied(h, 3, 3)
        BY <3>2, <3>3
      <4> QED BY <4>1, <4>2, <4>3
  <2>7. Copied(h, 3, 3) = SubSeq(data, 1, 6)
    <3>1. Copied(h, 3, 3) = h \o SubSeq(h, Len(h) - 3 + 1, Len(h) - 3 + 3)
      <4>1. 3 \in 1..Len(h) /\ 3 \in 0..3
        BY <2>2
      <4> QED BY <2>2, <4>1, CopiedIs
    <3>2. SubSeq(h, Len(h) - 3 + 1, Len(h) - 3 + 3) = h
      BY <2>2, SubSeqFull
    <3>3. h \o SubSeq(data, 4, 6) = SubSeq(data, 1, 6)
      BY <2>0, ConcatAdjacentSubSeq
    <3> QED BY <2>0, <3>1, <3>2, <3>3
  <2>8. t = LegacyState(data, 6)
    <3>1. s.pos + 3 = 11 + 6
      BY <2>1
    <3> HIDE DEF pair, copy
    <3> QED BY <2>5, <2>6, <2>7, <3>1 DEF LegacyState
  <2> HIDE DEF t
  <2>9. literal(LegacyState(data, 6)) = LegacyState(data, 6 + 1)
    <3>1. 6 \in 0..n /\ 6 < n /\ ~(6 \in 3..5)
      BY <1>1, <2>0
    <3> HIDE DEF literal
    <3> QED BY <1>5, <3>1
  <2> QED
    <3>1. 6 + 1 = 7
      OBVIOUS
    <3> HIDE DEF next, literal
    <3> QED BY <2>4, <2>8, <2>9, <3>1 DEF s
<1> HIDE DEF input, N, size, S
<1>7. ASSUME NEW k \in 1..N, NEW j \in LegacyReach(data, k - 1)
      PROVE  \E i \in LegacyReach(data, k) : next(LegacyState(data, j)) = LegacyState(data, i)
  <2> DEFINE s == LegacyState(data, j)
  <2>0. j \in 0..n /\ (j >= k - 1 \/ j = n) /\ (Again(data) => j \notin 4..6)
    BY DEF LegacyReach
  <2>1. s.pos = 11 + j /\ s.out = SubSeq(data, 1, j) /\ Len(s.out) = j
    BY <1>4, <2>0 DEF LegacyState
  <2>2. CASE j = n
    <3>1. next(s) = s
      <4> HIDE DEF s
      <4>1. ~(s.pos < Len(input))
        BY <1>1, <2>1, <2>2 DEF N
      <4> QED BY <4>1
    <3>2. j \in LegacyReach(data, k)
      BY <2>0, <2>2 DEF LegacyReach
    <3> HIDE DEF next
    <3> QED BY <3>1, <3>2
  <2>3. CASE j < n /\ Again(data) /\ j = 3
    <3>1. 7 \in LegacyReach(data, k)
      BY <1>1, <1>2, <2>0, <2>3 DEF LegacyReach
    <3> HIDE DEF next
    <3> QED BY <1>6, <2>3, <3>1
  <2>4. CASE j < n /\ ~(Again(data) /\ j = 3)
    <3>1. ~(Again(data) /\ j \in 3..5)
      BY <2>0, <2>4
    <3>2. literal(LegacyState(data, j)) = LegacyState(data, j + 1) /\ input[11 + j + 1] = data[j + 1]
      <4> HIDE DEF literal
      <4> QED BY <1>5, <2>0, <2>4, <3>1
    <3>3. j + 1 \in 1..n /\ j + 1 \in LegacyReach(data, k)
      BY <1>1, <2>0, <2>4 DEF LegacyReach
    <3>4. next(s) = literal(s)
      <4>1. input[s.pos + 1] # input[1]
        BY <1>2, <1>3, <2>1, <3>2, <3>3
      <4> HIDE DEF s, literal
      <4> QED BY <4>1
    <3> HIDE DEF next, literal
    <3> QED BY <3>2, <3>3, <3>4
  <2> QED
    <3>1. j = n \/ (j < n /\ Again(data) /\ j = 3) \/ (j < n /\ ~(Again(data) /\ j = 3))
      BY <1>1, <2>0
    <3> HIDE DEF next
    <3> QED BY <2>2, <2>3, <2>4, <3>1
<1> HIDE DEF next
<1>8. \A k \in 0..N : S[k] = {LegacyState(data, j) : j \in LegacyReach(data, k)}
  BY DEF S
<1>9. \A k \in 1..N : \A s \in S[k - 1] : step[k][s] = next(s) /\ next(s) \in S[k]
  <2> TAKE k \in 1..N
  <2>1. k - 1 \in 0..N /\ k \in 0..N
    BY <1>1
  <2> QED BY <1>7, <1>8, <2>1
<1>10. start \in S[0]
  <2>1. 0 \in LegacyReach(data, 0) /\ 0 \in 0..N
    BY <1>1 DEF LegacyReach
  <2>2. LegacyState(data, 0) = start
    BY SubSeqEmpty DEF LegacyState
  <2> HIDE DEF start
  <2> QED BY <1>8, <2>1, <2>2
<1> HIDE DEF step, g, start
<1>11. Steps(N, S, step)
  BY <1>9 DEF Steps
<1>12. PICK f : Runs(f, N, S, start, step)
  BY <1>1, <1>10, <1>11, RunExists, Zenon
<1>13. Is(f)
  <2>1. f = [k \in 0..N |-> f[k]] /\ f[0] = start
    BY <1>12 DEF Runs
  <2>2. \A k \in 1..N : f[k] = next(f[k - 1])
    BY <1>9, <1>12 DEF Runs
  <2>3. \A k \in 0..N : f[k] = IF k = 0 THEN start ELSE next(f[k - 1])
    <3> TAKE k \in 0..N
    <3>1. CASE k = 0
      BY <2>1, <3>1
    <3>2. CASE k # 0
      BY <1>1, <2>2, <3>2
    <3> QED BY <3>1, <3>2
  <2> QED BY <2>1, <2>3
<1>14. Is(g)
  <2> HIDE DEF Is
  <2> QED BY <1>13 DEF g
<1>15. g[0] = start /\ \A k \in 1..N : g[k] = next(g[k - 1])
  <2>1. 0 \in 0..N /\ \A k \in 1..N : k \in 0..N /\ k # 0
    BY <1>1
  <2> QED BY <1>14, <2>1
<1>16. g = [k \in 0..N |-> g[k]]
  BY <1>14
<1>17. Runs(g, N, S, start, step)
  <2>1. \A k \in 1..N : g[k - 1] \in S[k - 1] => g[k] = step[k][g[k - 1]]
    BY <1>9, <1>15
  <2> QED BY <1>1, <1>10, <1>11, <1>15, <1>16, <2>1, RunFollowed
<1>18. g[N].out = data
  <2>1. g[N] \in S[N]
    <3>1. N \in 0..N
      BY <1>1
    <3> QED BY <1>17, <3>1 DEF Runs
  <2>2. PICK j \in LegacyReach(data, N) : g[N] = LegacyState(data, j)
    <3>1. N \in 0..N
      BY <1>1
    <3> QED BY <1>8, <2>1, <3>1
  <2>3. j = n
    BY <1>1 DEF LegacyReach
  <2> QED BY <2>2, <2>3, SubSeqFull DEF LegacyState
<1>19. data \o [i \in 1..(size - n) |-> 0] = data
  <2>1. size - n = 0
    BY <1>1
  <2>2. [i \in 1..0 |-> 0] = <<>>
    OBVIOUS
  <2>3. [i \in 1..(size - n) |-> 0] = <<>>
    BY <2>1, <2>2
  <2> QED BY <2>3, ConcatEmptySeq
<1> QED BY <1>c, <1>18, <1>19 DEF input

-----------------------------------------------------------------------------
(***************************************************************************)
(* What holds of every module's table.                                     *)
(***************************************************************************)
LEMMA Registry ==
  ASSUME NEW m \in DOMAIN MODULES
  PROVE  /\ get_flash_info(m) = MODULES[m]
         /\ MODULES[m] \in FlashInfos
         /\ m # "simos16" => MODULES[m] \in ApartInfos
<1>1. m \in {"simos18", "simos122", "simos1810", "simos184", "simos16", "simos10", "simos8", "simos12", "dq250", "dq250mqb", "dsg", "dq381", "haldex", "haldex4motion"}
  BY DEF MODULES
<1>2. MODULES["simos18"] = S18_FLASH_INFO
  BY DEF MODULES
<1>3. MODULES["simos122"] = S122_FLASH_INFO
  BY DEF MODULES
<1>4. MODULES["simos1810"] = S1810_FLASH_INFO
  BY DEF MODULES
<1>5. MODULES["simos184"] = S184_FLASH_INFO
  BY DEF MODULES
<1>6. MODULES["simos16"] = S16_FLASH_INFO
  BY DEF MODULES
<1>7. MODULES["simos10"] = S10_FLASH_INFO
  BY DEF MODULES
<1>8. MODULES["simos8"] = S8_FLASH_INFO
  BY DEF MODULES
<1>9. MODULES["simos12"] = S12_FLASH_INFO
  BY DEF MODULES
<1>10. MODULES["dq250"] = DQ250_FLASH_INFO
  BY DEF MODULES
<1>11. MODULES["dq250mqb"] = DQ250_FLASH_INFO
  BY DEF MODULES
<1>12. MODULES["dsg"] = DQ250_FLASH_INFO
  BY DEF MODULES
<1>13. MODULES["dq381"] = DQ381_FLASH_INFO
  BY DEF MODULES
<1>14. MODULES["haldex"] = HALDEX_FLASH_INFO
  BY DEF MODULES
<1>15. MODULES["haldex4motion"] = HALDEX_FLASH_INFO
  BY DEF MODULES
<1>20. MODULES[m] \in FlashInfos
  BY <1>1, <1>2, <1>3, <1>4, <1>5, <1>6, <1>7, <1>8, <1>9, <1>10, <1>11, <1>12, <1>13, <1>14, <1>15 DEF FlashInfos
<1>21. get_flash_info(m) = MODULES[m]
  BY DEF get_flash_info, lookup
<1>22. m # "simos16" => MODULES[m] \in ApartInfos
  BY <1>1, <1>2, <1>3, <1>4, <1>5, <1>6, <1>7, <1>8, <1>9, <1>10, <1>11, <1>12, <1>13, <1>14, <1>15 DEF ApartInfos
<1> QED BY <1>20, <1>21, <1>22

LEMMA NumberIs ==
  ASSUME NEW info, NEW name, NEW n \in Blocks(info), info.names[n] = name,
         \A k \in Blocks(info) : info.names[k] = name => k = n
  PROVE  block_to_number(info, name) = n
BY DEF block_to_number

LEMMA NoNumber ==
  ASSUME NEW info, NEW name, \A k \in Blocks(info) : info.names[k] # name
  PROVE  block_to_number(info, name) = None
BY DEF block_to_number

LEMMA Simos5Names ==
  ASSUME NEW info, info.names = BLOCK_NAMES_SIMOS5
  PROVE  /\ Blocks(info) = 1..5
         /\ block_to_number(info, "CBOOT") = 1
         /\ block_to_number(info, "CAL") = 5
<1>1. /\ Blocks(info) = 1..5
      /\ info.names[1] = "CBOOT" /\ info.names[2] = "ASW1" /\ info.names[3] = "ASW2"
      /\ info.names[4] = "ASW3" /\ info.names[5] = "CAL"
  BY DEF Blocks, BLOCK_NAMES_SIMOS5
<1>2. \A k \in 1..5 : k = 1 \/ k = 2 \/ k = 3 \/ k = 4 \/ k = 5
  OBVIOUS
<1>3. \A k \in Blocks(info) : (info.names[k] = "CBOOT" => k = 1) /\ (info.names[k] = "CAL" => k = 5)
  BY <1>1, <1>2
<1> QED BY <1>1, <1>3, NumberIs

LEMMA Simos3Names ==
  ASSUME NEW info, info.names = BLOCK_NAMES_SIMOS3
  PROVE  /\ Blocks(info) = 1..3
         /\ block_to_number(info, "CBOOT") = 1
         /\ block_to_number(info, "CAL") = 3
<1>1. /\ Blocks(info) = 1..3
      /\ info.names[1] = "CBOOT" /\ info.names[2] = "ASW1" /\ info.names[3] = "CAL"
  BY DEF Blocks, BLOCK_NAMES_SIMOS3
<1>2. \A k \in Blocks(info) : (info.names[k] = "CBOOT" => k = 1) /\ (info.names[k] = "CAL" => k = 3)
  BY <1>1
<1> QED BY <1>1, <1>2, NumberIs

LEMMA SimosSets ==
  /\ 1..6 = (1..5) \union {6} /\ {1, 2, 3, 6} = (1..3) \union {6}
  /\ 5 \in (1..5) \ {1} /\ 3 \in (1..3) \ {1}
<1>1. \A x : x \in 1..6 <=> x \in (1..5) \union {6}
  OBVIOUS
<1>2. \A x : x \in {1, 2, 3, 6} <=> x \in (1..3) \union {6}
  OBVIOUS
<1>3. 1..6 = (1..5) \union {6} /\ {1, 2, 3, 6} = (1..3) \union {6}
  BY <1>1, <1>2, Zenon
<1>4. 5 \in 1..5 /\ 5 # 1 /\ 3 \in 1..3 /\ 3 # 1
  OBVIOUS
<1> QED BY <1>3, <1>4, Zenon

LEMMA SimosInfoIs ==
  ASSUME NEW info, NEW names, NEW count, NEW located,
         SimosTable(info, names, count, located), SimosNames(names, count, located)
  PROVE  SimosInfo(info) /\ Blocks(info) = 1..count
<1>1. /\ Blocks(info) = 1..count
      /\ block_to_number(info, "CBOOT") = 1 /\ block_to_number(info, "CAL") = count
  BY Simos5Names, Simos3Names, Zenon DEF SimosTable, SimosNames
<1>2. Blocks(info) \in {1..5, 1..3} /\ info.version = Blocks(info)
  BY <1>1, Zenon DEF SimosTable, SimosNames
<1>3. info.checksum_block_location = Blocks(info) \union {6}
  BY <1>1, SimosSets, Zenon DEF SimosTable, SimosNames
<1>4. block_to_number(info, "CAL") \in Blocks(info) \ {1}
  BY <1>1, SimosSets, Zenon DEF SimosNames
<1> QED BY <1>1, <1>2, <1>3, <1>4, Zenon DEF SimosInfo, SimosTable

LEMMA S18Info ==
  SimosInfo(S18_FLASH_INFO) /\ PlacedInfo(S18_FLASH_INFO) /\ ApartInfo(S18_FLASH_INFO)
<1> DEFINE info == S18_FLASH_INFO
<1>1. SimosTable(info, BLOCK_NAMES_SIMOS5, 5, 1..6)
  BY SMTT(20) DEF SimosTable, S18_FLASH_INFO, SimosFamily
<1>2. /\ info.binfile_size = 4194304
      /\ info.offsets = <<114688, 262144, 1310720, 2621440, 2097152>>
      /\ info.lengths = <<146944, 1047552, 785408, 523264, 523264>>
  BY SMTT(20) DEF S18_FLASH_INFO, SimosFamily
<1> HIDE DEF info
<1>3. SimosInfo(info) /\ Blocks(info) = 1..5
  BY <1>1, SimosInfoIs, Zenon DEF SimosNames
<1>4. PlacedInfo(info)
  BY <1>2, <1>3, SMTT(20) DEF PlacedInfo
<1>5. ApartInfo(info)
  BY <1>2, <1>3, SMTT(20) DEF ApartInfo
<1> QED BY <1>3, <1>4, <1>5 DEF info

LEMMA S122Info ==
  SimosInfo(S122_FLASH_INFO) /\ PlacedInfo(S122_FLASH_INFO) /\ ApartInfo(S122_FLASH_INFO)
<1> DEFINE info == S122_FLASH_INFO
<1>1. SimosTable(info, BLOCK_NAMES_SIMOS5, 5, 1..6)
  BY SMTT(20) DEF SimosTable, S122_FLASH_INFO, S12_FLASH_INFO, SimosFamily
<1>2. /\ info.binfile_size = 4194304
      /\ info.offsets = <<131072, 786432, 1572864, 2359296, 262144>>
      /\ info.lengths = <<130560, 785408, 785408, 785408, 457728>>
  BY SMTT(20) DEF S122_FLASH_INFO, S12_FLASH_INFO, SimosFamily
<1> HIDE DEF info
<1>3. SimosInfo(info) /\ Blocks(info) = 1..5
  BY <1>1, SimosInfoIs, Zenon DEF SimosNames
<1>4. PlacedInfo(info)
  BY <1>2, <1>3, SMTT(20) DEF PlacedInfo
<1>5. ApartInfo(info)
  BY <1>2, <1>3, SMTT(20) DEF ApartInfo
<1> QED BY <1>3, <1>4, <1>5 DEF info

LEMMA S12Info ==
  SimosInfo(S12_FLASH_INFO) /\ PlacedInfo(S12_FLASH_INFO) /\ ApartInfo(S12_FLASH_INFO)
<1> DEFINE info == S12_FLASH_INFO
<1>1. SimosTable(info, BLOCK_NAMES_SIMOS5, 5, 1..6)
  BY SMTT(20) DEF SimosTable, S12_FLASH_INFO, SimosFamily
<1>2. /\ info.binfile_size = 4194304
      /\ info.offsets = <<131072, 786432, 1572864, 2359296, 262144>>
      /\ info.lengths = <<130560, 785408, 785408, 785408, 457728>>
  BY SMTT(20) DEF S12_FLASH_INFO, SimosFamily
<1> HIDE DEF info
<1>3. SimosInfo(info) /\ Blocks(info) = 1..5
  BY <1>1, SimosInfoIs, Zenon DEF SimosNames
<1>4. PlacedInfo(info)
  BY <1>2, <1>3, SMTT(20) DEF PlacedInfo
<1>5. ApartInfo(info)
  BY <1>2, <1>3, SMTT(20) DEF ApartInfo
<1> QED BY <1>3, <1>4, <1>5 DEF info

LEMMA S1810Info ==
  SimosInfo(S1810_FLASH_INFO) /\ PlacedInfo(S1810_FLASH_INFO) /\ ApartInfo(S1810_FLASH_INFO)
<1> DEFINE info == S1810_FLASH_INFO
<1>1. SimosTable(info, BLOCK_NAMES_SIMOS5, 5, 1..6)
  BY SMTT(20) DEF SimosTable, S1810_FLASH_INFO, SimosFamily
<1>2. /\ info.binfile_size = 4194304
      /\ info.offsets = <<2097152, 131072, 1048576, 2883584, 2228224>>
      /\ info.lengths = <<130560, 916480, 1047552, 1309696, 654336>>
  BY SMTT(20) DEF S1810_FLASH_INFO, SimosFamily
<1> HIDE DEF info
<1>3. SimosInfo(info) /\ Blocks(info) = 1..5
  BY <1>1, SimosInfoIs, Zenon DEF SimosNames
<1>4. PlacedInfo(info)
  BY <1>2, <1>3, SMTT(20) DEF PlacedInfo
<1>5. ApartInfo(info)
  BY <1>2, <1>3, SMTT(20) DEF ApartInfo
<1> QED BY <1>3, <1>4, <1>5 DEF info

LEMMA S184Info ==
  SimosInfo(S184_FLASH_INFO) /\ PlacedInfo(S184_FLASH_INFO) /\ ApartInfo(S184_FLASH_INFO)
<1> DEFINE info == S184_FLASH_INFO
<1>1. SimosTable(info, BLOCK_NAMES_SIMOS5, 5, 1..6)
  BY SMTT(20) DEF SimosTable, S184_FLASH_INFO, S1810_FLASH_INFO, SimosFamily
<1>2. /\ info.binfile_size = 4194304
      /\ info.offsets = <<2097152, 131072, 1048576, 2883584, 2228224>>
      /\ info.lengths = <<130560, 916480, 1047552, 1309696, 654336>>
  BY SMTT(20) DEF S184_FLASH_INFO, S1810_FLASH_INFO, SimosFamily
<1> HIDE DEF info
<1>3. SimosInfo(info) /\ Blocks(info) = 1..5
  BY <1>1, SimosInfoIs, Zenon DEF SimosNames
<1>4. PlacedInfo(info)
  BY <1>2, <1>3, SMTT(20) DEF PlacedInfo
<1>5. ApartInfo(info)
  BY <1>2, <1>3, SMTT(20) DEF ApartInfo
<1> QED BY <1>3, <1>4, <1>5 DEF info

LEMMA S16Info ==
  SimosInfo(S16_FLASH_INFO) /\ PlacedInfo(S16_FLASH_INFO)
<1> DEFINE info == S16_FLASH_INFO
<1>1. SimosTable(info, BLOCK_NAMES_SIMOS5, 5, 1..6)
  BY SMTT(20) DEF SimosTable, S16_FLASH_INFO, SimosFamily
<1>2. /\ info.binfile_size = 4194304
      /\ info.offsets = <<131072, 262144, 1310720, 2621440, 2097152>>
      /\ info.lengths = <<146944, 1047552, 785408, 523264, 523264>>
  BY SMTT(20) DEF S16_FLASH_INFO, SimosFamily
<1> HIDE DEF info
<1>3. SimosInfo(info) /\ Blocks(info) = 1..5
  BY <1>1, SimosInfoIs, Zenon DEF SimosNames
<1>4. PlacedInfo(info)
  BY <1>2, <1>3, SMTT(20) DEF PlacedInfo
<1> QED BY <1>3, <1>4 DEF info

LEMMA S10Info ==
  SimosInfo(S10_FLASH_INFO) /\ PlacedInfo(S10_FLASH_INFO) /\ ApartInfo(S10_FLASH_INFO)
<1> DEFINE info == S10_FLASH_INFO
<1>1. SimosTable(info, BLOCK_NAMES_SIMOS3, 3, {1, 2, 3, 6})
  BY SMTT(20) DEF SimosTable, S10_FLASH_INFO, SimosFamily
<1>2. /\ info.binfile_size = 2097152
      /\ info.offsets = <<49152, 131072, 1835008>>
      /\ info.lengths = <<81408, 1702400, 245760>>
  BY SMTT(20) DEF S10_FLASH_INFO, SimosFamily
<1> HIDE DEF info
<1>3. SimosInfo(info) /\ Blocks(info) = 1..3
  BY <1>1, SimosInfoIs, Zenon DEF SimosNames
<1>4. PlacedInfo(info)
  BY <1>2, <1>3, SMTT(20) DEF PlacedInfo
<1>5. ApartInfo(info)
  BY <1>2, <1>3, SMTT(20) DEF ApartInfo
<1> QED BY <1>3, <1>4, <1>5 DEF info

LEMMA S8Info ==
  SimosInfo(S8_FLASH_INFO) /\ PlacedInfo(S8_FLASH_INFO) /\ ApartInfo(S8_FLASH_INFO)
<1> DEFINE info == S8_FLASH_INFO
<1>1. SimosTable(info, BLOCK_NAMES_SIMOS3, 3, {1, 2, 3, 6})
  BY SMTT(20) DEF SimosTable, S8_FLASH_INFO, S10_FLASH_INFO, SimosFamily
<1>2. /\ info.binfile_size = 2097152
      /\ info.offsets = <<131072, 524288, 262144>>
      /\ info.lengths = <<81408, 1572352, 245760>>
  BY SMTT(20) DEF S8_FLASH_INFO, S10_FLASH_INFO, SimosFamily
<1> HIDE DEF info
<1>3. SimosInfo(info) /\ Blocks(info) = 1..3
  BY <1>1, SimosInfoIs, Zenon DEF SimosNames
<1>4. PlacedInfo(info)
  BY <1>2, <1>3, SMTT(20) DEF PlacedInfo
<1>5. ApartInfo(info)
  BY <1>2, <1>3, SMTT(20) DEF ApartInfo
<1> QED BY <1>3, <1>4, <1>5 DEF info

LEMMA DQ250Info ==
  DsgInfo(DQ250_FLASH_INFO) /\ PlacedInfo(DQ250_FLASH_INFO) /\ ApartInfo(DQ250_FLASH_INFO)
<1> DEFINE info == DQ250_FLASH_INFO
<1>1. /\ Blocks(info) = 2..4 /\ info.binfile_size = 1572864
      /\ info.names[2] = "DRIVER" /\ info.offsets[2] = 0 /\ info.lengths[2] = 2062
      /\ info.names[3] = "ASW" /\ info.offsets[3] = 327680 /\ info.lengths[3] = 1245184
      /\ info.names[4] = "CAL" /\ info.offsets[4] = 196608 /\ info.lengths[4] = 131072
  BY SMTT(20) DEF Blocks, DQ250_FLASH_INFO
<1>2. \A k \in Blocks(info) : (info.names[k] = "CAL" => k = 4) /\ info.names[k] # "CBOOT"
  <2> HIDE DEF info
  <2> QED BY <1>1, SMTT(20)
<1>3. block_to_number(info, "CBOOT") = None /\ block_to_number(info, "CAL") = 4
  <2> HIDE DEF info
  <2> QED BY <1>1, <1>2, NumberIs, NoNumber, SMTT(20)
<1>4. DsgInfo(info)
  BY <1>1, <1>3 DEF DsgInfo, DQ250_FLASH_INFO
<1> HIDE DEF info
<1>5. PlacedInfo(info)
  BY <1>1, SMTT(20) DEF PlacedInfo
<1>6. ApartInfo(info)
  BY <1>1, SMTT(20) DEF ApartInfo
<1> QED BY <1>4, <1>5, <1>6 DEF info

LEMMA DQ381Info ==
  Dq381Info(DQ381_FLASH_INFO) /\ PlacedInfo(DQ381_FLASH_INFO) /\ ApartInfo(DQ381_FLASH_INFO)
<1> DEFINE info == DQ381_FLASH_INFO
<1>1. /\ Blocks(info) = 1..3 /\ info.binfile_size = 1572864
      /\ info.names[1] = "BOOT" /\ info.offsets[1] = 66048 /\ info.lengths[1] = 130560
      /\ info.names[2] = "ASW" /\ info.offsets[2] = 197120 /\ info.lengths[2] = 1113600
      /\ info.names[3] = "CAL" /\ info.offsets[3] = 1311232 /\ info.lengths[3] = 261632
  BY SMTT(20) DEF Blocks, DQ381_FLASH_INFO
<1>2. \A k \in Blocks(info) : (info.names[k] = "CAL" => k = 3) /\ info.names[k] # "CBOOT"
  <2> HIDE DEF info
  <2> QED BY <1>1, SMTT(20)
<1>3. block_to_number(info, "CBOOT") = None /\ block_to_number(info, "CAL") = 3
  <2> HIDE DEF info
  <2> QED BY <1>1, <1>2, NumberIs, NoNumber, SMTT(20)
<1>4. Dq381Info(info)
  <2>1. /\ info.checksum_kind = "Dq381" /\ info.crypto = "Aes" /\ ~info.lzss10_odx
        /\ info.block_prep = "LzssExact" /\ info.compression_type = 10 /\ info.uds_checksum_kind = "Crc32Be"
        /\ info.dynamic_block_length_offsets = {} /\ info.no_internal_checksum_blocks = {}
        /\ info.version = {} /\ info.project_name # ""
    BY SMTT(20) DEF DQ381_FLASH_INFO
  <2> HIDE DEF info
  <2>2. Blocks(info) = 1..3
    BY <1>1, SMTT(20)
  <2> QED BY <1>3, <2>1, <2>2, Zenon DEF Dq381Info
<1> HIDE DEF info
<1>5. PlacedInfo(info)
  BY <1>1, SMTT(20) DEF PlacedInfo
<1>6. ApartInfo(info)
  BY <1>1, SMTT(20) DEF ApartInfo
<1> QED BY <1>4, <1>5, <1>6 DEF info

LEMMA HALDEXInfo ==
  HaldexInfo(HALDEX_FLASH_INFO) /\ PlacedInfo(HALDEX_FLASH_INFO) /\ ApartInfo(HALDEX_FLASH_INFO)
<1> DEFINE info == HALDEX_FLASH_INFO
<1>1. /\ Blocks(info) = 1..4 /\ info.binfile_size = 327680
      /\ info.names[1] = "DRIVER" /\ info.offsets[1] = 0 /\ info.lengths[1] = 1076
      /\ info.names[2] = "CAL" /\ info.offsets[2] = 46080 /\ info.lengths[2] = 13118
      /\ info.names[3] = "ASW" /\ info.offsets[3] = 65536 /\ info.lengths[3] = 252800
      /\ info.names[4] = "VERSION" /\ info.offsets[4] = 318464 /\ info.lengths[4] = 14
  BY SMTT(20) DEF Blocks, HALDEX_FLASH_INFO
<1>2. \A k \in Blocks(info) : (info.names[k] = "CAL" => k = 2) /\ info.names[k] # "CBOOT"
  <2> HIDE DEF info
  <2> QED BY <1>1, SMTT(20)
<1>3. block_to_number(info, "CBOOT") = None /\ block_to_number(info, "CAL") = 2
  <2> HIDE DEF info
  <2> QED BY <1>1, <1>2, NumberIs, NoNumber, SMTT(20)
<1>4. HaldexInfo(info)
  <2>1. /\ info.checksum_kind = "Haldex" /\ info.crypto = "NoCrypto" /\ ~info.lzss10_odx
        /\ info.block_prep = "Raw" /\ info.compression_type = 0 /\ info.uds_checksum_kind = "Crc32Be"
        /\ info.dynamic_block_length_offsets = {2, 3, 4} /\ info.no_internal_checksum_blocks = {1}
        /\ info.version = {2, 3, 4} /\ info.project_name = "" /\ info.checksum_block_location = 1..4
    BY SMTT(20) DEF HALDEX_FLASH_INFO
  <2> HIDE DEF info
  <2>2. Blocks(info) = 1..4
    BY <1>1, SMTT(20)
  <2> QED BY <1>3, <2>1, <2>2, Zenon DEF HaldexInfo
<1> HIDE DEF info
<1>5. PlacedInfo(info)
  BY <1>1, SMTT(20) DEF PlacedInfo
<1>6. ApartInfo(info)
  BY <1>1, SMTT(20) DEF ApartInfo
<1> QED BY <1>4, <1>5, <1>6 DEF info

LEMMA Known ==
  ASSUME NEW m \in DOMAIN MODULES
  PROVE  KnownInfo(MODULES[m]) /\ (m # "simos16" => ApartInfo(MODULES[m]))
<1>1. \A info \in FlashInfos : KnownInfo(info)
  BY S18Info, S122Info, S1810Info, S184Info, S16Info, S10Info, S8Info, S12Info, DQ250Info, DQ381Info,
     HALDEXInfo DEF FlashInfos, KnownInfo
<1>2. \A info \in ApartInfos : ApartInfo(info)
  BY S18Info, S122Info, S1810Info, S184Info, S10Info, S8Info, S12Info, DQ250Info, DQ381Info,
     HALDEXInfo DEF ApartInfos
<1> QED BY <1>1, <1>2, Registry

-----------------------------------------------------------------------------
(***************************************************************************)
(* What the vendor put into the container, the extractor takes out.        *)
(***************************************************************************)
LEMMA AesPadIs ==
  ASSUME NEW data \in Seq(Byte)
  PROVE  \E k \in Nat : AesPad(data) = Zeros(k)
<1>1. Len(data) \in Nat
  OBVIOUS
<1>2. (16 - (Len(data) % 16)) % 16 \in Nat
  BY <1>1
<1> QED BY <1>2 DEF AesPad

LEMMA NoPad ==
  ASSUME NEW s \in Seq(Byte)
  PROVE  s \o Zeros(0) = s
<1>1. Zeros(0) = <<>>
  BY ZerosType, EmptySeq
<1> QED BY <1>1, ConcatEmptySeq

\* What of an element the cipher leaves: the packed bytes, with zeros behind.
LEMMA ElementPlain ==
  ASSUME NEW packed \in Seq(Byte), NEW crypto \in {"Aes", "Xor", "Dsg", "NoCrypto"}
  PROVE  \E k \in Nat : /\ decrypt(crypto, encrypt(crypto, packed)) = packed \o Zeros(k)
                        /\ crypto # "Aes" => k = 0
<1>1. CASE crypto = "Aes"
  <2>1. PICK k \in Nat : AesPad(packed) = Zeros(k)
    BY AesPadIs
  <2> QED BY <1>1, <2>1, CipherRoundTrip DEF Padded
<1>2. CASE crypto # "Aes"
  BY <1>2, CipherRoundTrip, NoPad DEF Padded
<1> QED BY <1>1, <1>2

LEMMA VendorLzssRoundTrip ==
  ASSUME NEW data \in Seq(Byte), NEW crypto \in {"Aes", "Xor", "Dsg", "NoCrypto"}
  PROVE  /\ decompress_lzss10(decrypt(crypto, encrypt(crypto, VendorLzss(data))), Len(data)) = data
         /\ Len(encrypt(crypto, VendorLzss(data))) >= Len(data)
<1>1. VendorLzss(data) \in Seq(Byte) /\ Len(VendorLzss(data)) = Len(data) + ((Len(data) + 7) \div 8)
  BY VendorLzssLiterals
<1>2. PICK k \in Nat : decrypt(crypto, encrypt(crypto, VendorLzss(data))) = VendorLzss(data) \o Zeros(k)
  BY <1>1, ElementPlain
<1>3. Literals(data, VendorLzss(data) \o Zeros(k))
  BY VendorLzssLiterals
<1>4. Len(encrypt(crypto, VendorLzss(data))) >= Len(data)
  BY <1>1, CipherRoundTrip
<1> QED BY <1>2, <1>3, <1>4, Lzss10Literals

LEMMA VendorRoundTrip ==
  ASSUME NEW info, KnownInfo(info), NEW n, NEW data \in Seq(Byte), Len(data) \in 3..255,
         info.crypto = "Xor" => \A i \in DOMAIN data : data[i] # 254
  PROVE  ElementOf(info, VendorElement(info, n, data), n, data)
<1> DEFINE e == VendorElement(info, n, data)
<1>0. \/ info.crypto = "Aes" /\ ~info.lzss10_odx
      \/ info.crypto = "Xor" /\ ~info.lzss10_odx
      \/ info.crypto = "Dsg" /\ info.lzss10_odx
      \/ info.crypto = "NoCrypto" /\ ~info.lzss10_odx
  BY Zenon DEF KnownInfo, SimosInfo, DsgInfo, Dq381Info, HaldexInfo
<1>n. Len(data) \in Nat /\ Len(data) > 1
  <2>1. \A k \in 3..255 : k \in Nat /\ k > 1
    OBVIOUS
  <2> QED BY <2>1, Zenon
<1>1. CASE info.crypto = "Aes" /\ ~info.lzss10_odx
  <2>1. e = Element(n, "A", TRUE, encrypt("Aes", VendorLzss(data)), Len(data))
    BY <1>1 DEF VendorElement, VendorMethod, Element
  <2> HIDE DEF e
  <2>2. /\ e.number = n /\ e.compression = "A" /\ e.encrypted
        /\ e.bytes = encrypt("Aes", VendorLzss(data)) /\ e.size = Len(data)
    BY <2>1 DEF Element
  <2>3. Decompressed(info, e) = decompress_lzss10(decrypt("Aes", encrypt("Aes", VendorLzss(data))), Len(data))
    BY <1>1, <2>2 DEF Decompressed
  <2>4. Decompressed(info, e) = data /\ Len(e.bytes) >= Len(data)
    BY <2>2, <2>3, VendorLzssRoundTrip
  <2>5. Len(e.bytes) > 1
    BY <1>n, <2>2, <2>4, CipherRoundTrip, VendorLzssLiterals
  <2> QED BY <2>2, <2>4, <2>5 DEF ElementOf, e
<1>2. CASE info.crypto = "Xor" /\ ~info.lzss10_odx
  <2>0. VendorLegacy(data) \in Seq(Byte) /\ Len(VendorLegacy(data)) = 11 + Len(data)
    BY LegacyStream
  <2>1. e = Element(n, "1", TRUE, encrypt("Xor", VendorLegacy(data)), Len(data))
    BY <1>2 DEF VendorElement, VendorMethod, Element
  <2> HIDE DEF e
  <2>2. /\ e.number = n /\ e.compression = "1" /\ e.encrypted
        /\ e.bytes = encrypt("Xor", VendorLegacy(data)) /\ e.size = Len(data)
    BY <2>1 DEF Element
  <2>3. decrypt("Xor", encrypt("Xor", VendorLegacy(data))) = VendorLegacy(data)
    BY <2>0, CipherRoundTrip DEF Padded
  <2>4. Decompressed(info, e) = decompress_legacy(VendorLegacy(data))
    BY <1>2, <2>2, <2>3 DEF Decompressed
  <2>5. Decompressed(info, e) = data
    BY <1>2, <2>4, LegacyRoundTrip
  <2>6. Len(e.bytes) > 1
    BY <1>n, <2>0, <2>2, CipherRoundTrip
  <2> QED BY <2>2, <2>5, <2>6 DEF ElementOf, e
<1>3. CASE info.crypto = "Dsg" /\ info.lzss10_odx
  <2>1. e = Element(n, "1", TRUE, encrypt("Dsg", VendorLzss(data)), Len(data))
    BY <1>3 DEF VendorElement, VendorMethod, Element
  <2> HIDE DEF e
  <2>2. /\ e.number = n /\ e.compression = "1" /\ e.encrypted
        /\ e.bytes = encrypt("Dsg", VendorLzss(data)) /\ e.size = Len(data)
    BY <2>1 DEF Element
  <2>3. Decompressed(info, e) = decompress_lzss10(decrypt("Dsg", encrypt("Dsg", VendorLzss(data))), Len(data))
    BY <1>3, <2>2 DEF Decompressed
  <2>4. Decompressed(info, e) = data /\ Len(e.bytes) >= Len(data)
    BY <2>2, <2>3, VendorLzssRoundTrip
  <2>5. Len(e.bytes) > 1
    BY <1>n, <2>2, <2>4, CipherRoundTrip, VendorLzssLiterals
  <2> QED BY <2>2, <2>4, <2>5 DEF ElementOf, e
<1>4. CASE info.crypto = "NoCrypto" /\ ~info.lzss10_odx
  <2>1. e = Element(n, "0", FALSE, data, Len(data))
    BY <1>4 DEF VendorElement, VendorMethod, Element
  <2> HIDE DEF e
  <2>2. /\ e.number = n /\ e.compression = "0" /\ ~e.encrypted
        /\ e.bytes = data /\ e.size = Len(data)
    BY <2>1 DEF Element
  <2>3. Decompressed(info, e) = data
    BY <1>4, <2>2 DEF Decompressed
  <2> QED BY <1>n, <2>2, <2>3 DEF ElementOf, e
<1> QED BY <1>0, <1>1, <1>2, <1>3, <1>4

LEMMA ChosenIs ==
  ASSUME Chosen
  PROVE  /\ KnownInfo(fi) /\ (mod # "simos16" => ApartInfo(fi))
         /\ DOMAIN Vendor[mod] = Blocks(fi)
         /\ \A n \in Blocks(fi) : VendorBlock(n, Vendor[mod][n])
<1>1. mod \in Modules /\ mod \in DOMAIN MODULES /\ fi = MODULES[mod]
  BY VendorAssumption DEF Chosen
<1>2. KnownInfo(fi) /\ (mod # "simos16" => ApartInfo(fi))
  BY <1>1, Known
<1>3. DOMAIN Vendor[mod] = Blocks(fi)
  BY <1>1, VendorAssumption
<1>4. \A n \in Blocks(fi) : VendorBlock(n, Vendor[mod][n])
  <2> TAKE n \in Blocks(fi)
  <2>1. n \in Blocks(MODULES[mod])
    BY <1>1
  <2>2. /\ Vendor[mod][n] \in Seq(Byte) /\ Len(Vendor[mod][n]) \in 3..255 /\ Shared <= Len(Vendor[mod][n])
        /\ MODULES[mod].project_name # "" /\ n \in MODULES[mod].version
             => Vendor[mod][n][VersionCell] \in OwnVersions
        /\ n \in MODULES[mod].dynamic_block_length_offsets
             => Vendor[mod][n][DynamicLengthCell] \in {0, Len(Vendor[mod][n])}
        /\ MODULES[mod].crypto = "Xor" => \A i \in DOMAIN Vendor[mod][n] : Vendor[mod][n][i] # 254
        /\ ModuleAccepts(MODULES[mod], Vendor[mod][n], n)
    BY <1>1, <2>1, VendorAssumption
  <2> QED BY <1>1, <2>2, Zenon DEF VendorBlock
<1> QED BY <1>2, <1>3, <1>4

LEMMA BlocksAre ==
  ASSUME NEW info, KnownInfo(info)
  PROVE  Blocks(info) \subseteq 1..5 /\ Blocks(info) # {}
<1>1. Blocks(info) = 1..5 \/ Blocks(info) = 1..3 \/ Blocks(info) = 2..4 \/ Blocks(info) = 1..4
  BY Zenon DEF KnownInfo, SimosInfo, DsgInfo, Dq381Info, HaldexInfo
<1> QED BY <1>1

LEMMA SizedElement ==
  ASSUME NEW info, NEW n, NEW data, NEW size
  PROVE  /\ [VendorElement(info, n, data) EXCEPT !.size = size].bytes = VendorElement(info, n, data).bytes
         /\ [VendorElement(info, n, data) EXCEPT !.size = size].size = size
         /\ [VendorElement(info, n, data) EXCEPT !.size = @] = VendorElement(info, n, data)
<1> DEFINE method == VendorMethod(info)
           packed == CASE method = "A" \/ info.lzss10_odx -> VendorLzss(data)
                       [] method = "1" /\ ~info.lzss10_odx -> VendorLegacy(data)
                       [] method = "0" -> data
           encrypted == method # "0"
           bytes == IF method = "0" THEN packed ELSE encrypt(info.crypto, packed)
           e == VendorElement(info, n, data)
<1>1. e = [number |-> n, compression |-> method, encrypted |-> encrypted, bytes |-> bytes, size |-> Len(data)]
  BY Zenon DEF VendorElement
<1> HIDE DEF e, method, encrypted, bytes
<1>2. [e EXCEPT !.size = size].bytes = e.bytes /\ [e EXCEPT !.size = size].size = size
  BY <1>1
<1>3. e.size = Len(data)
  BY <1>1
<1>4. [e EXCEPT !.size = Len(data)] = e
  BY <1>1
<1> QED BY <1>2, <1>3, <1>4 DEF e

\* What a container yields.
LEMMA OdxHolds ==
  ASSUME Chosen, NEW S, S = extract_odx(fi, Odx)
  PROVE  /\ container = "sizeless" => ~S.ok
         /\ container = "empty" => S.blocks = <<>>
         /\ container \in {"sound", "sgo"} => S.ok /\ S.blocks = [n \in Blocks(fi) |-> Vendor[mod][n]]
<1> DEFINE B == Blocks(fi)
           v(n) == VendorElement(fi, n, Vendor[mod][n])
           elem(n) == IF container = "empty" THEN EraseElement(n)
                      ELSE [v(n) EXCEPT !.size = IF container = "sizeless" THEN None ELSE @]
           data == {e \in Odx : Len(e.bytes) > 1}
<1>1. Odx = {elem(n) : n \in B}
  BY DEF Odx
<1>2. B # {}
  BY ChosenIs, BlocksAre
<1>3. \A n \in B : ElementOf(fi, v(n), n, Vendor[mod][n]) /\ Vendor[mod][n] \in Seq(Byte)
  <2> TAKE n \in B
  <2>1. VendorBlock(n, Vendor[mod][n]) /\ KnownInfo(fi)
    BY ChosenIs
  <2> QED BY <2>1, VendorRoundTrip DEF VendorBlock
<1>4. S = IF \E e \in data : e.size = None THEN [ok |-> FALSE, blocks |-> <<>>]
          ELSE [ok |-> TRUE,
                blocks |-> [n \in {e.number : e \in data} |->
                              Decompressed(fi, CHOOSE e \in data : e.number = n)]]
  BY DEF extract_odx
<1>5. ASSUME NEW n \in B, NEW size
      PROVE  /\ [v(n) EXCEPT !.size = size].bytes = v(n).bytes
             /\ [v(n) EXCEPT !.size = size].size = size
             /\ [v(n) EXCEPT !.size = @] = v(n)
  BY SizedElement
<1> HIDE DEF v, data
<1>6. CASE container = "sizeless"
  <2>1. \A n \in B : elem(n).size = None /\ elem(n).bytes = v(n).bytes
    BY <1>5, <1>6
  <2>2. PICK n \in B : TRUE
    BY <1>2
  <2>3. elem(n) \in data
    BY <1>1, <1>3, <2>1, <2>2 DEF data, ElementOf
  <2>4. S = [ok |-> FALSE, blocks |-> <<>>]
    BY <1>4, <2>1, <2>2, <2>3
  <2> QED BY <1>6, <2>4
<1>7. CASE container = "empty"
  <2>1. \A n \in B : elem(n).bytes = <<0>>
    BY <1>7 DEF EraseElement
  <2>2. data = {}
    <3>1. Len(<<0>>) = 1 /\ ~(1 > 1)
      OBVIOUS
    <3>2. \A e \in Odx : e.bytes = <<0>>
      BY <1>1, <2>1
    <3> QED BY <3>1, <3>2, Zenon DEF data
  <2>3. S.blocks = [n \in {} |-> Decompressed(fi, CHOOSE e \in {} : e.number = n)]
    BY <1>4, <2>2
  <2>4. S.blocks = <<>>
    BY <2>3
  <2> QED BY <1>7, <2>4
<1>8. CASE container \in {"sound", "sgo"}
  <2>1. \A n \in B : elem(n) = v(n)
    BY <1>5, <1>8
  <2>2. \A n \in B : v(n).number = n /\ Len(v(n).bytes) > 1 /\ v(n).size \in Nat
                     /\ Decompressed(fi, v(n)) = Vendor[mod][n]
    BY <1>3 DEF ElementOf
  <2>3. data = {v(n) : n \in B}
    BY <1>1, <2>1, <2>2 DEF data
  <2>4. \A e \in data : e.size # None
    BY <2>2, <2>3, NoneAssumption
  <2>5. {e.number : e \in data} = B
    BY <2>2, <2>3
  <2>6. \A n \in B : (CHOOSE e \in data : e.number = n) = v(n)
    BY <2>2, <2>3
  <2>7. S = [ok |-> TRUE, blocks |-> [n \in B |-> Decompressed(fi, CHOOSE e \in data : e.number = n)]]
    BY <1>4, <2>4, <2>5
  <2>8. [n \in B |-> Decompressed(fi, CHOOSE e \in data : e.number = n)] = [n \in B |-> Vendor[mod][n]]
    <3>1. \A n \in B : Decompressed(fi, CHOOSE e \in data : e.number = n) = Vendor[mod][n]
      BY <2>2, <2>6
    <3> QED BY <3>1, Zenon
  <2> QED BY <1>8, <2>7, <2>8
<1> QED BY <1>6, <1>7, <1>8 DEF Chosen, Containers

-----------------------------------------------------------------------------
(***************************************************************************)
(* The layout of an image.                                                 *)
(***************************************************************************)
LEMMA StaticIs ==
  ASSUME Chosen
  PROVE  \A n \in Blocks(fi) :
           /\ static_length(n) \in Nat /\ static_length(n) >= 3
           /\ Len(Vendor[mod][n]) \in Nat /\ static_length(n) >= Len(Vendor[mod][n])
           /\ n \notin fi.dynamic_block_length_offsets => static_length(n) = Len(Vendor[mod][n])
           /\ OwnCells(n) \in Nat
           /\ ~Overlaps(n) => OwnCells(n) = static_length(n)
<1> TAKE n \in Blocks(fi)
<1> DEFINE k == Len(Vendor[mod][n])
           d == IF n \in fi.dynamic_block_length_offsets THEN Slack ELSE 0
<1>1. VendorBlock(n, Vendor[mod][n])
  BY ChosenIs
<1>2. k \in 3..255 /\ Shared <= k
  BY <1>1 DEF VendorBlock
<1>3. Slack \in Nat /\ Shared \in Nat
  BY BoundsAssumption
<1>4. static_length(n) = k + d
  BY DEF static_length
<1>5. d \in Nat /\ (n \notin fi.dynamic_block_length_offsets => d = 0)
  BY <1>3
<1>6. OwnCells(n) = (k + d) - (IF Overlaps(n) THEN Shared ELSE 0)
  BY <1>4 DEF OwnCells
<1> HIDE DEF k, d
<1>7. k + d \in Nat /\ k + d >= 3 /\ k + d >= k /\ (d = 0 => k + d = k) /\ k \in Nat
  BY <1>2, <1>5
<1>8. CASE Overlaps(n)
  <2>1. OwnCells(n) \in Nat
    BY <1>2, <1>3, <1>5, <1>6, <1>7, <1>8
  <2> QED BY <1>4, <1>5, <1>7, <1>8, <2>1 DEF k
<1>9. CASE ~Overlaps(n)
  BY <1>4, <1>5, <1>6, <1>7, <1>9 DEF k
<1> QED BY <1>8, <1>9

LEMMA OffsetIs ==
  ASSUME Chosen, NEW n
  PROVE  /\ binfile_offset(n) = Ahead(1, n) + Ahead(2, n) + Ahead(3, n) + Ahead(4, n) + Ahead(5, n)
         /\ \A m \in 1..5 : Ahead(m, n) \in Nat
         /\ binfile_offset(n) \in Nat
<1> DEFINE s == [m \in 1..5 |-> IF m \in Blocks(fi) /\ Before(m, n) THEN OwnCells(m) ELSE 0]
<1>1. \A m \in 1..5 : s[m] = Ahead(m, n)
  BY DEF Ahead
<1>2. \A m \in 1..5 : Ahead(m, n) \in Nat
  BY StaticIs DEF Ahead
<1>3. s \in [1..5 -> Nat]
  BY <1>1, <1>2
<1>4. binfile_offset(n) = SumOf(s)
  BY DEF binfile_offset
<1> HIDE DEF s
<1>5. SumOf(s) = s[1] + s[2] + s[3] + s[4] + s[5]
  BY <1>3, SumOf5
<1> QED BY <1>1, <1>2, <1>4, <1>5

LEMMA RegionsApart ==
  ASSUME Chosen, ApartInfo(fi), NEW m \in Blocks(fi), NEW n \in Blocks(fi), Before(m, n)
  PROVE  binfile_offset(m) + static_length(m) <= binfile_offset(n)
<1>1. Blocks(fi) \subseteq 1..5 /\ m \in 1..5
  BY ChosenIs, BlocksAre
<1>2. \A k \in Blocks(fi) : fi.offsets[k] \in Nat
  BY ChosenIs DEF KnownInfo, PlacedInfo
<1>3. OwnCells(m) = static_length(m)
  <2>1. ~Overlaps(m)
    <3> SUFFICES ASSUME NEW k \in Blocks(fi), Before(m, k), fi.offsets[k] < End(m) PROVE FALSE
      BY DEF Overlaps
    <3>1. End(m) <= fi.offsets[k]
      BY DEF ApartInfo, Before, End
    <3> DEFINE a == fi.offsets[k]
               b == End(m)
    <3>2. a \in Nat /\ b \in Nat
      BY <1>2, ChosenIs DEF End, KnownInfo, PlacedInfo
    <3>3. a < b /\ b <= a
      BY <3>1
    <3> HIDE DEF a, b
    <3> QED BY <3>2, <3>3
  <2> QED BY <2>1, StaticIs
<1>4. Ahead(m, m) = 0 /\ Ahead(m, n) = static_length(m) /\ static_length(m) \in Nat
  BY <1>2, <1>3, StaticIs DEF Before, Ahead
<1>5. \A k \in 1..5 : Ahead(k, m) \in Nat /\ Ahead(k, n) \in Nat /\ Ahead(k, m) <= Ahead(k, n)
  <2> TAKE k \in 1..5
  <2>1. Ahead(k, m) \in Nat /\ Ahead(k, n) \in Nat
    BY OffsetIs
  <2>2. CASE k \in Blocks(fi) /\ Before(k, m)
    <3>1. Before(k, n)
      <4>1. \A a, b, c \in Nat : a < b /\ b < c => a < c
        OBVIOUS
      <4>2. fi.offsets[k] \in Nat /\ fi.offsets[m] \in Nat /\ fi.offsets[n] \in Nat
        BY <1>2, <2>2
      <4> QED BY <2>2, <4>1, <4>2, Zenon DEF Before
    <3>2. Ahead(k, m) = Ahead(k, n)
      BY <2>2, <3>1 DEF Ahead
    <3> QED BY <2>1, <3>2
  <2>3. CASE ~(k \in Blocks(fi) /\ Before(k, m))
    BY <2>1, <2>3 DEF Ahead
  <2> QED BY <2>2, <2>3
<1> DEFINE a == [k \in 1..5 |-> Ahead(k, m)]
           b == [k \in 1..5 |-> Ahead(k, n)]
           p == static_length(m)
<1>6. binfile_offset(m) = a[1] + a[2] + a[3] + a[4] + a[5]
  BY OffsetIs
<1>7. binfile_offset(n) = b[1] + b[2] + b[3] + b[4] + b[5]
  BY OffsetIs
<1>8. /\ \A k \in 1..5 : a[k] \in Nat /\ b[k] \in Nat /\ a[k] <= b[k]
      /\ a[m] = 0 /\ b[m] = p /\ p \in Nat
  BY <1>1, <1>4, <1>5
<1> HIDE DEF a, b, p
<1>9. m = 1 \/ m = 2 \/ m = 3 \/ m = 4 \/ m = 5
  BY <1>1
<1>10. /\ a[1] \in Nat /\ a[2] \in Nat /\ a[3] \in Nat /\ a[4] \in Nat /\ a[5] \in Nat
       /\ b[1] \in Nat /\ b[2] \in Nat /\ b[3] \in Nat /\ b[4] \in Nat /\ b[5] \in Nat
       /\ a[1] <= b[1] /\ a[2] <= b[2] /\ a[3] <= b[3] /\ a[4] <= b[4] /\ a[5] <= b[5]
  BY <1>8
<1>11. a[1] + a[2] + a[3] + a[4] + a[5] + p <= b[1] + b[2] + b[3] + b[4] + b[5]
  BY <1>8, <1>9, <1>10
<1> QED BY <1>6, <1>7, <1>11 DEF p

\* The largest of at most five numbers.
LEMMA LargestExists ==
  ASSUME NEW B, B \subseteq 1..5, B # {}, NEW v \in [B -> Nat]
  PROVE  \E n \in B : \A m \in B : v[m] <= v[n]
<1> DEFINE T == {k \in 0..5 : (\E n \in B : n <= k) => \E n \in B : n <= k /\ \A m \in B : m <= k => v[m] <= v[n]}
<1>1. 0 \in T
  OBVIOUS
<1>2. ASSUME NEW k \in 1..5, k - 1 \in T PROVE k \in T
  <2> SUFFICES ASSUME NEW o \in B, o <= k
               PROVE  \E n \in B : n <= k /\ \A m \in B : m <= k => v[m] <= v[n]
    OBVIOUS
  <2>0. \A m \in B : m \in 1..5 /\ v[m] \in Nat
    OBVIOUS
  <2>1. CASE \E n \in B : n <= k - 1
    <3>1. PICK n \in B : n <= k - 1 /\ \A m \in B : m <= k - 1 => v[m] <= v[n]
      BY <1>2, <2>1
    <3>2. CASE k \in B /\ v[n] <= v[k]
      BY <2>0, <3>1, <3>2
    <3>3. CASE ~(k \in B /\ v[n] <= v[k])
      BY <2>0, <3>1, <3>3
    <3> QED BY <3>2, <3>3
  <2>2. CASE ~(\E n \in B : n <= k - 1)
    BY <2>0, <2>2
  <2> QED BY <2>1, <2>2
<1>3. 5 \in T
  <2> HIDE DEF T
  <2>1. 0..5 \subseteq T
    BY <1>1, <1>2, Stepwise
  <2> QED BY <2>1
<1>4. PICK o \in B : TRUE
  OBVIOUS
<1>5. \A m \in B : m <= 5
  OBVIOUS
<1> QED BY <1>3, <1>4, <1>5

LEMMA ImageHolds ==
  ASSUME Chosen
  PROVE  /\ ImageLength \in Nat
         /\ \A n \in Blocks(fi) : binfile_offset(n) + static_length(n) <= ImageLength
<1> DEFINE B == Blocks(fi)
           v == [n \in B |-> binfile_offset(n) + static_length(n)]
           S == {binfile_offset(n) + static_length(n) : n \in B}
<1>1. B \subseteq 1..5 /\ B # {}
  BY ChosenIs, BlocksAre
<1>2. \A n \in B : binfile_offset(n) \in Nat /\ static_length(n) \in Nat
  BY OffsetIs, StaticIs
<1>3. v \in [B -> Nat] /\ \A n \in B : v[n] = binfile_offset(n) + static_length(n)
  BY <1>2
<1>4. ImageLength = Max(S) + Room /\ Room \in Nat
  BY BoundsAssumption DEF ImageLength, Room
<1>5. S = {v[n] : n \in B}
  BY <1>3
<1> HIDE DEF v, B, S
<1>6. PICK n \in B : \A m \in B : v[m] <= v[n]
  BY <1>1, <1>3, LargestExists
<1>7. \E x \in S : \A y \in S : x >= y
  BY <1>3, <1>5, <1>6
<1>8. Max(S) \in S /\ \A y \in S : Max(S) >= y
  BY <1>7 DEF Max
<1>9. Max(S) \in Nat /\ \A m \in B : v[m] \in Nat /\ v[m] <= Max(S)
  BY <1>3, <1>5, <1>8
<1>10. \A a, b, c \in Nat : a <= b => a <= b + c
  OBVIOUS
<1>11. \A m \in B : v[m] <= ImageLength
  BY <1>4, <1>9, <1>10, Zenon
<1> QED BY <1>3, <1>4, <1>9, <1>11 DEF B

-----------------------------------------------------------------------------
(***************************************************************************)
(* Splitting and combining keep the layout.                                *)
(***************************************************************************)
LEMMA OverIs ==
  ASSUME NEW L \in Nat, NEW bytes \in Sized(L), NEW data \in Seq(Byte), NEW at \in Nat
  PROVE  /\ Over(data, bytes, at) \in Sized(L)
         /\ \A i \in 1..L :
              Over(data, bytes, at)[i] = IF i - at \in 1..Len(data) THEN data[i - at] ELSE bytes[i]
<1>1. DOMAIN bytes = 1..L /\ bytes \in [1..L -> Byte] /\ DOMAIN data = 1..Len(data)
  BY SeqAs DEF Sized
<1>2. Over(data, bytes, at) = [i \in 1..L |-> IF i - at \in 1..Len(data) THEN data[i - at] ELSE bytes[i]]
  BY <1>1 DEF Over
<1>3. \A i \in 1..L : (IF i - at \in 1..Len(data) THEN data[i - at] ELSE bytes[i]) \in Byte
  <2> TAKE i \in 1..L
  <2>1. CASE i - at \in 1..Len(data)
    BY <2>1
  <2>2. CASE i - at \notin 1..Len(data)
    BY <1>1, <2>2
  <2> QED BY <2>1, <2>2
<1> QED BY <1>2, <1>3 DEF Sized

\* A sequence is a function on its places.
LEMMA SizedIs ==
  ASSUME NEW L \in Nat
  PROVE  /\ \A s \in Sized(L) : s \in Seq(Byte) /\ Len(s) = L
         /\ \A s \in Seq(Byte) : Len(s) = L => s \in Sized(L)
BY AsSeq, SeqAs DEF Sized

LEMMA OrdersAre ==
  ASSUME NEW order \in Orders
  PROVE  /\ Len(order) = 5
         /\ \A i \in 1..5 : order[i] \in 1..5
         /\ \A n \in 1..5 : \E i \in 1..5 : order[i] = n
         /\ \A i, j \in 1..5 : order[i] = order[j] => i = j
<1>1. CASE order = <<1, 2, 3, 4, 5>>
  BY <1>1
<1>2. CASE order = <<5, 4, 3, 2, 1>>
  <2>1. /\ Len(order) = 5 /\ order[1] = 5 /\ order[2] = 4 /\ order[3] = 3 /\ order[4] = 2 /\ order[5] = 1
    BY <1>2
  <2>2. \A i \in 1..5 : order[i] = 6 - i
    BY <2>1
  <2>3. \A n \in 1..5 : 6 - n \in 1..5 /\ 6 - (6 - n) = n
    OBVIOUS
  <2> HIDE <1>2
  <2> QED BY <2>1, <2>2, <2>3
<1> QED BY <1>1, <1>2 DEF Orders

LEMMA WrittenBy ==
  ASSUME Chosen, NEW L \in Nat, NEW bytes \in Sized(L), NEW order \in Orders, NEW blocks,
         \A n \in DOMAIN blocks : blocks[n] \in Seq(Byte)
  PROVE  \E w : WritesBy(w, bytes, blocks, order)
<1> DEFINE next(x, i) == IF order[i] \in DOMAIN blocks
                         THEN Over(blocks[order[i]], x, binfile_offset(order[i])) ELSE x
           Is(f) == f = [i \in 0..Len(order) |->
                           IF i = 0 THEN bytes
                           ELSE IF order[i] \in DOMAIN blocks
                           THEN Over(blocks[order[i]], f[i - 1], binfile_offset(order[i]))
                           ELSE f[i - 1]]
           S == [i \in 0..5 |-> Sized(L)]
           step == [i \in 1..5 |-> [x \in Sized(L) |-> next(x, i)]]
           g == CHOOSE f : Is(f)
<1>1. Len(order) = 5 /\ 5 \in Nat
  BY OrdersAre
<1>2. \A i \in 1..5 : \A x \in Sized(L) : next(x, i) \in Sized(L)
  <2> TAKE i \in 1..5
  <2> TAKE x \in Sized(L)
  <2>1. CASE order[i] \in DOMAIN blocks
    BY <2>1, OffsetIs, OverIs
  <2>2. CASE order[i] \notin DOMAIN blocks
    BY <2>2
  <2> QED BY <2>1, <2>2
<1>c. Written(bytes, blocks, order) = g[Len(order)]
  BY DEF Written
<1> HIDE DEF next, g
<1>3. \A i \in 0..5 : S[i] = Sized(L)
  OBVIOUS
<1>4. \A i \in 1..5 : \A x \in Sized(L) : step[i][x] = next(x, i)
  OBVIOUS
<1> HIDE DEF S, step
<1>5. \A i \in 1..5 : \A x \in S[i - 1] : x \in Sized(L) /\ step[i][x] \in S[i]
  BY <1>2, <1>3, <1>4
<1>6. bytes \in S[0] /\ Steps(5, S, step)
  <2>1. 0 \in 0..5
    OBVIOUS
  <2>2. bytes \in S[0]
    BY <1>3, <2>1
  <2>3. Steps(5, S, step)
    BY <1>5 DEF Steps
  <2> QED BY <2>2, <2>3
<1>7. PICK f : Runs(f, 5, S, bytes, step)
  BY <1>1, <1>6, RunExists, Zenon
<1>8. Is(f)
  <2>1. f = [i \in 0..5 |-> f[i]] /\ f[0] = bytes
    BY <1>7 DEF Runs
  <2>2. \A i \in 1..5 : f[i] = next(f[i - 1], i)
    BY <1>4, <1>5, <1>7 DEF Runs
  <2>3. \A i \in 0..5 : f[i] = IF i = 0 THEN bytes
                               ELSE IF order[i] \in DOMAIN blocks
                               THEN Over(blocks[order[i]], f[i - 1], binfile_offset(order[i]))
                               ELSE f[i - 1]
    <3> TAKE i \in 0..5
    <3>1. CASE i = 0
      BY <2>1, <3>1
    <3>2. CASE i # 0
      BY <2>2, <3>2 DEF next
    <3> QED BY <3>1, <3>2
  <2> QED BY <1>1, <2>1, <2>3
<1>9. Is(g)
  <2> HIDE DEF Is
  <2> QED BY <1>8 DEF g
<1>10. g[0] = bytes /\ (\A i \in 1..5 : g[i] = next(g[i - 1], i)) /\ g = [i \in 0..5 |-> g[i]]
  <2>1. g[0] = bytes /\ g = [i \in 0..5 |-> g[i]]
    BY <1>1, <1>9
  <2>2. ASSUME NEW i \in 1..5 PROVE g[i] = next(g[i - 1], i)
    BY <1>1, <1>9 DEF next
  <2> QED BY <2>1, <2>2
<1>11. Runs(g, 5, S, bytes, step)
  <2>1. \A i \in 1..5 : g[i - 1] \in S[i - 1] => g[i] = step[i][g[i - 1]]
    BY <1>4, <1>5, <1>10
  <2> QED BY <1>1, <1>6, <1>10, <2>1, RunFollowed
<1>12. \A i \in 0..5 : g[i] \in Sized(Len(bytes))
  BY <1>3, <1>11, SizedIs DEF Runs
<1>13. WritesBy(g, bytes, blocks, order)
  BY <1>1, <1>c, <1>10, <1>12 DEF WritesBy, Writing, next
<1> QED BY <1>13, Zenon

LEMMA WrittenType ==
  ASSUME Chosen, NEW L \in Nat, NEW bytes \in Sized(L), NEW order \in Orders, NEW blocks,
         \A n \in DOMAIN blocks : blocks[n] \in Seq(Byte)
  PROVE  Written(bytes, blocks, order) \in Sized(L)
<1>1. PICK w : WritesBy(w, bytes, blocks, order)
  BY WrittenBy, Zenon
<1>2. Len(bytes) = L
  BY SizedIs
<1> QED BY <1>1, <1>2 DEF WritesBy, Writing

\* So much of an image as begins where a block does.
LEMMA FromIs ==
  ASSUME Chosen, NEW image \in Seq(Byte), NEW n, NEW k \in Nat, Inside(image, n, k)
  PROVE  /\ From(image, n, k) \in Seq(Byte) /\ Len(From(image, n, k)) = k
         /\ \A c \in 1..k : /\ From(image, n, k)[c] = image[binfile_offset(n) + c]
                            /\ From(image, n, k)[c] \in Byte
                            /\ binfile_offset(n) + c \in 1..Len(image)
<1> DEFINE o == binfile_offset(n)
           L == Len(image)
<1>1. o \in Nat /\ o + k <= L /\ L \in Nat
  BY OffsetIs, SeqAs DEF Inside
<1>2. From(image, n, k) = SubSeq(image, o + 1, o + k)
  BY DEF From
<1> HIDE DEF o
<1>4. /\ o + 1 \in Int /\ o + k \in Int /\ o + 1 >= 1 /\ o + k <= L
      /\ (o + k) - (o + 1) + 1 = k /\ k >= 0
  <2> HIDE DEF L
  <2> QED BY <1>1
<1>5. /\ SubSeq(image, o + 1, o + k) \in Seq(Byte) /\ Len(SubSeq(image, o + 1, o + k)) = k
      /\ \A c \in 1..k : SubSeq(image, o + 1, o + k)[c] = image[(o + 1) + c - 1]
  BY <1>4, SubSeqIs
<1>6. \A c \in 1..k : (o + 1) + c - 1 = o + c /\ o + c \in 1..L
  <2> HIDE DEF L
  <2> QED BY <1>1
<1>7. \A c \in 1..k : image[o + c] \in Byte
  BY <1>6, SeqAs
<1> QED BY <1>2, <1>5, <1>6, <1>7 DEF o

LEMMA RegionIs ==
  ASSUME Chosen, NEW image \in Seq(Byte), NEW n \in Blocks(fi), Inside(image, n, static_length(n))
  PROVE  /\ Region(image, n) \in Seq(Byte) /\ Len(Region(image, n)) = static_length(n)
         /\ \A c \in 1..static_length(n) : /\ Region(image, n)[c] = image[binfile_offset(n) + c]
                                           /\ Region(image, n)[c] \in Byte
                                           /\ binfile_offset(n) + c \in 1..Len(image)
BY StaticIs, FromIs DEF Region

LEMMA ResolvedIs ==
  ASSUME Chosen, NEW image \in Seq(Byte), NEW n \in Blocks(fi), NEW r, r = resolve_block_length(image, n)
  PROVE  /\ r \in Nat /\ r >= 1
         /\ r = static_length(n) \/ (n \in fi.dynamic_block_length_offsets /\ Inside(image, n, r))
<1> DEFINE o == binfile_offset(n)
           stated == IF n \in fi.dynamic_block_length_offsets /\ Inside(image, n, DynamicLengthCell)
                     THEN image[o + DynamicLengthCell] ELSE 0
           k == static_length(n)
<1>1. k \in Nat /\ k >= 3 /\ o \in Nat /\ Len(image) \in Nat
  BY StaticIs, OffsetIs, SeqAs
<1>2. stated \in Nat /\ (stated > 0 => n \in fi.dynamic_block_length_offsets)
  <2>1. CASE n \in fi.dynamic_block_length_offsets /\ Inside(image, n, DynamicLengthCell)
    <3>1. o + 2 <= Len(image)
      BY <2>1 DEF Inside, DynamicLengthCell
    <3> HIDE DEF o
    <3>2. o + 2 \in 1..Len(image)
      BY <1>1, <3>1
    <3>3. image[o + 2] \in Byte
      BY <3>2, SeqAs
    <3>4. Byte \subseteq Nat
      BY DEF Byte
    <3> QED BY <2>1, <3>3, <3>4 DEF DynamicLengthCell
  <2>2. CASE ~(n \in fi.dynamic_block_length_offsets /\ Inside(image, n, DynamicLengthCell))
    <3>1. stated = 0
      BY <2>2
    <3> HIDE DEF stated
    <3> QED BY <3>1
  <2> QED BY <2>1, <2>2
<1>3. r = IF stated > 0 /\ Inside(image, n, stated) THEN stated ELSE k
  BY DEF resolve_block_length
<1> HIDE DEF stated, k, o
<1>4. CASE stated > 0 /\ Inside(image, n, stated)
  BY <1>2, <1>3, <1>4
<1>5. CASE ~(stated > 0 /\ Inside(image, n, stated))
  BY <1>1, <1>3, <1>5 DEF k
<1> QED BY <1>4, <1>5

\* What splitting an image yields is a set of block files.
\* What splitting an image yields is a set of block files.
LEMMA SplitIs ==
  ASSUME Chosen, NEW image \in Images
  PROVE  BlockFiles(blocks_from_bytes(image))
<1> DEFINE D == {m \in Blocks(fi) : /\ Inside(image, m, resolve_block_length(image, m))
                                    /\ Kept(m, Cut(image, m))}
<1>1. blocks_from_bytes(image) = [n \in D |-> Cut(image, n)]
  BY DEF blocks_from_bytes
<1>i. image \in Seq(Byte) /\ Len(image) <= ImageLength
  BY DEF Images
<1>2. \A n \in D : BlockFile(n, Cut(image, n))
  <2> TAKE n \in D
  <2> DEFINE r == resolve_block_length(image, n)
             o == binfile_offset(n)
  <2>1. n \in Blocks(fi) /\ Inside(image, n, r)
    OBVIOUS
  <2>2. /\ r \in Nat /\ r >= 1
        /\ r = static_length(n) \/ n \in fi.dynamic_block_length_offsets
    BY <1>i, <2>1, ResolvedIs
  <2>3. o + r <= Len(image) /\ o \in Nat /\ Len(image) \in Nat /\ ImageLength \in Nat
    BY <1>i, <2>1, OffsetIs, SeqAs, ImageHolds DEF Inside
  <2>4. Cut(image, n) = From(image, n, r)
    BY DEF Cut
  <2> HIDE DEF r, o
  <2>5. Cut(image, n) \in Seq(Byte) /\ Len(Cut(image, n)) = r
    BY <1>i, <2>1, <2>2, <2>4, FromIs
  <2>6. o + r <= ImageLength
    BY <1>i, <2>2, <2>3
  <2> QED BY <2>2, <2>5, <2>6 DEF BlockFile, o
<1>3. D \subseteq Blocks(fi)
  OBVIOUS
<1> HIDE DEF D
<1> QED BY <1>1, <1>2, <1>3 DEF BlockFiles

\* Everything of a set of block files is written into an image.
LEMMA CombinedType ==
  ASSUME Chosen, NEW blocks, BlockFiles(blocks), NEW order \in Orders
  PROVE  /\ bin_from_blocks(blocks, order) = Written(Zeros(ImageLength), blocks, order)
         /\ Zeros(ImageLength) \in Sized(ImageLength)
         /\ bin_from_blocks(blocks, order) \in Sized(ImageLength)
         /\ bin_from_blocks(blocks, order) \in Images
         /\ Len(bin_from_blocks(blocks, order)) = ImageLength
<1>1. ImageLength \in Nat /\ Zeros(ImageLength) \in Sized(ImageLength)
  BY ImageHolds DEF Zeros, Sized, Byte
<1>2. \A n \in DOMAIN blocks : blocks[n] \in Seq(Byte)
  BY DEF BlockFiles, BlockFile
<1>3. bin_from_blocks(blocks, order) = Written(Zeros(ImageLength), blocks, order)
  BY DEF bin_from_blocks
<1>4. bin_from_blocks(blocks, order) \in Sized(ImageLength)
  BY <1>1, <1>2, <1>3, WrittenType
<1>5. bin_from_blocks(blocks, order) \in Seq(Byte) /\ Len(bin_from_blocks(blocks, order)) = ImageLength
  BY <1>1, <1>4, SizedIs
<1>6. ImageLength <= ImageLength
  BY <1>1
<1> QED BY <1>1, <1>3, <1>4, <1>5, <1>6 DEF Images

-----------------------------------------------------------------------------
(***************************************************************************)
(* Correcting a checksum keeps the length of a block.                      *)
(***************************************************************************)
LEMMA CrcType ==
  ASSUME NEW start \in Byte, NEW s \in Seq(Byte)
  PROVE  Crc(start, s) \in Byte
<1> DEFINE n == Len(s)
           next(x, i) == (3 * x + s[i]) % 256
           Is(f) == f = [i \in 0..n |-> IF i = 0 THEN start ELSE (3 * f[i - 1] + s[i]) % 256]
           S == [i \in 0..n |-> Byte]
           step == [i \in 1..n |-> [x \in Byte |-> next(x, i)]]
           g == CHOOSE f : Is(f)
<1>1. n \in Nat
  BY SeqAs
<1>c. Crc(start, s) = g[n]
  BY DEF Crc
<1>2. \A i \in 1..n : \A x \in Byte : next(x, i) \in Byte
  <2>1. \A i \in 1..n : s[i] \in 0..255
    BY SeqAs DEF Byte
  <2>2. \A a, b \in 0..255 : (3 * a + b) % 256 \in 0..255
    OBVIOUS
  <2> QED BY <2>1, <2>2 DEF Byte
<1> HIDE DEF next, g, n
<1>3. \A i \in 0..n : S[i] = Byte
  OBVIOUS
<1>4. \A i \in 1..n : \A x \in Byte : step[i][x] = next(x, i)
  OBVIOUS
<1> HIDE DEF S, step
<1>5. Steps(n, S, step)
  BY <1>1, <1>2, <1>3, <1>4 DEF Steps
<1>6. start \in S[0]
  BY <1>1, <1>3
<1>7. PICK f : Runs(f, n, S, start, step)
  BY <1>1, <1>5, <1>6, RunExists, Zenon
<1>70. \A i \in 1..n : i - 1 \in 0..n /\ S[i - 1] = Byte
  BY <1>1, <1>3
<1>8. Is(f)
  <2>1. f = [i \in 0..n |-> f[i]] /\ f[0] = start
    BY <1>7 DEF Runs
  <2>2. \A i \in 1..n : f[i] = next(f[i - 1], i)
    BY <1>4, <1>70, <1>7 DEF Runs
  <2>3. \A i \in 0..n : f[i] = IF i = 0 THEN start ELSE (3 * f[i - 1] + s[i]) % 256
    <3> TAKE i \in 0..n
    <3>1. CASE i = 0
      BY <2>1, <3>1
    <3>2. CASE i # 0
      BY <1>1, <2>2, <3>2 DEF next
    <3> QED BY <3>1, <3>2
  <2> QED BY <2>1, <2>3
<1>9. Is(g)
  <2> HIDE DEF Is
  <2> QED BY <1>8 DEF g
<1>10. g[0] = start /\ (\A i \in 1..n : g[i] = next(g[i - 1], i)) /\ g = [i \in 0..n |-> g[i]]
  <2>1. g[0] = start /\ g = [i \in 0..n |-> g[i]]
    BY <1>1, <1>9
  <2>2. ASSUME NEW i \in 1..n PROVE g[i] = next(g[i - 1], i)
    BY <1>1, <1>9 DEF next
  <2> QED BY <2>1, <2>2
<1>11. Runs(g, n, S, start, step)
  <2>1. \A i \in 1..n : g[i - 1] \in S[i - 1] => g[i] = step[i][g[i - 1]]
    BY <1>4, <1>70, <1>10
  <2> QED BY <1>1, <1>5, <1>6, <1>10, <2>1, RunFollowed
<1>12. g[n] \in S[n] /\ n \in 0..n
  BY <1>1, <1>11 DEF Runs
<1> QED BY <1>c, <1>3, <1>12

LEMMA FlattenBy ==
  ASSUME NEW S, NEW s \in Seq(Seq(S)), Len(s) # 0
  PROVE  \E g : Flattening(g, s, S)
<1> DEFINE n == Len(s)
           next(x, i) == x \o s[i]
           Is(f) == f = [i \in 1..n |-> IF i = 1 THEN s[i] ELSE f[i - 1] \o s[i]]
           W == [i \in 0..n |-> Seq(S)]
           step == [i \in 1..n |-> [x \in Seq(S) |-> IF i = 1 THEN s[1] ELSE x \o s[i]]]
           g == CHOOSE f : Is(f)
<1>1. n \in Nat /\ \A i \in 1..n : s[i] \in Seq(S)
  BY SeqAs
<1>c. FlattenSeq(s) = IF n = 0 THEN s ELSE g[n]
  BY DEF FlattenSeq
<1>00. n # 0
  OBVIOUS
<1> HIDE DEF g, n
<1>2. \E r : Flattening(r, s, S)
  <2>3. \A i \in 0..n : W[i] = Seq(S)
    OBVIOUS
  <2>4. \A i \in 1..n : \A x \in Seq(S) : step[i][x] = IF i = 1 THEN s[1] ELSE x \o s[i]
    OBVIOUS
  <2> HIDE DEF W, step
  <2>40. \A i \in 1..n : i - 1 \in 0..n /\ i \in 0..n /\ W[i - 1] = Seq(S) /\ W[i] = Seq(S)
    BY <1>1, <2>3
  <2>5. Steps(n, W, step)
    <3>1. ASSUME NEW i \in 1..n, NEW x \in Seq(S) PROVE step[i][x] \in Seq(S)
      <4>1. x \o s[i] \in Seq(S)
        BY <1>1
      <4>2. s[1] \in Seq(S)
        BY <1>1, <1>00
      <4> QED BY <2>4, <4>1, <4>2
    <3> QED BY <2>40, <3>1 DEF Steps
  <2>6. <<>> \in W[0]
    <3>1. 0 \in 0..n /\ <<>> \in Seq(S)
      BY <1>1
    <3> QED BY <2>3, <3>1
  <2>7. PICK f : Runs(f, n, W, <<>>, step)
    BY <1>1, <2>5, <2>6, RunExists, Zenon
  <2>70. \A i \in 1..n : f[i] = IF i = 1 THEN s[1] ELSE f[i - 1] \o s[i]
    BY <2>4, <2>40, <2>7 DEF Runs
  <2> DEFINE h == [i \in 1..n |-> f[i]]
  <2>8. Is(h)
    <3>1. ASSUME NEW i \in 1..n PROVE h[i] = IF i = 1 THEN s[i] ELSE h[i - 1] \o s[i]
      <4>1. CASE i = 1
        BY <2>70, <4>1
      <4>2. CASE i # 1
        <5>1. i - 1 \in 1..n
          BY <1>1, <4>2
        <5>2. h[i - 1] = f[i - 1] /\ h[i] = f[i]
          BY <5>1
        <5>3. f[i] = f[i - 1] \o s[i]
          BY <2>70, <4>2
        <5> QED BY <4>2, <5>2, <5>3
      <4> QED BY <4>1, <4>2
    <3>2. h = [i \in 1..n |-> h[i]]
      OBVIOUS
    <3> HIDE DEF h
    <3> QED BY <3>1, <3>2
  <2>9. Is(g)
    <3> HIDE DEF Is, h
    <3> QED BY <2>8 DEF g
  <2> DEFINE T == {i \in 0..n : i = 0 \/ g[i] \in Seq(S)}
  <2>10. 0 \in T
    BY <1>1
  <2>11. ASSUME NEW i \in 1..n, i - 1 \in T PROVE i \in T
    <3>1. CASE i = 1
      BY <1>1, <2>9, <3>1
    <3>2. CASE i # 1
      <4>1. g[i] = g[i - 1] \o s[i]
        BY <2>9, <3>2
      <4>2. g[i - 1] \in Seq(S)
        BY <2>11, <3>2
      <4>3. g[i - 1] \o s[i] \in Seq(S)
        BY <1>1, <4>2
      <4>4. g[i] \in Seq(S)
        BY <4>1, <4>3, Zenon
      <4> QED BY <1>1, <4>4
    <3> QED BY <3>1, <3>2
  <2>12. \A i \in 1..n : i \in T
    <3> HIDE DEF T
    <3>1. 0..n \subseteq T
      BY <1>1, <2>10, <2>11, Stepwise
    <3> QED BY <1>1, <3>1
  <2>13. \A i \in 1..n : g[i] \in Seq(S) /\ g[i] = IF i = 1 THEN s[i] ELSE g[i - 1] \o s[i]
    <3> TAKE i \in 1..n
    <3>1. g[i] = IF i = 1 THEN s[i] ELSE g[i - 1] \o s[i]
      BY <2>9
    <3>2. g[i] \in Seq(S)
      BY <1>1, <2>12
    <3> QED BY <3>1, <3>2
  <2>14. FlattenSeq(s) = g[n]
    BY <1>c, <1>00
  <2>15. Flattening(g, s, S)
    BY <2>13, <2>14 DEF Flattening, n
  <2> QED BY <2>15
<1> QED BY <1>2

LEMMA FlattenType ==
  ASSUME NEW S, NEW s \in Seq(Seq(S))
  PROVE  FlattenSeq(s) \in Seq(S)
<1>1. CASE Len(s) = 0
  BY <1>1, SeqAs DEF FlattenSeq
<1>2. CASE Len(s) # 0
  <2>1. PICK g : Flattening(g, s, S)
    BY <1>2, FlattenBy, Zenon
  <2>2. Len(s) \in 1..Len(s)
    BY <1>2, SeqAs
  <2> QED BY <2>1, <2>2 DEF Flattening
<1> QED BY <1>1, <1>2

LEMMA FailedIs ==
  ASSUME NEW data \in Seq(Byte)
  PROVE  Corrected(Failed(data), data) /\ Failed(data).state = "Failed"
BY DEF Corrected, Failed

LEMMA ReplacedIs ==
  ASSUME NEW data \in Seq(Byte), NEW cell, NEW value \in Byte
  PROVE  /\ [data EXCEPT ![cell] = value] \in Seq(Byte)
         /\ Len([data EXCEPT ![cell] = value]) = Len(data)
         /\ \A i \in 1..Len(data) :
               [data EXCEPT ![cell] = value][i] = IF i = cell THEN value ELSE data[i]
<1> DEFINE n == Len(data)
           r == [i \in 1..n |-> IF i = cell THEN value ELSE data[i]]
<1>1. n \in Nat /\ data \in [1..n -> Byte] /\ DOMAIN data = 1..n
  BY SeqAs
<1>2. [data EXCEPT ![cell] = value] = r
  BY <1>1
<1>3. r \in [1..n -> Byte]
  BY <1>1
<1>4. r \in Seq(Byte) /\ Len(r) = n
  BY <1>1, <1>3, AsSeq
<1> QED BY <1>2, <1>4

LEMMA SettleIs ==
  ASSUME NEW data \in Seq(Byte), NEW cell \in 1..Len(data), NEW value \in Byte
  PROVE  /\ Corrected(Settle(data, cell, value), data)
         /\ Settle(data, cell, value).state # "Failed"
         /\ Settle(data, cell, value).data[cell] = value
         /\ \A i \in 1..Len(data) : i # cell => Settle(data, cell, value).data[i] = data[i]
<1> DEFINE e == [data EXCEPT ![cell] = value]
<1>1. e \in Seq(Byte) /\ Len(e) = Len(data)
      /\ \A i \in 1..Len(data) : e[i] = IF i = cell THEN value ELSE data[i]
  BY ReplacedIs
<1>2. Settle(data, cell, value) = IF data[cell] = value THEN [state |-> "Valid", data |-> data]
                                  ELSE [state |-> "Fixed", data |-> e]
  BY DEF Settle
<1> HIDE DEF e
<1>3. CASE data[cell] = value
  BY <1>2, <1>3 DEF Corrected
<1>4. CASE data[cell] # value
  BY <1>1, <1>2, <1>4 DEF Corrected
<1> QED BY <1>3, <1>4

LEMMA HeaderIs ==
  ASSUME NEW n
  PROVE  /\ Header(n).stored \in {2, 5} /\ Header(n).areas \in {3, 6}
         /\ Header(n).stored < Header(n).areas
         /\ Header(n) = [stored |-> Header(n).stored, areas |-> Header(n).areas]
         /\ n # 6 => Header(n).stored = 2 /\ Header(n).areas = 3
         /\ n = 6 => Header(n).stored = 5 /\ Header(n).areas = 6
BY DEF Header

LEMMA AreasAre ==
  ASSUME NEW data \in Seq(Byte), NEW h, h.areas \in 1..Len(data)
  PROVE  /\ Areas(data, h) \in Seq(Int \X Int) /\ Areas(data, h) # <<>>
         /\ \A i \in 1..Len(Areas(data, h)) :
               /\ Areas(data, h)[i] \in Range(Areas(data, h))
               /\ Areas(data, h)[i][1] \in Int /\ Areas(data, h)[i][2] \in Int
         /\ Len(Areas(data, h)) \in Nat
<1>1. data[h.areas] \in Byte
  OBVIOUS
<1>2. Areas(data, h) \in Seq(Int \X Int) /\ Areas(data, h) # <<>>
  BY <1>1, TablesAssumption DEF Areas
<1> DEFINE t == Areas(data, h)
<1>3. t \in Seq(Int \X Int)
  BY <1>2
<1> HIDE DEF t
<1>4. DOMAIN t = 1..Len(t) /\ Len(t) \in Nat /\ \A i \in 1..Len(t) : t[i] \in Int \X Int
  BY <1>3, SeqAs
<1>5. \A i \in 1..Len(t) : t[i] \in Range(t)
  BY <1>4 DEF Range
<1>6. \A i \in 1..Len(t) : t[i][1] \in Int /\ t[i][2] \in Int
  BY <1>4
<1> QED BY <1>2, <1>4, <1>5, <1>6 DEF t

LEMMA SliceIs ==
  ASSUME NEW S, NEW s \in Seq(S), NEW a \in Int, NEW b \in Int, a >= 1, b <= Len(s)
  PROVE  SubSeq(s, a, b) \in Seq(S)
<1>1. CASE a <= b
  BY <1>1, SubSeqIs
<1>2. CASE ~(a <= b)
  BY <1>2, SubSeqEmpty
<1> QED BY <1>1, <1>2

LEMMA CoveredType ==
  ASSUME NEW data \in Seq(Byte), NEW h, h.areas \in 1..Len(data), Sound(data, h)
  PROVE  Covered(data, h) \in Seq(Byte)
<1> DEFINE t == Areas(data, h)
           p == [i \in 1..Len(t) |-> SubSeq(data, t[i][1], t[i][2])]
<1>1. ASSUME NEW i \in 1..Len(t) PROVE SubSeq(data, t[i][1], t[i][2]) \in Seq(Byte)
  <2>1. t[i][1] \in Int /\ t[i][2] \in Int /\ t[i] \in Range(t)
    BY AreasAre
  <2>2. t[i][1] >= 1 /\ t[i][2] <= Len(data)
    BY <2>1 DEF Sound
  <2> DEFINE x == t[i][1]
             y == t[i][2]
  <2>3. x \in Int /\ y \in Int /\ x >= 1 /\ y <= Len(data)
    BY <2>1, <2>2
  <2> HIDE DEF x, y
  <2>4. SubSeq(data, x, y) \in Seq(Byte)
    BY <2>3, SliceIs
  <2> QED BY <2>4 DEF x, y
<1>2. Len(t) \in Nat
  BY AreasAre
<1>3. p \in [1..Len(t) -> Seq(Byte)]
  BY <1>1
<1>4. p \in Seq(Seq(Byte))
  <2> HIDE DEF p
  <2> QED BY <1>2, <1>3, AsSeq
<1>5. Covered(data, h) = FlattenSeq(p)
  BY DEF Covered
<1> HIDE DEF p
<1> QED BY <1>4, <1>5, FlattenType

\* Either the block cannot be checked, or one cell of it is set right.
LEMMA SimosIs ==
  ASSUME NEW info, NEW data \in Seq(Byte), NEW n
  PROVE  /\ Corrected(validate_simos(info, data, n), data)
         /\ validate_simos(info, data, n).state = "Failed"
              <=> ~(n \in info.checksum_block_location /\ Header(n).areas <= Len(data)
                    /\ Sound(data, Header(n)))
         /\ validate_simos(info, data, n).state # "Failed" =>
              /\ Header(n).areas \in 1..Len(data) /\ Header(n).stored \in 1..Len(data)
              /\ Crc(0, Covered(data, Header(n))) \in Byte
              /\ validate_simos(info, data, n)
                   = Settle(data, Header(n).stored, Crc(0, Covered(data, Header(n))))
<1> DEFINE h == Header(n)
           v == validate_simos(info, data, n)
           value == Crc(0, Covered(data, h))
           good == n \in info.checksum_block_location /\ h.areas <= Len(data) /\ Sound(data, h)
<1>0. Len(data) \in Nat
  BY SeqAs
<1>1. h.stored \in {2, 5} /\ h.areas \in {3, 6} /\ h.stored < h.areas
  BY HeaderIs
<1>2. v = IF n \notin info.checksum_block_location \/ h.areas > Len(data) THEN Failed(data)
          ELSE IF ~Sound(data, h) THEN Failed(data)
          ELSE Settle(data, h.stored, value)
  BY DEF validate_simos, Covered, Sound, Areas
<1> HIDE DEF v, h, value
<1>3. CASE ~good
  BY <1>0, <1>1, <1>2, <1>3, FailedIs DEF v, h
<1>4. CASE good
  <2>1. v = Settle(data, h.stored, value)
    BY <1>0, <1>1, <1>2, <1>4
  <2>2. h.areas \in 1..Len(data) /\ h.stored \in 1..Len(data)
    BY <1>0, <1>1, <1>4
  <2>3. value \in Byte
    <3>1. Covered(data, h) \in Seq(Byte) /\ 0 \in Byte
      BY <1>4, <2>2, CoveredType DEF Byte
    <3> QED BY <3>1, CrcType DEF value
  <2>4. Corrected(v, data) /\ v.state # "Failed"
    BY <2>1, <2>2, <2>3, SettleIs
  <2> QED BY <1>4, <2>1, <2>2, <2>3, <2>4 DEF v, h, value
<1> QED BY <1>3, <1>4

LEMMA BothIs ==
  ASSUME NEW x \in {"Failed", "Valid", "Fixed"}, NEW y \in {"Failed", "Valid", "Fixed"}
  PROVE  /\ Both(x, y) \in {"Failed", "Valid", "Fixed"}
         /\ Both(x, y) = "Failed" <=> "Failed" \in {x, y}
         /\ Both(x, y) = "Valid" <=> x = "Valid" /\ y = "Valid"
BY DEF Both

LEMMA DsgIs ==
  ASSUME NEW data \in Seq(Byte), Len(data) >= 1
  PROVE  /\ 255 - Crc(255, SubSeq(data, 1, Len(data) - 1)) \in Byte
         /\ validate_dsg(data) = Settle(data, Len(data), 255 - Crc(255, SubSeq(data, 1, Len(data) - 1)))
<1>1. Len(data) \in Nat
  BY SeqAs
<1>2. SubSeq(data, 1, Len(data) - 1) \in Seq(Byte)
  BY <1>1, SliceIs
<1>3. Crc(255, SubSeq(data, 1, Len(data) - 1)) \in Byte
  <2>1. 255 \in Byte
    BY DEF Byte
  <2> QED BY <1>2, <2>1, CrcType, Zenon
<1>4. \A x \in 0..255 : 255 - x \in 0..255
  OBVIOUS
<1>5. 255 - Crc(255, SubSeq(data, 1, Len(data) - 1)) \in Byte
  BY <1>3, <1>4, Zenon DEF Byte
<1>6. ~(Len(data) < 1)
  BY <1>1
<1> QED BY <1>5, <1>6, Zenon DEF validate_dsg

LEMMA Dq381Is ==
  ASSUME NEW data \in Seq(Byte)
  PROVE  /\ ~Ranged(data) => validate_dq381(data) = Failed(data)
         /\ Ranged(data) => /\ RangeSum(data) \in Byte /\ 2 \in 1..Len(data)
                            /\ validate_dq381(data) = Settle(data, 2, RangeSum(data))
<1> DEFINE range == AreaTable[data[3]][1]
<1>0. Len(data) \in Nat /\ Header(1).areas = 3 /\ Header(1).stored = 2
  BY SeqAs, HeaderIs
<1>1. validate_dq381(data) =
        IF Len(data) < 3 THEN Failed(data)
        ELSE IF range[1] < 1 \/ range[2] < range[1] \/ range[2] > Len(data) THEN Failed(data)
        ELSE Settle(data, 2, RangeSum(data))
  BY <1>0 DEF validate_dq381, RangeSum
<1>2. CASE Len(data) < 3
  BY <1>0, <1>1, <1>2 DEF Ranged
<1>3. CASE ~(Len(data) < 3)
  <2>0. Len(data) >= 3 /\ 3 \in 1..Len(data) /\ 2 \in 1..Len(data)
    BY <1>0, <1>3
  <2>1. data[3] \in Byte
    BY <2>0
  <2>2. AreaTable[data[3]] \in Seq(Int \X Int) /\ AreaTable[data[3]] # <<>>
    BY <2>1, TablesAssumption
  <2>3. range \in Int \X Int
    BY <2>2
  <2>4. range[1] \in Int /\ range[2] \in Int
    BY <2>3
  <2> DEFINE x == range[1]
             y == range[2]
  <2>5. x \in Int /\ y \in Int
    BY <2>4
  <2>6. Ranged(data) <=> x >= 1 /\ x <= y /\ y <= Len(data)
    BY <2>0 DEF Ranged
  <2>7. validate_dq381(data) = IF x < 1 \/ y < x \/ y > Len(data) THEN Failed(data)
                               ELSE Settle(data, 2, RangeSum(data))
    BY <1>1, <1>3
  <2>8. RangeSum(data) = Crc(255, SubSeq(data, x, y))
    BY DEF RangeSum
  <2> HIDE DEF x, y
  <2>9. CASE x >= 1 /\ x <= y /\ y <= Len(data)
    <3>1. SubSeq(data, x, y) \in Seq(Byte)
      BY <2>5, <2>9, SliceIs
    <3>2. RangeSum(data) \in Byte
      <4>1. 255 \in Byte
        BY DEF Byte
      <4> QED BY <2>8, <3>1, <4>1, CrcType, Zenon
    <3>3. ~(x < 1 \/ y < x \/ y > Len(data))
      BY <1>0, <2>5, <2>9
    <3> QED BY <2>0, <2>6, <2>7, <2>9, <3>2, <3>3
  <2>10. CASE ~(x >= 1 /\ x <= y /\ y <= Len(data))
    BY <1>0, <2>5, <2>6, <2>7, <2>10
  <2> QED BY <2>9, <2>10
<1> QED BY <1>2, <1>3

LEMMA BytesAreNats ==
  ASSUME NEW s \in Seq(Byte)
  PROVE  s \in Seq(Nat)
<1> DEFINE m == Len(s)
<1>1. m \in Nat /\ s \in [1..m -> Byte]
  BY SeqAs
<1>2. Byte \subseteq Nat
  BY DEF Byte
<1> HIDE DEF m
<1>3. s \in [1..m -> Nat]
  BY <1>1, <1>2
<1> QED BY <1>1, <1>3, AsSeq

LEMMA HaldexIs ==
  ASSUME NEW info, NEW data \in Seq(Byte), NEW n
  PROVE  /\ n = 1 => validate_haldex(info, data, n) = [state |-> "Valid", data |-> data]
         /\ n # 1 /\ (n \notin info.checksum_block_location \/ Len(data) < 2)
              => validate_haldex(info, data, n) = Failed(data)
         /\ n # 1 /\ n \in info.checksum_block_location /\ ~(Len(data) < 2)
              => /\ HaldexSum(data) \in Byte /\ 1 \in 1..Len(data)
                 /\ validate_haldex(info, data, n) = Settle(data, 1, HaldexSum(data))
<1>0. Len(data) \in Nat
  BY SeqAs
<1>1. n = 1 => validate_haldex(info, data, n) = [state |-> "Valid", data |-> data]
  BY DEF validate_haldex
<1>2. n # 1 /\ (n \notin info.checksum_block_location \/ Len(data) < 2)
              => validate_haldex(info, data, n) = Failed(data)
  BY Zenon DEF validate_haldex
<1>3. n # 1 /\ n \in info.checksum_block_location /\ ~(Len(data) < 2)
              => validate_haldex(info, data, n) = Settle(data, 1, HaldexSum(data))
  BY Zenon DEF validate_haldex, HaldexSum
<1>4. SubSeq(data, 3, Len(data)) \in Seq(Byte)
  BY <1>0, SliceIs
<1>5. SubSeq(data, 3, Len(data)) \in Seq(Nat)
  BY <1>4, BytesAreNats
<1>6. SumOf(SubSeq(data, 3, Len(data))) \in Nat
  BY <1>5, SumOfType
<1>7. \A x \in Nat : 255 - (x % 256) \in 0..255
  OBVIOUS
<1>8. HaldexSum(data) \in Byte
  BY <1>6, <1>7, Zenon DEF HaldexSum, Byte
<1>9. ~(Len(data) < 2) => 1 \in 1..Len(data)
  BY <1>0
<1> QED BY <1>1, <1>2, <1>3, <1>8, <1>9

LEMMA SimosBlockIs ==
  ASSUME NEW info, NEW data \in Seq(Byte), NEW n
  PROVE  LET first == validate_simos(info, data, n)
             second == validate_simos(info, first.data, 6)
             twice == block_to_number(info, "CBOOT") = n /\ 6 \in info.checksum_block_location
         IN  /\ Corrected(first, data) /\ Corrected(second, first.data)
             /\ ~twice => validate_simos_block(info, data, n) = first
             /\ twice => validate_simos_block(info, data, n)
                           = [state |-> Both(first.state, second.state), data |-> second.data]
<1> DEFINE first == validate_simos(info, data, n)
           second == validate_simos(info, first.data, 6)
           twice == block_to_number(info, "CBOOT") = n /\ 6 \in info.checksum_block_location
<1>1. Corrected(first, data)
  BY SimosIs
<1>2. first.data \in Seq(Byte)
  BY <1>1 DEF Corrected
<1>3. Corrected(second, first.data)
  <2> HIDE DEF first
  <2> QED BY <1>2, SimosIs
<1>4. validate_simos_block(info, data, n)
       = IF twice THEN [state |-> Both(first.state, second.state), data |-> second.data] ELSE first
  BY DEF validate_simos_block
<1> HIDE DEF first, second
<1> QED BY <1>1, <1>3, <1>4 DEF first, second

LEMMA CheckedIs ==
  ASSUME NEW data \in Seq(Byte), NEW r, Corrected(r, data)
  PROVE  Checked(r, data)
BY DEF Checked, Corrected

LEMMA SimosChecked ==
  ASSUME NEW info, NEW data \in Seq(Byte), NEW n
  PROVE  Checked(validate_simos_block(info, data, n), data)
<1> DEFINE first == validate_simos(info, data, n)
           second == validate_simos(info, first.data, 6)
           twice == block_to_number(info, "CBOOT") = n /\ 6 \in info.checksum_block_location
           v == validate_simos_block(info, data, n)
<1>1. /\ Corrected(first, data) /\ Corrected(second, first.data)
      /\ ~twice => v = first
      /\ twice => v = [state |-> Both(first.state, second.state), data |-> second.data]
  BY SimosBlockIs
<1> HIDE DEF first, second, twice, v
<1>2. CASE ~twice
  BY <1>1, <1>2, CheckedIs DEF v
<1>3. CASE twice
  <2>1. first.state \in {"Failed", "Valid", "Fixed"} /\ second.state \in {"Failed", "Valid", "Fixed"}
    BY <1>1 DEF Corrected
  <2> DEFINE b == Both(first.state, second.state)
  <2>2. b \in {"Failed", "Valid", "Fixed"} /\ (b = "Valid" => first.state = "Valid" /\ second.state = "Valid")
    BY <2>1, BothIs
  <2> HIDE DEF b
  <2>3. v = [state |-> b, data |-> second.data]
    BY <1>1, <1>3 DEF b
  <2>4. second.data \in Seq(Byte) /\ Len(second.data) = Len(data)
    BY <1>1 DEF Corrected
  <2>5. b = "Valid" => second.data = data
    BY <1>1, <2>2 DEF Corrected
  <2>6. v.state = b /\ v.data = second.data /\ v = [state |-> v.state, data |-> v.data]
    BY <2>3
  <2>7. Checked(v, data)
    BY <2>2, <2>4, <2>5, <2>6, Zenon DEF Checked
  <2> QED BY <2>7 DEF v
<1> QED BY <1>2, <1>3

LEMMA ValidatedIs ==
  ASSUME NEW info, KnownInfo(info), NEW data \in Seq(Byte), Len(data) >= 1, NEW n
  PROVE  Checked(validate_block(info, data, n), data)
<1> DEFINE v == validate_block(info, data, n)
<1>1. CASE SimosInfo(info)
  BY <1>1, SimosChecked DEF validate_block, SimosInfo
<1>2. CASE DsgInfo(info)
  <2>1. v = validate_dsg(data)
    BY <1>2 DEF validate_block, DsgInfo
  <2>2. Len(data) \in 1..Len(data)
    BY SeqAs
  <2>3. Corrected(v, data)
    BY <2>1, <2>2, DsgIs, SettleIs
  <2> QED BY <2>3, CheckedIs
<1>3. CASE Dq381Info(info)
  <2>1. v = validate_dq381(data)
    BY <1>3 DEF validate_block, Dq381Info
  <2>2. Corrected(v, data)
    BY <2>1, Dq381Is, SettleIs, FailedIs
  <2> QED BY <2>2, CheckedIs
<1>4. CASE HaldexInfo(info)
  <2>1. v = validate_haldex(info, data, n)
    BY <1>4 DEF validate_block, HaldexInfo
  <2>2. CASE n = 1
    BY <2>1, <2>2, HaldexIs DEF Checked
  <2>3. CASE n # 1 /\ (n \notin info.checksum_block_location \/ Len(data) < 2)
    BY <2>1, <2>3, HaldexIs, FailedIs, CheckedIs
  <2>4. CASE n # 1 /\ n \in info.checksum_block_location /\ ~(Len(data) < 2)
    <3>1. HaldexSum(data) \in Byte /\ 1 \in 1..Len(data) /\ v = Settle(data, 1, HaldexSum(data))
      BY <2>1, <2>4, HaldexIs
    <3>2. Corrected(v, data)
      BY <3>1, SettleIs
    <3> QED BY <3>2, CheckedIs
  <2> QED BY <2>2, <2>3, <2>4
<1> QED BY <1>1, <1>2, <1>3, <1>4 DEF KnownInfo

LEMMA PatchedIs ==
  ASSUME NEW data \in Seq(Byte)
  PROVE  patch_cboot(data) \in Seq(Byte) /\ Len(patch_cboot(data)) = Len(data)
         /\ \A i \in 1..Len(data) : patch_cboot(data)[i] = IF data[i] = NEEDLE THEN PATCH ELSE data[i]
<1>1. Len(data) \in Nat /\ DOMAIN data = 1..Len(data) /\ data \in [1..Len(data) -> Byte]
  BY SeqAs
<1>2. patch_cboot(data) \in [1..Len(data) -> Byte]
  BY <1>1 DEF patch_cboot, PATCH, Byte
<1> QED BY <1>1, <1>2, AsSeq DEF patch_cboot

LEMMA PerBlockIs ==
  ASSUME NEW info, KnownInfo(info), NEW blocks, NEW n \in DOMAIN blocks,
         blocks[n] \in Seq(Byte), Len(blocks[n]) >= 1
  PROVE  /\ Checked(PerBlock(info, blocks)[n], blocks[n])
         /\ PerBlock(info, blocks)[n] =
              IF n <= 5 /\ has_internal_checksum(info, n)
              THEN validate_block(info, blocks[n], n) ELSE [state |-> "Valid", data |-> blocks[n]]
         /\ DOMAIN PerBlock(info, blocks) = DOMAIN blocks
<1>1. Checked(validate_block(info, blocks[n], n), blocks[n])
  BY ValidatedIs
<1>2. Checked([state |-> "Valid", data |-> blocks[n]], blocks[n])
  BY DEF Checked
<1>3. PerBlock(info, blocks)[n] =
        IF n <= 5 /\ has_internal_checksum(info, n)
        THEN validate_block(info, blocks[n], n) ELSE [state |-> "Valid", data |-> blocks[n]]
  BY DEF PerBlock
<1>4. DOMAIN PerBlock(info, blocks) = DOMAIN blocks
  BY DEF PerBlock
<1> QED BY <1>1, <1>2, <1>3, <1>4

LEMMA PatchedType ==
  ASSUME Chosen, NEW image \in Images, NEW patch, NEW p, p = PatchedImage(image, patch)
  PROVE  /\ p \in Images /\ Len(p) = Len(image) /\ Len(p) \in Nat /\ p \in Sized(Len(p))
         /\ patch /\ CanPatch(image) =>
              \A i \in 1..Len(image) :
                 p[i] = IF i - binfile_offset(CBOOT) \in 1..static_length(CBOOT)
                        THEN patch_cboot(Region(image, CBOOT))[i - binfile_offset(CBOOT)] ELSE image[i]
<1>1. image \in Seq(Byte) /\ Len(image) \in Nat /\ image \in Sized(Len(image))
  BY SeqAs, SizedIs DEF Images
<1>2. CASE ~(patch /\ CanPatch(image))
  BY <1>1, <1>2 DEF PatchedImage
<1>3. CASE patch /\ CanPatch(image)
  <2>1. PICK L, o, e : L = Len(image) /\ o = binfile_offset(CBOOT) /\ e = patch_cboot(Region(image, CBOOT))
    OBVIOUS
  <2>2. e \in Seq(Byte) /\ Len(e) = static_length(CBOOT) /\ o \in Nat
    BY <1>1, <1>3, <2>1, RegionIs, PatchedIs, OffsetIs DEF CanPatch
  <2>3. p = Over(e, image, o)
    BY <1>3, <2>1 DEF PatchedImage
  <2>4. /\ p \in Sized(L)
        /\ \A i \in 1..L : p[i] = IF i - o \in 1..Len(e) THEN e[i - o] ELSE image[i]
    <3>1. L \in Nat /\ image \in Sized(L) /\ e \in Seq(Byte) /\ o \in Nat
      BY <1>1, <2>1, <2>2
    <3>2. /\ Over(e, image, o) \in Sized(L)
          /\ \A i \in 1..L : Over(e, image, o)[i] = IF i - o \in 1..Len(e) THEN e[i - o] ELSE image[i]
      BY <3>1, OverIs
    <3> QED BY <2>3, <3>2, Zenon
  <2>5. p \in Seq(Byte) /\ Len(p) = L
    BY <1>1, <2>1, <2>4, SizedIs
  <2> QED BY <1>1, <2>1, <2>2, <2>4, <2>5 DEF Images
<1> QED BY <1>2, <1>3

\* A pass of `checksum`: the patch, each block by itself, and back again.
LEMMA CmdIs ==
  ASSUME NEW image, NEW patch \in BOOLEAN, NEW order,
         NEW p, p = PatchedImage(image, patch), NEW own, own = PerBlock(fi, blocks_from_bytes(p))
  PROVE  /\ cmd_checksum(image, patch, order).image = Written(p, FixedOf(own), order)
         /\ cmd_checksum(image, patch, order).ok =>
               (patch => CanPatch(image)) /\ \A n \in DOMAIN own : own[n].state # "Failed"
<1> DEFINE good == (patch => CanPatch(image)) /\ \A n \in DOMAIN own : own[n].state # "Failed"
           after == Written(p, FixedOf(own), order)
<1>1. cmd_checksum(image, patch, order) = [ok |-> good, image |-> after]
  BY Zenon DEF cmd_checksum, PatchedImage, CanPatch, FixedOf, CBOOT
<1> HIDE DEF after
<1>2. cmd_checksum(image, patch, order).image = after
  BY <1>1
<1>3. cmd_checksum(image, patch, order).ok => good
  <2>1. CASE good
    BY <2>1
  <2>2. CASE ~good
    <3>1. good = FALSE
      BY <2>2
    <3> HIDE DEF good
    <3>2. cmd_checksum(image, patch, order) = [ok |-> FALSE, image |-> after]
      BY <1>1, <3>1, Zenon
    <3>3. cmd_checksum(image, patch, order).ok = FALSE
      BY <3>2
    <3> QED BY <3>3, Zenon
  <2> QED BY <2>1, <2>2
<1> QED BY <1>2, <1>3, Zenon DEF after

-----------------------------------------------------------------------------
(***************************************************************************)
(* The type invariant.                                                     *)
(***************************************************************************)
LEMMA GivenFiles ==
  ASSUME Chosen
  PROVE  BlockFiles(Given)
<1>1. \A n \in Blocks(fi) : BlockFile(n, Vendor[mod][n])
  <2> TAKE n \in Blocks(fi)
  <2>1. VendorBlock(n, Vendor[mod][n])
    BY ChosenIs
  <2> DEFINE data == Vendor[mod][n]
             k == static_length(n)
             l == Len(data)
             o == binfile_offset(n)
  <2>2. k \in Nat /\ k >= 3 /\ k >= l /\ (n \notin fi.dynamic_block_length_offsets => k = l)
    BY StaticIs
  <2>3. data \in Seq(Byte) /\ l \in 3..255
    BY <2>1 DEF VendorBlock
  <2>4. o \in Nat /\ o + k <= ImageLength /\ ImageLength \in Nat
    BY OffsetIs, ImageHolds
  <2> HIDE DEF data, k, l, o
  <2>5. l >= 1 /\ o + l <= ImageLength
    <3>1. k \in Nat /\ k >= l /\ l \in 3..255 /\ l \in Nat
      BY <2>2, <2>3
    <3>2. \A a, b, c, i \in Nat : a + b <= i /\ b >= c => a + c <= i
      OBVIOUS
    <3> QED BY <2>4, <3>1, <3>2
  <2> QED BY <2>2, <2>3, <2>5 DEF BlockFile, data, k, l, o
<1> QED BY <1>1 DEF Given, BlockFiles

LEMMA NoFiles == BlockFiles(<<>>)
<1>1. DOMAIN <<>> = {}
  OBVIOUS
<1>2. <<>> = [n \in {} |-> <<>>[n]]
  OBVIOUS
<1> QED BY <1>1, <1>2 DEF BlockFiles

LEMMA ReplacingFiles ==
  ASSUME NEW new, NEW there, BlockFiles(new), BlockFiles(there)
  PROVE  BlockFiles(Replacing(new, there))
BY DEF BlockFiles, Replacing

LEMMA WithoutFiles ==
  ASSUME NEW blocks, NEW n, BlockFiles(blocks)
  PROVE  BlockFiles(Without(blocks, n))
BY DEF BlockFiles, Without

\* The layout of an image is that of the module's table.
LEMMA LayoutStays ==
  ASSUME mod' = mod, fi' = fi
  PROVE  ImageLength' = ImageLength /\ \A n : (binfile_offset(n))' = binfile_offset(n)
BY DEF ImageLength, Room, binfile_offset, static_length, Before, OwnCells, Overlaps, End

LEMMA OnlyFiles ==
  ASSUME NEW n \in Blocks(fi), NEW data, BlockFile(n, data)
  PROVE  BlockFiles(Only(n, data))
BY DEF BlockFiles, Only

\* The type of the files is kept by writing those of one command.
LEMMA FilesWritten ==
  ASSUME Inv, NEW t \in Tools, NEW blocks, BlockFiles(blocks), files' = [files EXCEPT ![t] = blocks],
         mod' = mod, fi' = fi
  PROVE  (files = [u \in Tools |-> files[u]] /\ \A u \in Tools : BlockFiles(files[u]))'
<1>1. files = [u \in Tools |-> files[u]] /\ \A u \in Tools : BlockFiles(files[u])
  BY DEF Inv
<1>2. files' = [u \in Tools |-> IF u = t THEN blocks ELSE files[u]]
  BY <1>1
<1>3. \A u \in Tools : BlockFiles(files'[u])
  BY <1>1, <1>2
<1>4. files' = [u \in Tools |-> files'[u]]
  BY <1>2
<1>5. ImageLength' = ImageLength /\ \A n : (binfile_offset(n))' = binfile_offset(n)
  BY LayoutStays
<1>6. \A u \in Tools : BlockFiles(files[u])'
  BY <1>3, <1>5 DEF BlockFiles, BlockFile, static_length
<1> QED BY <1>4, <1>6

\* What stays true as long as nothing but the named variables changes.
LEMMA StillChosen ==
  ASSUME Inv, mod' = mod, fi' = fi, container' = container
  PROVE  /\ Chosen'
         /\ files' = files => (files = [u \in Tools |-> files[u]] /\ \A u \in Tools : BlockFiles(files[u]))'
         /\ wire' = wire => (wire.cmd = "flash" => Ascending(wire.sent))'
         /\ Images' = Images /\ ImageLength' = ImageLength
         /\ mishaps' = mishaps => (mishaps \in 0..MaxMishaps)'
<1>1. Chosen'
  BY DEF Inv, Chosen
<1>2. ImageLength' = ImageLength /\ \A n : (binfile_offset(n))' = binfile_offset(n)
  BY LayoutStays
<1>3. Images' = Images
  BY <1>2 DEF Images
<1>4. files' = files => (files = [u \in Tools |-> files[u]] /\ \A u \in Tools : BlockFiles(files[u]))'
  BY <1>2 DEF Inv, BlockFiles, BlockFile, static_length
<1>5. wire' = wire => (wire.cmd = "flash" => Ascending(wire.sent))'
  BY DEF Inv, Ascending
<1> QED BY <1>1, <1>2, <1>3, <1>4, <1>5 DEF Inv

\* What is left of an image is one, whole or not.
LEMMA StillWhole ==
  ASSUME Inv, mod' = mod, fi' = fi, container' = container, bin' \in Images, mishaps' \in {mishaps, mishaps + 1},
         \/ bin' = bin \/ Len(bin') = ImageLength \/ mishaps' = mishaps + 1
         \/ bin # NoImage /\ Len(bin') = Len(bin)
  PROVE  /\ (bin \in Images /\ (bin = NoImage \/ Len(bin) = ImageLength \/ mishaps > 0))'
<1>1. Images' = Images /\ ImageLength' = ImageLength /\ NoImage' = NoImage
  BY StillChosen DEF NoImage
<1>2. mishaps \in Nat /\ (bin = NoImage \/ Len(bin) = ImageLength \/ mishaps > 0)
  BY BoundsAssumption DEF Inv
<1>3. mishaps' > 0 \/ mishaps' = mishaps
  BY <1>2
<1>4. bin' = NoImage \/ Len(bin') = ImageLength \/ mishaps' > 0
  BY <1>2, <1>3
<1> QED BY <1>1, <1>4

LEMMA PreparedIs ==
  ASSUME NEW info, NEW n, NEW k, NEW data
  PROVE  /\ prepare_block(info, n, k, data).block_number = n
         /\ prepare_block(info, n, k, data).bytes = compress_and_encrypt(info, data)
         /\ prepare_block(info, n, k, data).compression_type = info.compression_type
         /\ prepare_block(info, n, k, data).announced_length = announced_length(info, k, data)
         /\ prepare_block(info, n, k, data).uds_checksum
              = IF info.uds_checksum_kind = "Crc32Be" THEN Crc(255, data) ELSE 0
<1> DEFINE erase == should_erase(info, n)
           p == prepare_block(info, n, k, data)
<1>1. p = [block_number |-> n, bytes |-> compress_and_encrypt(info, data),
           compression_type |-> info.compression_type, should_erase |-> erase,
           uds_checksum |-> IF info.uds_checksum_kind = "Crc32Be" THEN Crc(255, data) ELSE 0,
           announced_length |-> announced_length(info, k, data)]
  BY Zenon DEF prepare_block
<1> HIDE DEF erase, p
<1> QED BY <1>1 DEF p

LEMMA OneLined ==
  ASSUME NEW blocks, NEW i \in 1..5, NEW s, Lined(s, blocks, i - 1), i \in DOMAIN blocks
  PROVE  Lined(s \o <<Prepared(blocks, i)>>, blocks, i)
<1> DEFINE p == Prepared(blocks, i)
           P == PreparedOf(blocks)
           r == s \o <<p>>
<1>1. p \in P /\ p.block_number = i
  BY PreparedIs DEF PreparedOf, Prepared
<1>2. \A q \in P : q.block_number \in 1..5
  BY PreparedIs DEF PreparedOf, Prepared
<1>3. s \in Seq(P) /\ (\A j \in DOMAIN s : s[j].block_number <= i - 1) /\ Ascending(s)
  BY DEF Lined
<1> HIDE DEF p, P
<1>4. Len(s) \in Nat /\ DOMAIN s = 1..Len(s) /\ \A j \in 1..Len(s) : s[j] \in P
  BY <1>3, SeqAs
<1>5. /\ r \in Seq(P) /\ Len(r) = Len(s) + 1
      /\ \A j \in 1..Len(s) : r[j] = s[j]
      /\ r[Len(s) + 1] = p
  <2>1. <<p>> \in Seq(P) /\ Len(<<p>>) = 1 /\ <<p>>[1] = p
    BY <1>1
  <2> HIDE DEF r
  <2>2. r \in Seq(P) /\ Len(r) = Len(s) + Len(<<p>>)
    BY <1>3, <2>1, ConcatProperties, Zenon DEF r
  <2>3. \A j \in 1..(Len(s) + Len(<<p>>)) : r[j] = IF j <= Len(s) THEN s[j] ELSE <<p>>[j - Len(s)]
    BY <1>3, <2>1, ConcatProperties, Zenon DEF r
  <2>4. Len(s) + 1 - Len(s) = 1 /\ ~(Len(s) + 1 <= Len(s)) /\ Len(s) + 1 \in 1..(Len(s) + 1)
    BY <1>4
  <2>5. r[Len(s) + 1] = p
    BY <2>1, <2>3, <2>4
  <2>6. \A j \in 1..Len(s) : j <= Len(s) /\ j \in 1..(Len(s) + 1)
    BY <1>4
  <2>7. \A j \in 1..Len(s) : r[j] = s[j]
    BY <2>1, <2>3, <2>6
  <2> QED BY <2>1, <2>2, <2>5, <2>7
<1> HIDE DEF r
<1>6. DOMAIN r = 1..(Len(s) + 1)
  BY <1>5, SeqAs
<1>7. \A j \in DOMAIN r : r[j].block_number <= i
  <2> TAKE j \in DOMAIN r
  <2>1. CASE j \in 1..Len(s)
    BY <1>2, <1>3, <1>4, <1>5, <2>1
  <2>2. CASE j \notin 1..Len(s)
    BY <1>1, <1>4, <1>5, <1>6, <2>2
  <2> QED BY <2>1, <2>2
<1>8. Ascending(r)
  <2> SUFFICES ASSUME NEW j \in DOMAIN r, NEW k \in DOMAIN r, j < k
               PROVE  r[j].block_number < r[k].block_number
    BY DEF Ascending
  <2>1. j \in 1..Len(s) /\ r[j] = s[j]
    BY <1>4, <1>5, <1>6
  <2>2. CASE k \in 1..Len(s)
    BY <1>3, <1>4, <1>5, <2>1, <2>2 DEF Ascending
  <2>3. CASE k \notin 1..Len(s)
    BY <1>1, <1>2, <1>3, <1>4, <1>5, <1>6, <2>1, <2>3
  <2> QED BY <2>2, <2>3
<1> QED BY <1>5, <1>7, <1>8 DEF Lined, r, p, P

LEMMA NoneLined ==
  ASSUME NEW blocks, NEW i \in 1..5, NEW s, Lined(s, blocks, i - 1)
  PROVE  Lined(s \o <<>>, blocks, i)
<1>1. s \in Seq(PreparedOf(blocks)) /\ (\A j \in DOMAIN s : s[j].block_number <= i - 1) /\ Ascending(s)
  BY DEF Lined
<1>2. s \o <<>> = s
  BY <1>1, ConcatEmptySeq
<1>3. \A q \in PreparedOf(blocks) : q.block_number \in 1..5
  BY PreparedIs DEF PreparedOf, Prepared
<1>4. \A j \in DOMAIN s : s[j] \in PreparedOf(blocks)
  BY <1>1, SeqAs
<1>5. \A x \in 1..5 : x <= i - 1 => x <= i
  OBVIOUS
<1>6. \A j \in DOMAIN s : s[j].block_number <= i
  BY <1>1, <1>3, <1>4, <1>5, Zenon
<1> QED BY <1>1, <1>2, <1>6 DEF Lined

LEMMA InOrderIs ==
  ASSUME NEW blocks
  PROVE  Lined(InOrder(blocks), blocks, 5)
<1> DEFINE P == PreparedOf(blocks)
           e == [n \in 1..5 |-> IF n \in DOMAIN blocks THEN <<Prepared(blocks, n)>> ELSE <<>>]
<1>1. \A n \in 1..5 : (IF n \in DOMAIN blocks THEN <<Prepared(blocks, n)>> ELSE <<>>) \in Seq(P)
  <2> TAKE n \in 1..5
  <2>1. CASE n \in DOMAIN blocks
    <3>1. Prepared(blocks, n) \in P
      BY <2>1 DEF PreparedOf
    <3> HIDE DEF P
    <3>2. <<Prepared(blocks, n)>> \in Seq(P)
      BY <3>1
    <3> QED BY <2>1, <3>2
  <2>2. CASE n \notin DOMAIN blocks
    BY <2>2
  <2> QED BY <2>1, <2>2
<1>2. InOrder(blocks) = FlattenSeq(e)
  BY DEF InOrder, Prepared
<1>3. e \in [1..5 -> Seq(P)]
  BY <1>1
<1>4. \A n \in 1..5 : /\ n \in DOMAIN blocks => e[n] = <<Prepared(blocks, n)>>
                      /\ n \notin DOMAIN blocks => e[n] = <<>>
  OBVIOUS
<1> HIDE DEF e
<1>5. e \in Seq(Seq(P)) /\ Len(e) = 5
  BY <1>3, AsSeq
<1>6. PICK g : Flattening(g, e, P)
  BY <1>5, FlattenBy
<1>7. /\ g[1] = e[1] /\ g[2] = g[1] \o e[2] /\ g[3] = g[2] \o e[3]
      /\ g[4] = g[3] \o e[4] /\ g[5] = g[4] \o e[5] /\ FlattenSeq(e) = g[5]
  <2>1. \A i \in 1..5 : g[i] = IF i = 1 THEN e[i] ELSE g[i - 1] \o e[i]
    BY <1>5, <1>6, Zenon DEF Flattening
  <2>2. FlattenSeq(e) = g[5]
    BY <1>5, <1>6, Zenon DEF Flattening
  <2>3. \A i \in 1..5 : \A j : i # 1 /\ j = i - 1 => g[i] = g[j] \o e[i]
    BY <2>1, Zenon
  <2>4. g[1] = e[1]
    BY <2>1
  <2>5. 1 = 2 - 1 /\ 2 = 3 - 1 /\ 3 = 4 - 1 /\ 4 = 5 - 1
        /\ 2 # 1 /\ 3 # 1 /\ 4 # 1 /\ 5 # 1 /\ 2 \in 1..5 /\ 3 \in 1..5 /\ 4 \in 1..5 /\ 5 \in 1..5
    OBVIOUS
  <2>6. g[2] = g[1] \o e[2]
    BY <2>3, <2>5, Zenon
  <2>7. g[3] = g[2] \o e[3]
    BY <2>3, <2>5, Zenon
  <2>8. g[4] = g[3] \o e[4]
    BY <2>3, <2>5, Zenon
  <2>9. g[5] = g[4] \o e[5]
    BY <2>3, <2>5, Zenon
  <2> QED BY <2>2, <2>4, <2>6, <2>7, <2>8, <2>9
<1>8. Lined(<<>>, blocks, 0)
  BY DEF Lined, Ascending
<1>9. \A s : \A i \in 1..5 : Lined(s, blocks, i - 1) => Lined(s \o e[i], blocks, i)
  BY <1>4, OneLined, NoneLined
<1>10. e[1] = <<>> \o e[1]
  BY <1>3, ConcatEmptySeq
<1>11. 1 - 1 = 0 /\ 2 - 1 = 1 /\ 3 - 1 = 2 /\ 4 - 1 = 3 /\ 5 - 1 = 4
       /\ 1 \in 1..5 /\ 2 \in 1..5 /\ 3 \in 1..5 /\ 4 \in 1..5 /\ 5 \in 1..5
  OBVIOUS
<1>12. Lined(g[1], blocks, 1)
  BY <1>7, <1>8, <1>9, <1>10, <1>11
<1>13. Lined(g[2], blocks, 2)
  BY <1>7, <1>9, <1>11, <1>12
<1>14. Lined(g[3], blocks, 3)
  BY <1>7, <1>9, <1>11, <1>13
<1>15. Lined(g[4], blocks, 4)
  BY <1>7, <1>9, <1>11, <1>14
<1>16. Lined(g[5], blocks, 5)
  BY <1>7, <1>9, <1>11, <1>15
<1> QED BY <1>2, <1>7, <1>16

\* Whichever order the blocks are written in, the image keeps its layout.
LEMMA ChecksumType ==
  ASSUME Chosen, NEW image \in Images, NEW patch \in BOOLEAN, NEW order \in Orders
  PROVE  /\ cmd_checksum(image, patch, order).image \in Images
         /\ Len(cmd_checksum(image, patch, order).image) = Len(image)
<1>1. PICK p, blocks, own : /\ p = PatchedImage(image, patch) /\ blocks = blocks_from_bytes(p)
                            /\ own = PerBlock(fi, blocks)
  OBVIOUS
<1>2. p \in Images /\ Len(p) = Len(image) /\ Len(p) \in Nat /\ p \in Sized(Len(p))
  BY <1>1, PatchedType
<1>3. BlockFiles(blocks)
  BY <1>1, <1>2, SplitIs
<1>4. \A n \in DOMAIN FixedOf(own) : FixedOf(own)[n] \in Seq(Byte)
  <2>1. KnownInfo(fi)
    BY ChosenIs
  <2>2. \A n \in DOMAIN blocks : blocks[n] \in Seq(Byte) /\ Len(blocks[n]) >= 1
    BY <1>3 DEF BlockFiles, BlockFile
  <2>3. DOMAIN own = DOMAIN blocks
    BY <1>1 DEF PerBlock
  <2>4. \A n \in DOMAIN blocks : Checked(own[n], blocks[n])
    BY <1>1, <2>1, <2>2, PerBlockIs
  <2> QED BY <2>3, <2>4 DEF Checked, FixedOf
<1>5. cmd_checksum(image, patch, order).image = Written(p, FixedOf(own), order)
  BY <1>1, CmdIs
<1>6. Written(p, FixedOf(own), order) \in Sized(Len(p))
  BY <1>2, <1>4, WrittenType
<1>7. Written(p, FixedOf(own), order) \in Seq(Byte) /\ Len(Written(p, FixedOf(own), order)) = Len(p)
  BY <1>2, <1>6, SizedIs
<1> QED BY <1>2, <1>5, <1>7 DEF Images

\* What an FRF yields is the whole of a sound container.
LEMMA FrfIs ==
  ASSUME Chosen, load_raw_blocks("frf").ok, load_raw_blocks("frf").blocks # <<>>
  PROVE  container = "sound" /\ load_raw_blocks("frf").blocks = Given
<1>1. load_raw_blocks("frf") = IF container = "sgo" THEN [ok |-> FALSE, blocks |-> <<>>]
                               ELSE extract_odx(fi, Odx)
  BY DEF load_raw_blocks
<1>2. container # "sgo"
  BY <1>1
<1> DEFINE s == extract_odx(fi, Odx)
<1>3. /\ container = "sizeless" => ~s.ok
      /\ container = "empty" => s.blocks = <<>>
      /\ container \in {"sound", "sgo"} => s.ok /\ s.blocks = [n \in Blocks(fi) |-> Vendor[mod][n]]
  BY OdxHolds
<1>4. load_raw_blocks("frf") = s
  BY <1>1, <1>2
<1> HIDE DEF s
<1>5. container \in {"sound", "sizeless", "empty", "sgo"}
  BY DEF Chosen, Containers
<1> QED BY <1>2, <1>3, <1>4, <1>5 DEF Given

\* An ODX yields the whole of a sound container, or nothing.
LEMMA OdxIs ==
  ASSUME Chosen, NEW raw, raw = extract_odx(fi, Odx), raw.ok, container # "sgo"
  PROVE  BlockFiles(raw.blocks)
<1>1. /\ container = "sizeless" => ~raw.ok
      /\ container = "empty" => raw.blocks = <<>>
      /\ container \in {"sound", "sgo"} => raw.ok /\ raw.blocks = [n \in Blocks(fi) |-> Vendor[mod][n]]
  BY OdxHolds
<1>2. container \in {"sound", "sizeless", "empty", "sgo"}
  BY DEF Chosen, Containers
<1>3. raw.blocks = <<>> \/ raw.blocks = Given
  BY <1>1, <1>2 DEF Given
<1> QED BY <1>3, GivenFiles, NoFiles

LEMMA TunedIs ==
  ASSUME NEW blocks, BlockFiles(blocks), NEW n \in DOMAIN blocks, NEW cell, NEW v \in Byte
  PROVE  BlockFiles([blocks EXCEPT ![n][cell] = v])
<1> DEFINE data == blocks[n]
           e == [data EXCEPT ![cell] = v]
<1>1. BlockFile(n, data)
  BY DEF BlockFiles
<1>2. e \in Seq(Byte) /\ Len(e) = Len(data)
  BY <1>1, ReplacedIs DEF BlockFile
<1>3. BlockFile(n, e)
  <2> HIDE DEF e, data
  <2> QED BY <1>1, <1>2 DEF BlockFile
<1>4. [blocks EXCEPT ![n][cell] = v] = [m \in DOMAIN blocks |-> IF m = n THEN e ELSE blocks[m]]
  BY DEF BlockFiles
<1> HIDE DEF e
<1> QED BY <1>3, <1>4 DEF BlockFiles

LEMMA TuneIsByte == TuneValues \subseteq Byte
BY BoundsAssumption

LEMMA CutShort ==
  ASSUME Chosen, NEW image \in Images, image # NoImage, NEW k \in {Len(image) \div 2, Len(image) - 1} \ {0}
  PROVE  /\ SubSeq(image, 1, k) \in Images /\ k \in 1..Len(image)
         /\ Len(SubSeq(image, 1, k)) = k /\ \A i \in 1..k : SubSeq(image, 1, k)[i] = image[i]
<1> DEFINE L == Len(image)
<1>1. image \in Seq(Byte) /\ L \in Nat /\ L <= ImageLength /\ ImageLength \in Nat
  BY SeqAs, ImageHolds DEF Images
<1>2. L # 0
  BY <1>1 DEF NoImage
<1>3. k = L \div 2 \/ k = L - 1
  OBVIOUS
<1> HIDE DEF L
<1>4. k \in Int /\ k # 0 /\ k >= 0 /\ k <= L
  BY <1>1, <1>2, <1>3
<1>5. k \in 1..L /\ k <= ImageLength /\ k - 1 + 1 = k /\ \A i \in 1..k : 1 + i - 1 = i
  BY <1>1, <1>4
<1>6. /\ SubSeq(image, 1, k) \in Seq(Byte) /\ Len(SubSeq(image, 1, k)) = k
      /\ \A i \in 1..k : SubSeq(image, 1, k)[i] = image[1 + i - 1]
  BY <1>1, <1>4, <1>5, SubSeqIs DEF L
<1> QED BY <1>5, <1>6 DEF Images, L

LEMMA InitInv == Init => Inv
<1> SUFFICES ASSUME Init PROVE Inv
  OBVIOUS
<1>1. mod \in Modules /\ mod \in DOMAIN MODULES
  BY VendorAssumption DEF Init
<1>2. fi = MODULES[mod]
  BY <1>1, Registry DEF Init
<1>3. Chosen
  BY <1>1, <1>2 DEF Init, Chosen
<1>4. 0 \in 0..MaxMishaps
  BY BoundsAssumption
<1>5. files = [t \in Tools |-> files[t]] /\ \A t \in Tools : BlockFiles(files[t])
  BY NoFiles DEF Init
<1>6. NoImage \in Images
  BY <1>3, ImageHolds DEF Images, NoImage
<1> QED BY <1>3, <1>4, <1>5, <1>6 DEF Init, Inv, Idle

\* Each step keeps the layout.
LEMMA NextInv == Inv /\ [Next]_vars => Inv'
<1> SUFFICES ASSUME Inv, [Next]_vars PROVE Inv'
  OBVIOUS
<1>0. Chosen /\ bin \in Images /\ mishaps \in {mishaps, mishaps + 1}
  BY DEF Inv
<1>1. CASE ExtractFrf
  <2>1. mod' = mod /\ fi' = fi /\ container' = container /\ files' = files /\ mishaps' = mishaps /\ wire' = wire
    BY <1>1 DEF ExtractFrf
  <2>2. PICK order \in Orders : /\ load_raw_blocks("frf").ok /\ load_raw_blocks("frf").blocks # <<>>
                                /\ bin' = bin_from_blocks(load_raw_blocks("frf").blocks, order)
    BY <1>1, Zenon DEF ExtractFrf
  <2>3. BlockFiles(load_raw_blocks("frf").blocks)
    BY <1>0, <2>2, FrfIs, GivenFiles
  <2>4. bin' \in Images /\ Len(bin') = ImageLength
    BY <1>0, <2>2, <2>3, CombinedType
  <2> QED BY <2>1, <2>4, StillChosen, StillWhole DEF Inv
<1>2. CASE ExtractOdx
  <2>1. mod' = mod /\ fi' = fi /\ container' = container /\ bin' = bin /\ mishaps' = mishaps /\ wire' = wire
    BY <1>2 DEF ExtractOdx
  <2>2. PICK raw \in {extract_odx(fi, Odx)} :
           raw.ok /\ files' = [files EXCEPT !["odx"] = Replacing(raw.blocks, @)]
    BY <1>2, Zenon DEF ExtractOdx
  <2>3. container # "sgo" /\ raw = extract_odx(fi, Odx)
    BY <1>2, <2>2 DEF ExtractOdx
  <2>4. BlockFiles(raw.blocks)
    BY <1>0, <2>2, <2>3, OdxIs
  <2>5. "odx" \in Tools /\ BlockFiles(files["odx"])
    BY DEF Inv, Tools
  <2>6. BlockFiles(Replacing(raw.blocks, files["odx"]))
    BY <2>4, <2>5, ReplacingFiles
  <2>7. files' = [files EXCEPT !["odx"] = Replacing(raw.blocks, files["odx"])]
    BY <2>2 DEF Inv
  <2> QED BY <1>0, <2>1, <2>5, <2>6, <2>7, FilesWritten, StillChosen, StillWhole DEF Inv
<1>3. CASE SplitBin
  <2>1. mod' = mod /\ fi' = fi /\ container' = container /\ bin' = bin /\ wire' = wire /\ bin # NoImage
    BY <1>3 DEF SplitBin
  <2>2. "split" \in Tools /\ BlockFiles(files["split"])
    BY DEF Inv, Tools
  <2> DEFINE blocks == blocks_from_bytes(bin)
  <2>3. BlockFiles(blocks)
    BY <1>0, SplitIs
  <2>4. \/ mishaps' = mishaps /\ files' = [files EXCEPT !["split"] = Replacing(blocks, files["split"])]
        \/ /\ mishaps < MaxMishaps /\ mishaps' = mishaps + 1
           /\ \E n \in DOMAIN blocks :
                 files' = [files EXCEPT !["split"] = Replacing(Without(blocks, n), files["split"])]
    BY <1>3 DEF SplitBin
  <2> HIDE DEF blocks
  <2>5. \E new : BlockFiles(new) /\ files' = [files EXCEPT !["split"] = Replacing(new, files["split"])]
    BY <2>3, <2>4, WithoutFiles
  <2>6. mishaps' \in 0..MaxMishaps /\ mishaps' \in {mishaps, mishaps + 1}
    BY <2>4, BoundsAssumption DEF Inv
  <2>7. PICK new : BlockFiles(new) /\ files' = [files EXCEPT !["split"] = Replacing(new, files["split"])]
    BY <2>5
  <2>8. BlockFiles(Replacing(new, files["split"]))
    BY <2>2, <2>7, ReplacingFiles
  <2> QED BY <1>0, <2>1, <2>2, <2>6, <2>7, <2>8, FilesWritten, StillChosen, StillWhole DEF Inv
<1>4. CASE CombineBin
  <2>1. mod' = mod /\ fi' = fi /\ container' = container /\ files' = files /\ mishaps' = mishaps /\ wire' = wire
    BY <1>4 DEF CombineBin
  <2>2. PICK t \in Tools, order \in Orders : bin' = bin_from_blocks(files[t], order)
    BY <1>4 DEF CombineBin
  <2>3. bin' \in Images /\ Len(bin') = ImageLength
    BY <1>0, <2>2, CombinedType DEF Inv
  <2> QED BY <2>1, <2>3, StillChosen, StillWhole DEF Inv
<1>5. CASE Checksum
  <2>1. mod' = mod /\ fi' = fi /\ container' = container /\ files' = files /\ mishaps' = mishaps /\ wire' = wire
        /\ bin # NoImage
    BY <1>5 DEF Checksum
  <2>2. PICK patch \in BOOLEAN, order \in Orders : bin' = cmd_checksum(bin, patch, order).image
    BY <1>5, Zenon DEF Checksum
  <2>3. bin' \in Images /\ Len(bin') = Len(bin)
    BY <1>0, <2>2, ChecksumType
  <2> QED BY <2>1, <2>3, StillChosen, StillWhole DEF Inv
<1>6. CASE Flash
  <2>1. mod' = mod /\ fi' = fi /\ container' = container /\ files' = files /\ mishaps' = mishaps /\ bin' = bin
    BY <1>6 DEF Flash
  <2>2. PICK blocks : wire'.sent = InOrder(blocks)
    BY <1>6 DEF Flash
  <2>3. Ascending(wire'.sent)
    BY <2>2, InOrderIs DEF Lined
  <2>4. (wire.cmd = "flash" => Ascending(wire.sent))'
    BY <2>3 DEF Ascending
  <2> QED BY <1>0, <2>1, <2>4, StillChosen, StillWhole DEF Inv
<1>7. CASE Unlock
  BY <1>0, <1>7, StillChosen, StillWhole DEF Unlock, Inv
<1>8. CASE FlashEnds
  BY <1>0, <1>8, StillChosen, StillWhole DEF FlashEnds, Idle, Inv
<1>e. Edit => /\ mod' = mod /\ fi' = fi /\ container' = container /\ wire' = wire
              /\ mishaps' \in 0..MaxMishaps /\ mishaps' = mishaps + 1 /\ mishaps' \in {mishaps, mishaps + 1}
  BY BoundsAssumption DEF Edit, Inv
<1>9. CASE TuneFile
  <2>1. Edit /\ bin' = bin
    BY <1>9 DEF TuneFile
  <2>20. PICK n \in DOMAIN files["split"] :
            \E cell \in Editable(n, Len(files["split"][n])), v \in TuneValues :
               files' = [files EXCEPT !["split"][n][cell] = v]
    BY <1>9, Zenon DEF TuneFile
  <2>2. PICK cell \in Editable(n, Len(files["split"][n])), v \in TuneValues :
           files' = [files EXCEPT !["split"][n][cell] = v]
    BY <2>20, Zenon
  <2>3. "split" \in Tools /\ BlockFiles(files["split"]) /\ v \in Byte
    BY TuneIsByte DEF Inv, Tools
  <2>4. BlockFiles([files["split"] EXCEPT ![n][cell] = v])
    BY <2>3, TunedIs
  <2>5. files' = [files EXCEPT !["split"] = [files["split"] EXCEPT ![n][cell] = v]]
    BY <2>2 DEF Inv
  <2> QED BY <1>0, <1>e, <2>1, <2>3, <2>4, <2>5, FilesWritten, StillChosen, StillWhole DEF Inv
<1>10. CASE TuneImage
  <2>1. Edit /\ files' = files
    BY <1>10 DEF TuneImage
  <2>20. PICK n \in Blocks(fi) :
            \E cell \in Editable(n, static_length(n)) \union {Header(1).areas}, v \in TuneValues :
               bin' = [bin EXCEPT ![binfile_offset(n) + cell] = v]
    BY <1>10, Zenon DEF TuneImage
  <2>2. PICK cell \in Editable(n, static_length(n)) \union {Header(1).areas}, v \in TuneValues :
           bin' = [bin EXCEPT ![binfile_offset(n) + cell] = v]
    BY <2>20, Zenon
  <2>3. v \in Byte /\ bin \in Seq(Byte) /\ Len(bin) <= ImageLength
    BY <1>0, TuneIsByte DEF Images
  <2>4. bin' \in Images
    BY <2>2, <2>3, ReplacedIs DEF Images
  <2> QED BY <1>e, <2>1, <2>4, StillChosen, StillWhole DEF Inv
<1>11. CASE CutImage
  <2>1. Edit /\ files' = files /\ bin # NoImage
    BY <1>11 DEF CutImage
  <2>2. PICK k \in {Len(bin) \div 2, Len(bin) - 1} \ {0} : bin' = SubSeq(bin, 1, k)
    BY <1>11 DEF CutImage
  <2>3. bin' \in Images
    BY <1>0, <2>1, <2>2, CutShort
  <2> QED BY <1>e, <2>1, <2>3, StillChosen, StillWhole DEF Inv
<1>12. CASE UNCHANGED vars
  BY <1>0, <1>12, StillChosen, StillWhole DEF Inv, vars
<1> QED BY <1>1, <1>2, <1>3, <1>4, <1>5, <1>6, <1>7, <1>8, <1>9, <1>10, <1>11, <1>12 DEF Next

\* Whatever the commands of main.rs read and write, in whichever order, an image
\* that nobody cut is as long as its layout, a block file is as long as the
\* block's region or ends where its own bytes say, within an image, and the
\* blocks of a download are in ascending order.
THEOREM LayoutKept == Spec => []Inv
<1> QED BY InitInv, NextInv, PTL DEF Spec

LEMMA InvType == Inv => TypeOK
<1> SUFFICES ASSUME Inv PROVE TypeOK
  OBVIOUS
<1>1. mod \in Modules /\ container \in Containers /\ mishaps \in 0..MaxMishaps /\ Chosen
  BY DEF Inv, Chosen
<1>2. bin \in Seq(Byte) /\ Len(bin) <= ImageLength /\ (bin = NoImage \/ Len(bin) = ImageLength \/ mishaps > 0)
  BY DEF Inv, Images
<1>3. ASSUME NEW t \in Tools
      PROVE  /\ DOMAIN files[t] \subseteq Blocks(fi)
             /\ \A n \in DOMAIN files[t] :
                   /\ files[t][n] \in Seq(Byte) \ {<<>>}
                   /\ Len(files[t][n]) = static_length(n)
                      \/ /\ n \in fi.dynamic_block_length_offsets
                         /\ binfile_offset(n) + Len(files[t][n]) <= ImageLength
  <2>1. DOMAIN files[t] \subseteq Blocks(fi) /\ \A n \in DOMAIN files[t] : BlockFile(n, files[t][n])
    BY DEF Inv, BlockFiles
  <2>2. ASSUME NEW n \in DOMAIN files[t]
        PROVE  /\ files[t][n] \in Seq(Byte) /\ files[t][n] # <<>>
               /\ Len(files[t][n]) = static_length(n)
                  \/ /\ n \in fi.dynamic_block_length_offsets
                     /\ binfile_offset(n) + Len(files[t][n]) <= ImageLength
    <3>1. PICK data : data = files[t][n] /\ BlockFile(n, data)
      BY <2>1
    <3>2. Len(<<>>) = 0 /\ ~(0 >= 1)
      OBVIOUS
    <3> QED BY <3>1, <3>2, Zenon DEF BlockFile
  <2> QED BY <2>1, <2>2
<1>4. \A i, j \in DOMAIN wire.sent :
         wire.cmd = "flash" /\ i < j => wire.sent[i].block_number < wire.sent[j].block_number
  BY DEF Inv, Ascending
<1> QED BY <1>1, <1>2, <1>3, <1>4 DEF TypeOK

\* The commands of main.rs keep the files, the image and the download of their
\* types, whatever is written over what.  A block that states its length may be
\* longer than its region (types.rs), never longer than the rest of an image.
THEOREM TypeCorrect == Spec => []TypeOK
<1> QED BY LayoutKept, InvType, PTL

-----------------------------------------------------------------------------
(***************************************************************************)
(* An extracted image is sound.                                            *)
(***************************************************************************)
LEMMA Different ==
  ASSUME Chosen, NEW m \in Blocks(fi), NEW n \in Blocks(fi), m # n
  PROVE  Before(m, n) \/ Before(n, m)
<1>1. fi.offsets[m] \in Nat /\ fi.offsets[n] \in Nat /\ fi.offsets[m] # fi.offsets[n]
  BY ChosenIs DEF KnownInfo, PlacedInfo
<1>2. \A a, b \in Nat : a # b => a < b \/ b < a
  OBVIOUS
<1> QED BY <1>1, <1>2, Zenon DEF Before

LEMMA OneWritten ==
  ASSUME Chosen, ApartInfo(fi), NEW L \in Nat, NEW b \in Sized(L), NEW bytes, NEW blocks, Fitting(blocks),
         NEW there, NEW m \in DOMAIN blocks, NEW n \in Blocks(fi), NEW c \in 1..static_length(n),
         binfile_offset(n) + c \in 1..L,
         Holds(b, bytes, blocks, there, n, c)
  PROVE  Holds(Over(blocks[m], b, binfile_offset(m)), bytes, blocks, there \union {m}, n, c)
<1> DEFINE on == binfile_offset(n)
           om == binfile_offset(m)
           kn == static_length(n)
           km == static_length(m)
           data == blocks[m]
           i == on + c
           o == Over(data, b, om)
<1>1. m \in Blocks(fi) /\ data \in Seq(Byte) /\ Len(data) <= km
  BY DEF Fitting
<1>2. on \in Nat /\ om \in Nat /\ kn \in Nat /\ km \in Nat /\ Len(data) \in Nat /\ c \in 1..kn
  BY <1>1, OffsetIs, StaticIs, SeqAs
<1>3. i \in 1..L
  OBVIOUS
<1>4. o[i] = IF i - om \in 1..Len(data) THEN data[i - om] ELSE b[i]
  <2> HIDE DEF i, om, data
  <2> QED BY <1>1, <1>2, <1>3, OverIs
<1>5. CASE m = n
  <2>1. i - om = c /\ om = on
    BY <1>2, <1>5
  <2>2. CASE c <= Len(data)
    <3>1. c \in 1..Len(data)
      <4> HIDE DEF kn, data
      <4> QED BY <1>2, <2>2
    <3>2. o[i] = data[c]
      <4> HIDE DEF o, data, i, om
      <4> QED BY <1>4, <2>1, <3>1
    <3> QED BY <1>5, <2>2, <3>2, Zenon DEF Holds
  <2>3. CASE ~(c <= Len(data))
    <3>1. c \notin 1..Len(data)
      <4> HIDE DEF kn, data
      <4> QED BY <1>2, <2>3
    <3>2. o[i] = b[i]
      <4> HIDE DEF o, data, i, om
      <4> QED BY <1>4, <2>1, <3>1
    <3> QED BY <1>5, <2>3, <3>2, Zenon DEF Holds
  <2> QED BY <2>2, <2>3
<1>6. CASE m # n
  <2>1. om + km <= on \/ on + kn <= om
    BY <1>1, <1>6, Different, RegionsApart
  <2>2. i - om \notin 1..Len(data)
    <3> HIDE DEF on, om, kn, km, data
    <3> QED BY <1>1, <1>2, <2>1
  <2>3. o[i] = b[i]
    <3> HIDE DEF o, data, i, om
    <3> QED BY <1>4, <2>2
  <2>4. n \in there \union {m} <=> n \in there
    BY <1>6
  <2> QED BY <2>3, <2>4, Zenon DEF Holds
<1> QED BY <1>5, <1>6

LEMMA WrittenHolds ==
  ASSUME Chosen, ApartInfo(fi), NEW L \in Nat, NEW bytes \in Sized(L), NEW order \in Orders,
         NEW blocks, Fitting(blocks),
         NEW n \in Blocks(fi), NEW c \in 1..static_length(n), binfile_offset(n) + c \in 1..L
  PROVE  Holds(Written(bytes, blocks, order), bytes, blocks, 1..5, n, c)
<1>1. \A m \in DOMAIN blocks : blocks[m] \in Seq(Byte)
  BY DEF Fitting
<1>2. PICK w : WritesBy(w, bytes, blocks, order)
  BY <1>1, WrittenBy, Zenon
<1>3. /\ w[0] = bytes /\ Written(bytes, blocks, order) = w[5]
      /\ \A i \in 0..5 : w[i] \in Sized(L)
      /\ \A i \in 1..5 : w[i] = IF order[i] \in DOMAIN blocks
                                THEN Over(blocks[order[i]], w[i - 1], binfile_offset(order[i])) ELSE w[i - 1]
  BY <1>2, SizedIs DEF WritesBy, Writing
<1> DEFINE there(i) == {order[j] : j \in 1..i}
           T == {i \in 0..5 : Holds(w[i], bytes, blocks, there(i), n, c)}
<1>4. 0 \in T
  BY <1>3 DEF Holds
<1>5. ASSUME NEW i \in 1..5, i - 1 \in T PROVE i \in T
  <2>1. there(i) = there(i - 1) \union {order[i]}
    <3>1. \A j \in 1..i : j \in 1..(i - 1) \/ j = i
      OBVIOUS
    <3>2. \A j \in 1..(i - 1) : j \in 1..i
      OBVIOUS
    <3>3. i \in 1..i
      OBVIOUS
    <3> QED BY <3>1, <3>2, <3>3
  <2>2. w[i - 1] \in Sized(L) /\ Holds(w[i - 1], bytes, blocks, there(i - 1), n, c)
    BY <1>3, <1>5
  <2> HIDE DEF there
  <2>3. CASE order[i] \in DOMAIN blocks
    <3>1. w[i] = Over(blocks[order[i]], w[i - 1], binfile_offset(order[i]))
      BY <1>3, <2>3
    <3>2. Holds(w[i], bytes, blocks, there(i - 1) \union {order[i]}, n, c)
      BY <2>2, <2>3, <3>1, OneWritten
    <3>3. Holds(w[i], bytes, blocks, there(i), n, c)
      BY <2>1, <3>2, Zenon
    <3> QED BY <3>3
  <2>4. CASE order[i] \notin DOMAIN blocks
    <3>1. w[i] = w[i - 1]
      BY <1>3, <2>4
    <3>2. n \in DOMAIN blocks => (n \in there(i) <=> n \in there(i - 1))
      BY <2>1, <2>4
    <3>3. Holds(w[i], bytes, blocks, there(i), n, c)
      BY <2>2, <3>1, <3>2, Zenon DEF Holds
    <3> QED BY <3>3
  <2> QED BY <2>3, <2>4
<1>6. 5 \in T
  <2> HIDE DEF T
  <2>1. 0..5 \subseteq T
    BY <1>4, <1>5, Stepwise
  <2> QED BY <2>1
<1>7. there(5) = 1..5
  BY OrdersAre
<1> QED BY <1>3, <1>6, <1>7

LEMMA RestoredIs ==
  ASSUME Chosen, ApartInfo(fi), NEW order \in Orders
  PROVE  LET blocks == blocks_from_bytes(bin_from_blocks(Given, order))
         IN  /\ DOMAIN blocks = Blocks(fi)
             /\ \A n \in Blocks(fi) :
                   /\ Restored(blocks[n], Vendor[mod][n])
                   /\ n \notin fi.dynamic_block_length_offsets => blocks[n] = Vendor[mod][n]
<1> DEFINE image == bin_from_blocks(Given, order)
           D == {m \in Blocks(fi) : /\ Inside(image, m, resolve_block_length(image, m))
                                    /\ Kept(m, Cut(image, m))}
<1>1. blocks_from_bytes(image) = [n \in D |-> Cut(image, n)]
  BY DEF blocks_from_bytes
<1>2. /\ image \in Seq(Byte) /\ Len(image) = ImageLength /\ ImageLength \in Nat
      /\ image = Written(Zeros(ImageLength), Given, order) /\ Zeros(ImageLength) \in Sized(ImageLength)
  BY GivenFiles, CombinedType, ImageHolds DEF Images
<1>3. Fitting(Given)
  <2>1. BlockFiles(Given)
    BY GivenFiles
  <2>2. \A n \in DOMAIN Given : Given[n] \in Seq(Byte) /\ n \in Blocks(fi) /\ Given[n] = Vendor[mod][n]
    BY <2>1 DEF BlockFiles, BlockFile, Given
  <2>3. \A n \in Blocks(fi) : Len(Vendor[mod][n]) <= static_length(n)
    BY StaticIs
  <2> QED BY <2>1, <2>2, <2>3 DEF Fitting, BlockFiles
<1> HIDE DEF image
<1>4. ASSUME NEW n \in Blocks(fi)
      PROVE  /\ Restored(Cut(image, n), Vendor[mod][n]) /\ n \in D
             /\ n \notin fi.dynamic_block_length_offsets => Cut(image, n) = Vendor[mod][n]
  <2> DEFINE data == Vendor[mod][n]
             k == static_length(n)
             on == binfile_offset(n)
             r == resolve_block_length(image, n)
             l == Len(data)
             dynamic == n \in fi.dynamic_block_length_offsets
  <2>1. VendorBlock(n, data)
    BY ChosenIs
  <2>2. /\ data \in Seq(Byte) /\ l \in 3..255
        /\ fi.project_name # "" /\ n \in fi.version => data[VersionCell] \in OwnVersions
        /\ n \in fi.dynamic_block_length_offsets => data[DynamicLengthCell] \in {0, l}
    BY <2>1 DEF VendorBlock
  <2>3. k \in Nat /\ k >= 3 /\ k >= l /\ (~dynamic => k = l)
    BY StaticIs
  <2>l. l \in 3..255 /\ data \in Seq(Byte)
    BY <2>2
  <2>4. on \in Nat /\ on + k <= ImageLength
    BY OffsetIs, ImageHolds
  <2>5. ASSUME NEW c \in 1..k
        PROVE  on + c \in 1..ImageLength /\ image[on + c] = IF c <= l THEN data[c] ELSE 0
    <3>1. on + c \in 1..ImageLength
      <4> HIDE DEF on, k
      <4> QED BY <1>2, <2>3, <2>4
    <3>2. Holds(image, Zeros(ImageLength), Given, 1..5, n, c)
      BY <1>2, <1>3, <3>1, WrittenHolds
    <3>3. n \in 1..5 /\ n \in DOMAIN Given /\ Given[n] = data
      BY ChosenIs, BlocksAre DEF Given
    <3>4. Zeros(ImageLength)[on + c] = 0
      BY <3>1, ImageHolds, ZerosType
    <3>5. image[on + c] = IF c <= l THEN data[c] ELSE 0
      BY <3>2, <3>3, <3>4, Zenon DEF Holds
    <3> QED BY <3>1, <3>5
  <2> DEFINE stated == IF dynamic /\ Inside(image, n, DynamicLengthCell)
                       THEN image[on + DynamicLengthCell] ELSE 0
  <2>6. r = IF stated > 0 /\ Inside(image, n, stated) THEN stated ELSE k
    BY DEF resolve_block_length
  <2>7. stated \in {0, l} /\ (~dynamic => stated = 0)
    <3>1. 2 \in 1..k /\ 2 <= l
      <4> HIDE DEF l, k
      <4> QED BY <2>l, <2>3
    <3>2. image[on + 2] = data[2]
      BY <2>5, <3>1
    <3> QED BY <2>2, <3>2 DEF DynamicLengthCell
  <2> HIDE DEF stated, l, k, data, dynamic
  <2>8. r \in Nat /\ r \in 1..k /\ r >= l /\ (~dynamic => r = l)
    <3>1. CASE stated > 0 /\ Inside(image, n, stated)
      <4>1. r = stated /\ stated = l /\ dynamic
        BY <2>6, <2>7, <3>1
      <4> HIDE DEF r
      <4> QED BY <2>l, <2>3, <4>1
    <3>2. CASE ~(stated > 0 /\ Inside(image, n, stated))
      <4>1. r = k
        BY <2>6, <3>2
      <4> HIDE DEF r
      <4> QED BY <2>l, <2>3, <4>1
    <3> QED BY <3>1, <3>2
  <2> HIDE DEF r
  <2>9. Inside(image, n, r)
    <3>1. on + r <= ImageLength
      <4> HIDE DEF on
      <4> QED BY <1>2, <2>3, <2>4, <2>8
    <3> QED BY <1>2, <3>1 DEF Inside
  <2> DEFINE s == Cut(image, n)
  <2>10. s = From(image, n, r)
    BY DEF Cut, r
  <2> HIDE DEF s
  <2>11. s \in Seq(Byte) /\ Len(s) = r /\ \A c \in 1..r : s[c] = IF c <= l THEN data[c] ELSE 0
    BY <1>2, <2>3, <2>5, <2>8, <2>9, <2>10, FromIs
  <2>12. Restored(s, data)
    BY <2>8, <2>11 DEF Restored, l
  <2>13. ~dynamic => s = data
    <3> SUFFICES ASSUME ~dynamic PROVE s = data
      OBVIOUS
    <3>1. Len(s) = Len(data) /\ \A c \in 1..Len(s) : s[c] = data[c]
      BY <2>l, <2>8, <2>11 DEF l
    <3> QED BY <2>l, <2>11, <3>1, SameSeq
  <2>15. Kept(n, s)
    <3>1. 1 \in 1..r /\ 1 <= l
      BY <2>l, <2>8
    <3>2. s[1] = data[1]
      BY <2>11, <3>1
    <3> QED BY <2>2, <3>2 DEF Kept, VersionCell
  <2>16. n \in D
    BY <2>9, <2>15 DEF s, r
  <2> QED BY <2>12, <2>13, <2>16 DEF s, data, dynamic
<1>5. D = Blocks(fi)
  BY <1>4
<1> HIDE DEF D
<1>6. DOMAIN blocks_from_bytes(image) = Blocks(fi) /\ \A n \in Blocks(fi) : blocks_from_bytes(image)[n] = Cut(image, n)
  BY <1>1, <1>5
<1> QED BY <1>4, <1>6 DEF image

\* Zeros behind them add nothing to the sum of some numbers.
LEMMA SumOfTail ==
  ASSUME NEW s \in Seq(Nat), NEW t \in Seq(Nat), Len(s) <= Len(t),
         \A i \in 1..Len(t) : t[i] = IF i <= Len(s) THEN s[i] ELSE 0
  PROVE  SumOf(t) = SumOf(s)
<1>1. PICK f : Summing(f, s) /\ SumOf(s) = f[Len(s)]
  BY SumOfSolved, Zenon
<1>2. PICK g : Summing(g, t) /\ SumOf(t) = g[Len(t)]
  BY SumOfSolved, Zenon
<1> DEFINE a == Len(s)
           b == Len(t)
<1>3. a \in Nat /\ b \in Nat /\ a <= b
  BY SeqAs
<1>4. /\ f[0] = 0 /\ \A i \in 1..a : f[i] = f[i - 1] + s[i]
      /\ \A i \in 0..a : f[i] \in Nat
  BY <1>1 DEF Summing
<1>5. /\ g[0] = 0 /\ \A i \in 1..b : g[i] = g[i - 1] + t[i]
      /\ \A i \in 0..b : g[i] \in Nat
  BY <1>2 DEF Summing
<1>6. \A i \in 1..b : t[i] = IF i <= a THEN s[i] ELSE 0
  OBVIOUS
<1> HIDE DEF a, b
<1> DEFINE T == {i \in 0..b : g[i] = IF i <= a THEN f[i] ELSE f[a]}
<1>7. 0 \in T
  BY <1>3, <1>4, <1>5
<1>8. ASSUME NEW i \in 1..b, i - 1 \in T PROVE i \in T
  <2>1. g[i] = g[i - 1] + t[i] /\ i - 1 \in 0..b /\ g[i - 1] \in Nat
    BY <1>3, <1>5
  <2>2. CASE i <= a
    BY <1>3, <1>4, <1>6, <1>8, <2>1, <2>2
  <2>3. CASE ~(i <= a)
    <3>1. t[i] = 0
      BY <1>6, <2>3
    <3>2. g[i - 1] = f[a]
      <4>1. CASE i - 1 <= a
        BY <1>3, <1>8, <2>3, <4>1
      <4>2. CASE ~(i - 1 <= a)
        BY <1>8, <4>2
      <4> QED BY <4>1, <4>2
    <3>3. g[i] = f[a]
      BY <2>1, <3>1, <3>2
    <3> QED BY <2>3, <3>3
  <2> QED BY <2>2, <2>3
<1>9. b \in T
  <2> HIDE DEF T
  <2>1. 0..b \subseteq T
    BY <1>3, <1>7, <1>8, Stepwise
  <2> QED BY <1>3, <2>1
<1>10. g[b] = f[a]
  <2>1. CASE b <= a
    BY <1>3, <1>9, <2>1
  <2>2. CASE ~(b <= a)
    BY <1>9, <2>2
  <2> QED BY <2>1, <2>2
<1> QED BY <1>1, <1>2, <1>10 DEF a, b

\* A Haldex block of no stated length is accepted with the rest of its region
\* behind it: zeros add nothing to its sum.
LEMMA HaldexRestored ==
  ASSUME NEW info, HaldexInfo(info), NEW n, NEW data \in Seq(Byte), Len(data) >= 3,
         NEW r, Restored(r, data), ModuleAccepts(info, data, n)
  PROVE  ModuleAccepts(info, r, n)
<1>1. info.checksum_kind = "Haldex" /\ info.checksum_kind # "Simos" /\ info.no_internal_checksum_blocks = {1}
  BY DEF HaldexInfo
<1>2. \A x, m : validate_block(info, x, m) = validate_haldex(info, x, m)
  BY <1>1 DEF validate_block
<1>3. \A x, m : Ecm3Holds(info, x, m)
  BY <1>1, Zenon DEF Ecm3Holds
<1>4. SUFFICES ASSUME n # 1 PROVE validate_haldex(info, r, n).state = "Valid"
  <2>1. CASE n = 1
    BY <1>1, <2>1, Zenon DEF ModuleAccepts, has_internal_checksum
  <2>2. CASE n # 1
    BY <1>2, <1>3, <1>4, <2>2, Zenon DEF ModuleAccepts
  <2> QED BY <2>1, <2>2
<1>5. validate_haldex(info, data, n).state = "Valid"
  BY <1>1, <1>2, <1>4 DEF has_internal_checksum, ModuleAccepts
<1>6. /\ r \in Seq(Byte) /\ Len(r) >= Len(data)
      /\ \A c \in 1..Len(r) : r[c] = IF c <= Len(data) THEN data[c] ELSE 0
  BY DEF Restored
<1>7. Len(data) \in Nat /\ Len(r) \in Nat /\ ~(Len(data) < 2) /\ ~(Len(r) < 2)
  <2>1. Len(data) \in Nat /\ Len(r) \in Nat
    BY <1>6, SeqAs
  <2> DEFINE a == Len(data)
             b == Len(r)
  <2>2. a \in Nat /\ b \in Nat /\ a >= 3 /\ b >= a
    BY <1>6, <2>1
  <2> HIDE DEF a, b
  <2>3. ~(a < 2) /\ ~(b < 2)
    BY <2>2
  <2> QED BY <2>1, <2>3 DEF a, b
<1>8. n \in info.checksum_block_location
  <2>1. validate_haldex(info, data, n) # Failed(data)
    BY <1>5 DEF Failed
  <2> QED BY <1>4, <2>1, HaldexIs
<1>9. /\ 1 \in 1..Len(data) /\ HaldexSum(data) \in Byte
      /\ validate_haldex(info, data, n) = Settle(data, 1, HaldexSum(data))
  BY <1>4, <1>7, <1>8, HaldexIs
<1>10. data[1] = HaldexSum(data)
  BY <1>5, <1>9 DEF Settle
<1>11. validate_haldex(info, r, n) = Settle(r, 1, HaldexSum(r))
  BY <1>4, <1>6, <1>7, <1>8, HaldexIs
<1>12. HaldexSum(r) = HaldexSum(data)
  <2> DEFINE a == Len(data)
             b == Len(r)
             s == SubSeq(data, 3, a)
             t == SubSeq(r, 3, b)
  <2>1. a \in Nat /\ b \in Nat /\ a >= 3 /\ b >= a
    BY <1>6, <1>7
  <2>2. \A c \in 1..b : r[c] = IF c <= a THEN data[c] ELSE 0
    BY <1>6
  <2>3. a - 3 + 1 = a - 2 /\ b - 3 + 1 = b - 2 /\ a - 2 >= 0 /\ b - 2 >= 0 /\ a - 2 \in Nat /\ b - 2 \in Nat
    <3> HIDE DEF a, b
    <3> QED BY <2>1
  <2>4. s \in Seq(Byte) /\ Len(s) = a - 2 /\ \A i \in 1..(a - 2) : s[i] = data[3 + i - 1]
    BY <2>1, <2>3, SubSeqIs
  <2>5. t \in Seq(Byte) /\ Len(t) = b - 2 /\ \A i \in 1..(b - 2) : t[i] = r[3 + i - 1]
    BY <1>6, <2>1, <2>3, SubSeqIs
  <2>7. s \in Seq(Nat) /\ t \in Seq(Nat)
    BY <2>4, <2>5, BytesAreNats
  <2> HIDE DEF a, b, s, t
  <2>8. \A i \in 1..(b - 2) : t[i] = IF i <= a - 2 THEN s[i] ELSE 0
    <3> TAKE i \in 1..(b - 2)
    <3>1. 3 + i - 1 \in 1..b /\ (i <= a - 2 <=> 3 + i - 1 <= a) /\ (i <= a - 2 => i \in 1..(a - 2))
      BY <2>1
    <3>2. t[i] = IF 3 + i - 1 <= a THEN data[3 + i - 1] ELSE 0
      BY <2>2, <2>5, <3>1
    <3>3. i <= a - 2 => s[i] = data[3 + i - 1]
      BY <2>4, <3>1
    <3> QED BY <3>1, <3>2, <3>3
  <2>9. Len(s) <= Len(t)
    BY <2>1, <2>4, <2>5
  <2>10. SumOf(t) = SumOf(s)
    BY <2>4, <2>5, <2>7, <2>8, <2>9, SumOfTail
  <2> QED BY <2>10 DEF HaldexSum, a, b, s, t
<1>13. r[1] = data[1]
  <2> DEFINE a == Len(data)
             b == Len(r)
  <2>1. a \in Nat /\ b \in Nat /\ a >= 3 /\ b >= a
    BY <1>6, <1>7
  <2> HIDE DEF a, b
  <2>2. 1 \in 1..b /\ 1 <= a
    BY <2>1
  <2> QED BY <1>6, <2>2 DEF a, b
<1> QED BY <1>10, <1>11, <1>12, <1>13 DEF Settle

LEMMA RestoredAccepted ==
  ASSUME Chosen, NEW n \in Blocks(fi), NEW r, Restored(r, Vendor[mod][n]),
         n \notin fi.dynamic_block_length_offsets => r = Vendor[mod][n]
  PROVE  ModuleAccepts(fi, r, n)
<1>1. VendorBlock(n, Vendor[mod][n])
  BY ChosenIs
<1>2. Vendor[mod][n] \in Seq(Byte) /\ Len(Vendor[mod][n]) \in 3..255 /\ ModuleAccepts(fi, Vendor[mod][n], n)
  BY <1>1 DEF VendorBlock
<1>3. CASE n \notin fi.dynamic_block_length_offsets
  BY <1>2, <1>3
<1>4. CASE n \in fi.dynamic_block_length_offsets
  <2>1. HaldexInfo(fi)
    BY <1>4, ChosenIs DEF KnownInfo, SimosInfo, DsgInfo, Dq381Info
  <2>2. Len(Vendor[mod][n]) >= 3
    <3> DEFINE l == Len(Vendor[mod][n])
    <3>1. l \in 3..255
      BY <1>2
    <3> HIDE DEF l
    <3>2. l >= 3
      BY <3>1
    <3> QED BY <3>2 DEF l
  <2> QED BY <1>2, <2>1, <2>2, HaldexRestored
<1> QED BY <1>3, <1>4

LEMMA FrfStep ==
  ASSUME "simos16" \notin Modules, Inv
  PROVE  FrfSound
<1> SUFFICES ASSUME NEW blocks, blocks = blocks_from_bytes(bin'), ExtractFrf, container = "sound"
             PROVE  DOMAIN blocks = Blocks(fi) /\ \A n \in DOMAIN blocks : ModuleAccepts(fi, blocks[n], n)
  BY DEF FrfSound
<1>1. Chosen
  BY DEF Inv
<1>2. ApartInfo(fi)
  BY <1>1, ChosenIs DEF Chosen
<1>3. PICK order \in Orders : /\ load_raw_blocks("frf").ok /\ load_raw_blocks("frf").blocks # <<>>
                              /\ bin' = bin_from_blocks(load_raw_blocks("frf").blocks, order)
  BY Zenon DEF ExtractFrf
<1>4. bin' = bin_from_blocks(Given, order)
  BY <1>1, <1>3, FrfIs
<1>5. blocks = blocks_from_bytes(bin_from_blocks(Given, order))
  BY <1>4
<1>6. /\ DOMAIN blocks = Blocks(fi)
      /\ \A n \in Blocks(fi) : /\ Restored(blocks[n], Vendor[mod][n])
                               /\ n \notin fi.dynamic_block_length_offsets => blocks[n] = Vendor[mod][n]
  BY <1>1, <1>2, <1>5, RestoredIs
<1> HIDE DEF Chosen
<1>7. \A n \in Blocks(fi) : ModuleAccepts(fi, blocks[n], n)
  BY <1>1, <1>6, RestoredAccepted
<1> QED BY <1>6, <1>7

\* An image assembled from a sound FRF (extract) holds every block of it, and
\* the module's own checksums accept each.  Simos16 is left out: two of its
\* regions share cells, and a run shows what becomes of them.
THEOREM ExtractedSound == "simos16" \notin Modules => (Spec => ExtractedIsSound)
<1>1. ASSUME "simos16" \notin Modules PROVE Inv /\ [Next]_vars => [FrfSound]_vars
  BY <1>1, FrfStep
<1>2. ASSUME "simos16" \notin Modules PROVE Spec => [][FrfSound]_vars
  BY <1>1, <1>2, LayoutKept, PTL DEF Spec
<1>3. ASSUME "simos16" \notin Modules PROVE Spec => ExtractedIsSound
  BY <1>2, <1>3 DEF ExtractedIsSound, FrfSound
<1> QED BY <1>3

-----------------------------------------------------------------------------
(***************************************************************************)
(* The encoder's items spell its input.                                    *)
(***************************************************************************)
\* A set of numbers that are at most n has a largest one.
LEMMA MaxIs ==
  ASSUME NEW n \in Nat, NEW A \in SUBSET (0..n), A # {}
  PROVE  Max(A) \in A /\ \A y \in A : y <= Max(A)
<1> DEFINE Largest(B) == \E x \in B : \A y \in B : x >= y
           T == {k \in 0..n : \A B \in SUBSET (0..k) : B # {} => Largest(B)}
<1>1. 0 \in T
  <2>1. 0..0 = {0}
    OBVIOUS
  <2>2. \A B \in SUBSET (0..0) : B # {} => B = {0}
    BY <2>1
  <2>3. Largest({0})
    OBVIOUS
  <2> HIDE DEF Largest
  <2> QED BY <2>2, <2>3
<1>2. ASSUME NEW k \in 1..n, k - 1 \in T PROVE k \in T
  <2> SUFFICES ASSUME NEW B \in SUBSET (0..k), B # {} PROVE Largest(B)
    OBVIOUS
  <2>1. CASE k \in B
    BY <2>1
  <2>2. CASE k \notin B
    <3>1. B \in SUBSET (0..(k - 1))
      BY <2>2
    <3> HIDE DEF Largest
    <3> QED BY <1>2, <3>1
  <2> QED BY <2>1, <2>2
<1>3. n \in T
  <2> HIDE DEF T
  <2>1. 0..n \subseteq T
    BY <1>1, <1>2, Stepwise
  <2> QED BY <2>1
<1>4. Largest(A)
  <2> HIDE DEF Largest
  <2> QED BY <1>3
<1>5. Max(A) \in A /\ \A y \in A : Max(A) >= y
  BY <1>4 DEF Max
<1> QED BY <1>5

LEMMA LeastIs ==
  ASSUME NEW a \in Int, NEW b \in Int
  PROVE  /\ LeastOf(a, b) \in {a, b} /\ LeastOf(a, b) <= a /\ LeastOf(a, b) <= b
         /\ a <= b => LeastOf(a, b) = a
         /\ b <= a => LeastOf(a, b) = b
BY DEF LeastOf

LEMMA MatchLengthIs ==
  ASSUME NEW window, NEW ahead, Len(ahead) \in Nat, NEW i \in 0..WINDOW_SIZE - 1
  PROVE  /\ MatchLength(window, i, ahead) \in 0..Len(ahead)
         /\ MatchLength(window, i, ahead) <= WINDOW_SIZE - i
         /\ Matching(window, i, ahead, MatchLength(window, i, ahead))
<1> DEFINE n == LeastOf(Len(ahead), WINDOW_SIZE - i)
           A == {k \in 0..n : Matching(window, i, ahead, k)}
<1>1. n \in Nat /\ n <= Len(ahead) /\ n <= WINDOW_SIZE - i
  BY LeastIs, SizesAssumption
<1> HIDE DEF n
<1>2. Matching(window, i, ahead, 0)
  BY DEF Matching
<1>3. A \in SUBSET (0..n) /\ A # {}
  BY <1>1, <1>2
<1>4. MatchLength(window, i, ahead) = Max(A)
  BY DEF MatchLength, Matching, n
<1>5. Max(A) \in A
  <2> HIDE DEF A
  <2> QED BY <1>1, <1>3, MaxIs
<1> DEFINE l == MatchLength(window, i, ahead)
<1>6. l \in 0..n /\ Matching(window, i, ahead, l)
  BY <1>4, <1>5
<1>7. WINDOW_SIZE \in Int /\ i \in Int
  BY SizesAssumption
<1> HIDE DEF A, l
<1>8. l \in 0..Len(ahead) /\ l <= WINDOW_SIZE - i
  BY <1>1, <1>6, <1>7
<1> QED BY <1>6, <1>8 DEF l

LEMMA FindMatchIs ==
  ASSUME NEW window, NEW ahead, Len(ahead) \in Nat
  PROVE  LET m == find_match(window, ahead)
         IN  /\ m.offset \in 0..WINDOW_SIZE - 1 /\ m.length \in 0..Len(ahead)
             /\ m.length <= WINDOW_SIZE - m.offset
             /\ Matching(window, m.offset, ahead, m.length)
<1> DEFINE W == WINDOW_SIZE
           ml(i) == MatchLength(window, i, ahead)
           matches == {<<ml(i), i>> : i \in 0..W - 1}
           A == {m[1] : m \in matches}
           longest == Max(A)
           B == {m[2] : m \in {x \in matches : x[1] = longest}}
           last == Max(B)
<1>0. W \in Nat /\ W >= 1
  BY SizesAssumption
<1>1. \A i \in 0..W - 1 : /\ ml(i) \in 0..Len(ahead) /\ ml(i) <= W - i
                          /\ Matching(window, i, ahead, ml(i))
  BY MatchLengthIs
<1>2. find_match(window, ahead) = [length |-> longest, offset |-> last]
  BY DEF find_match
<1> HIDE DEF ml
<1>m. /\ \A i \in 0..W - 1 : <<ml(i), i>> \in matches
      /\ \A x \in matches : x[2] \in 0..W - 1 /\ x[1] = ml(x[2])
  OBVIOUS
<1> HIDE DEF matches
<1>3. A \subseteq {ml(i) : i \in 0..W - 1} /\ ml(0) \in A
  <2>1. 0 \in 0..W - 1 /\ <<ml(0), 0>>[1] = ml(0)
    BY <1>0
  <2>2. ml(0) \in A
    BY <1>m, <2>1, Zenon
  <2>3. ASSUME NEW a \in A PROVE a \in {ml(i) : i \in 0..W - 1}
    <3>1. PICK x \in matches : a = x[1]
      OBVIOUS
    <3> QED BY <1>m, <3>1
  <2> QED BY <2>2, <2>3
<1>4. B \subseteq {i \in 0..W - 1 : ml(i) = longest}
  BY <1>m
<1>a. \A a \in A : \E i \in 0..W - 1 : <<ml(i), i>> \in matches /\ a = ml(i) /\ a = <<ml(i), i>>[1]
  BY <1>m, <1>3
<1>b. \A i \in 0..W - 1 : ml(i) = longest => i \in B
  <2> TAKE i \in 0..W - 1
  <2>1. <<ml(i), i>>[1] = ml(i) /\ <<ml(i), i>>[2] = i
    OBVIOUS
  <2>2. <<ml(i), i>> \in matches
    BY <1>m
  <2> DEFINE x == <<ml(i), i>>
  <2> HIDE DEF x
  <2> QED BY <2>1, <2>2 DEF x
<1> HIDE DEF A, B
<1>5. longest \in A
  BY <1>0, <1>1, <1>3, MaxIs
<1>6. last \in B
  <2>1. B \in SUBSET (0..(W - 1))
    BY <1>4
  <2>2. B # {}
    BY <1>a, <1>b, <1>5
  <2>3. W - 1 \in Nat
    BY <1>0
  <2> QED BY <2>1, <2>2, <2>3, MaxIs
<1> HIDE DEF longest, last
<1>7. last \in 0..W - 1 /\ ml(last) = longest
  BY <1>4, <1>6
<1> QED BY <1>1, <1>2, <1>7

LEMMA FillIs ==
  /\ Fill(EncoderFill) \in Seq(Byte) /\ Len(Fill(EncoderFill)) = WINDOW_SIZE
  /\ WINDOW_SIZE \in Nat /\ WINDOW_SIZE >= 1 /\ WINDOW_SIZE <= 1023
<1>1. WINDOW_SIZE \in Nat /\ WINDOW_SIZE >= 1 /\ WINDOW_SIZE <= 1023
  BY SizesAssumption
<1>2. 17 \in Byte
  BY DEF Byte
<1>3. Fill(EncoderFill) \in [1..WINDOW_SIZE -> Byte]
  BY <1>2 DEF Fill, EncoderFill
<1> QED BY <1>1, <1>3, AsSeq, Zenon

LEMMA EarlierIs ==
  ASSUME NEW input \in Seq(Byte), NEW pos \in 0..Len(input)
  PROVE  /\ Earlier(input, pos) \in Seq(Byte)
         /\ Len(Earlier(input, pos)) = WINDOW_SIZE + pos
         /\ \A i \in 1..WINDOW_SIZE + pos :
              Earlier(input, pos)[i] = IF i <= WINDOW_SIZE THEN Fill(EncoderFill)[i]
                                       ELSE input[i - WINDOW_SIZE]
<1> DEFINE F == Fill(EncoderFill)
           W == WINDOW_SIZE
           head == SubSeq(input, 1, pos)
<1>1. F \in Seq(Byte) /\ Len(F) = W /\ W \in Nat
  BY FillIs
<1>2. pos \in Nat /\ pos <= Len(input) /\ Len(input) \in Nat
  OBVIOUS
<1>3. head \in Seq(Byte) /\ Len(head) = pos /\ \A i \in 1..pos : head[i] = input[i]
  BY <1>2, SubSeqIs
<1> HIDE DEF F, W, head
<1>4. /\ F \o head \in Seq(Byte) /\ Len(F \o head) = Len(F) + Len(head)
      /\ \A i \in 1..Len(F) + Len(head) : (F \o head)[i] = IF i <= Len(F) THEN F[i] ELSE head[i - Len(F)]
  BY <1>1, <1>3, ConcatProperties, Zenon
<1>5. \A i \in 1..W + pos : ~(i <= W) => i - W \in 1..pos
  BY <1>1, <1>2
<1>6. \A i \in 1..W + pos : (F \o head)[i] = IF i <= W THEN F[i] ELSE input[i - W]
  BY <1>1, <1>3, <1>4, <1>5
<1>7. Earlier(input, pos) = F \o head
  BY DEF Earlier, F, head
<1> QED BY <1>1, <1>3, <1>4, <1>6, <1>7 DEF W, F

LEMMA NextItemIs ==
  ASSUME NEW input \in Seq(Byte), NEW pos \in 0..Len(input) - 1
  PROVE  SpellsAt(NextItem(input, pos), input, pos)
<1> DEFINE W == WINDOW_SIZE
           L == Len(input)
           history == Earlier(input, pos)
           e == LeastOf(pos + MAX_CODED, L)
           ahead == SubSeq(input, pos + 1, e)
           window == Window(history)
           m == find_match(window, ahead)
           o == m.offset
           l == m.length
           len == LeastOf(l, MAX_CODED - 1)
<1>1. W \in Nat /\ W >= 1 /\ W <= 1023 /\ MAX_CODED \in Nat /\ MAX_CODED >= 4 /\ MAX_CODED <= 64
      /\ L \in Nat /\ pos \in Nat /\ pos + 1 <= L
  BY SizesAssumption
<1>2. /\ history \in Seq(Byte) /\ Len(history) = W + pos
  BY EarlierIs, <1>1
<1>3. e \in Nat /\ e >= pos + 1 /\ e <= L
  BY <1>1, LeastIs
<1> HIDE DEF e
<1>4. ahead \in Seq(Byte) /\ Len(ahead) = e - pos
      /\ \A j \in 1..e - pos : ahead[j] = input[pos + j]
  BY <1>1, <1>3, SubSeqIs
<1>5. \A i \in 1..W : window[i] = history[pos + i]
  BY <1>1, <1>2, SubSeqIs DEF Window
<1> HIDE DEF history, ahead, window
<1>6. /\ o \in 0..W - 1 /\ l \in 0..Len(ahead) /\ l <= W - o
      /\ Matching(window, o, ahead, l)
  BY <1>4, FindMatchIs
<1>7. NextItem(input, pos) = IF l <= 2 THEN Literal(input[pos + 1]) ELSE Reference(W - o, len)
  BY DEF NextItem, MAX_UNCODED, history, ahead, window, e
<1> HIDE DEF W, L, m, o, l
<1>8. CASE l <= 2
  BY <1>1, <1>7, <1>8 DEF IsLiteral, L, SpellsAt
<1>9. CASE ~(l <= 2)
  <2> DEFINE dist == W - o
  <2>1. len \in Nat /\ len >= 1 /\ len <= l /\ len <= 63
    <3>1. l \in Nat /\ l >= 3
      BY <1>6, <1>9
    <3>2. l \in Int /\ MAX_CODED - 1 \in Int /\ MAX_CODED - 1 >= 3 /\ MAX_CODED - 1 <= 63
      BY <1>1, <3>1
    <3>3. len \in {l, MAX_CODED - 1} /\ len <= l /\ len <= MAX_CODED - 1
      BY <3>2, LeastIs
    <3> QED BY <3>1, <3>2, <3>3
  <2> HIDE DEF len
  <2>2. dist \in 1..W /\ len \in 1..dist /\ pos + len <= L
    BY <1>1, <1>3, <1>4, <1>6, <2>1
  <2>3. ASSUME NEW j \in 1..len PROVE history[W + pos - dist + j] = input[pos + j]
    <3>1. j \in 1..l /\ j \in 1..e - pos /\ o + j \in 1..W /\ W + pos - dist + j = pos + (o + j)
      BY <1>1, <1>3, <1>4, <1>6, <2>1
    <3>2. window[o + j] = ahead[j]
      BY <1>6, <3>1 DEF Matching
    <3>3. window[o + j] = history[pos + (o + j)]
      BY <1>5, <3>1
    <3>4. ahead[j] = input[pos + j]
      BY <1>4, <3>1
    <3> QED BY <3>1, <3>2, <3>3, <3>4
  <2>4. NextItem(input, pos) = Reference(dist, len)
    BY <1>7, <1>9
  <2>5. Refers(NextItem(input, pos), input, pos, dist, len)
    BY <2>1, <2>2, <2>3, <2>4 DEF Refers, W, L, history
  <2>6. IsReference(NextItem(input, pos), input, pos)
    <3>1. dist \in 1..WINDOW_SIZE
      BY <2>2 DEF W
    <3> HIDE DEF dist
    <3> QED BY <2>2, <2>5, <3>1 DEF IsReference
  <2> QED BY <2>6 DEF SpellsAt
<1> QED BY <1>8, <1>9

LEMMA LiteralIs ==
  ASSUME NEW byte \in Byte
  PROVE  Literal(byte) \in Item /\ Literal(byte).size = 1
BY DEF Literal, Item

LEMMA ReferenceIs ==
  ASSUME NEW dist \in 1..1023, NEW length \in 1..63
  PROVE  /\ Reference(dist, length) \in Item
         /\ (dist \div 256) + length * 4 \in Byte /\ dist % 256 \in Byte
         /\ ((dist \div 256) + length * 4) % 4 = dist \div 256
         /\ ((dist \div 256) + length * 4) \div 4 = length
         /\ (((dist \div 256) + length * 4) % 4) * 256 + (dist % 256) = dist
<1> DEFINE q == dist \div 256
           r == dist % 256
           b == q + length * 4
<1>1. q \in 0..3 /\ r \in 0..255 /\ q * 256 + r = dist
  OBVIOUS
<1> HIDE DEF q, r
<1>2. b \in 0..255 /\ b % 4 = q /\ b \div 4 = length
  BY <1>1
<1>3. b \in Byte /\ r \in Byte
  BY <1>1, <1>2 DEF Byte
<1>4. (b % 4) * 256 + r = dist
  BY <1>1, <1>2
<1>5. <<b, r>> \in Seq(Byte)
  BY <1>3
<1> HIDE DEF b
<1>6. [ref |-> TRUE, size |-> length, bytes |-> <<b, r>>] \in Item
  BY <1>5 DEF Item
<1> QED BY <1>2, <1>3, <1>4, <1>6 DEF Reference, b, q, r

\* An item is one, and stands for at least one byte of what is left.
LEMMA SpellsType ==
  ASSUME NEW input \in Seq(Byte), NEW pos \in 0..Len(input), NEW it, SpellsAt(it, input, pos)
  PROVE  it \in Item /\ it.size \in 1..Len(input) - pos
<1>0. pos \in Nat /\ Len(input) \in Nat
  OBVIOUS
<1>1. CASE IsLiteral(it, input, pos)
  BY <1>0, <1>1, SeqAs, LiteralIs DEF IsLiteral
<1>2. CASE IsReference(it, input, pos)
  <2>1. PICK dist \in 1..WINDOW_SIZE : \E length \in 1..dist : Refers(it, input, pos, dist, length)
    BY <1>2 DEF IsReference
  <2>2. PICK length \in 1..dist : Refers(it, input, pos, dist, length)
    BY <2>1
  <2>3. it = Reference(dist, length) /\ length <= 63 /\ pos + length <= Len(input)
    BY <2>2 DEF Refers
  <2>4. dist \in 1..1023 /\ length \in 1..63
    BY <2>3, FillIs
  <2>5. it \in Item
    BY <2>3, <2>4, ReferenceIs
  <2>6. it.size = length
    BY <2>3 DEF Reference
  <2> QED BY <1>0, <2>3, <2>4, <2>5, <2>6
<1> QED BY <1>1, <1>2 DEF SpellsAt

LEMMA SpelledMore ==
  ASSUME NEW input \in Seq(Byte), NEW items \in Seq(Item), NEW pos \in 0..Len(input),
         Spelled(items, input, pos), NEW it, SpellsAt(it, input, pos)
  PROVE  /\ Append(items, it) \in Seq(Item) /\ pos + it.size \in (pos + 1)..Len(input)
         /\ Spelled(Append(items, it), input, pos + it.size)
<1> DEFINE n == Len(items)
           more == Append(items, it)
<1>1. it \in Item /\ it.size \in 1..Len(input) - pos
  BY SpellsType
<1>2. /\ more \in Seq(Item) /\ Len(more) = n + 1 /\ n \in Nat
      /\ \A i \in 1..n + 1 : more[i] = IF i <= n THEN items[i] ELSE it
  BY <1>1, AppendIs
<1> HIDE DEF more
<1>3. PICK old : Spells(items, input, old) /\ old[n] = pos
  BY DEF Spelled
<1> DEFINE new == [k \in 0..n + 1 |-> IF k <= n THEN old[k] ELSE pos + it.size]
<1>4. pos + it.size \in (pos + 1)..Len(input) /\ pos + it.size \in 0..Len(input)
  BY <1>1
<1>5. /\ new = [k \in 0..n + 1 |-> new[k]] /\ \A k \in 0..n : new[k] = old[k]
      /\ new[n + 1] = pos + it.size
  BY <1>2
<1> HIDE DEF new
<1>6. \A k \in 0..n + 1 : new[k] \in 0..Len(input)
  <2> TAKE k \in 0..n + 1
  <2>1. CASE k <= n
    <3>1. k \in 0..n
      BY <1>2, <2>1
    <3> QED BY <1>3, <1>5, <3>1 DEF Spells
  <2>2. CASE ~(k <= n)
    BY <1>2, <1>4, <1>5, <2>2
  <2> QED BY <2>1, <2>2
<1>7. ASSUME NEW k \in 1..n + 1
      PROVE  /\ SpellsAt(more[k], input, new[k - 1])
             /\ new[k] = new[k - 1] + more[k].size
  <2>1. CASE k <= n
    <3>1. k \in 1..n /\ k \in 0..n /\ k - 1 \in 0..n
      BY <1>2, <2>1
    <3>2. more[k] = items[k]
      BY <1>2, <2>1
    <3>3. SpellsAt(items[k], input, old[k - 1]) /\ old[k] = old[k - 1] + items[k].size
      BY <1>3, <3>1 DEF Spells
    <3>4. new[k] = old[k] /\ new[k - 1] = old[k - 1]
      BY <1>5, <3>1
    <3> QED BY <3>2, <3>3, <3>4
  <2>2. CASE ~(k <= n)
    <3>1. k = n + 1 /\ k - 1 = n /\ n \in 0..n
      BY <1>2, <2>2
    <3>2. more[k] = it
      BY <1>2, <2>2
    <3>3. new[k - 1] = pos
      BY <1>3, <1>5, <3>1
    <3>4. new[k] = pos + it.size
      BY <1>5, <3>1
    <3> QED BY <3>2, <3>3, <3>4
  <2> QED BY <2>1, <2>2
<1>8. 0 \in 0..n /\ new[0] = 0
  BY <1>2, <1>3, <1>5 DEF Spells
<1>9. Spells(more, input, new) /\ new[Len(more)] = pos + it.size
  BY <1>2, <1>5, <1>6, <1>7, <1>8 DEF Spells
<1> QED BY <1>2, <1>4, <1>9 DEF Spelled, more

LEMMA NothingSpelled ==
  ASSUME NEW input \in Seq(Byte)
  PROVE  Spelled(<<>>, input, 0)
<1> DEFINE starts == [k \in 0..0 |-> 0]
<1>1. Len(<<>>) = 0 /\ 0 \in 0..Len(input)
  OBVIOUS
<1>2. starts = [k \in 0..0 |-> starts[k]] /\ starts[0] = 0 /\ \A k \in 0..0 : starts[k] \in 0..Len(input)
  BY <1>1
<1> HIDE DEF starts
<1>3. Spells(<<>>, input, starts)
  BY <1>1, <1>2 DEF Spells
<1> QED BY <1>1, <1>2, <1>3 DEF Spelled

LEMMA ItemsSpell ==
  ASSUME NEW input \in Seq(Byte)
  PROVE  Items(input) \in Seq(Item) /\ Spelled(Items(input), input, Len(input))
<1> DEFINE n == Len(input)
           pass(s) == IF s.pos < n
                      THEN [pos |-> s.pos + NextItem(input, s.pos).size,
                            items |-> Append(s.items, NextItem(input, s.pos))]
                      ELSE s
           Is(f) == f = [k \in 0..n |-> IF k = 0 THEN [pos |-> 0, items |-> <<>>] ELSE pass(f[k - 1])]
           start == [pos |-> 0, items |-> <<>>]
           Good(s, k) == /\ s.pos >= k \/ s.pos = n
                         /\ Spelled(s.items, input, s.pos)
           States == [pos : 0..n, items : Seq(Item)]
           S == [k \in 0..n |-> {s \in States : Good(s, k)}]
           step == [k \in 1..n |-> [s \in S[k - 1] |-> pass(s)]]
           g == CHOOSE f : Is(f)
<1>1. n \in Nat
  OBVIOUS
<1>2. Items(input) = g[n].items
  BY DEF Items, NextItem, Earlier, Literal, Reference
<1>3. start \in S[0]
  <2>1. start \in States
    BY <1>1
  <2>2. Good(start, 0)
    BY NothingSpelled
  <2> HIDE DEF States, Good
  <2> QED BY <1>1, <2>1, <2>2
<1>4. ASSUME NEW k \in 1..n, NEW s \in S[k - 1] PROVE pass(s) \in S[k]
  <2>1. k - 1 \in 0..n /\ k \in 0..n
    BY <1>1
  <2>2. s \in States /\ Good(s, k - 1)
    <3> HIDE DEF States, Good
    <3> QED BY <2>1
  <2>3. s.pos \in 0..n /\ s.items \in Seq(Item) /\ Spelled(s.items, input, s.pos)
        /\ (s.pos >= k - 1 \/ s.pos = n)
    BY <2>2
  <2>4. pass(s) \in States /\ Good(pass(s), k)
    <3>1. CASE s.pos < n
      <4> DEFINE it == NextItem(input, s.pos)
                 p == s.pos + it.size
                 more == Append(s.items, it)
      <4>1. s.pos \in 0..n - 1
        BY <1>1, <2>3, <3>1
      <4>2. SpellsAt(it, input, s.pos)
        BY <4>1, NextItemIs
      <4>3. more \in Seq(Item) /\ p \in (s.pos + 1)..n /\ Spelled(more, input, p)
        BY <2>3, <4>2, SpelledMore
      <4>4. pass(s) = [pos |-> p, items |-> more]
        BY <3>1
      <4> HIDE DEF it, p, more, pass
      <4>5. p \in 0..n /\ p >= k
        BY <1>1, <2>1, <2>3, <3>1, <4>3
      <4>6. [pos |-> p, items |-> more] \in States
        BY <4>3, <4>5
      <4>7. [pos |-> p, items |-> more].pos = p /\ [pos |-> p, items |-> more].items = more
        OBVIOUS
      <4>8. Good([pos |-> p, items |-> more], k)
        BY <4>3, <4>5, <4>7, Zenon
      <4> HIDE DEF States, Good
      <4> QED BY <4>4, <4>6, <4>8, Zenon
    <3>2. CASE ~(s.pos < n)
      <4>1. s.pos = n
        BY <1>1, <2>3, <3>2
      <4>2. Good(s, k)
        BY <2>3, <4>1, Zenon
      <4>3. pass(s) = s
        BY <3>2
      <4> HIDE DEF States, Good, pass
      <4> QED BY <2>2, <4>2, <4>3
    <3> QED BY <3>1, <3>2
  <2> HIDE DEF States, Good, pass
  <2> QED BY <2>1, <2>4
<1> HIDE DEF pass
<1>5. \A k \in 1..n : \A s \in S[k - 1] : step[k][s] = pass(s) /\ step[k][s] \in S[k]
  BY <1>4
<1>6. \A s \in S[n] : s \in States /\ Good(s, n)
  <2> HIDE DEF States, Good
  <2> QED BY <1>1
<1> HIDE DEF S, step, g
<1>7. Steps(n, S, step)
  BY <1>5 DEF Steps
<1>8. PICK f : Runs(f, n, S, start, step)
  BY <1>1, <1>3, <1>7, RunExists, Zenon
<1>9. Is(f)
  <2>1. f = [k \in 0..n |-> f[k]] /\ f[0] = start
    BY <1>8 DEF Runs
  <2>2. \A k \in 1..n : f[k] = pass(f[k - 1])
    BY <1>5, <1>8 DEF Runs
  <2>3. \A k \in 0..n : f[k] = IF k = 0 THEN [pos |-> 0, items |-> <<>>] ELSE pass(f[k - 1])
    <3> TAKE k \in 0..n
    <3>1. CASE k = 0
      BY <2>1, <3>1
    <3>2. CASE k # 0
      BY <1>1, <2>2, <3>2
    <3> QED BY <3>1, <3>2
  <2> QED BY <2>1, <2>3
<1>10. Is(g)
  <2> HIDE DEF Is
  <2> QED BY <1>9 DEF g
<1>11. g[0] = start /\ \A k \in 1..n : g[k] = pass(g[k - 1])
  BY <1>1, <1>10
<1>12. g = [k \in 0..n |-> g[k]]
  BY <1>10
<1>13. Runs(g, n, S, start, step)
  BY <1>1, <1>3, <1>5, <1>7, <1>11, <1>12, RunFollowed
<1>14. g[n] \in S[n]
  BY <1>1, <1>13 DEF Runs
<1>15. g[n] \in States /\ Good(g[n], n)
  BY <1>6, <1>14
<1>16. g[n].pos \in 0..n /\ g[n].items \in Seq(Item)
       /\ (g[n].pos >= n \/ g[n].pos = n) /\ Spelled(g[n].items, input, g[n].pos)
  BY <1>15
<1>17. g[n].pos = n
  BY <1>1, <1>16
<1> QED BY <1>2, <1>16, <1>17 DEF n

LEMMA BitIs ==
  ASSUME NEW a, NEW x, BitsOf(a, x), NEW q \in 1..8
  PROVE  (a \div PlaceValue[q]) % 2 = x[q]
<1>0. x \in [1..8 -> 0..1]
      /\ a = x[1] + 2 * x[2] + 4 * x[3] + 8 * x[4] + 16 * x[5] + 32 * x[6] + 64 * x[7] + 128 * x[8]
  BY DEF BitsOf
<1>t. /\ x[1] \in 0..1 /\ x[2] \in 0..1 /\ x[3] \in 0..1 /\ x[4] \in 0..1
      /\ x[5] \in 0..1 /\ x[6] \in 0..1 /\ x[7] \in 0..1 /\ x[8] \in 0..1
  BY <1>0
<1>p. /\ PlaceValue[1] = 1 /\ PlaceValue[2] = 2 /\ PlaceValue[3] = 4 /\ PlaceValue[4] = 8
      /\ PlaceValue[5] = 16 /\ PlaceValue[6] = 32 /\ PlaceValue[7] = 64 /\ PlaceValue[8] = 128
  BY DEF PlaceValue
<1>q. /\ a \div 1 = x[1] + 2 * x[2] + 4 * x[3] + 8 * x[4] + 16 * x[5] + 32 * x[6] + 64 * x[7] + 128 * x[8]
      /\ a \div 2 = x[2] + 2 * x[3] + 4 * x[4] + 8 * x[5] + 16 * x[6] + 32 * x[7] + 64 * x[8]
      /\ a \div 4 = x[3] + 2 * x[4] + 4 * x[5] + 8 * x[6] + 16 * x[7] + 32 * x[8]
      /\ a \div 8 = x[4] + 2 * x[5] + 4 * x[6] + 8 * x[7] + 16 * x[8]
      /\ a \div 16 = x[5] + 2 * x[6] + 4 * x[7] + 8 * x[8]
      /\ a \div 32 = x[6] + 2 * x[7] + 4 * x[8]
      /\ a \div 64 = x[7] + 2 * x[8]
      /\ a \div 128 = x[8]
  BY Quotients
<1>1. (a \div 1) % 2 = x[1]
  <2> DEFINE u == a \div 2
  <2>1. a \div 1 = x[1] + 2 * u /\ u \in Nat
    <3>1. a \div 1 = x[1] + 2 * x[2] + 4 * x[3] + 8 * x[4] + 16 * x[5] + 32 * x[6] + 64 * x[7] + 128 * x[8]
      BY <1>q, Zenon
    <3>2. u = x[2] + 2 * x[3] + 4 * x[4] + 8 * x[5] + 16 * x[6] + 32 * x[7] + 64 * x[8]
      BY <1>q, Zenon
    <3>3. u \in Nat
      BY <3>2, <1>t
    <3> HIDE DEF u
    <3> QED BY <1>0, <3>1, <3>2, <3>3, Halved, Zenon
  <2> HIDE DEF u
  <2> QED BY <2>1, <1>t
<1>2. (a \div 2) % 2 = x[2]
  BY <1>q, <1>t
<1>3. (a \div 4) % 2 = x[3]
  BY <1>q, <1>t
<1>4. (a \div 8) % 2 = x[4]
  BY <1>q, <1>t
<1>5. (a \div 16) % 2 = x[5]
  BY <1>q, <1>t
<1>6. (a \div 32) % 2 = x[6]
  BY <1>q, <1>t
<1>7. (a \div 64) % 2 = x[7]
  BY <1>q, <1>t
<1>8. (a \div 128) % 2 = x[8]
  BY <1>q, <1>t
<1>9. q = 1 \/ q = 2 \/ q = 3 \/ q = 4 \/ q = 5 \/ q = 6 \/ q = 7 \/ q = 8
  OBVIOUS
<1> QED BY <1>p, <1>1, <1>2, <1>3, <1>4, <1>5, <1>6, <1>7, <1>8, <1>9, Zenon

LEMMA EightBits ==
  ASSUME NEW x \in [1..8 -> 0..1]
  PROVE  /\ 128 * x[8] + 64 * x[7] + 32 * x[6] + 16 * x[5] + 8 * x[4] + 4 * x[3] + 2 * x[2] + x[1]
            = x[1] + 2 * x[2] + 4 * x[3] + 8 * x[4] + 16 * x[5] + 32 * x[6] + 64 * x[7] + 128 * x[8]
         /\ x[1] + 2 * x[2] + 4 * x[3] + 8 * x[4] + 16 * x[5] + 32 * x[6] + 64 * x[7] + 128 * x[8] \in 0..255
<1>1. /\ x[1] \in 0..1 /\ x[2] \in 0..1 /\ x[3] \in 0..1 /\ x[4] \in 0..1
      /\ x[5] \in 0..1 /\ x[6] \in 0..1 /\ x[7] \in 0..1 /\ x[8] \in 0..1
  OBVIOUS
<1> DEFINE a == x[1]
           b == x[2]
           c == x[3]
           d == x[4]
           e == x[5]
           f == x[6]
           g == x[7]
           h == x[8]
<1> HIDE DEF a, b, c, d, e, f, g, h
<1>2. /\ a \in 0..1 /\ b \in 0..1 /\ c \in 0..1 /\ d \in 0..1
      /\ e \in 0..1 /\ f \in 0..1 /\ g \in 0..1 /\ h \in 0..1
  BY <1>1 DEF a, b, c, d, e, f, g, h
<1>3. 128 * h + 64 * g + 32 * f + 16 * e + 8 * d + 4 * c + 2 * b + a
      = a + 2 * b + 4 * c + 8 * d + 16 * e + 32 * f + 64 * g + 128 * h
  BY <1>2
<1>4. a + 2 * b + 4 * c + 8 * d + 16 * e + 32 * f + 64 * g + 128 * h \in 0..255
  BY <1>2
<1> QED BY <1>3, <1>4 DEF a, b, c, d, e, f, g, h

LEMMA FlagsAre ==
  ASSUME NEW items \in Seq(Item), NEW k \in Nat \ {0}
  PROVE  /\ Flags(items, k) \in Byte
         /\ \A i \in 0..7 : (Flags(items, k) \div PlaceValue[8 - i]) % 2 = 1 <=> RefAt(items, k, i)
<1> DEFINE bit(i) == IF RefAt(items, k, i) THEN 1 ELSE 0
           x == [q \in 1..8 |-> bit(8 - q)]
           s == [j \in 1..8 |-> IF k + j - 1 <= Len(items) /\ items[k + j - 1].ref
                                THEN PlaceValue[9 - j] ELSE 0]
           c == [j \in 1..8 |-> PlaceValue[9 - j] * bit(j - 1)]
<1>b. \A i : bit(i) \in 0..1 /\ (bit(i) = 1 <=> RefAt(items, k, i))
  OBVIOUS
<1>p. /\ PlaceValue[1] = 1 /\ PlaceValue[2] = 2 /\ PlaceValue[3] = 4 /\ PlaceValue[4] = 8
      /\ PlaceValue[5] = 16 /\ PlaceValue[6] = 32 /\ PlaceValue[7] = 64 /\ PlaceValue[8] = 128
      /\ \A q \in 1..8 : PlaceValue[q] \in Nat
  BY DEF PlaceValue
<1>s. s = c
  <2>1. ASSUME NEW j \in 1..8
        PROVE  (IF k + j - 1 <= Len(items) /\ items[k + j - 1].ref THEN PlaceValue[9 - j] ELSE 0)
               = PlaceValue[9 - j] * bit(j - 1)
    <3>1. k + (j - 1) = k + j - 1 /\ 9 - j \in 1..8
      OBVIOUS
    <3>2. PlaceValue[9 - j] \in Nat
      BY <1>p, <3>1
    <3> DEFINE v == PlaceValue[9 - j]
               A == k + j - 1 <= Len(items) /\ items[k + j - 1].ref
    <3>3. A <=> RefAt(items, k, j - 1)
      BY <3>1, Zenon DEF RefAt
    <3> HIDE DEF v, A
    <3>4. CASE A
      <4>1. bit(j - 1) = 1
        BY <3>3, <3>4, Zenon
      <4>2. v * 1 = v
        BY <3>2 DEF v
      <4> HIDE DEF bit
      <4>3. v * bit(j - 1) = v
        BY <4>1, <4>2
      <4> QED BY <3>4, <4>3, Zenon DEF A, v
    <3>5. CASE ~A
      <4>1. bit(j - 1) = 0
        BY <3>3, <3>5, Zenon
      <4>2. v * 0 = 0
        BY <3>2 DEF v
      <4> HIDE DEF bit
      <4>3. v * bit(j - 1) = 0
        BY <4>1, <4>2
      <4> QED BY <3>5, <4>3, Zenon DEF A, v
    <3> QED BY <3>4, <3>5
  <2> HIDE DEF bit
  <2> QED BY <2>1, Zenon
<1>f. Flags(items, k) = SumOf(s)
  BY DEF Flags
<1> HIDE DEF s, bit
<1>x. x \in [1..8 -> 0..1] /\ \A q \in 1..8 : x[q] = bit(8 - q)
  BY <1>b
<1> HIDE DEF x
<1>1. /\ c[1] = 128 * x[8] /\ c[2] = 64 * x[7] /\ c[3] = 32 * x[6] /\ c[4] = 16 * x[5]
      /\ c[5] = 8 * x[4] /\ c[6] = 4 * x[3] /\ c[7] = 2 * x[2] /\ c[8] = x[1]
  <2>1. /\ x[8] = bit(0) /\ x[7] = bit(1) /\ x[6] = bit(2) /\ x[5] = bit(3)
        /\ x[4] = bit(4) /\ x[3] = bit(5) /\ x[2] = bit(6) /\ x[1] = bit(7)
    BY <1>x
  <2>2. /\ c[1] = PlaceValue[8] * bit(0) /\ c[2] = PlaceValue[7] * bit(1)
        /\ c[3] = PlaceValue[6] * bit(2) /\ c[4] = PlaceValue[5] * bit(3)
        /\ c[5] = PlaceValue[4] * bit(4) /\ c[6] = PlaceValue[3] * bit(5)
        /\ c[7] = PlaceValue[2] * bit(6) /\ c[8] = PlaceValue[1] * bit(7)
    OBVIOUS
  <2>3. bit(7) \in 0..1
    BY <1>b
  <2> HIDE DEF c
  <2>4. PlaceValue[1] * bit(7) = bit(7)
    BY <1>p, <2>3
  <2> QED BY <1>p, <2>1, <2>2, <2>4
<1>d. c = [j \in 1..8 |-> c[j]]
  OBVIOUS
<1> HIDE DEF c
<1>t. /\ x[1] \in 0..1 /\ x[2] \in 0..1 /\ x[3] \in 0..1 /\ x[4] \in 0..1
      /\ x[5] \in 0..1 /\ x[6] \in 0..1 /\ x[7] \in 0..1 /\ x[8] \in 0..1
  BY <1>x
<1>2. c \in [1..8 -> Nat]
  <2>1. \A j \in 1..8 : c[j] \in Nat
    BY <1>1, <1>t
  <2> QED BY <1>d, <2>1
<1>3. SumOf(c) = x[1] + 2 * x[2] + 4 * x[3] + 8 * x[4] + 16 * x[5] + 32 * x[6] + 64 * x[7] + 128 * x[8]
  <2>1. SumOf(c) = c[1] + c[2] + c[3] + c[4] + c[5] + c[6] + c[7] + c[8]
    BY <1>2, SumOf8
  <2> DEFINE r == SumOf(c)
  <2> HIDE DEF r
  <2>2. r = 128 * x[8] + 64 * x[7] + 32 * x[6] + 16 * x[5] + 8 * x[4] + 4 * x[3] + 2 * x[2] + x[1]
    BY <1>1, <2>1, Zenon DEF r
  <2>3. r = x[1] + 2 * x[2] + 4 * x[3] + 8 * x[4] + 16 * x[5] + 32 * x[6] + 64 * x[7] + 128 * x[8]
    BY <1>x, <2>2, EightBits
  <2> QED BY <2>3 DEF r
<1>4. BitsOf(SumOf(c), x)
  BY <1>3, <1>x DEF BitsOf
<1>5. SumOf(c) \in Byte
  <2> DEFINE r == SumOf(c)
  <2> HIDE DEF r
  <2>1. r = x[1] + 2 * x[2] + 4 * x[3] + 8 * x[4] + 16 * x[5] + 32 * x[6] + 64 * x[7] + 128 * x[8]
    BY <1>3 DEF r
  <2>2. r \in 0..255
    BY <1>x, <2>1, EightBits
  <2> QED BY <2>2 DEF r, Byte
<1>6. \A i \in 0..7 : (SumOf(c) \div PlaceValue[8 - i]) % 2 = bit(i)
  <2> TAKE i \in 0..7
  <2>1. 8 - i \in 1..8 /\ 8 - (8 - i) = i
    OBVIOUS
  <2>2. (SumOf(c) \div PlaceValue[8 - i]) % 2 = x[8 - i]
    BY <1>4, <2>1, BitIs, Zenon
  <2>3. x[8 - i] = bit(8 - (8 - i))
    BY <1>x, <2>1, Zenon
  <2> QED BY <2>1, <2>2, <2>3, Zenon
<1>7. Flags(items, k) = SumOf(c)
  BY <1>f, <1>s, Zenon
<1>8. \A i \in 0..7 : (SumOf(c) \div PlaceValue[8 - i]) % 2 = 1 <=> RefAt(items, k, i)
  BY <1>6, <1>b, Zenon
<1> QED BY <1>5, <1>7, <1>8, Zenon

LEMMA ItemIs ==
  ASSUME NEW items \in Seq(Item), NEW k \in 1..Len(items)
  PROVE  items[k] \in Item /\ items[k].bytes \in Seq(Byte)
<1>1. items[k] \in Item
  OBVIOUS
<1> QED BY <1>1 DEF Item

LEMMA FlagByteType ==
  ASSUME NEW items \in Seq(Item), NEW k \in Nat \ {0}
  PROVE  FlagByte(items, k) \in Seq(Byte)
<1>1. Flags(items, k) \in Byte
  BY FlagsAre
<1> DEFINE v == Flags(items, k)
<1> HIDE DEF v
<1>2. <<v>> \in Seq(Byte) /\ <<>> \in Seq(Byte)
  BY <1>1 DEF v
<1> QED BY <1>2 DEF FlagByte, v

LEMMA StreamIs ==
  ASSUME NEW items \in Seq(Item)
  PROVE  \E f : StreamBy(f, items) /\ Stream(items) = f[Len(items)]
<1> DEFINE n == Len(items)
           next(k, x) == x \o FlagByte(items, k) \o items[k].bytes
           Is(f) == f = [k \in 0..n |-> IF k = 0 THEN <<>> ELSE next(k, f[k - 1])]
           step == [k \in 1..n |-> [x \in Seq(Byte) |-> next(k, x)]]
           g == CHOOSE h : Is(h)
<1>1. n \in Nat /\ <<>> \in Seq(Byte)
  OBVIOUS
<1>2. \A k \in 1..n : items[k].bytes \in Seq(Byte)
  BY ItemIs
<1>3. \A k \in 1..n : FlagByte(items, k) \in Seq(Byte)
  BY <1>1, FlagByteType
<1>4. \A k \in 1..n, x \in Seq(Byte) : next(k, x) \in Seq(Byte)
  <2> TAKE k \in 1..n, x \in Seq(Byte)
  <2>1. x \o FlagByte(items, k) \in Seq(Byte)
    BY <1>3, ConcatProperties
  <2> QED BY <1>2, <2>1, ConcatProperties
<1>s. Stream(items) = g[n]
  BY DEF Stream, FlagByte
<1> HIDE DEF next
<1>5. step \in [1..n -> [Seq(Byte) -> Seq(Byte)]]
      /\ \A k \in 1..n, x \in Seq(Byte) : step[k][x] = next(k, x)
  BY <1>4
<1> HIDE DEF step, n, g
<1>6. PICK f : Solves(f, n, n, Seq(Byte), <<>>, step)
  BY <1>1, <1>5, Recursion, Zenon
<1>7. Is(f)
  <2>1. f = [k \in 0..n |-> f[k]] /\ f[0] = <<>> /\ \A k \in 0..n : f[k] \in Seq(Byte)
    BY <1>6 DEF Solves
  <2>2. \A k \in 1..n : k - 1 \in 0..n
    BY <1>1
  <2>3. \A k \in 1..n : f[k] = next(k, f[k - 1])
    BY <1>5, <1>6, <2>1, <2>2 DEF Solves
  <2>4. \A k \in 0..n : f[k] = IF k = 0 THEN <<>> ELSE next(k, f[k - 1])
    <3> TAKE k \in 0..n
    <3>1. CASE k = 0
      BY <2>1, <3>1
    <3>2. CASE k # 0
      BY <1>1, <2>3, <3>2
    <3> QED BY <3>1, <3>2
  <2> QED BY <2>1, <2>4
<1>8. Is(g)
  <2> HIDE DEF Is
  <2> QED BY <1>7 DEF g
<1>9. g = [k \in 0..n |-> g[k]] /\ g[0] = <<>> /\ \A k \in 1..n : g[k] = next(k, g[k - 1])
  <2>1. /\ g = [k \in 0..n |-> IF k = 0 THEN <<>> ELSE next(k, g[k - 1])]
        /\ 0 \in 0..n /\ \A k \in 1..n : k \in 0..n /\ k # 0
    BY <1>1, <1>8
  <2>2. g = [k \in 0..n |-> g[k]] /\ g[0] = <<>>
    BY <2>1
  <2>3. \A k \in 0..n : g[k] = IF k = 0 THEN <<>> ELSE next(k, g[k - 1])
    BY <2>1, Zenon
  <2>4. \A k \in 1..n : g[k] = next(k, g[k - 1])
    BY <2>1, <2>3, Zenon
  <2> QED BY <2>2, <2>4
<1>10. \A k \in 0..n : g[k] \in Seq(Byte)
  <2> DEFINE T == {k \in 0..n : g[k] \in Seq(Byte)}
  <2>1. 0 \in T
    BY <1>1, <1>9
  <2>2. ASSUME NEW k \in 1..n, k - 1 \in T PROVE k \in T
    <3>1. g[k - 1] \in Seq(Byte) /\ k \in 0..n
      BY <1>1, <2>2
    <3>2. next(k, g[k - 1]) \in Seq(Byte)
      BY <1>4, <3>1, Zenon
    <3> QED BY <1>9, <3>1, <3>2
  <2>3. 0..n \subseteq T
    <3> HIDE DEF T
    <3> QED BY <1>1, <2>1, <2>2, Stepwise
  <2> QED BY <2>3
<1>11. StreamBy(g, items)
  BY <1>9, <1>10 DEF StreamBy, n, next
<1> QED BY <1>s, <1>11 DEF n

LEMMA HeadsOn ==
  ASSUME NEW s, NEW t, NEW u, Len(s) \in Nat, Len(t) \in Nat, Len(u) \in Nat,
         Heads(s, t), Heads(t, u)
  PROVE  Heads(s, u)
BY DEF Heads

LEMMA HeadsConcat ==
  ASSUME NEW S, NEW s \in Seq(S), NEW t \in Seq(S)
  PROVE  Heads(s, s \o t)
<1>1. /\ Len(s \o t) = Len(s) + Len(t) /\ Len(s) \in Nat /\ Len(t) \in Nat
      /\ \A i \in 1..Len(s) + Len(t) : (s \o t)[i] = IF i <= Len(s) THEN s[i] ELSE t[i - Len(s)]
  BY ConcatProperties
<1> QED BY <1>1 DEF Heads

\* How the k-th item is put behind the ones before it.
LEMMA StreamStep ==
  ASSUME NEW items \in Seq(Item), NEW f, StreamBy(f, items), NEW k \in 1..Len(items)
  PROVE  LET b == items[k].bytes
             p == Len(f[k - 1])
             r == IF k % 8 = 1 THEN 1 ELSE 0
         IN  /\ p \in Nat /\ Len(f[k]) = p + r + Len(b)
             /\ Heads(f[k - 1], f[k])
             /\ k % 8 = 1 => f[k][p + 1] = Flags(items, k)
             /\ \A i \in 1..Len(b) : f[k][p + r + i] = b[i]
<1> DEFINE b == items[k].bytes
           h == f[k - 1]
           p == Len(h)
           r == IF k % 8 = 1 THEN 1 ELSE 0
           fl == FlagByte(items, k)
           m == h \o fl
<1>0. k - 1 \in 0..Len(items) /\ k \in Nat \ {0}
  OBVIOUS
<1>1. h \in Seq(Byte) /\ f[k] = m \o b
  BY <1>0 DEF StreamBy
<1>2. b \in Seq(Byte)
  BY ItemIs
<1>3. fl \in Seq(Byte) /\ Len(fl) = r /\ (k % 8 = 1 => fl[1] = Flags(items, k))
  <2>1. fl \in Seq(Byte)
    BY <1>0, FlagByteType
  <2>2. Len(fl) = r
    BY DEF FlagByte
  <2>3. k % 8 = 1 => fl[1] = Flags(items, k)
    BY DEF FlagByte
  <2> QED BY <2>1, <2>2, <2>3
<1>4. p \in Nat /\ r \in Nat /\ Len(b) \in Nat
  BY <1>1, <1>2
<1> HIDE DEF b, fl
<1>5. /\ m \in Seq(Byte) /\ Len(m) = p + r
      /\ \A i \in 1..p + r : m[i] = IF i <= p THEN h[i] ELSE fl[i - p]
  <2>1. /\ m \in Seq(Byte) /\ Len(m) = Len(h) + Len(fl)
        /\ \A i \in 1..Len(h) + Len(fl) : m[i] = IF i <= Len(h) THEN h[i] ELSE fl[i - Len(h)]
    BY <1>1, <1>3, ConcatProperties, Zenon
  <2> HIDE DEF m, r
  <2> QED BY <1>3, <2>1
<1> HIDE DEF m, p
<1>6. /\ Len(f[k]) = Len(m) + Len(b)
      /\ \A i \in 1..Len(m) + Len(b) : f[k][i] = IF i <= Len(m) THEN m[i] ELSE b[i - Len(m)]
  <2>1. /\ Len(m \o b) = Len(m) + Len(b)
        /\ \A i \in 1..Len(m) + Len(b) : (m \o b)[i] = IF i <= Len(m) THEN m[i] ELSE b[i - Len(m)]
    BY <1>2, <1>5, ConcatProperties, Zenon
  <2> QED BY <1>1, <2>1, Zenon
<1>7. Len(f[k]) = p + r + Len(b)
  BY <1>5, <1>6
<1>8. Heads(h, f[k])
  <2>1. Heads(h, m)
    BY <1>1, <1>3, HeadsConcat, Zenon DEF m
  <2>2. Heads(m, f[k])
    BY <1>1, <1>2, <1>5, HeadsConcat
  <2>3. Len(h) \in Nat /\ Len(m) \in Nat /\ Len(f[k]) \in Nat
    BY <1>1, <1>4, <1>5, <1>7
  <2> QED BY <2>1, <2>2, <2>3, HeadsOn, Zenon
<1>9. ASSUME k % 8 = 1 PROVE f[k][p + 1] = Flags(items, k)
  <2>1. r = 1
    BY <1>9
  <2> HIDE DEF r
  <2>2. p + 1 \in 1..p + r /\ p + 1 \in 1..Len(m) + Len(b) /\ p + 1 <= Len(m) /\ ~(p + 1 <= p) /\ (p + 1) - p = 1
    BY <1>4, <1>5, <2>1
  <2>3. f[k][p + 1] = m[p + 1]
    BY <1>6, <2>2, Zenon
  <2>4. m[p + 1] = fl[1]
    BY <1>5, <2>2
  <2> QED BY <1>3, <1>9, <2>3, <2>4, Zenon
<1>10. ASSUME NEW i \in 1..Len(b) PROVE f[k][p + r + i] = b[i]
  <2> HIDE DEF r
  <2>1. p + r + i \in 1..Len(m) + Len(b) /\ ~(p + r + i <= Len(m)) /\ (p + r + i) - Len(m) = i
    BY <1>4, <1>5
  <2> QED BY <1>6, <2>1
<1> QED BY <1>4, <1>7, <1>8, <1>9, <1>10 DEF b, p, r

LEMMA StreamHeads ==
  ASSUME NEW items \in Seq(Item), NEW f, StreamBy(f, items), NEW k \in 0..Len(items)
  PROVE  Heads(f[k], f[Len(items)])
<1> DEFINE n == Len(items)
           T == {j \in 0..n : j < k \/ Heads(f[k], f[j])}
<1>0. n \in Nat /\ \A j \in 0..n : Len(f[j]) \in Nat
  BY DEF StreamBy
<1>1. 0 \in T
  BY <1>0 DEF Heads
<1>2. ASSUME NEW j \in 1..n, j - 1 \in T PROVE j \in T
  <2>1. CASE j < k
    BY <2>1
  <2>2. CASE j = k
    BY <1>0, <2>2 DEF Heads
  <2>3. CASE j > k
    <3>1. Heads(f[k], f[j - 1]) /\ j \in 0..n /\ j - 1 \in 0..n
      BY <1>2, <2>3
    <3>2. Heads(f[j - 1], f[j])
      BY StreamStep
    <3>3. Heads(f[k], f[j])
      BY <1>0, <3>1, <3>2, HeadsOn
    <3> QED BY <3>1, <3>3
  <2> QED BY <2>1, <2>2, <2>3
<1>3. n \in T
  <2> HIDE DEF T
  <2>1. 0..n \subseteq T
    BY <1>0, <1>1, <1>2, Stepwise
  <2> QED BY <1>0, <2>1
<1> QED BY <1>0, <1>3

LEMMA EarlierLiteral ==
  ASSUME NEW input \in Seq(Byte), NEW pos \in 0..Len(input) - 1
  PROVE  Append(Earlier(input, pos), input[pos + 1]) = Earlier(input, pos + 1)
<1> DEFINE W == WINDOW_SIZE
           h == Earlier(input, pos)
           t == Earlier(input, pos + 1)
           e == input[pos + 1]
<1>1. W \in Nat /\ pos \in Nat /\ pos \in 0..Len(input) /\ pos + 1 \in 0..Len(input) /\ pos + 1 \in 1..Len(input)
  BY FillIs
<1>2. e \in Byte
  BY <1>1
<1>3. /\ h \in Seq(Byte) /\ Len(h) = W + pos
      /\ \A i \in 1..W + pos : h[i] = IF i <= W THEN Fill(EncoderFill)[i] ELSE input[i - W]
  BY <1>1, EarlierIs, Zenon
<1>4. /\ t \in Seq(Byte) /\ Len(t) = W + (pos + 1)
      /\ \A i \in 1..W + (pos + 1) : t[i] = IF i <= W THEN Fill(EncoderFill)[i] ELSE input[i - W]
  BY <1>1, EarlierIs, Zenon
<1> HIDE DEF W, h, t
<1>5. /\ Append(h, e) \in Seq(Byte) /\ Len(Append(h, e)) = Len(h) + 1
      /\ \A i \in 1..(Len(h) + 1) : Append(h, e)[i] = IF i <= Len(h) THEN h[i] ELSE e
  BY <1>2, <1>3, AppendIs, Zenon
<1>6. Len(h) + 1 = W + (pos + 1)
  BY <1>1, <1>3
<1>7. ASSUME NEW i \in 1..W + (pos + 1) PROVE Append(h, e)[i] = t[i]
  <2>1. CASE i <= W + pos
    <3>1. i \in 1..W + pos
      BY <1>1, <2>1
    <3>2. Append(h, e)[i] = h[i]
      BY <1>3, <1>5, <1>6, <2>1
    <3> QED BY <1>3, <1>4, <3>1, <3>2
  <2>2. CASE ~(i <= W + pos)
    BY <1>1, <1>3, <1>4, <1>5, <1>6, <2>2
  <2> QED BY <2>1, <2>2
<1>8. Append(h, e) = t
  BY <1>4, <1>5, <1>6, <1>7, SameSeq
<1> QED BY <1>8 DEF h, t

LEMMA EarlierReference ==
  ASSUME NEW input \in Seq(Byte), NEW pos \in 0..Len(input), NEW dist \in 1..WINDOW_SIZE,
         NEW length \in 1..dist, NEW it, Refers(it, input, pos, dist, length)
  PROVE  Copied(Earlier(input, pos), dist, length) = Earlier(input, pos + length)
<1> DEFINE W == WINDOW_SIZE
           h == Earlier(input, pos)
           t == Earlier(input, pos + length)
           part == SubSeq(h, Len(h) - dist + 1, Len(h) - dist + length)
<1>0. W \in Nat /\ pos \in Nat /\ Len(input) \in Nat /\ dist \in Nat /\ dist >= 1 /\ dist <= W
      /\ length \in Nat /\ length >= 1 /\ length <= dist
  BY FillIs
<1>1. /\ pos + length <= Len(input)
      /\ \A j \in 1..length : h[W + pos - dist + j] = input[pos + j]
  BY DEF Refers
<1>2. pos + length \in 0..Len(input)
  BY <1>0, <1>1
<1>3. /\ h \in Seq(Byte) /\ Len(h) = W + pos
      /\ \A i \in 1..W + pos : h[i] = IF i <= W THEN Fill(EncoderFill)[i] ELSE input[i - W]
  BY EarlierIs, Zenon
<1>4. /\ t \in Seq(Byte) /\ Len(t) = W + (pos + length)
      /\ \A i \in 1..W + (pos + length) : t[i] = IF i <= W THEN Fill(EncoderFill)[i] ELSE input[i - W]
  BY <1>2, EarlierIs, Zenon
<1>5. Copied(h, dist, length) = h \o part
  <2>1. dist \in 1..Len(h) /\ length \in 0..dist
    BY <1>0, <1>3
  <2> HIDE DEF h
  <2> QED BY <1>3, <2>1, CopiedIs, Zenon
<1> HIDE DEF W, h, t
<1>6. /\ part \in Seq(Byte) /\ Len(part) = length
      /\ \A j \in 1..length : part[j] = h[W + pos - dist + j]
  <2> DEFINE a == Len(h) - dist + 1
             b == Len(h) - dist + length
  <2>1. a \in Int /\ b \in Int /\ a >= 1 /\ b <= Len(h) /\ b - a + 1 >= 0 /\ b - a + 1 = length
        /\ \A j \in 1..length : a + j - 1 = W + pos - dist + j
    BY <1>0, <1>3
  <2> HIDE DEF a, b
  <2>2. /\ SubSeq(h, a, b) \in Seq(Byte) /\ Len(SubSeq(h, a, b)) = b - a + 1
        /\ \A i \in 1..(b - a + 1) : SubSeq(h, a, b)[i] = h[a + i - 1]
    BY <1>3, <2>1, SubSeqIs
  <2>3. part = SubSeq(h, a, b)
    BY DEF a, b
  <2> HIDE DEF part
  <2> QED BY <2>1, <2>2, <2>3
<1> HIDE DEF part
<1>7. /\ h \o part \in Seq(Byte) /\ Len(h \o part) = Len(h) + Len(part)
      /\ \A i \in 1..Len(h) + Len(part) : (h \o part)[i] = IF i <= Len(h) THEN h[i] ELSE part[i - Len(h)]
  BY <1>3, <1>6, ConcatProperties, Zenon
<1>8. Len(h) + Len(part) = W + (pos + length)
  BY <1>0, <1>3, <1>6
<1>9. ASSUME NEW i \in 1..W + (pos + length) PROVE (h \o part)[i] = t[i]
  <2>1. CASE i <= W + pos
    <3>1. i \in 1..W + pos
      BY <1>0, <2>1
    <3>2. (h \o part)[i] = h[i]
      BY <1>3, <1>7, <1>8, <2>1
    <3> QED BY <1>3, <1>4, <3>1, <3>2
  <2>2. CASE ~(i <= W + pos)
    <3> DEFINE j == i - (W + pos)
    <3>1. j \in 1..length /\ ~(i <= W) /\ i - W = pos + j
      BY <1>0, <2>2
    <3>2. (h \o part)[i] = part[j]
      BY <1>3, <1>7, <1>8, <2>2
    <3> HIDE DEF j
    <3>3. part[j] = input[pos + j]
      BY <1>1, <1>6, <3>1 DEF W, h
    <3>4. t[i] = input[i - W]
      BY <1>4, <3>1
    <3> QED BY <3>1, <3>2, <3>3, <3>4
  <2> QED BY <2>1, <2>2
<1>10. h \o part = t
  BY <1>4, <1>7, <1>8, <1>9, SameSeq
<1> QED BY <1>5, <1>10 DEF h, t

LEMMA GroupIs ==
  ASSUME NEW k \in Nat \ {0}
  PROVE  /\ (k - 1) % 8 \in 0..7 /\ k - ((k - 1) % 8) \in Nat \ {0}
         /\ (k - 1) % 8 = 0 <=> k % 8 = 1
         /\ (k - 1) % 8 # 0 => k - 1 # 0 /\ (k - 1) - ((k - 1 - 1) % 8) = k - ((k - 1) % 8)
OBVIOUS

\* The flags that the decoder goes by at the k-th item say whether it is a
\* reference.
LEMMA FlagsRead ==
  ASSUME NEW items \in Seq(Item), NEW f, StreamBy(f, items), NEW stream \in Seq(Byte),
         NEW k \in 1..Len(items), Heads(f[k], stream), NEW out
  PROVE  LET s == After(items, f, k - 1, out)
             reload == (k - 1) % 8 = 0
             pos == IF reload THEN s.pos + 1 ELSE s.pos
             flags == IF reload /\ pos <= Len(stream) THEN stream[pos] ELSE s.flags
         IN  /\ pos = Len(f[k - 1]) + (IF k % 8 = 1 THEN 1 ELSE 0)
             /\ flags = Flags(items, k - ((k - 1) % 8))
             /\ (flags \div PlaceValue[8 - ((k - 1) % 8)]) % 2 = 1 <=> items[k].ref
<1> DEFINE s == After(items, f, k - 1, out)
           reload == (k - 1) % 8 = 0
           pos == IF reload THEN s.pos + 1 ELSE s.pos
           flags == IF reload /\ pos <= Len(stream) THEN stream[pos] ELSE s.flags
           i == (k - 1) % 8
           p == Len(f[k - 1])
<1>0. k \in Nat \ {0} /\ k <= Len(items) /\ Len(items) \in Nat
  OBVIOUS
<1>1. /\ i \in 0..7 /\ k - i \in Nat \ {0} /\ (i = 0 <=> k % 8 = 1)
      /\ i # 0 => k - 1 # 0 /\ (k - 1) - ((k - 1 - 1) % 8) = k - i
  BY <1>0, GroupIs
<1>2. s.pos = p /\ s.flags = IF k - 1 = 0 THEN 0 ELSE Flags(items, (k - 1) - ((k - 1 - 1) % 8))
  BY DEF After
<1>3. /\ p \in Nat
      /\ Len(f[k]) = p + (IF k % 8 = 1 THEN 1 ELSE 0) + Len(items[k].bytes)
      /\ k % 8 = 1 => f[k][p + 1] = Flags(items, k)
  BY StreamStep
<1>4. Len(items[k].bytes) \in Nat
  BY ItemIs
<1> HIDE DEF s, i, p
<1>5. flags = Flags(items, k - i)
  <2>1. CASE i = 0
    <3>1. k % 8 = 1 /\ reload /\ pos = p + 1 /\ k - i = k
      BY <1>0, <1>1, <1>2, <2>1 DEF i
    <3> DEFINE q == Len(f[k])
               l == Len(items[k].bytes)
               L == Len(stream)
    <3>2. p \in Nat /\ l \in Nat /\ L \in Nat /\ q = p + 1 + l
      BY <1>3, <1>4, <3>1
    <3>3. q <= L /\ \A j \in 1..q : stream[j] = f[k][j]
      BY DEF Heads
    <3> HIDE DEF q, l, L
    <3>4. p + 1 \in 1..q /\ p + 1 <= L
      BY <3>2, <3>3
    <3>6. stream[p + 1] = f[k][p + 1]
      BY <3>3, <3>4
    <3> HIDE DEF pos
    <3>5. flags = stream[p + 1]
      BY <3>1, <3>4 DEF L
    <3> QED BY <1>3, <3>1, <3>5, <3>6, Zenon
  <2>2. CASE i # 0
    BY <1>1, <1>2, <2>2 DEF i
  <2> QED BY <2>1, <2>2
<1>6. (Flags(items, k - i) \div PlaceValue[8 - i]) % 2 = 1 <=> RefAt(items, k - i, i)
  BY <1>1, FlagsAre, Zenon
<1>7. k - i + i = k
  BY <1>0, <1>1
<1>8. RefAt(items, k - i, i) <=> items[k].ref
  BY <1>0, <1>7, Zenon DEF RefAt
<1>9. pos = p + (IF k % 8 = 1 THEN 1 ELSE 0)
  BY <1>1, <1>2, <1>3 DEF i
<1> HIDE DEF pos, flags
<1>10. (flags \div PlaceValue[8 - i]) % 2 = 1 <=> items[k].ref
  BY <1>5, <1>6, <1>8, Zenon
<1> QED BY <1>5, <1>9, <1>10, Zenon DEF flags, pos, reload, s, i, p

LEMMA ReferenceRead ==
  \A d \in 1..1023, n \in 1..63 :
     /\ ((d \div 256) + n * 4) \div 4 = n
     /\ (((d \div 256) + n * 4) % 4) * 256 + (d % 256) = d
<1> TAKE d \in 1..1023, n \in 1..63
<1>1. /\ Reference(d, n) \in Item
      /\ (d \div 256) + n * 4 \in Byte /\ d % 256 \in Byte
      /\ ((d \div 256) + n * 4) % 4 = d \div 256
      /\ ((d \div 256) + n * 4) \div 4 = n
      /\ (((d \div 256) + n * 4) % 4) * 256 + (d % 256) = d
  BY ReferenceIs, Zenon
<1> QED BY <1>1, Zenon

\* The decoder at one item of the encoder's: it writes the bytes that the item
\* stands for.
LEMMA UnpackItem ==
  ASSUME NEW input \in Seq(Byte), NEW items \in Seq(Item), NEW f, StreamBy(f, items),
         NEW stream \in Seq(Byte), NEW k \in 1..Len(items), Heads(f[k], stream),
         NEW pos \in 0..Len(input), SpellsAt(items[k], input, pos)
  PROVE  Unpack(stream, After(items, f, k - 1, Earlier(input, pos)), k, WINDOW_SIZE)
           = After(items, f, k, Earlier(input, pos + items[k].size))
<1> DEFINE it == items[k]
           b == it.bytes
           out == Earlier(input, pos)
           s == After(items, f, k - 1, out)
           reload == (k - 1) % 8 = 0
           p == IF reload THEN s.pos + 1 ELSE s.pos
           flags == IF reload /\ p <= Len(stream) THEN stream[p] ELSE s.flags
           ref == (flags \div PlaceValue[8 - ((k - 1) % 8)]) % 2 = 1
           need == IF ref THEN 2 ELSE 1
           dist == (stream[p + 1] % 4) * 256 + stream[p + 2]
           repeated == Copied(out, IF dist = 0 THEN WINDOW_SIZE ELSE dist, stream[p + 1] \div 4)
           q == Len(f[k])
           l == Len(b)
           r == IF k % 8 = 1 THEN 1 ELSE 0
           h == Len(f[k - 1])
           L == Len(stream)
<1>1. /\ p = h + r
      /\ flags = Flags(items, k - ((k - 1) % 8))
      /\ ref <=> it.ref
  BY FlagsRead, Zenon
<1>2. s.done = FALSE /\ s.out = out
  BY DEF After
<1>3. h \in Nat /\ q = h + r + l /\ \A i \in 1..l : f[k][h + r + i] = b[i]
  BY StreamStep, Zenon
<1>4. L \in Nat /\ q <= L /\ \A i \in 1..q : stream[i] = f[k][i]
  BY DEF Heads
<1>5. Unpack(stream, s, k, WINDOW_SIZE) =
        IF s.done \/ p + need > L THEN [s EXCEPT !.done = TRUE]
        ELSE [done |-> FALSE, pos |-> p + need, flags |-> flags,
              out |-> IF ref THEN repeated ELSE Append(s.out, stream[p + 1])]
  <2>1. s.out = out
    BY <1>2
  <2> HIDE DEF s, out
  <2> QED BY <2>1 DEF Unpack
<1>6. After(items, f, k, Earlier(input, pos + it.size)) =
        [done |-> FALSE, pos |-> q, flags |-> Flags(items, k - ((k - 1) % 8)),
         out |-> Earlier(input, pos + it.size)]
  <2>1. k # 0
    OBVIOUS
  <2> QED BY <2>1 DEF After
<1> HIDE DEF s, p, flags, ref, repeated, q, h, L, out
<1>r. r \in {0, 1}
  OBVIOUS
<1>7. SUFFICES need = l /\ l \in {1, 2} /\ (IF ref THEN repeated ELSE Append(out, stream[p + 1])) = Earlier(input, pos + it.size)
  <2>1. ASSUME need = l, l \in {1, 2} PROVE p + need = q
    <3> HIDE DEF need, l, r
    <3> QED BY <1>1, <1>3, <1>r, <2>1
  <2>2. ASSUME need = l, l \in {1, 2} PROVE ~(p + need > L)
    <3>1. p + need = q /\ q \in Nat
      <4> HIDE DEF need, l, r
      <4> QED BY <1>3, <1>r, <2>1, <2>2
    <3> HIDE DEF need
    <3> QED BY <1>4, <3>1
  <2>3. ASSUME need = l, l \in {1, 2},
               (IF ref THEN repeated ELSE Append(out, stream[p + 1])) = Earlier(input, pos + it.size)
        PROVE Unpack(stream, s, k, WINDOW_SIZE) = After(items, f, k, Earlier(input, pos + it.size))
    <3>1. p + need = q /\ ~(p + need > L)
      BY <2>1, <2>2, <2>3, Zenon
    <3> HIDE DEF need
    <3>2. Unpack(stream, s, k, WINDOW_SIZE) =
            [done |-> FALSE, pos |-> p + need, flags |-> flags,
             out |-> IF ref THEN repeated ELSE Append(s.out, stream[p + 1])]
      BY <1>2, <1>5, <3>1, Zenon
    <3> QED BY <1>1, <1>2, <1>6, <2>3, <3>1, <3>2, Zenon
  <2> QED BY <2>3, Zenon DEF s, out
<1>8. ASSUME NEW i \in 1..l, l \in {1, 2} PROVE stream[p + i] = b[i]
  <2> HIDE DEF l, b, r
  <2>1. h + r + i \in 1..q /\ p + i = h + r + i
    BY <1>1, <1>3, <1>8, <1>r
  <2> QED BY <1>3, <1>4, <2>1
<1>9. CASE IsLiteral(it, input, pos)
  <2>1. it = Literal(input[pos + 1]) /\ pos \in 0..Len(input) - 1 /\ pos \in Nat
    BY <1>9 DEF IsLiteral
  <2>2. ~it.ref /\ it.size = 1 /\ b = <<input[pos + 1]>>
    BY <2>1 DEF Literal
  <2>3. l = 1 /\ b[1] = input[pos + 1]
    BY <2>2
  <2>4. need = l
    BY <1>1, <2>2, <2>3
  <2>5. stream[p + 1] = input[pos + 1]
    BY <1>8, <2>3
  <2>6. Append(out, input[pos + 1]) = Earlier(input, pos + 1)
    BY <2>1, EarlierLiteral, Zenon DEF out
  <2>7. ~ref
    BY <1>1, <2>2, Zenon
  <2> QED BY <2>2, <2>3, <2>4, <2>5, <2>6, <2>7
<1>10. CASE IsReference(it, input, pos)
  <2>1. PICK d \in 1..WINDOW_SIZE : \E n \in 1..d : Refers(it, input, pos, d, n)
    BY <1>10 DEF IsReference
  <2>2. PICK n \in 1..d : Refers(it, input, pos, d, n)
    BY <2>1
  <2>3. it = Reference(d, n) /\ n <= 63
    BY <2>2 DEF Refers
  <2>4. d \in 1..1023 /\ n \in 1..63
    BY <2>3, FillIs
  <2>5. it.ref /\ it.size = n /\ b = <<(d \div 256) + n * 4, d % 256>>
    BY <2>3 DEF Reference
  <2>6. l = 2 /\ b[1] = (d \div 256) + n * 4 /\ b[2] = d % 256
    BY <2>5
  <2>7. stream[p + 1] = (d \div 256) + n * 4 /\ stream[p + 2] = d % 256
    BY <1>8, <2>6
  <2>8. /\ ((d \div 256) + n * 4) \div 4 = n
        /\ (((d \div 256) + n * 4) % 4) * 256 + (d % 256) = d
    BY <2>4, ReferenceRead
  <2>9. dist = d /\ stream[p + 1] \div 4 = n
    BY <2>7, <2>8, Zenon
  <2>10. repeated = Copied(out, d, n)
    <3>1. d # 0
      BY <2>4
    <3> HIDE DEF dist
    <3> QED BY <2>9, <3>1 DEF repeated
  <2>11. Copied(out, d, n) = Earlier(input, pos + n)
    BY <2>1, <2>2, EarlierReference, Zenon DEF out
  <2>12. ref
    BY <1>1, <2>5, Zenon
  <2>13. need = l /\ l \in {1, 2}
    BY <2>6, <2>12
  <2> QED BY <2>5, <2>10, <2>11, <2>12, <2>13, Zenon
<1> QED BY <1>9, <1>10 DEF SpellsAt

LEMMA AppendExtends ==
  ASSUME NEW t, NEW s, Len(s) \in Nat, Extends(t, s), NEW e
  PROVE  Extends(Append(t, e), s)
<1> DEFINE S == {t[i] : i \in 1..Len(t)} \union {e}
           u == Append(t, e)
           n == Len(t)
<1>1. n \in Nat /\ t = [i \in 1..n |-> t[i]] /\ Heads(s, t)
  BY DEF Extends
<1>2. t \in Seq(S)
  <2>1. \A i \in 1..n : t[i] \in S
    OBVIOUS
  <2> HIDE DEF S, n
  <2>2. t \in [1..n -> S]
    BY <1>1, <2>1
  <2> QED BY <1>1, <2>2, AsSeq, Zenon
<1>3. e \in S
  OBVIOUS
<1> HIDE DEF S
<1>4. /\ u \in Seq(S) /\ Len(u) = n + 1
      /\ \A i \in 1..(n + 1) : u[i] = IF i <= n THEN t[i] ELSE e
  BY <1>2, <1>3, AppendIs, Zenon
<1> HIDE DEF u, n
<1>5. Len(u) \in Nat /\ u = [i \in 1..Len(u) |-> u[i]]
  BY <1>4
<1>6. Heads(t, u)
  <2>1. Len(t) = n
    BY DEF n
  <2>2. \A i \in 1..n : i \in 1..(n + 1) /\ i <= n
    BY <1>1
  <2>3. \A i \in 1..n : u[i] = t[i]
    BY <1>4, <2>2
  <2>4. n <= n + 1
    BY <1>1
  <2> QED BY <1>4, <2>1, <2>3, <2>4 DEF Heads
<1>7. Heads(s, u)
  BY <1>1, <1>5, <1>6, HeadsOn DEF n
<1> QED BY <1>5, <1>7 DEF Extends, u

LEMMA CopiedBy ==
  ASSUME NEW history, NEW dist, NEW n \in Nat
  PROVE  \E c : Copies(c, history, dist, n) /\ Copied(history, dist, n) = c[n]
<1> DEFINE next(x) == Append(x, x[Len(x) + 1 - dist])
           Is(f) == f = [k \in 0..n |-> IF k = 0 THEN history ELSE LET x == f[k - 1] IN next(x)]
           g == CHOOSE f : Is(f)
           T == {m \in 0..n : \E c : Copies(c, history, dist, m)}
<1>s. Copied(history, dist, n) = g[n]
  BY DEF Copied
<1>n. \A c, m : Copies(c, history, dist, m)
        <=> c = [k \in 0..m |-> c[k]] /\ c[0] = history /\ \A k \in 1..m : c[k] = next(c[k - 1])
  BY DEF Copies
<1> HIDE DEF next, g
<1>1. 0 \in T
  <2> DEFINE c == [k \in 0..0 |-> history]
  <2>1. c = [k \in 0..0 |-> c[k]] /\ c[0] = history /\ \A k \in 1..0 : c[k] = next(c[k - 1])
    OBVIOUS
  <2> HIDE DEF c
  <2>2. Copies(c, history, dist, 0)
    BY <1>n, <2>1
  <2> QED BY <2>2
<1>2. ASSUME NEW m \in 1..n, m - 1 \in T PROVE m \in T
  <2>1. PICK c : Copies(c, history, dist, m - 1)
    BY <1>2
  <2>2. c[0] = history /\ \A k \in 1..m - 1 : c[k] = next(c[k - 1])
    BY <1>n, <2>1
  <2> DEFINE last == next(c[m - 1])
             d == [k \in 0..m |-> IF k < m THEN c[k] ELSE last]
  <2>3. \A k \in 1..m : k \in 0..m /\ k - 1 \in 0..m /\ k - 1 < m /\ (k < m => k \in 1..m - 1) /\ (~(k < m) => k = m)
    OBVIOUS
  <2>4. d = [k \in 0..m |-> d[k]] /\ d[0] = history
    BY <2>2
  <2>5. \A k \in 0..m : d[k] = IF k < m THEN c[k] ELSE last
    OBVIOUS
  <2> HIDE DEF d, last
  <2>6. ASSUME NEW k \in 1..m PROVE d[k] = next(d[k - 1])
    <3>1. d[k - 1] = c[k - 1]
      BY <2>3, <2>5
    <3>2. CASE k < m
      BY <2>2, <2>3, <2>5, <3>1, <3>2
    <3>3. CASE ~(k < m)
      BY <2>3, <2>5, <3>1, <3>3 DEF last
    <3> QED BY <3>2, <3>3
  <2>7. Copies(d, history, dist, m)
    BY <1>n, <2>4, <2>6
  <2> QED BY <2>7
<1>3. n \in T
  <2> HIDE DEF T
  <2>1. 0..n \subseteq T
    BY <1>1, <1>2, Stepwise
  <2> QED BY <2>1
<1>4. PICK c : Copies(c, history, dist, n)
  BY <1>3
<1>5. Is(c)
  <2>1. c = [k \in 0..n |-> c[k]] /\ c[0] = history /\ \A k \in 1..n : c[k] = next(c[k - 1])
    BY <1>n, <1>4
  <2>2. \A k \in 0..n : c[k] = IF k = 0 THEN history ELSE next(c[k - 1])
    <3> TAKE k \in 0..n
    <3>1. CASE k = 0
      BY <2>1, <3>1
    <3>2. CASE k # 0
      BY <2>1, <3>2
    <3> QED BY <3>1, <3>2
  <2> QED BY <2>1, <2>2
<1>6. Is(g)
  <2> HIDE DEF Is
  <2> QED BY <1>5 DEF g
<1>7. g = [k \in 0..n |-> g[k]] /\ g[0] = history /\ \A k \in 1..n : g[k] = next(g[k - 1])
  <2>1. g = [k \in 0..n |-> IF k = 0 THEN history ELSE next(g[k - 1])]
        /\ 0 \in 0..n /\ \A k \in 1..n : k \in 0..n /\ k # 0
    BY <1>6
  <2>2. g = [k \in 0..n |-> g[k]] /\ g[0] = history
    BY <2>1
  <2>3. \A k \in 0..n : g[k] = IF k = 0 THEN history ELSE next(g[k - 1])
    BY <2>1, Zenon
  <2>4. \A k \in 1..n : g[k] = next(g[k - 1])
    BY <2>1, <2>3, Zenon
  <2> QED BY <2>2, <2>4
<1>8. Copies(g, history, dist, n)
  BY <1>n, <1>7
<1> QED BY <1>s, <1>8

LEMMA CopiedExtends ==
  ASSUME NEW t, NEW s, Len(s) \in Nat, Extends(t, s), NEW dist, NEW n \in Nat
  PROVE  Extends(Copied(t, dist, n), s)
<1>1. PICK c : Copies(c, t, dist, n) /\ Copied(t, dist, n) = c[n]
  BY CopiedBy, Zenon
<1> DEFINE T == {k \in 0..n : Extends(c[k], s)}
<1>2. 0 \in T
  BY <1>1 DEF Copies
<1>3. ASSUME NEW k \in 1..n, k - 1 \in T PROVE k \in T
  <2>1. Extends(c[k - 1], s) /\ k \in 0..n
    BY <1>3
  <2>2. Extends(Append(c[k - 1], c[k - 1][Len(c[k - 1]) + 1 - dist]), s)
    BY <2>1, AppendExtends, Zenon
  <2>3. Extends(c[k], s)
    BY <1>1, <2>2, Zenon DEF Copies
  <2> QED BY <2>1, <2>3
<1>4. n \in T
  <2> HIDE DEF T
  <2>1. 0..n \subseteq T
    BY <1>2, <1>3, Stepwise
  <2> QED BY <2>1
<1> QED BY <1>1, <1>4

LEMMA UnpackedBy ==
  ASSUME NEW input, Len(input) \in Nat, NEW start, NEW zero
  PROVE  \E c : Decodes(c, input, start, zero, Len(input)) /\ Unpacked(input, start, zero) = c[Len(input)].out
<1> DEFINE n == Len(input)
           next(x, k) == Unpack(input, x, k, zero)
           init == UnpackStart(start)
           Is(f) == f = [k \in 0..n |-> IF k = 0 THEN init ELSE next(f[k - 1], k)]
           g == CHOOSE f : Is(f)
           T == {m \in 0..n : \E c : Decodes(c, input, start, zero, m)}
<1>s. Unpacked(input, start, zero) = g[n].out
  BY DEF Unpacked, UnpackStart
<1>0. n \in Nat
  OBVIOUS
<1>n. \A c, m : Decodes(c, input, start, zero, m)
        <=> c = [k \in 0..m |-> c[k]] /\ c[0] = init /\ \A k \in 1..m : c[k] = next(c[k - 1], k)
  BY DEF Decodes
<1> HIDE DEF next, init, n, g
<1>1. 0 \in T
  <2> DEFINE c == [k \in 0..0 |-> init]
  <2>1. c = [k \in 0..0 |-> c[k]] /\ c[0] = init /\ \A k \in 1..0 : c[k] = next(c[k - 1], k)
    OBVIOUS
  <2> HIDE DEF c
  <2>2. Decodes(c, input, start, zero, 0)
    BY <1>n, <2>1
  <2> QED BY <1>0, <2>2
<1>2. ASSUME NEW m \in 1..n, m - 1 \in T PROVE m \in T
  <2>1. PICK c : Decodes(c, input, start, zero, m - 1)
    BY <1>2
  <2>2. c[0] = init /\ \A k \in 1..m - 1 : c[k] = next(c[k - 1], k)
    BY <1>n, <2>1
  <2> DEFINE last == next(c[m - 1], m)
             d == [k \in 0..m |-> IF k < m THEN c[k] ELSE last]
  <2>3. \A k \in 1..m : k \in 0..m /\ k - 1 \in 0..m /\ k - 1 < m /\ (k < m => k \in 1..m - 1) /\ (~(k < m) => k = m)
    OBVIOUS
  <2>4. d = [k \in 0..m |-> d[k]] /\ d[0] = init
    BY <2>2
  <2>5. \A k \in 0..m : d[k] = IF k < m THEN c[k] ELSE last
    OBVIOUS
  <2> HIDE DEF d, last
  <2>6. ASSUME NEW k \in 1..m PROVE d[k] = next(d[k - 1], k)
    <3>1. d[k - 1] = c[k - 1]
      BY <2>3, <2>5
    <3>2. CASE k < m
      BY <2>2, <2>3, <2>5, <3>1, <3>2
    <3>3. CASE ~(k < m)
      BY <2>3, <2>5, <3>1, <3>3 DEF last
    <3> QED BY <3>2, <3>3
  <2>7. Decodes(d, input, start, zero, m)
    BY <1>n, <2>4, <2>6
  <2> QED BY <2>7
<1>3. n \in T
  <2> HIDE DEF T
  <2>1. 0..n \subseteq T
    BY <1>0, <1>1, <1>2, Stepwise
  <2> QED BY <1>0, <2>1
<1>4. PICK c : Decodes(c, input, start, zero, n)
  BY <1>3
<1>5. Is(c)
  <2>1. c = [k \in 0..n |-> c[k]] /\ c[0] = init /\ \A k \in 1..n : c[k] = next(c[k - 1], k)
    BY <1>n, <1>4
  <2>2. \A k \in 0..n : c[k] = IF k = 0 THEN init ELSE next(c[k - 1], k)
    <3> TAKE k \in 0..n
    <3>1. CASE k = 0
      BY <2>1, <3>1
    <3>2. CASE k # 0
      BY <2>1, <3>2
    <3> QED BY <3>1, <3>2
  <2> QED BY <2>1, <2>2
<1>6. Is(g)
  <2> HIDE DEF Is
  <2> QED BY <1>5 DEF g
<1>7. g = [k \in 0..n |-> g[k]] /\ g[0] = init /\ \A k \in 1..n : g[k] = next(g[k - 1], k)
  <2>1. g = [k \in 0..n |-> IF k = 0 THEN init ELSE next(g[k - 1], k)]
        /\ 0 \in 0..n /\ \A k \in 1..n : k \in 0..n /\ k # 0
    BY <1>0, <1>6
  <2>2. g = [k \in 0..n |-> g[k]] /\ g[0] = init
    BY <2>1
  <2>3. \A k \in 0..n : g[k] = IF k = 0 THEN init ELSE next(g[k - 1], k)
    BY <2>1, Zenon
  <2>4. \A k \in 1..n : g[k] = next(g[k - 1], k)
    BY <2>1, <2>3, Zenon
  <2> QED BY <2>2, <2>4
<1>8. Decodes(g, input, start, zero, n)
  BY <1>n, <1>7
<1> QED BY <1>s, <1>8 DEF n

LEMMA UnpackBeyond ==
  ASSUME NEW stream \in Seq(Byte), NEW x, Len(x) \in Nat, NEW s, Beyond(s, x), NEW k, NEW zero
  PROVE  Beyond(Unpack(stream, s, k, zero), x)
<1> DEFINE reload == (k - 1) % 8 = 0
           p == IF reload THEN s.pos + 1 ELSE s.pos
           flags == IF reload /\ p <= Len(stream) THEN stream[p] ELSE s.flags
           ref == (flags \div PlaceValue[8 - ((k - 1) % 8)]) % 2 = 1
           need == IF ref THEN 2 ELSE 1
           dist == (stream[p + 1] % 4) * 256 + stream[p + 2]
           z == IF dist = 0 THEN zero ELSE dist
           repeated == Copied(s.out, z, stream[p + 1] \div 4)
           L == Len(stream)
           u == Unpack(stream, s, k, zero)
           next == [done |-> FALSE, pos |-> p + need, flags |-> flags,
                    out |-> IF ref THEN repeated ELSE Append(s.out, stream[p + 1])]
<1>1. u = IF s.done \/ p + need > L THEN [s EXCEPT !.done = TRUE] ELSE next
  BY DEF Unpack
<1>2. s = [done |-> s.done, pos |-> s.pos, flags |-> s.flags, out |-> s.out]
      /\ s.pos \in Nat /\ Extends(s.out, x)
  BY DEF Beyond
<1>3. p \in Nat /\ need \in {1, 2} /\ L \in Nat
  BY <1>2
<1> HIDE DEF u, p, flags, ref, repeated, z, L
<1>4. CASE s.done \/ p + need > L
  <2>1. u = [done |-> TRUE, pos |-> s.pos, flags |-> s.flags, out |-> s.out]
    BY <1>1, <1>2, <1>4
  <2>2. u.done = TRUE /\ u.pos = s.pos /\ u.flags = s.flags /\ u.out = s.out
    BY <2>1
  <2>3. u = [done |-> u.done, pos |-> u.pos, flags |-> u.flags, out |-> u.out]
    BY <2>1, <2>2
  <2> QED BY <1>2, <2>2, <2>3 DEF Beyond, u
<1>5. CASE ~(s.done \/ p + need > L)
  <2>1. u = next
    BY <1>1, <1>5
  <2>2. ASSUME ref PROVE Extends(repeated, x)
    <3>1. p + 1 \in 1..L
      <4>1. ~(p + need > L)
        BY <1>5
      <4> HIDE DEF need
      <4> QED BY <1>3, <4>1
    <3>2. stream[p + 1] \in Byte
      BY <3>1, SeqAs DEF L
    <3>3. stream[p + 1] \div 4 \in Nat
      <4> DEFINE v == stream[p + 1]
      <4>1. v \in 0..255
        BY <3>2 DEF Byte
      <4> HIDE DEF v
      <4>2. v \div 4 \in Nat
        BY <4>1
      <4> QED BY <4>2 DEF v
    <3> QED BY <1>2, <3>3, CopiedExtends, Zenon DEF repeated
  <2>3. Extends(Append(s.out, stream[p + 1]), x)
    BY <1>2, AppendExtends, Zenon
  <2>4. Extends(next.out, x)
    <3>1. CASE ref
      BY <2>2, <3>1
    <3>2. CASE ~ref
      BY <2>3, <3>2
    <3> QED BY <3>1, <3>2
  <2>5. next.pos \in Nat
    <3> HIDE DEF need
    <3> QED BY <1>3
  <2>6. next = [done |-> next.done, pos |-> next.pos, flags |-> next.flags, out |-> next.out]
    <3> HIDE DEF need
    <3> QED OBVIOUS
  <2> HIDE DEF next
  <2>7. Beyond(next, x)
    BY <2>4, <2>5, <2>6, Zenon DEF Beyond
  <2> QED BY <2>1, <2>7, Zenon DEF u
<1> QED BY <1>4, <1>5

LEMMA NotEmptyItem ==
  ASSUME NEW input, NEW pos, NEW it, SpellsAt(it, input, pos)
  PROVE  Len(it.bytes) \in {1, 2}
<1>1. CASE IsLiteral(it, input, pos)
  BY <1>1 DEF IsLiteral, Literal
<1>2. CASE IsReference(it, input, pos)
  <2>1. PICK dist \in 1..WINDOW_SIZE : \E length \in 1..dist : Refers(it, input, pos, dist, length)
    BY <1>2 DEF IsReference
  <2>2. PICK length \in 1..dist : Refers(it, input, pos, dist, length)
    BY <2>1
  <2> QED BY <2>2 DEF Refers, Reference
<1> QED BY <1>1, <1>2 DEF SpellsAt

LEMMA EnoughFlags ==
  ASSUME NEW input, NEW items \in Seq(Item), NEW m \in 0..Len(items), NEW starts,
         SpellFirst(items, input, starts, m), NEW f, StreamBy(f, items)
  PROVE  m <= Len(f[m]) /\ Len(f[m]) \in Nat
<1> DEFINE T == {k \in 0..m : k <= Len(f[k]) /\ Len(f[k]) \in Nat}
<1>0. m \in Nat /\ Len(items) \in Nat /\ m <= Len(items)
  OBVIOUS
<1>1. 0 \in T
  BY <1>0 DEF StreamBy
<1>2. ASSUME NEW k \in 1..m, k - 1 \in T PROVE k \in T
  <2> DEFINE p == Len(f[k - 1])
             r == IF k % 8 = 1 THEN 1 ELSE 0
             b == Len(items[k].bytes)
             q == Len(f[k])
  <2>1. k \in 1..Len(items) /\ k \in 0..m /\ k \in Nat
    BY <1>0
  <2>2. p \in Nat /\ q = p + r + b
    BY <2>1, StreamStep, Zenon
  <2>3. b \in {1, 2}
    BY NotEmptyItem, Zenon DEF SpellFirst
  <2>4. k - 1 <= p
    BY <1>2
  <2>5. r \in {0, 1}
    OBVIOUS
  <2> HIDE DEF p, r, b, q
  <2>6. k <= q /\ q \in Nat
    BY <2>1, <2>2, <2>3, <2>4, <2>5
  <2> QED BY <2>1, <2>6 DEF q
<1>3. m \in T
  <2> HIDE DEF T
  <2>1. 0..m \subseteq T
    BY <1>0, <1>1, <1>2, Stepwise
  <2> QED BY <1>0, <2>1
<1> QED BY <1>3

LEMMA AfterBeyond ==
  ASSUME NEW items, NEW f, NEW k, Len(f[k]) \in Nat, NEW S, NEW x \in Seq(S)
  PROVE  Beyond(After(items, f, k, x), x)
<1> DEFINE s == After(items, f, k, x)
<1>1. s.pos = Len(f[k]) /\ s.out = x
      /\ s = [done |-> s.done, pos |-> s.pos, flags |-> s.flags, out |-> s.out]
  BY DEF After
<1> HIDE DEF s
<1>2. Extends(x, x)
  BY DEF Extends, Heads
<1> QED BY <1>1, <1>2, Zenon DEF Beyond, s

\* What was encoded is what the decoder begins with, whatever the stream goes on
\* with behind the items.
LEMMA DecodedIs ==
  ASSUME NEW data \in Seq(Byte), NEW items \in Seq(Item), NEW m \in 0..Len(items), NEW starts,
         SpellFirst(items, data, starts, m),
         NEW stream \in Seq(Byte), Heads(Stream(items), stream)
  PROVE  Extends(decode_from(EncoderFill, stream), data)
<1> DEFINE W == WINDOW_SIZE
           n == Len(data)
           N == Len(stream)
           F == Fill(EncoderFill)
           x == Earlier(data, n)
<1>0. W \in Nat /\ n \in Nat /\ N \in Nat /\ m \in Nat /\ m <= Len(items) /\ Len(items) \in Nat
  BY FillIs
<1>1. PICK f : StreamBy(f, items) /\ Stream(items) = f[Len(items)]
  BY StreamIs, Zenon
<1>2. PICK c : Decodes(c, stream, F, W, N) /\ Unpacked(stream, F, W) = c[N].out
  BY <1>0, UnpackedBy, Zenon
<1>3. \A k \in 0..m : Heads(f[k], stream)
  <2> TAKE k \in 0..m
  <2>1. k \in 0..Len(items) /\ Len(items) \in 0..Len(items)
    BY <1>0
  <2>2. Heads(f[k], f[Len(items)])
    BY <1>1, <2>1, StreamHeads, Zenon
  <2>3. Len(f[k]) \in Nat /\ Len(f[Len(items)]) \in Nat
    BY <1>1, <2>1 DEF StreamBy
  <2> QED BY <1>0, <1>1, <2>2, <2>3, HeadsOn, Zenon
<1>4. m <= N /\ Len(f[m]) \in Nat
  <2>1. m <= Len(f[m]) /\ Len(f[m]) \in Nat
    BY <1>1, EnoughFlags, Zenon
  <2>2. m \in 0..m
    BY <1>0
  <2>3. Len(f[m]) <= N
    BY <1>3, <2>2, Zenon DEF Heads
  <2> QED BY <1>0, <2>1, <2>3
<1>5. x \in Seq(Byte) /\ Len(x) = W + n /\ \A i \in 1..W + n : x[i] = IF i <= W THEN F[i] ELSE data[i - W]
  BY <1>0, EarlierIs
<1>6. Earlier(data, 0) = F
  <2>1. SubSeq(data, 1, 0) = <<>>
    BY SubSeqEmpty
  <2>2. F \o <<>> = F
    <3> HIDE DEF F
    <3>1. F \in Seq(Byte)
      BY FillIs DEF F
    <3> QED BY <3>1
  <2> QED BY <2>1, <2>2 DEF Earlier
<1> DEFINE at(k) == After(items, f, k, Earlier(data, starts[k]))
           T == {k \in 0..N : /\ k <= m => c[k] = at(k)
                              /\ k > m => Beyond(c[k], x)}
<1>7. at(m) = After(items, f, m, x)
  BY DEF SpellFirst
<1>8. Beyond(at(m), x)
  BY <1>4, <1>5, <1>7, AfterBeyond
<1>9. \A k \in 1..m : Unpack(stream, at(k - 1), k, W) = at(k)
  <2> TAKE k \in 1..m
  <2>1. k \in 1..Len(items) /\ k \in 0..m /\ k - 1 \in 0..m
    BY <1>0
  <2>2. /\ starts[k - 1] \in 0..Len(data)
        /\ SpellsAt(items[k], data, starts[k - 1])
        /\ starts[k] = starts[k - 1] + items[k].size
    BY <2>1 DEF SpellFirst
  <2> DEFINE q == starts[k - 1]
  <2>3. q \in 0..Len(data) /\ SpellsAt(items[k], data, q) /\ starts[k] = q + items[k].size
    BY <2>2
  <2> HIDE DEF q
  <2>4. Unpack(stream, After(items, f, k - 1, Earlier(data, q)), k, WINDOW_SIZE)
          = After(items, f, k, Earlier(data, q + items[k].size))
    BY <1>1, <1>3, <2>1, <2>3, UnpackItem
  <2> QED BY <2>3, <2>4, Zenon DEF q
<1>10. at(0) = UnpackStart(F)
  <2>1. starts[0] = 0
    BY DEF SpellFirst
  <2>2. f[0] = <<>>
    BY <1>1 DEF StreamBy
  <2> HIDE DEF F
  <2>3. After(items, f, 0, F) = UnpackStart(F)
    BY <2>2 DEF After, UnpackStart
  <2> QED BY <1>6, <2>1, <2>3 DEF F
<1> HIDE DEF at, x, F
<1>11. 0 \in T
  BY <1>0, <1>2, <1>10 DEF Decodes
<1>12. ASSUME NEW k \in 1..N, k - 1 \in T PROVE k \in T
  <2>1. c[k] = Unpack(stream, c[k - 1], k, W)
    BY <1>2 DEF Decodes
  <2>2. /\ k - 1 <= m => c[k - 1] = at(k - 1)
        /\ k - 1 > m => Beyond(c[k - 1], x)
    BY <1>12
  <2>3. k \in 0..N
    BY <1>0
  <2>4. CASE k <= m
    BY <1>0, <1>9, <2>1, <2>2, <2>3, <2>4
  <2>5. CASE k > m
    <3>1. Beyond(c[k - 1], x)
      <4>1. CASE k - 1 > m
        BY <2>2, <4>1
      <4>2. CASE ~(k - 1 > m)
        BY <1>0, <1>8, <2>2, <2>5, <4>2
      <4> QED BY <4>1, <4>2
    <3>2. Len(x) \in Nat
      BY <1>5
    <3>3. Beyond(Unpack(stream, c[k - 1], k, W), x)
      BY <3>1, <3>2, UnpackBeyond, Zenon
    <3>4. Beyond(c[k], x) /\ ~(k <= m)
      BY <1>0, <2>1, <2>5, <3>3
    <3> QED BY <2>3, <3>4
  <2> QED BY <1>0, <2>4, <2>5
<1>13. N \in T
  <2> HIDE DEF T
  <2>1. 0..N \subseteq T
    BY <1>0, <1>11, <1>12, Stepwise
  <2> QED BY <1>0, <2>1
<1>14. Beyond(c[N], x)
  <2>1. /\ N <= m => c[N] = at(N)
        /\ N > m => Beyond(c[N], x)
    BY <1>13
  <2>2. CASE N > m
    BY <2>1, <2>2
  <2>3. CASE ~(N > m)
    BY <1>0, <1>4, <1>8, <2>1, <2>3
  <2> QED BY <2>2, <2>3
<1> DEFINE o == c[N].out
           O == Len(o)
           d == SubSeq(o, W + 1, O)
<1>15. decode_from(EncoderFill, stream) = d
  BY <1>2 DEF decode_from, F
<1>16. O \in Nat /\ o = [i \in 1..O |-> o[i]] /\ Len(x) <= O /\ \A i \in 1..Len(x) : o[i] = x[i]
  BY <1>14 DEF Beyond, Extends, Heads
<1> DEFINE S == {o[i] : i \in 1..O}
<1> HIDE DEF o, O
<1>17. o \in Seq(S) /\ Len(o) = O
  <2>1. \A i \in 1..O : o[i] \in S
    OBVIOUS
  <2> HIDE DEF S
  <2>2. o \in [1..O -> S]
    BY <1>16, <2>1
  <2> QED BY <1>16, <2>2, AsSeq, Zenon
<1>18. W + 1 \in Int /\ O \in Int /\ W + 1 >= 1 /\ O <= Len(o) /\ O - (W + 1) + 1 >= 0
       /\ O - (W + 1) + 1 = O - W /\ W + n <= O
  BY <1>0, <1>5, <1>16, <1>17
<1> HIDE DEF S
<1>19. /\ d \in Seq(S) /\ Len(d) = O - (W + 1) + 1
       /\ \A i \in 1..(O - (W + 1) + 1) : d[i] = o[(W + 1) + i - 1]
  BY <1>17, <1>18, SubSeqIs
<1> HIDE DEF d
<1>20. Len(d) \in Nat /\ d = [i \in 1..Len(d) |-> d[i]]
  BY <1>19
<1>21. Heads(data, d)
  <2>1. n <= Len(d)
    BY <1>0, <1>18, <1>19
  <2>2. ASSUME NEW i \in 1..n PROVE d[i] = data[i]
    <3>1. /\ i \in 1..(O - (W + 1) + 1) /\ (W + 1) + i - 1 = W + i /\ W + i \in 1..W + n
          /\ ~(W + i <= W) /\ (W + i) - W = i
      BY <1>0, <1>18
    <3>2. d[i] = o[W + i]
      BY <1>19, <3>1
    <3>3. o[W + i] = x[W + i]
      BY <1>5, <1>16, <3>1
    <3>4. x[W + i] = data[i]
      BY <1>5, <3>1
    <3> QED BY <3>2, <3>3, <3>4
  <2> QED BY <2>1, <2>2 DEF Heads
<1> QED BY <1>15, <1>20, <1>21 DEF Extends

LEMMA MinIs ==
  ASSUME NEW n \in Nat, NEW A \in SUBSET (0..n), A # {}
  PROVE  Min(A) \in A
<1> DEFINE B == {n - x : x \in A}
<1>1. B \in SUBSET (0..n) /\ B # {}
  <2>1. \A x \in A : x \in 0..n
    OBVIOUS
  <2>2. \A x \in 0..n : n - x \in 0..n
    OBVIOUS
  <2>3. \A x \in A : n - x \in 0..n
    BY <2>1, <2>2, Zenon
  <2>4. \A y \in B : y \in 0..n
    BY <2>3
  <2>5. PICK x \in A : TRUE
    OBVIOUS
  <2>6. n - x \in B
    OBVIOUS
  <2> HIDE DEF B
  <2> QED BY <2>4, <2>6
<1>2. Max(B) \in B /\ \A y \in B : y <= Max(B)
  BY <1>1, MaxIs
<1> DEFINE t == Max(B)
<1> HIDE DEF t
<1>3. PICK x \in A : t = n - x
  BY <1>2 DEF t
<1>4. \A y \in A : x <= y
  <2> TAKE y \in A
  <2>1. n - y \in B
    OBVIOUS
  <2>2. n - y <= t
    BY <1>2, <2>1 DEF t
  <2>3. x \in Nat /\ y \in Nat
    OBVIOUS
  <2> QED BY <1>3, <2>2, <2>3
<1> QED BY <1>4 DEF Min

LEMMA NoOpsType ==
  ASSUME NEW items \in Seq(Item)
  PROVE  NoOps(items) \in Nat
<1> DEFINE free == (8 - (Len(items) % 8)) % 8
           more == {j \in 0..free : (Len(Stream(items)) + 2 * j) % 16 = 0}
           A == {free} \union more
<1>1. free \in Nat
  <2> DEFINE l == Len(items)
  <2>1. l \in Nat
    OBVIOUS
  <2> HIDE DEF l
  <2>2. (8 - (l % 8)) % 8 \in Nat
    BY <2>1
  <2> QED BY <2>2 DEF l
<1>2. NoOps(items) = Min(A)
  BY DEF NoOps
<1> HIDE DEF free
<1>3. more \in SUBSET (0..free)
  OBVIOUS
<1> HIDE DEF more
<1>4. A \in SUBSET (0..free) /\ A # {}
  BY <1>1, <1>3
<1> HIDE DEF A
<1>5. Min(A) \in A
  BY <1>1, <1>4, MinIs
<1>6. \A x \in A : x \in 0..free
  BY <1>4
<1>7. Min(A) \in 0..free
  BY <1>5, <1>6, Zenon
<1>8. NoOps(items) \in 0..free
  BY <1>2, <1>7, Zenon
<1> QED BY <1>1, <1>8

LEMMA SpelledFirst ==
  ASSUME NEW data \in Seq(Byte), NEW items \in Seq(Item), Spelled(items, data, Len(data)),
         NEW more \in Seq(Item), Heads(items, more)
  PROVE  \E m \in 0..Len(more) : \E starts : SpellFirst(more, data, starts, m)
<1> DEFINE n == Len(items)
<1>1. PICK starts : Spells(items, data, starts) /\ starts[n] = Len(data)
  BY DEF Spelled
<1>2. n \in Nat /\ n \in 0..Len(more) /\ \A k \in 1..n : more[k] = items[k]
  BY DEF Heads
<1>3. SpellFirst(more, data, starts, n)
  BY <1>1, <1>2 DEF Spells, SpellFirst
<1> QED BY <1>2, <1>3

LEMMA TailType ==
  ASSUME NEW size \in Nat
  PROVE  ExactTail(size) \in Seq(Byte)
<1> DEFINE remainder == 16 - (size % 16)
           r == IF remainder = 16 THEN 0
                ELSE IF remainder % 2 = 1 THEN remainder ELSE remainder + 16
<1>1. r \in Nat
  OBVIOUS
<1>2. ExactTail(size) = [i \in 1..r |-> IF (i - 1) % 17 = 0 THEN 255 ELSE 0]
  BY DEF ExactTail
<1> HIDE DEF r
<1>3. 255 \in Byte /\ 0 \in Byte
  BY DEF Byte
<1>4. ExactTail(size) \in [1..r -> Byte]
  BY <1>2, <1>3
<1> QED BY <1>1, <1>4, AsSeq, Zenon

LEMMA StreamType ==
  ASSUME NEW items \in Seq(Item)
  PROVE  Stream(items) \in Seq(Byte)
<1>1. PICK f : StreamBy(f, items) /\ Stream(items) = f[Len(items)]
  BY StreamIs, Zenon
<1>2. Len(items) \in 0..Len(items)
  OBVIOUS
<1> QED BY <1>1, <1>2 DEF StreamBy

\* Whatever the padding, the stream begins with the items of the data.
LEMMA EncodeIs ==
  ASSUME NEW data \in Seq(Byte), NEW padding \in {"None", "AesBlock", "Exact"}
  PROVE  encode(data, padding) \in Seq(Byte) /\ Encodes(encode(data, padding), data)
<1> DEFINE items == Items(data)
           noops == [i \in 1..NoOps(items) |-> NoOp]
           more == IF padding = "Exact" THEN items \o noops ELSE items
           s == Stream(more)
           l == Len(s)
           tail == CASE padding = "None" -> <<>>
                     [] padding = "AesBlock" -> Zeros((16 - (l % 16)) % 16)
                     [] padding = "Exact" -> ExactTail(l)
<1>1. items \in Seq(Item) /\ Spelled(items, data, Len(data))
  BY ItemsSpell
<1>s. encode(data, padding) = CASE padding = "None"     -> s
                                [] padding = "AesBlock" -> s \o Zeros((16 - (l % 16)) % 16)
                                [] padding = "Exact"    -> s \o ExactTail(l)
  BY DEF encode
<1> HIDE DEF items
<1>2. noops \in Seq(Item)
  <2>1. NoOps(items) \in Nat
    BY <1>1, NoOpsType
  <2>2. 0 \in Byte
    BY DEF Byte
  <2>3. <<0, 0>> \in Seq(Byte)
    BY <2>2
  <2>4. NoOp \in Item
    BY <2>3 DEF NoOp, Item
  <2>5. noops \in [1..NoOps(items) -> Item]
    BY <2>4
  <2> HIDE DEF noops
  <2> QED BY <2>1, <2>5, AsSeq, Zenon
<1> HIDE DEF noops
<1>3. more \in Seq(Item) /\ Heads(items, more)
  <2>1. items \o noops \in Seq(Item)
    BY <1>1, <1>2, ConcatProperties
  <2>2. Heads(items, items \o noops)
    BY <1>1, <1>2, HeadsConcat, Zenon
  <2>3. Heads(items, items)
    BY <1>1 DEF Heads
  <2> QED BY <1>1, <2>1, <2>2, <2>3
<1> HIDE DEF more
<1>4. s \in Seq(Byte)
  BY <1>3, StreamType
<1> HIDE DEF s
<1>5. l \in Nat /\ (16 - (l % 16)) % 16 \in Nat
  <2>1. l \in Nat
    BY <1>4
  <2> HIDE DEF l
  <2> QED BY <2>1
<1> HIDE DEF l
<1>6. Zeros((16 - (l % 16)) % 16) \in Seq(Byte) /\ ExactTail(l) \in Seq(Byte) /\ <<>> \in Seq(Byte)
  BY <1>5, ZerosType, TailType, EmptySeq
<1>7. tail \in Seq(Byte)
  BY <1>6
<1>8. encode(data, padding) = s \o tail
  <2>1. CASE padding = "None"
    BY <1>s, <1>4, <2>1, ConcatEmptySeq
  <2>2. CASE padding = "AesBlock"
    BY <1>s, <2>2
  <2>3. CASE padding = "Exact"
    BY <1>s, <2>3
  <2> QED BY <2>1, <2>2, <2>3
<1> HIDE DEF tail
<1>9. s \o tail \in Seq(Byte)
  BY <1>4, <1>7, ConcatProperties
<1>10. Heads(s, s \o tail)
  BY <1>4, <1>7, HeadsConcat, Zenon
<1>11. \E m \in 0..Len(more) : \E starts : SpellFirst(more, data, starts, m)
  BY <1>1, <1>3, SpelledFirst, Zenon
<1>12. EncodesBy(s \o tail, data, more)
  BY <1>3, <1>10, <1>11, Zenon DEF EncodesBy, s
<1> QED BY <1>8, <1>9, <1>12, Zenon DEF Encodes

\* What the decoder makes of an encoded block, with whatever the cipher has put
\* behind it.
LEMMA EncodedDecodes ==
  ASSUME NEW data \in Seq(Byte), NEW stream \in Seq(Byte), Encodes(stream, data),
         NEW tail \in Seq(Byte)
  PROVE  Extends(decode_from(EncoderFill, stream \o tail), data)
<1>1. PICK items : EncodesBy(stream, data, items)
  BY DEF Encodes
<1>2. items \in Seq(Item) /\ Heads(Stream(items), stream)
  BY <1>1 DEF EncodesBy
<1>3. PICK m \in 0..Len(items) : \E starts : SpellFirst(items, data, starts, m)
  BY <1>1 DEF EncodesBy
<1>4. PICK starts : SpellFirst(items, data, starts, m)
  BY <1>3
<1> DEFINE t == stream \o tail
<1>5. t \in Seq(Byte) /\ Heads(stream, t)
  BY ConcatProperties, HeadsConcat, Zenon
<1> HIDE DEF t
<1>6. Heads(Stream(items), t)
  <2>1. Stream(items) \in Seq(Byte)
    BY <1>2, StreamType
  <2>2. Len(Stream(items)) \in Nat /\ Len(stream) \in Nat /\ Len(t) \in Nat
    BY <1>5, <2>1
  <2> QED BY <1>2, <1>5, <2>2, HeadsOn, Zenon
<1>7. Extends(decode_from(EncoderFill, t), data)
  BY <1>2, <1>4, <1>5, <1>6, DecodedIs, Zenon
<1> QED BY <1>7 DEF t

LEMMA BeginningIs ==
  ASSUME NEW S, NEW data \in Seq(S), NEW t, Extends(t, data), NEW n, n = Len(data)
  PROVE  SubSeq(t, 1, LeastOf(n, Len(t))) = data
<1> DEFINE l == Len(t)
           R == {t[i] : i \in 1..l}
<1>1. n \in Nat /\ l \in Nat /\ n <= l /\ t = [i \in 1..l |-> t[i]] /\ \A i \in 1..n : t[i] = data[i]
  BY DEF Extends, Heads
<1>2. LeastOf(n, l) = n
  BY <1>1 DEF LeastOf
<1>3. t \in Seq(R)
  <2>1. \A i \in 1..l : t[i] \in R
    OBVIOUS
  <2> HIDE DEF R, l
  <2>2. t \in [1..l -> R]
    BY <1>1, <2>1
  <2> QED BY <1>1, <2>2, AsSeq, Zenon
<1> HIDE DEF R
<1>4. 1 \in Int /\ n \in Int /\ 1 >= 1 /\ n <= Len(t) /\ n - 1 + 1 >= 0 /\ n - 1 + 1 = n
  BY <1>1
<1> DEFINE u == SubSeq(t, 1, n)
<1>5. u \in Seq(R) /\ Len(u) = n - 1 + 1 /\ \A i \in 1..(n - 1 + 1) : u[i] = t[1 + i - 1]
  BY <1>3, <1>4, SubSeqIs
<1> HIDE DEF u, l
<1>6. Len(u) = n /\ \A i \in 1..n : u[i] = data[i]
  <2>1. \A i \in 1..n : i \in 1..(n - 1 + 1) /\ 1 + i - 1 = i
    BY <1>1
  <2>2. \A i \in 1..n : u[i] = t[i]
    BY <1>5, <2>1
  <2> QED BY <1>1, <1>4, <1>5, <2>2
<1>7. u = data
  BY <1>5, <1>6, SeqEqual
<1> QED BY <1>2, <1>7 DEF u, l

LEMMA ExtendsItself ==
  ASSUME NEW S, NEW data \in Seq(S)
  PROVE  Extends(data, data)
BY DEF Extends, Heads

LEMMA PackedDecodes ==
  ASSUME NEW data \in Seq(Byte), NEW padding \in {"None", "AesBlock", "Exact"},
         NEW crypto \in {"Aes", "Xor", "Dsg", "NoCrypto"}
  PROVE  Extends(decode_from(EncoderFill, decrypt(crypto, encrypt(crypto, encode(data, padding)))), data)
<1> DEFINE e == encode(data, padding)
<1>1. e \in Seq(Byte) /\ Encodes(e, data)
  BY EncodeIs
<1> HIDE DEF e
<1>2. PICK k \in Nat : decrypt(crypto, encrypt(crypto, e)) = e \o Zeros(k)
  BY <1>1, ElementPlain
<1>3. Zeros(k) \in Seq(Byte)
  BY ZerosType
<1>4. Extends(decode_from(EncoderFill, e \o Zeros(k)), data)
  BY <1>1, <1>3, EncodedDecodes, Zenon
<1> QED BY <1>2, <1>4 DEF e

LEMMA PlainIs ==
  ASSUME NEW info, KnownInfo(info), NEW data \in Seq(Byte), NEW n, NEW length
  PROVE  Extends(Plain(info, prepare_block(info, n, length, data)), data)
<1> DEFINE p == prepare_block(info, n, length, data)
<1>1. p.bytes = compress_and_encrypt(info, data) /\ p.compression_type = info.compression_type
  BY DEF prepare_block
<1> HIDE DEF p
<1>2. CASE SimosInfo(info)
  <2>1. info.crypto \in {"Aes", "Xor"} /\ info.block_prep = "LzssAesBlock" /\ info.compression_type = 10
    BY <1>2 DEF SimosInfo
  <2>2. p.bytes = encrypt(info.crypto, encode(data, "AesBlock"))
    BY <1>1, <2>1 DEF compress_and_encrypt
  <2>3. Plain(info, p) = decode_from(EncoderFill, decrypt(info.crypto, encrypt(info.crypto, encode(data, "AesBlock"))))
    BY <1>1, <2>1, <2>2 DEF Plain
  <2> QED BY <2>1, <2>3, PackedDecodes DEF p
<1>3. CASE DsgInfo(info)
  <2>1. info.crypto = "Dsg" /\ info.block_prep = "LzssNone" /\ info.compression_type = 1
    BY <1>3 DEF DsgInfo
  <2>2. p.bytes = encrypt(info.crypto, encode(data, "None"))
    BY <1>1, <2>1 DEF compress_and_encrypt
  <2>3. Plain(info, p) = decode_from(EncoderFill, decrypt(info.crypto, encrypt(info.crypto, encode(data, "None"))))
    BY <1>1, <2>1, <2>2 DEF Plain
  <2> QED BY <2>1, <2>3, PackedDecodes DEF p
<1>4. CASE Dq381Info(info)
  <2>1. info.crypto = "Aes" /\ info.block_prep = "LzssExact" /\ info.compression_type = 10
    BY <1>4 DEF Dq381Info
  <2>2. p.bytes = encrypt(info.crypto, encode(data, "Exact"))
    BY <1>1, <2>1 DEF compress_and_encrypt
  <2>3. Plain(info, p) = decode_from(EncoderFill, decrypt(info.crypto, encrypt(info.crypto, encode(data, "Exact"))))
    BY <1>1, <2>1, <2>2 DEF Plain
  <2> QED BY <2>1, <2>3, PackedDecodes DEF p
<1>5. CASE HaldexInfo(info)
  <2>1. info.crypto = "NoCrypto" /\ info.block_prep = "Raw" /\ info.compression_type = 0
    BY <1>5 DEF HaldexInfo
  <2>2. p.bytes = data
    BY <1>1, <2>1, EvaluatedIs DEF compress_and_encrypt, encrypt
  <2>3. Plain(info, p) = decrypt("NoCrypto", data)
    BY <1>1, <2>1, <2>2 DEF Plain
  <2>4. decrypt("NoCrypto", data) = Evaluated(data)
    BY DEF decrypt
  <2>5. Plain(info, p) = data
    BY <2>3, <2>4, EvaluatedIs
  <2> QED BY <2>5, ExtendsItself DEF p
<1> QED BY <1>2, <1>3, <1>4, <1>5 DEF KnownInfo

\* The control module unpacks a block to what it was prepared from.
LEMMA ReceivedIs ==
  ASSUME Chosen, NEW n \in Blocks(fi), NEW data, BlockFile(n, data)
  PROVE  LET p == prepare_block(fi, n, static_length(n), data)
         IN  /\ p.block_number = n /\ p.announced_length = Len(data)
             /\ Received(p) = data
             /\ fi.uds_checksum_kind = "Crc32Be" => p.uds_checksum = Crc(255, data)
<1> DEFINE p == prepare_block(fi, n, static_length(n), data)
           plain == Plain(fi, p)
<1>1. KnownInfo(fi)
  BY ChosenIs
<1>2. data \in Seq(Byte) /\ (n \notin fi.dynamic_block_length_offsets => Len(data) = static_length(n))
  BY DEF BlockFile
<1>3. /\ p.block_number = n /\ p.announced_length = announced_length(fi, static_length(n), data)
      /\ fi.uds_checksum_kind = "Crc32Be" => p.uds_checksum = Crc(255, data)
  BY DEF prepare_block
<1>4. p.announced_length = Len(data)
  <2>1. CASE fi.dynamic_block_length_offsets = {}
    BY <1>2, <1>3, <2>1 DEF announced_length
  <2>2. CASE fi.dynamic_block_length_offsets # {}
    BY <1>3, <2>2 DEF announced_length
  <2> QED BY <2>1, <2>2
<1>5. Extends(plain, data)
  BY <1>1, <1>2, PlainIs, Zenon
<1>6. Received(p) = SubSeq(plain, 1, LeastOf(p.announced_length, Len(plain)))
  BY DEF Received, Unpacking, Plain
<1> HIDE DEF p, plain
<1>7. SubSeq(plain, 1, LeastOf(Len(data), Len(plain))) = data
  BY <1>2, <1>5, BeginningIs, Zenon
<1> QED BY <1>3, <1>4, <1>6, <1>7, Zenon DEF p

-----------------------------------------------------------------------------
(***************************************************************************)
(* A corrected block is right: correcting one place leaves everything that *)
(* is summed up as it was.                                                 *)
(***************************************************************************)
LEMMA SettledRight ==
  ASSUME NEW data \in Seq(Byte), NEW cell, NEW value, data[cell] = value
  PROVE  Settle(data, cell, value) = [state |-> "Valid", data |-> data]
BY DEF Settle

LEMMA SettleAgrees ==
  ASSUME NEW data \in Seq(Byte), NEW cell \in 1..Len(data), NEW value \in Byte
  PROVE  LET e == Settle(data, cell, value).data
         IN  AgreeBut(e, data, {cell}) /\ e[cell] = value
<1> DEFINE s == Settle(data, cell, value)
<1>1. /\ Corrected(s, data) /\ s.data[cell] = value
      /\ \A i \in 1..Len(data) : i # cell => s.data[i] = data[i]
  BY SettleIs
<1> HIDE DEF s
<1>2. s.data \in Seq(Byte) /\ Len(s.data) = Len(data)
  BY <1>1 DEF Corrected
<1>3. AgreeBut(s.data, data, {cell})
  BY <1>1, <1>2 DEF AgreeBut
<1> QED BY <1>1, <1>3 DEF s

LEMMA SliceSame ==
  ASSUME NEW data \in Seq(Byte), NEW e, NEW C, AgreeBut(e, data, C),
         NEW a \in Int, NEW b \in Int, a >= 1, b <= Len(data), C \intersect (a..b) = {}
  PROVE  SubSeq(e, a, b) = SubSeq(data, a, b)
<1>0. e \in Seq(Byte) /\ Len(e) = Len(data) /\ Len(data) \in Nat
  BY SeqAs DEF AgreeBut
<1>1. CASE b - a + 1 >= 0
  <2>1. /\ SubSeq(e, a, b) \in Seq(Byte) /\ Len(SubSeq(e, a, b)) = b - a + 1
        /\ \A i \in 1..(b - a + 1) : SubSeq(e, a, b)[i] = e[a + i - 1]
    BY <1>0, <1>1, SubSeqIs
  <2>2. /\ SubSeq(data, a, b) \in Seq(Byte) /\ Len(SubSeq(data, a, b)) = b - a + 1
        /\ \A i \in 1..(b - a + 1) : SubSeq(data, a, b)[i] = data[a + i - 1]
    BY <1>0, <1>1, SubSeqIs
  <2>3. ASSUME NEW i \in 1..(b - a + 1) PROVE e[a + i - 1] = data[a + i - 1]
    BY <1>0 DEF AgreeBut
  <2>4. \A i \in 1..Len(SubSeq(e, a, b)) : SubSeq(e, a, b)[i] = SubSeq(data, a, b)[i]
    BY <2>1, <2>2, <2>3
  <2> QED BY <2>1, <2>2, <2>4, SameSeq
<1>2. CASE ~(b - a + 1 >= 0)
  BY <1>0, <1>2
<1> QED BY <1>1, <1>2

LEMMA SumKept ==
  ASSUME NEW data \in Seq(Byte), NEW C, ClearTable(Len(data), C), NEW h,
         h.areas \in 1..Len(data), h.areas \notin C, Sound(data, h),
         NEW e, AgreeBut(e, data, C)
  PROVE  Sound(e, h) /\ Covered(e, h) = Covered(data, h)
<1>0. e \in Seq(Byte) /\ Len(e) = Len(data) /\ e[h.areas] = data[h.areas]
  BY DEF AgreeBut
<1>1. Areas(e, h) = Areas(data, h)
  BY <1>0 DEF Areas
<1>2. Sound(e, h)
  BY <1>0, <1>1 DEF Sound
<1>3. /\ Areas(data, h) \in Seq(Int \X Int)
      /\ \A i \in 1..Len(Areas(data, h)) :
               /\ Areas(data, h)[i] \in Range(Areas(data, h))
               /\ Areas(data, h)[i][1] \in Int /\ Areas(data, h)[i][2] \in Int
  BY AreasAre
<1>4. data[h.areas] \in Byte
  BY SeqAs
<1>5. \A a \in Range(Areas(data, h)) : C \intersect (a[1]..a[2]) = {}
  BY <1>4 DEF Sound, Areas, ClearTable
<1>6. \A i \in 1..Len(Areas(data, h)) :
        SubSeq(e, Areas(data, h)[i][1], Areas(data, h)[i][2])
          = SubSeq(data, Areas(data, h)[i][1], Areas(data, h)[i][2])
  <2> TAKE i \in 1..Len(Areas(data, h))
  <2> DEFINE a == Areas(data, h)[i]
  <2>1. a \in Range(Areas(data, h)) /\ a[1] \in Int /\ a[2] \in Int
    BY <1>3
  <2> HIDE DEF a
  <2>2. a[1] >= 1 /\ a[2] <= Len(data) /\ C \intersect (a[1]..a[2]) = {}
    BY <1>5, <2>1 DEF Sound
  <2>3. SubSeq(e, a[1], a[2]) = SubSeq(data, a[1], a[2])
    <3> DEFINE lo == a[1]
               hi == a[2]
    <3>1. lo \in Int /\ hi \in Int /\ lo >= 1 /\ hi <= Len(data) /\ C \intersect (lo..hi) = {}
      BY <2>1, <2>2
    <3> HIDE DEF lo, hi
    <3>2. SubSeq(e, lo, hi) = SubSeq(data, lo, hi)
      BY <3>1, SliceSame
    <3> QED BY <3>2 DEF lo, hi
  <2> QED BY <2>3 DEF a
<1>7. Covered(e, h) = Covered(data, h)
  BY <1>1, <1>6 DEF Covered
<1> QED BY <1>2, <1>7

\* What validate_simos says of a block once one that agrees with it on
\* everything summed up was seen to be complete.
LEMMA SimosKept ==
  ASSUME NEW info, NEW data \in Seq(Byte), NEW n, NEW C, ClearTable(Len(data), C),
         validate_simos(info, data, n).state # "Failed", Header(n).areas \notin C,
         NEW e, AgreeBut(e, data, C)
  PROVE  validate_simos(info, e, n)
           = Settle(e, Header(n).stored, Crc(0, Covered(data, Header(n))))
<1> DEFINE h == Header(n)
<1>0. e \in Seq(Byte) /\ Len(e) = Len(data)
  BY DEF AgreeBut
<1>1. n \in info.checksum_block_location /\ h.areas <= Len(data) /\ Sound(data, h) /\ h.areas \in 1..Len(data)
  BY SimosIs
<1> HIDE DEF h
<1>2. Sound(e, h) /\ Covered(e, h) = Covered(data, h)
  BY <1>1, SumKept DEF h
<1>3. validate_simos(info, e, n).state # "Failed"
  BY <1>0, <1>1, <1>2, SimosIs DEF h
<1>4. validate_simos(info, e, n) = Settle(e, Header(n).stored, Crc(0, Covered(e, Header(n))))
  BY <1>0, <1>3, SimosIs
<1> QED BY <1>2, <1>4 DEF h

LEMMA SettledAgain ==
  ASSUME NEW data \in Seq(Byte), NEW cell \in 1..Len(data), NEW value \in Byte,
         NEW r, r = Settle(data, cell, value), NEW again, again = Settle(r.data, cell, value)
  PROVE  RightAgain(r, again, data, {cell})
<1>1. AgreeBut(r.data, data, {cell}) /\ r.data[cell] = value
  BY SettleAgrees
<1>2. r.data \in Seq(Byte)
  BY <1>1 DEF AgreeBut
<1>3. again = [state |-> "Valid", data |-> r.data]
  BY <1>1, <1>2, SettledRight
<1> QED BY <1>1, <1>3 DEF RightAgain

LEMMA SimosSumAgain ==
  ASSUME NEW info, NEW data \in Seq(Byte), NEW n, NEW C, ClearTable(Len(data), C),
         Header(n).areas \notin C,
         validate_simos(info, data, n).state # "Failed"
  PROVE  StaysRight(info, n, data, C, validate_simos(info, data, n))
<1>r. PICK r : r = validate_simos(info, data, n)
  OBVIOUS
<1>0. PICK c, v : c = Header(n).stored /\ v = Crc(0, Covered(data, Header(n)))
  OBVIOUS
<1>1. v \in Byte /\ c \in 1..Len(data) /\ r = Settle(data, c, v)
  BY <1>r, <1>0, SimosIs
<1>2. ASSUME NEW e, AgreeBut(e, data, C) PROVE validate_simos(info, e, n) = Settle(e, c, v)
  BY <1>0, <1>2, SimosKept
<1>3. AgreeBut(r.data, data, {c}) /\ r.data[c] = v
  BY <1>1, SettleAgrees
<1>4. ASSUME NEW e, AgreeBut(e, data, C), e[c] = r.data[c]
      PROVE  validate_simos(info, e, n) = [state |-> "Valid", data |-> e]
  BY <1>2, <1>3, <1>4, SettledRight DEF AgreeBut
<1> QED BY <1>r, <1>0, <1>3, <1>4 DEF StaysRight

LEMMA OneHeaderAgain ==
  ASSUME NEW info, NEW n, n # 6, block_to_number(info, "CBOOT") # n,
         NEW data \in Seq(Byte), ClearTable(Len(data), {2}),
         NEW r, r = validate_simos_block(info, data, n), r.state # "Failed"
  PROVE  RightAgain(r, validate_simos_block(info, r.data, n), data, {2})
<1>1. r = validate_simos(info, data, n)
  BY SimosBlockIs
<1>2. Header(n).stored = 2 /\ Header(n).areas \notin {2}
  BY HeaderIs
<1>3. StaysRight(info, n, data, {2}, r)
  BY <1>1, <1>2, SimosSumAgain
<1>4. AgreeBut(r.data, data, {2})
  BY <1>2, <1>3 DEF StaysRight
<1>5. validate_simos(info, r.data, n) = [state |-> "Valid", data |-> r.data]
  BY <1>3, <1>4 DEF StaysRight
<1>6. validate_simos_block(info, r.data, n) = validate_simos(info, r.data, n)
  BY <1>4, SimosBlockIs DEF AgreeBut
<1> QED BY <1>4, <1>5, <1>6 DEF RightAgain

LEMMA TwoHeadersAgain ==
  ASSUME NEW info, 6 \in info.checksum_block_location, NEW n, n # 6, block_to_number(info, "CBOOT") = n,
         NEW data \in Seq(Byte), ClearTable(Len(data), {2, 5}),
         NEW r, r = validate_simos_block(info, data, n), r.state # "Failed"
  PROVE  RightAgain(r, validate_simos_block(info, r.data, n), data, {2, 5})
<1>1. PICK first : first = validate_simos(info, data, n)
  OBVIOUS
<1>2. PICK second : second = validate_simos(info, first.data, 6)
  OBVIOUS
<1>3. /\ Corrected(first, data) /\ Corrected(second, first.data)
      /\ r = [state |-> Both(first.state, second.state), data |-> second.data]
  BY <1>1, <1>2, SimosBlockIs
<1>4. first.state # "Failed" /\ second.state # "Failed"
  BY <1>3, BothIs DEF Corrected
<1>5. /\ Header(n).stored = 2 /\ Header(n).areas \notin {2, 5}
      /\ Header(6).stored = 5 /\ Header(6).areas \notin {2, 5}
  BY HeaderIs
<1>6. StaysRight(info, n, data, {2, 5}, first)
  BY <1>1, <1>4, <1>5, SimosSumAgain
<1>7. AgreeBut(first.data, data, {2}) /\ first.data \in Seq(Byte) /\ Len(first.data) = Len(data)
  BY <1>5, <1>6 DEF StaysRight, AgreeBut
<1>8. StaysRight(info, 6, first.data, {2, 5}, second)
  BY <1>2, <1>4, <1>5, <1>7, SimosSumAgain
<1>9. AgreeBut(second.data, first.data, {5})
  BY <1>5, <1>8 DEF StaysRight
<1>10. AgreeBut(second.data, data, {2, 5}) /\ AgreeBut(second.data, first.data, {2, 5})
       /\ second.data \in Seq(Byte)
  BY <1>7, <1>9 DEF AgreeBut
<1>11. second.data[2] = first.data[2]
  <2>1. 2 \in 1..Len(first.data) /\ 2 \notin {5}
    <3>1. 2 \in 1..Len(data)
      BY <1>1, <1>4, <1>5, SimosIs
    <3> QED BY <1>7, <3>1
  <2> QED BY <1>9, <2>1 DEF AgreeBut
<1>12. validate_simos(info, second.data, n) = [state |-> "Valid", data |-> second.data]
  BY <1>5, <1>6, <1>10, <1>11 DEF StaysRight
<1>13. validate_simos(info, second.data, 6) = [state |-> "Valid", data |-> second.data]
  BY <1>5, <1>8, <1>10 DEF StaysRight
<1>14. validate_simos_block(info, second.data, n) = [state |-> Both("Valid", "Valid"), data |-> second.data]
  BY <1>10, <1>12, <1>13, SimosBlockIs
<1>15. Both("Valid", "Valid") = "Valid"
  BY DEF Both
<1> QED BY <1>3, <1>10, <1>14, <1>15 DEF RightAgain

LEMMA SimosAgain ==
  ASSUME NEW info, 6 \in info.checksum_block_location, NEW n, n # 6,
         NEW data \in Seq(Byte), ClearTable(Len(data), StoredCells(info, n)),
         NEW r, r = validate_simos_block(info, data, n), r.state # "Failed"
  PROVE  RightAgain(r, validate_simos_block(info, r.data, n), data, StoredCells(info, n))
<1>1. CASE block_to_number(info, "CBOOT") = n
  BY <1>1, TwoHeadersAgain DEF StoredCells
<1>2. CASE block_to_number(info, "CBOOT") # n
  BY <1>2, OneHeaderAgain DEF StoredCells
<1> QED BY <1>1, <1>2

LEMMA DsgAgain ==
  ASSUME NEW data \in Seq(Byte), Len(data) >= 1
  PROVE  RightAgain(validate_dsg(data), validate_dsg(validate_dsg(data).data), data, {Len(data)})
<1>0. PICK r, v, c : /\ r = validate_dsg(data) /\ c = Len(data)
                     /\ v = 255 - Crc(255, SubSeq(data, 1, Len(data) - 1))
  OBVIOUS
<1>1. v \in Byte /\ r = Settle(data, c, v)
  BY <1>0, DsgIs
<1>2. c \in 1..Len(data) /\ c \in Int
  BY <1>0, SeqAs
<1>3. AgreeBut(r.data, data, {c})
  BY <1>1, <1>2, SettleAgrees
<1>4. r.data \in Seq(Byte) /\ Len(r.data) = Len(data)
  BY <1>3 DEF AgreeBut
<1>5. SubSeq(r.data, 1, c - 1) = SubSeq(data, 1, c - 1)
  BY <1>0, <1>2, <1>3, SliceSame
<1>6. validate_dsg(r.data) = Settle(r.data, c, v)
  BY <1>0, <1>4, <1>5, DsgIs
<1>7. RightAgain(r, Settle(r.data, c, v), data, {c})
  BY <1>1, <1>2, SettledAgain
<1> QED BY <1>0, <1>6, <1>7

LEMMA Dq381Again ==
  ASSUME NEW data \in Seq(Byte), ClearRange(Len(data)), validate_dq381(data).state # "Failed"
  PROVE  RightAgain(validate_dq381(data), validate_dq381(validate_dq381(data).data), data, {2})
<1>0. PICK r, v : r = validate_dq381(data) /\ v = RangeSum(data)
  OBVIOUS
<1>1. Ranged(data)
  BY Dq381Is, FailedIs
<1>2. v \in Byte /\ 2 \in 1..Len(data) /\ r = Settle(data, 2, v)
  BY <1>0, <1>1, Dq381Is
<1>3. AgreeBut(r.data, data, {2})
  BY <1>2, SettleAgrees
<1>4. r.data \in Seq(Byte) /\ Len(r.data) = Len(data)
  BY <1>3 DEF AgreeBut
<1>5. 3 \in 1..Len(data) /\ data[3] \in Byte
  BY <1>1, SeqAs DEF Ranged
<1>6. r.data[3] = data[3]
  BY <1>3, <1>5 DEF AgreeBut
<1>7. Ranged(r.data)
  BY <1>1, <1>4, <1>6 DEF Ranged
<1>8. RangeSum(r.data) = v
  <2> DEFINE a == AreaTable[data[3]][1][1]
             b == AreaTable[data[3]][1][2]
  <2>1. a \in Int /\ b \in Int
    BY <1>5, TablesAssumption
  <2>2. a >= 1 /\ b <= Len(data)
    BY <1>1 DEF Ranged
  <2>3. {2} \intersect (a..b) = {}
    BY <1>5, <2>2, Zenon DEF ClearRange
  <2>4. RangeSum(data) = Crc(255, SubSeq(data, a, b))
    BY DEF RangeSum
  <2>5. RangeSum(r.data) = Crc(255, SubSeq(r.data, a, b))
    BY <1>6 DEF RangeSum
  <2> HIDE DEF a, b
  <2>6. SubSeq(r.data, a, b) = SubSeq(data, a, b)
    BY <1>3, <2>1, <2>2, <2>3, SliceSame
  <2> QED BY <1>0, <2>4, <2>5, <2>6
<1>9. validate_dq381(r.data) = Settle(r.data, 2, v)
  BY <1>4, <1>7, <1>8, Dq381Is
<1>10. RightAgain(r, Settle(r.data, 2, v), data, {2})
  BY <1>2, SettledAgain
<1> QED BY <1>0, <1>9, <1>10

LEMMA HaldexAgain ==
  ASSUME NEW info, NEW data \in Seq(Byte), NEW n, n # 1, validate_haldex(info, data, n).state # "Failed"
  PROVE  RightAgain(validate_haldex(info, data, n),
                    validate_haldex(info, validate_haldex(info, data, n).data, n), data, {1})
<1>0. PICK r, v : r = validate_haldex(info, data, n) /\ v = HaldexSum(data)
  OBVIOUS
<1>1. n \in info.checksum_block_location /\ ~(Len(data) < 2)
  <2>1. Failed(data).state = "Failed"
    BY FailedIs
  <2>2. n \notin info.checksum_block_location \/ Len(data) < 2 => validate_haldex(info, data, n) = Failed(data)
    BY HaldexIs
  <2> QED BY <2>1, <2>2
<1>2. v \in Byte /\ 1 \in 1..Len(data) /\ r = Settle(data, 1, v)
  BY <1>0, <1>1, HaldexIs
<1>3. AgreeBut(r.data, data, {1})
  BY <1>2, SettleAgrees
<1>4. r.data \in Seq(Byte) /\ Len(r.data) = Len(data) /\ Len(data) \in Nat
  BY <1>3, SeqAs DEF AgreeBut
<1>5. SubSeq(r.data, 3, Len(data)) = SubSeq(data, 3, Len(data))
  BY <1>3, <1>4, SliceSame
<1>6. HaldexSum(r.data) = v
  BY <1>0, <1>4, <1>5 DEF HaldexSum
<1>7. validate_haldex(info, r.data, n) = Settle(r.data, 1, v)
  BY <1>1, <1>4, <1>6, HaldexIs
<1>8. RightAgain(r, Settle(r.data, 1, v), data, {1})
  BY <1>2, SettledAgain
<1> QED BY <1>0, <1>7, <1>8

LEMMA LayoutIs ==
  ASSUME Chosen
  PROVE  /\ SimosInfo(fi) =>
              /\ \A n \in Blocks(fi) : ClearTable(Len(Vendor[mod][n]), StoredCells(fi, n))
              /\ Ecm3Ranges
         /\ Dq381Info(fi) => \A n \in Blocks(fi) : ClearRange(Len(Vendor[mod][n]))
<1>0. mod \in Modules /\ fi = MODULES[mod]
  BY DEF Chosen
<1>1. /\ Header(1).stored = 2 /\ Header(6).stored = 5
  BY DEF Header
<1>2. ASSUME SimosInfo(fi), NEW n \in Blocks(fi)
      PROVE  ClearTable(Len(Vendor[mod][n]), StoredCells(fi, n))
  <2>1. fi.checksum_kind = "Simos"
    BY <1>2 DEF SimosInfo
  <2> DEFINE stored == IF n = block_to_number(fi, "CBOOT") THEN {Header(1).stored, Header(6).stored}
                       ELSE {Header(1).stored}
             length == Len(Vendor[mod][n])
  <2>2. \A v \in Byte :
           (\A a \in Range(AreaTable[v]) : a[1] >= 1 /\ a[2] <= length) =>
             \A a \in Range(AreaTable[v]) : stored \intersect (a[1]..a[2]) = {}
    BY <1>0, <1>2, <2>1, LayoutAssumption
  <2>3. stored = StoredCells(fi, n)
    BY <1>1 DEF StoredCells
  <2> HIDE DEF stored, length
  <2> QED BY <2>2, <2>3 DEF ClearTable, length
<1>3. ASSUME SimosInfo(fi)
      PROVE  Ecm3Ranges
  BY <1>0, <1>3, LayoutAssumption DEF SimosInfo, Ecm3Ranges
<1>4. ASSUME Dq381Info(fi), NEW n \in Blocks(fi)
      PROVE  ClearRange(Len(Vendor[mod][n]))
  <2>1. fi.checksum_kind = "Dq381"
    BY <1>4 DEF Dq381Info
  <2> DEFINE stored == IF n = block_to_number(fi, "CBOOT") THEN {Header(1).stored, Header(6).stored}
                       ELSE {Header(1).stored}
             length == Len(Vendor[mod][n])
  <2>2. \A v \in Byte :
           AreaTable[v][1][1] >= 1 /\ AreaTable[v][1][2] <= length =>
             stored \intersect (AreaTable[v][1][1]..AreaTable[v][1][2]) = {}
    BY <1>0, <1>4, <2>1, LayoutAssumption
  <2>3. {2} \subseteq stored
    BY <1>1
  <2> HIDE DEF stored, length
  <2> QED BY <2>2, <2>3 DEF ClearRange, length
<1> QED BY <1>2, <1>3, <1>4

LEMMA BlockAgain ==
  ASSUME Chosen, NEW n \in Blocks(fi), NEW data, BlockFile(n, data), has_internal_checksum(fi, n),
         validate_block(fi, data, n).state # "Failed"
  PROVE  RightAgain(validate_block(fi, data, n),
                    validate_block(fi, validate_block(fi, data, n).data, n), data, OwnChecksum(n, data))
<1>1. KnownInfo(fi)
  BY ChosenIs
<1>2. /\ data \in Seq(Byte) /\ Len(data) >= 1
      /\ n \notin fi.dynamic_block_length_offsets => Len(data) = Len(Vendor[mod][n])
  BY StaticIs DEF BlockFile
<1>3. n \in 1..5
  BY <1>1, BlocksAre
<1>4. CASE SimosInfo(fi)
  <2>1. fi.checksum_kind = "Simos" /\ fi.dynamic_block_length_offsets = {} /\ 6 \in fi.checksum_block_location
    BY <1>4 DEF SimosInfo
  <2>2. \A d : validate_block(fi, d, n) = validate_simos_block(fi, d, n)
    BY <2>1 DEF validate_block
  <2>3. ClearTable(Len(data), StoredCells(fi, n))
    BY <1>2, <1>4, <2>1, LayoutIs
  <2>4. n # 6
    BY <1>3
  <2>5. RightAgain(validate_simos_block(fi, data, n),
                   validate_simos_block(fi, validate_simos_block(fi, data, n).data, n), data, StoredCells(fi, n))
    BY <1>2, <2>1, <2>2, <2>3, <2>4, SimosAgain
  <2>6. OwnChecksum(n, data) = StoredCells(fi, n)
    BY <2>1 DEF OwnChecksum
  <2> QED BY <2>2, <2>5, <2>6
<1>5. CASE DsgInfo(fi)
  <2>1. fi.checksum_kind = "Dsg"
    BY <1>5 DEF DsgInfo
  <2>2. \A d : validate_block(fi, d, n) = validate_dsg(d)
    BY <2>1 DEF validate_block
  <2>3. OwnChecksum(n, data) = {Len(data)}
    BY <2>1 DEF OwnChecksum
  <2>4. RightAgain(validate_dsg(data), validate_dsg(validate_dsg(data).data), data, {Len(data)})
    BY <1>2, DsgAgain
  <2> QED
    <3>1. validate_block(fi, data, n) = validate_dsg(data)
      BY <2>2
    <3>2. validate_block(fi, validate_dsg(data).data, n) = validate_dsg(validate_dsg(data).data)
      BY <2>2
    <3>3. OwnChecksum(n, data) = {Len(data)}
      BY <2>3
    <3> QED BY <2>4, <3>1, <3>2, <3>3, Zenon
<1>6. CASE Dq381Info(fi)
  <2>1. fi.checksum_kind = "Dq381" /\ fi.dynamic_block_length_offsets = {}
    BY <1>6 DEF Dq381Info
  <2>2. \A d : validate_block(fi, d, n) = validate_dq381(d)
    BY <2>1 DEF validate_block
  <2>3. OwnChecksum(n, data) = {2}
    BY <2>1 DEF OwnChecksum
  <2>4. ClearRange(Len(data))
    BY <1>2, <1>6, <2>1, LayoutIs
  <2> QED BY <1>2, <2>2, <2>3, <2>4, Dq381Again
<1>7. CASE HaldexInfo(fi)
  <2>1. fi.checksum_kind = "Haldex" /\ fi.no_internal_checksum_blocks = {1}
    BY <1>7 DEF HaldexInfo
  <2>2. \A d : validate_block(fi, d, n) = validate_haldex(fi, d, n)
    BY <2>1 DEF validate_block
  <2>3. OwnChecksum(n, data) = {1}
    BY <2>1 DEF OwnChecksum
  <2>4. n # 1
    BY <2>1 DEF has_internal_checksum
  <2> QED BY <1>2, <2>2, <2>3, <2>4, HaldexAgain
<1> QED BY <1>1, <1>4, <1>5, <1>6, <1>7 DEF KnownInfo

-----------------------------------------------------------------------------
(***************************************************************************)
(* ECM3.                                                                   *)
(***************************************************************************)
LEMMA Ecm3Cells ==
  Ecm3Seed = 4 /\ ECM3_CAL_MONITOR_CHECKSUM = 5 /\ AlternateChecksum = 7
BY DEF Ecm3Seed, ECM3_CAL_MONITOR_CHECKSUM, AlternateChecksum

LEMMA Ecm3SumIs ==
  ASSUME NEW range, NEW cal \in Seq(Byte), Reached(range, cal)
  PROVE  /\ Ecm3Total(range, cal) \in Nat
         /\ Ecm3Sum(range, cal)[1] \in Byte /\ Ecm3Sum(range, cal)[2] \in Byte
         /\ Ecm3Sum(range, cal) = <<Ecm3Sum(range, cal)[1], Ecm3Sum(range, cal)[2]>>
<1> DEFINE a == range[1]
           b == range[2]
<1>1. a \in Nat /\ b \in Nat /\ a >= 9 /\ a <= b /\ b <= Len(cal) /\ Len(cal) \in Nat
  BY SeqAs DEF Reached, Ecm3Range
<1>2. SubSeq(cal, a, b) \in Seq(Byte)
  <2> HIDE DEF a, b
  <2> QED BY <1>1, SliceIs
<1>3. SumOf(SubSeq(cal, a, b)) \in Nat
  BY <1>2, BytesAreNats, SumOfType
<1>4. cal[Ecm3Seed] \in 0..255
  <2>1. 4 \in 1..Len(cal)
    <3> HIDE DEF a, b
    <3> QED BY <1>1
  <2>2. cal[4] \in Byte
    BY <2>1, SeqAs
  <2> QED BY <2>2, Ecm3Cells DEF Byte
<1>5. Ecm3Total(range, cal) \in Nat
  <2>1. \A x \in 0..255, y \in Nat : x * 256 + y \in Nat
    OBVIOUS
  <2> QED BY <1>3, <1>4, <2>1, Zenon DEF Ecm3Total
<1>6. \A x \in Nat : (x \div 256) % 256 \in 0..255 /\ x % 256 \in 0..255
  OBVIOUS
<1>7. (Ecm3Total(range, cal) \div 256) % 256 \in Byte /\ Ecm3Total(range, cal) % 256 \in Byte
  BY <1>5, <1>6, Zenon DEF Byte
<1>8. \A x, y : <<x, y>>[1] = x /\ <<x, y>>[2] = y
  OBVIOUS
<1> QED BY <1>5, <1>7, <1>8, Zenon DEF Ecm3Sum

LEMMA ValidateEcm3Is ==
  ASSUME NEW range, NEW cal \in Seq(Byte), Reached(range, cal)
  PROVE  LET c == Ecm3Cell(cal)
             sum == Ecm3Sum(range, cal)
         IN  validate_ecm3(range, cal) =
               IF <<cal[c], cal[c + 1]>> = sum THEN [state |-> "Valid", data |-> cal]
               ELSE [state |-> "Fixed", data |-> [cal EXCEPT ![c] = sum[1], ![c + 1] = sum[2]]]
<1>1. ~(Len(cal) < AlternateChecksum + 1 \/ range[2] > Len(cal))
  BY SeqAs, Ecm3Cells DEF Reached, Ecm3Range
<1>2. Ecm3Cell(cal) = IF cal[AlternateChecksum] > 0 THEN AlternateChecksum ELSE ECM3_CAL_MONITOR_CHECKSUM
  BY Ecm3Cells DEF Ecm3Cell
<1> DEFINE cell == IF cal[AlternateChecksum] > 0 THEN AlternateChecksum ELSE ECM3_CAL_MONITOR_CHECKSUM
           bad == Len(cal) < AlternateChecksum + 1 \/ range[2] > Len(cal)
<1>3. validate_ecm3(range, cal) =
        IF bad THEN Failed(cal)
        ELSE IF <<cal[cell], cal[cell + 1]>> = Ecm3Sum(range, cal)
             THEN [state |-> "Valid", data |-> cal]
             ELSE [state |-> "Fixed",
                   data |-> [cal EXCEPT ![cell] = Ecm3Sum(range, cal)[1], ![cell + 1] = Ecm3Sum(range, cal)[2]]]
  BY DEF validate_ecm3, Ecm3Sum, Ecm3Total
<1>4. ~bad /\ Ecm3Cell(cal) = cell
  BY <1>1, <1>2
<1> HIDE DEF cell, bad
<1> QED BY <1>3, <1>4

LEMMA Unreached ==
  ASSUME NEW range, Ecm3Range(range), NEW cal \in Seq(Byte), ~Reached(range, cal)
  PROVE  validate_ecm3(range, cal) = [state |-> "Failed", data |-> cal]
<1>1. range[2] > Len(cal)
  BY SeqAs DEF Ecm3Range, Reached
<1> QED BY <1>1 DEF validate_ecm3, Failed

LEMMA PairReplaced ==
  ASSUME NEW cal \in Seq(Byte), NEW c \in Nat, NEW x \in Byte, NEW y \in Byte
  PROVE  LET e == [cal EXCEPT ![c] = x, ![c + 1] = y]
         IN  /\ e \in Seq(Byte) /\ Len(e) = Len(cal)
             /\ \A i \in 1..Len(cal) : e[i] = IF i = c + 1 THEN y ELSE IF i = c THEN x ELSE cal[i]
<1> DEFINE d == [cal EXCEPT ![c] = x]
           f == [d EXCEPT ![c + 1] = y]
<1>2. d \in Seq(Byte) /\ Len(d) = Len(cal) /\ \A i \in 1..Len(cal) : d[i] = IF i = c THEN x ELSE cal[i]
  BY ReplacedIs
<1>3. [cal EXCEPT ![c] = x, ![c + 1] = y] = f
  OBVIOUS
<1> HIDE DEF d
<1>4. f \in Seq(Byte) /\ Len(f) = Len(d) /\ \A i \in 1..Len(d) : f[i] = IF i = c + 1 THEN y ELSE d[i]
  BY <1>2, ReplacedIs
<1>5. f \in Seq(Byte) /\ Len(f) = Len(cal)
      /\ \A i \in 1..Len(cal) : f[i] = IF i = c + 1 THEN y ELSE IF i = c THEN x ELSE cal[i]
  <2> HIDE DEF f
  <2> QED BY <1>2, <1>4
<1> HIDE DEF f
<1> QED BY <1>3, <1>5, Zenon

\* Blocks that agree on everything ECM3 reads have the same sum.
LEMMA Ecm3Same ==
  ASSUME NEW range, NEW cal \in Seq(Byte), Reached(range, cal), NEW C, NEW e, AgreeBut(e, cal, C),
         4 \notin C, C \subseteq 1..8
  PROVE  e \in Seq(Byte) /\ Reached(range, e) /\ Ecm3Sum(range, e) = Ecm3Sum(range, cal)
<1>1. e \in Seq(Byte) /\ Len(e) = Len(cal) /\ Len(cal) \in Nat
  BY SeqAs DEF AgreeBut
<1>2. Reached(range, e)
  BY <1>1 DEF Reached, Ecm3Range
<1>3. e[4] = cal[4]
  BY <1>1 DEF Reached, Ecm3Range, AgreeBut
<1>4. SubSeq(e, range[1], range[2]) = SubSeq(cal, range[1], range[2])
  <2>1. PICK a, b : a = range[1] /\ b = range[2]
    OBVIOUS
  <2>2. a \in Int /\ b \in Int /\ a >= 9 /\ b <= Len(cal)
    BY <2>1 DEF Reached, Ecm3Range
  <2>3. C \intersect (a..b) = {} /\ a >= 1
    BY <2>2
  <2>4. SubSeq(e, a, b) = SubSeq(cal, a, b)
    BY <2>2, <2>3, SliceSame
  <2> QED BY <2>1, <2>4
<1>5. Ecm3Total(range, e) = Ecm3Total(range, cal)
  BY <1>3, <1>4, Ecm3Cells DEF Ecm3Total
<1> QED BY <1>1, <1>2, <1>5 DEF Ecm3Sum

LEMMA Ecm3Is ==
  ASSUME NEW range, NEW cal \in Seq(Byte), Ecm3Range(range)
  PROVE  Ecm3Written(range, cal, validate_ecm3(range, cal).data)
<1>0. PICK c, sum, e, s : /\ c = Ecm3Cell(cal) /\ sum = Ecm3Sum(range, cal)
                          /\ e = validate_ecm3(range, cal).data /\ s = validate_ecm3(range, cal).state
  OBVIOUS
<1>1. c \in {5, 7} /\ (cal[7] > 0 => c = 7) /\ (~(cal[7] > 0) => c = 5)
  BY <1>0 DEF Ecm3Cell
<1>4. CASE ~Reached(range, cal) \/ <<cal[c], cal[c + 1]>> = sum
  <2>1. e = cal /\ s \in {"Valid", "Failed"}
    BY <1>0, <1>4, ValidateEcm3Is, Unreached
  <2>2. AgreeBut(e, cal, {5, 6, 7, 8})
    BY <2>1 DEF AgreeBut
  <2>3. Ecm3Right(range, cal, e)
    BY <1>0, <2>1 DEF Ecm3Right
  <2> QED BY <1>0, <2>2, <2>3 DEF Ecm3Written
<1>5. CASE Reached(range, cal) /\ <<cal[c], cal[c + 1]>> # sum
  <2>0. 8 <= Len(cal) /\ Len(cal) \in Nat /\ sum[1] \in Byte /\ sum[2] \in Byte /\ sum = <<sum[1], sum[2]>>
    BY <1>0, <1>5, SeqAs, Ecm3SumIs DEF Reached, Ecm3Range
  <2>1. e = [cal EXCEPT ![c] = sum[1], ![c + 1] = sum[2]]
    BY <1>0, <1>5, ValidateEcm3Is
  <2>2. /\ e \in Seq(Byte) /\ Len(e) = Len(cal)
        /\ \A i \in 1..Len(cal) : e[i] = IF i = c + 1 THEN sum[2] ELSE IF i = c THEN sum[1] ELSE cal[i]
    <3>1. c \in Nat
      BY <1>1
    <3>2. PICK x, y : x = sum[1] /\ y = sum[2]
      OBVIOUS
    <3>3. x \in Byte /\ y \in Byte
      BY <2>0, <3>2
    <3>4. LET f == [cal EXCEPT ![c] = x, ![c + 1] = y]
          IN  /\ f \in Seq(Byte) /\ Len(f) = Len(cal)
              /\ \A i \in 1..Len(cal) : f[i] = IF i = c + 1 THEN y ELSE IF i = c THEN x ELSE cal[i]
      BY <3>1, <3>3, PairReplaced
    <3>5. e = [cal EXCEPT ![c] = x, ![c + 1] = y]
      BY <2>1, <3>2
    <3> QED BY <3>2, <3>4, <3>5
  <2>3. AgreeBut(e, cal, {5, 6, 7, 8})
    BY <1>1, <2>2 DEF AgreeBut
  <2>4. e \in Seq(Byte) /\ Reached(range, e) /\ Ecm3Sum(range, e) = sum
    BY <1>0, <1>5, <2>3, Ecm3Same
  <2>5. e[c] = sum[1] /\ e[c + 1] = sum[2]
    BY <1>1, <2>0, <2>2
  <2>6. <<e[c], e[c + 1]>> = sum
    BY <2>0, <2>5, Zenon
  <2>7. Ecm3Cell(e) = c \/ (cal[7] > 0 /\ e[7] = 0)
    <3>1. 7 \in 1..Len(cal) /\ e[7] \in 0..255
      <4>1. 7 \in 1..Len(cal)
        BY <2>0
      <4>2. e[7] \in Byte
        BY <2>2, <4>1, SeqAs
      <4> QED BY <4>1, <4>2 DEF Byte
    <3>2. CASE cal[7] > 0
      <4>1. c = 7
        BY <1>1, <3>2
      <4>2. e[7] = 0 \/ e[7] > 0
        <5>1. \A z \in 0..255 : z = 0 \/ z > 0
          OBVIOUS
        <5> QED BY <3>1, <5>1, Zenon
      <4>3. e[7] > 0 => Ecm3Cell(e) = 7
        BY DEF Ecm3Cell
      <4> QED BY <3>2, <4>1, <4>2, <4>3, Zenon
    <3>3. CASE ~(cal[7] > 0)
      BY <1>1, <2>2, <3>1, <3>3 DEF Ecm3Cell
    <3> QED BY <3>2, <3>3
  <2>8. Ecm3Right(range, cal, e)
    <3>1. CASE Ecm3Cell(e) = c
      BY <2>4, <2>6, <3>1, ValidateEcm3Is DEF Ecm3Right
    <3>2. CASE cal[7] > 0 /\ e[7] = 0
      BY <3>2 DEF Ecm3Right
    <3> QED BY <2>7, <3>1, <3>2
  <2> QED BY <1>0, <2>3, <2>8 DEF Ecm3Written
<1> QED BY <1>4, <1>5

\* Correcting the block's CRC afterwards does no harm.
LEMMA Ecm3Stays ==
  ASSUME NEW range, NEW e \in Seq(Byte), Ecm3Range(range), NEW cal, Ecm3Right(range, cal, e),
         NEW g, AgreeBut(g, e, {2})
  PROVE  Ecm3Right(range, cal, g)
<1>0. 4 \notin {2} /\ {2} \subseteq 1..8
  OBVIOUS
<1>2. Reached(range, e) => g[5] = e[5] /\ g[6] = e[6] /\ g[7] = e[7] /\ g[8] = e[8]
  <2> SUFFICES ASSUME Reached(range, e)
               PROVE  g[5] = e[5] /\ g[6] = e[6] /\ g[7] = e[7] /\ g[8] = e[8]
    OBVIOUS
  <2>1. \A i \in 5..8 : i \in 1..Len(e) /\ i \notin {2}
    BY SeqAs DEF Reached, Ecm3Range
  <2>2. \A i \in 5..8 : g[i] = e[i]
    BY <2>1 DEF AgreeBut
  <2> QED BY <2>2
<1>3. CASE Reached(range, e) /\ validate_ecm3(range, e).state # "Fixed"
  <2>0. g \in Seq(Byte) /\ Reached(range, g) /\ Ecm3Sum(range, g) = Ecm3Sum(range, e)
    BY <1>0, <1>3, Ecm3Same
  <2>1. PICK c : c = Ecm3Cell(e)
    OBVIOUS
  <2>2. Ecm3Cell(g) = c /\ g[c] = e[c] /\ g[c + 1] = e[c + 1]
    BY <1>2, <1>3, <2>1 DEF Ecm3Cell
  <2>3. <<e[c], e[c + 1]>> = Ecm3Sum(range, e)
    BY <1>3, <2>1, ValidateEcm3Is
  <2>4. validate_ecm3(range, g) = [state |-> "Valid", data |-> g]
    BY <2>0, <2>2, <2>3, ValidateEcm3Is
  <2> QED BY <2>4 DEF Ecm3Right
<1>4. CASE Reached(range, e) /\ cal[7] > 0 /\ e[7] = 0
  BY <1>2, <1>4 DEF Ecm3Right
<1>5. CASE ~Reached(range, e)
  BY <1>5, Unreached DEF AgreeBut, Reached, Ecm3Right
<1> QED BY <1>3, <1>4, <1>5 DEF Ecm3Right

LEMMA CorrectedCells ==
  ASSUME Chosen, NEW n \in Blocks(fi), NEW data, NEW given, Len(data) = Len(given), has_internal_checksum(fi, n)
  PROVE  /\ OwnChecksum(n, data) \subseteq ChecksumCells(n, given)
         /\ SimosInfo(fi) /\ n = CAL => {5, 6, 7, 8} \subseteq ChecksumCells(n, given)
<1>1. KnownInfo(fi)
  BY ChosenIs
<1>2. n \notin fi.no_internal_checksum_blocks
  BY DEF has_internal_checksum
<1>3. Header(1).stored = 2 /\ Header(6).stored = 5
  BY DEF Header
<1>4. CASE SimosInfo(fi)
  <2>1. fi.checksum_kind = "Simos"
    BY <1>4 DEF SimosInfo
  <2>2. ChecksumCells(n, given) =
          {2} \union (IF n = CBOOT THEN {5} ELSE {}) \union (IF n = CAL THEN {5, 6, 7, 8} ELSE {})
    BY <1>2, <1>3, <2>1, Ecm3Cells DEF ChecksumCells, CAL, CBOOT
  <2>3. OwnChecksum(n, data) = {2} \union (IF n = CBOOT THEN {5} ELSE {})
    BY <2>1 DEF OwnChecksum, StoredCells, CBOOT
  <2> QED BY <2>2, <2>3
<1>5. CASE DsgInfo(fi)
  BY <1>2, <1>5 DEF DsgInfo, ChecksumCells, OwnChecksum, SimosInfo
<1>6. CASE Dq381Info(fi)
  BY <1>2, <1>3, <1>6 DEF Dq381Info, ChecksumCells, OwnChecksum, SimosInfo
<1>7. CASE HaldexInfo(fi)
  BY <1>2, <1>7 DEF HaldexInfo, ChecksumCells, OwnChecksum, SimosInfo
<1> QED BY <1>1, <1>4, <1>5, <1>6, <1>7 DEF KnownInfo

LEMMA LocationIs ==
  ASSUME Chosen, SimosInfo(fi), NEW data, load_ecm3_location(fi, data) # None
  PROVE  Ecm3Range(load_ecm3_location(fi, data))
<1>1. CAL \in fi.version
  BY DEF SimosInfo, CAL
<1>2. Ecm3Ranges
  BY LayoutIs
<1>4. load_ecm3_location(fi, data) = lookup(BoxCodes, data[VersionCell])
  BY <1>1 DEF load_ecm3_location, CAL
<1>5. PICK v : v = data[VersionCell] /\ v \in DOMAIN BoxCodes /\ load_ecm3_location(fi, data) = BoxCodes[v]
  BY <1>4 DEF lookup
<1>6. BoxCodes[v] \in Nat \X Nat
  BY <1>5, TablesAssumption
<1>7. PICK a, b : a = BoxCodes[v][1] /\ b = BoxCodes[v][2]
  OBVIOUS
<1>8. a \in Nat /\ b \in Nat
  BY <1>6, <1>7
<1>9. a \in 9..b
  BY <1>2, <1>5, <1>7, Ecm3Cells DEF Ecm3Ranges
<1> QED BY <1>5, <1>7, <1>8, <1>9 DEF Ecm3Range

LEMMA LocationSame ==
  ASSUME NEW data \in Seq(Byte), Len(data) >= 1, NEW e, NEW C, AgreeBut(e, data, C), 1 \notin C
  PROVE  load_ecm3_location(fi, e) = load_ecm3_location(fi, data)
<1>1. 1 \in 1..Len(data)
  BY SeqAs
<1>2. e[1] = data[1]
  BY <1>1 DEF AgreeBut
<1> QED BY <1>2 DEF load_ecm3_location, VersionCell

LEMMA AgreeFile ==
  ASSUME NEW n, NEW data, BlockFile(n, data), NEW C, NEW e, AgreeBut(e, data, C)
  PROVE  BlockFile(n, e)
BY DEF BlockFile, AgreeBut

LEMMA SeenIs ==
  ASSUME Chosen, NEW blocks, BlockFiles(blocks)
  PROVE  /\ DOMAIN SeenOf(blocks) = DOMAIN blocks
         /\ \A n \in DOMAIN blocks : ~(SimosInfo(fi) /\ n = CAL) => SeenOf(blocks)[n] = blocks[n]
         /\ SimosInfo(fi) /\ CAL \in DOMAIN blocks =>
              /\ AgreeBut(SeenOf(blocks)[CAL], blocks[CAL], {5, 6, 7, 8})
              /\ Ecm3Kept(blocks[CAL], SeenOf(blocks)[CAL])
<1>1. CASE ~SimosInfo(fi)
  BY <1>1, ChosenIs DEF KnownInfo, DsgInfo, Dq381Info, HaldexInfo, SeenOf
<1>2. CASE SimosInfo(fi)
  <2>1. SeenOf(blocks) = fix_ecm3(fi, blocks)
    BY <1>2 DEF SeenOf, SimosInfo
  <2>2. CASE CAL \notin DOMAIN blocks
    BY <1>2, <2>1, <2>2 DEF fix_ecm3, CAL
  <2>3. CASE CAL \in DOMAIN blocks
    <3>1. PICK cal, range : cal = blocks[CAL] /\ range = load_ecm3_location(fi, blocks[CAL])
      OBVIOUS
    <3>2. BlockFile(CAL, cal) /\ cal \in Seq(Byte)
      BY <2>3, <3>1 DEF BlockFiles, BlockFile
    <3>3. fix_ecm3(fi, blocks) = IF range = None THEN blocks
                                 ELSE [blocks EXCEPT ![CAL] = validate_ecm3(range, cal).data]
      BY <2>3, <3>1 DEF fix_ecm3, CAL
    <3>4. CASE range = None
      <4>1. SeenOf(blocks) = blocks
        BY <2>1, <3>3, <3>4
      <4>2. AgreeBut(cal, cal, {5, 6, 7, 8})
        BY <3>2 DEF AgreeBut
      <4>3. Ecm3Kept(cal, cal)
        BY <3>1, <3>4 DEF Ecm3Kept
      <4> QED BY <1>2, <3>1, <4>1, <4>2, <4>3
    <3>5. CASE range # None
      <4>1. PICK e : e = validate_ecm3(range, cal).data
        OBVIOUS
      <4>2. SeenOf(blocks) = [blocks EXCEPT ![CAL] = e]
        BY <2>1, <3>3, <3>5, <4>1
      <4>3. Ecm3Range(range)
        BY <1>2, <3>1, <3>5, LocationIs
      <4>4. AgreeBut(e, cal, {5, 6, 7, 8}) /\ Ecm3Right(range, cal, e)
        BY <3>2, <4>1, <4>3, Ecm3Is DEF Ecm3Written
      <4>5. load_ecm3_location(fi, e) = range
        BY <3>1, <3>2, <4>4, LocationSame DEF BlockFile
      <4>6. Ecm3Kept(cal, e)
        BY <4>4, <4>5 DEF Ecm3Kept
      <4>7. DOMAIN [blocks EXCEPT ![CAL] = e] = DOMAIN blocks
        OBVIOUS
      <4>8. [blocks EXCEPT ![CAL] = e][CAL] = e
        BY <2>3
      <4>9. \A n \in DOMAIN blocks : n # CAL => [blocks EXCEPT ![CAL] = e][n] = blocks[n]
        OBVIOUS
      <4> QED
        <5>1. DOMAIN SeenOf(blocks) = DOMAIN blocks /\ SeenOf(blocks)[CAL] = e
          BY <4>2, <4>7, <4>8, Zenon
        <5>2. \A n \in DOMAIN blocks : n # CAL => SeenOf(blocks)[n] = blocks[n]
          BY <4>2, <4>9, Zenon
        <5>3. AgreeBut(e, blocks[CAL], {5, 6, 7, 8}) /\ Ecm3Kept(blocks[CAL], e)
          BY <3>1, <4>4, <4>6, Zenon
        <5> QED BY <1>2, <5>1, <5>2, <5>3
    <3> QED BY <3>4, <3>5
  <2> QED BY <2>2, <2>3
<1> QED BY <1>1, <1>2

LEMMA FixingIs ==
  ASSUME Chosen, NEW blocks, BlockFiles(blocks), NEW patch \in BOOLEAN, NEW n \in DOMAIN blocks
  PROVE  /\ DOMAIN PatchedOf(SeenOf(blocks), patch) = DOMAIN blocks
         /\ Fixing(n, blocks[n], PatchedOf(SeenOf(blocks), patch)[n], patch)
<1>1. PICK seen : seen = SeenOf(blocks)
  OBVIOUS
<1>2. PICK x : x = PatchedOf(seen, patch)
  OBVIOUS
<1>3. /\ DOMAIN seen = DOMAIN blocks
      /\ ~(SimosInfo(fi) /\ n = CAL) => seen[n] = blocks[n]
      /\ SimosInfo(fi) /\ n = CAL => /\ AgreeBut(seen[n], blocks[n], {5, 6, 7, 8})
                                    /\ Ecm3Kept(blocks[n], seen[n])
  BY <1>1, SeenIs
<1>4. BlockFile(n, blocks[n])
  BY DEF BlockFiles
<1>5. BlockFile(n, seen[n]) /\ Len(seen[n]) = Len(blocks[n])
  <2>1. CASE SimosInfo(fi) /\ n = CAL
    BY <1>3, <1>4, <2>1, AgreeFile DEF AgreeBut
  <2>2. CASE ~(SimosInfo(fi) /\ n = CAL)
    BY <1>3, <1>4, <2>2
  <2> QED BY <2>1, <2>2
<1>6. DOMAIN x = DOMAIN blocks /\ (~(patch /\ n = CBOOT) => x[n] = seen[n])
      /\ (x[n] = seen[n] \/ x[n] = patch_cboot(seen[n]))
  BY <1>2, <1>3 DEF PatchedOf
<1>7. CASE ~(patch /\ n = CBOOT)
  BY <1>1, <1>2, <1>3, <1>5, <1>6, <1>7 DEF Fixing
<1>8. CASE patch /\ n = CBOOT
  <2>1. ~(SimosInfo(fi) /\ n = CAL)
    BY <1>8 DEF SimosInfo, CAL, CBOOT
  <2>2. seen[n] \in Seq(Byte) /\ seen[n] = blocks[n]
    BY <1>3, <1>5, <2>1 DEF BlockFile
  <2>3. /\ patch_cboot(seen[n]) \in Seq(Byte) /\ Len(patch_cboot(seen[n])) = Len(seen[n])
        /\ \A i \in 1..Len(seen[n]) :
             patch_cboot(seen[n])[i] = IF seen[n][i] = NEEDLE THEN PATCH ELSE seen[n][i]
    BY <2>2, PatchedIs
  <2>4. BlockFile(n, x[n]) /\ Len(x[n]) = Len(blocks[n])
    BY <1>5, <1>6, <2>3 DEF BlockFile
  <2>5. \A c \in 1..Len(blocks[n]) : x[n][c] = blocks[n][c] \/ blocks[n][c] = NEEDLE
    BY <1>6, <2>2, <2>3
  <2> QED BY <1>1, <1>2, <1>6, <1>8, <2>1, <2>4, <2>5 DEF Fixing
<1> QED BY <1>7, <1>8

LEMMA KindIs ==
  ASSUME Chosen
  PROVE  fi.checksum_kind = "Simos" <=> SimosInfo(fi)
BY ChosenIs DEF KnownInfo, SimosInfo, DsgInfo, Dq381Info, HaldexInfo

LEMMA CorrectedEcm3 ==
  ASSUME Chosen, SimosInfo(fi), NEW given, NEW x, BlockFile(CAL, x), Ecm3Kept(given, x),
         NEW d, AgreeBut(d, x, {2})
  PROVE  Ecm3Holds(fi, d, CAL) \/ FlagGone(given, d)
<1>1. x \in Seq(Byte) /\ Len(x) >= 1
  BY DEF BlockFile
<1>2. 1 \notin {2}
  OBVIOUS
<1>3. PICK range : range = load_ecm3_location(fi, x)
  OBVIOUS
<1>4. load_ecm3_location(fi, d) = range
  BY <1>1, <1>2, <1>3, LocationSame
<1>5. CASE range = None
  BY <1>4, <1>5 DEF Ecm3Holds
<1>6. CASE range # None
  <2>1. Ecm3Range(range)
    BY <1>3, <1>6, LocationIs
  <2>2. Ecm3Right(range, given, x)
    BY <1>3, <1>6 DEF Ecm3Kept
  <2>3. Ecm3Right(range, given, d)
    BY <1>1, <2>1, <2>2, Ecm3Stays
  <2>4. CASE validate_ecm3(range, d).state # "Fixed"
    BY <1>4, <2>4 DEF Ecm3Holds
  <2>5. CASE given[7] > 0 /\ d[7] = 0
    BY <1>4, <1>6, <2>5, KindIs, Ecm3Cells DEF FlagGone
  <2> QED BY <2>3, <2>4, <2>5 DEF Ecm3Right
<1> QED BY <1>5, <1>6

LEMMA SentChecked ==
  ASSUME Chosen, NEW n \in Blocks(fi), NEW patch \in BOOLEAN, NEW given, NEW x, Fixing(n, given, x, patch),
         has_internal_checksum(fi, n), validate_block(fi, x, n).state # "Failed"
  PROVE  SentRight(n, given, validate_block(fi, x, n).data, patch)
<1>1. PICK d : d = validate_block(fi, x, n).data
  OBVIOUS
<1>2. BlockFile(n, x) /\ Len(x) = Len(given) /\ x \in Seq(Byte)
  BY DEF Fixing, BlockFile
<1>3. validate_block(fi, d, n).state = "Valid" /\ AgreeBut(d, x, OwnChecksum(n, x))
  BY <1>1, <1>2, BlockAgain DEF RightAgain
<1>4. BlockFile(n, d)
  BY <1>2, <1>3, AgreeFile
<1>5. /\ OwnChecksum(n, x) \subseteq ChecksumCells(n, given)
      /\ SimosInfo(fi) /\ n = CAL => {5, 6, 7, 8} \subseteq ChecksumCells(n, given)
  BY <1>2, CorrectedCells
<1>6. Ecm3Holds(fi, d, n) \/ (n = CAL /\ FlagGone(given, d))
  <2>1. CASE SimosInfo(fi) /\ n = CAL
    <3>1. OwnChecksum(n, x) = {2}
      BY <2>1, KindIs DEF OwnChecksum, StoredCells, SimosInfo, CAL
    <3>2. Ecm3Kept(given, x)
      BY <2>1 DEF Fixing
    <3>3. Ecm3Holds(fi, d, CAL) \/ FlagGone(given, d)
      BY <1>2, <1>3, <2>1, <3>1, <3>2, CorrectedEcm3
    <3> QED BY <2>1, <3>3
  <2>2. CASE ~(SimosInfo(fi) /\ n = CAL)
    BY <2>2, KindIs DEF Ecm3Holds, CAL
  <2> QED BY <2>1, <2>2
<1>7. ASSUME NEW c \in 1..Len(given)
      PROVE  \/ d[c] = given[c]
             \/ c \in ChecksumCells(n, given)
             \/ patch /\ n = CBOOT /\ given[c] = NEEDLE
  <2>1. CASE c \in OwnChecksum(n, x)
    BY <1>5, <2>1
  <2>2. CASE c \notin OwnChecksum(n, x)
    <3>1. d[c] = x[c]
      BY <1>2, <1>3, <2>2 DEF AgreeBut
    <3>2. CASE SimosInfo(fi) /\ n = CAL
      BY <1>5, <3>1, <3>2 DEF Fixing, AgreeBut
    <3>3. CASE ~(SimosInfo(fi) /\ n = CAL)
      BY <3>1, <3>3 DEF Fixing
    <3> QED BY <3>2, <3>3
  <2> QED BY <2>1, <2>2
<1>8. SentRight(n, given, d, patch)
  BY <1>3, <1>4, <1>6, <1>7 DEF SentRight
<1> QED BY <1>1, <1>8

LEMMA SentPlain ==
  ASSUME Chosen, NEW n \in Blocks(fi), NEW patch \in BOOLEAN, NEW given, NEW x, Fixing(n, given, x, patch),
         ~has_internal_checksum(fi, n)
  PROVE  SentRight(n, given, x, patch)
<1>1. ~SimosInfo(fi)
  BY DEF SimosInfo, has_internal_checksum
<1>2. BlockFile(n, x) /\ \A c \in 1..Len(given) : x[c] = given[c] \/ (patch /\ n = CBOOT /\ given[c] = NEEDLE)
  BY <1>1 DEF Fixing
<1>3. Ecm3Holds(fi, x, n)
  BY <1>1, KindIs DEF Ecm3Holds
<1> QED BY <1>2, <1>3 DEF SentRight

LEMMA PassIs ==
  ASSUME NEW blocks, NEW patch \in BOOLEAN
  PROVE  LET settled == PerBlock(fi, PatchedOf(SeenOf(blocks), patch))
             done == checksum_and_patch_blocks(fi, blocks, patch)
         IN  /\ done.blocks = [n \in DOMAIN settled |-> settled[n].data]
             /\ done.ok => \A n \in DOMAIN settled : settled[n].state # "Failed"
<1> DEFINE seen == SeenOf(blocks)
           settled == PerBlock(fi, PatchedOf(seen, patch))
           patchable == CBOOT \in DOMAIN seen /\ Patchable(seen[CBOOT])
<1>1. checksum_and_patch_blocks(fi, blocks, patch) =
        [ok |-> (patch => patchable) /\ \A n \in DOMAIN settled : settled[n].state # "Failed",
         blocks |-> [n \in DOMAIN settled |-> settled[n].data]]
  BY DEF checksum_and_patch_blocks, PatchedOf, SeenOf, CBOOT
<1> HIDE DEF settled, patchable
<1>2. checksum_and_patch_blocks(fi, blocks, patch).blocks = [n \in DOMAIN settled |-> settled[n].data]
  BY <1>1
<1>3. checksum_and_patch_blocks(fi, blocks, patch).ok => \A n \in DOMAIN settled : settled[n].state # "Failed"
  <2> DEFINE good == (patch => patchable) /\ \A n \in DOMAIN settled : settled[n].state # "Failed"
             rest == [n \in DOMAIN settled |-> settled[n].data]
  <2>1. checksum_and_patch_blocks(fi, blocks, patch) = [ok |-> good, blocks |-> rest]
    BY <1>1, Zenon
  <2>2. CASE good
    BY <2>2
  <2>3. CASE ~good
    <3>1. good = FALSE
      BY <2>3
    <3> HIDE DEF good, rest
    <3>2. checksum_and_patch_blocks(fi, blocks, patch) = [ok |-> FALSE, blocks |-> rest]
      BY <2>1, <3>1, Zenon
    <3>3. checksum_and_patch_blocks(fi, blocks, patch).ok = FALSE
      BY <3>2
    <3> QED BY <3>3, Zenon
  <2> QED BY <2>2, <2>3
<1> QED BY <1>2, <1>3, Zenon DEF settled

LEMMA PassRight ==
  ASSUME Chosen, NEW blocks, BlockFiles(blocks), NEW patch \in BOOLEAN,
         checksum_and_patch_blocks(fi, blocks, patch).ok
  PROVE  /\ DOMAIN checksum_and_patch_blocks(fi, blocks, patch).blocks = DOMAIN blocks
         /\ \A n \in DOMAIN blocks :
               SentRight(n, blocks[n], checksum_and_patch_blocks(fi, blocks, patch).blocks[n], patch)
<1>1. PICK x : x = PatchedOf(SeenOf(blocks), patch)
  OBVIOUS
<1>2. PICK settled : settled = PerBlock(fi, x)
  OBVIOUS
<1>3. PICK fixed : fixed = checksum_and_patch_blocks(fi, blocks, patch).blocks
  OBVIOUS
<1>4. /\ fixed = [n \in DOMAIN settled |-> settled[n].data]
      /\ \A n \in DOMAIN settled : settled[n].state # "Failed"
  BY <1>1, <1>2, <1>3, PassIs
<1>5. DOMAIN settled = DOMAIN x
  BY <1>2 DEF PerBlock
<1>6. DOMAIN x = DOMAIN blocks
  <2>1. CASE DOMAIN blocks = {}
    BY <1>1, <2>1, SeenIs DEF PatchedOf
  <2>2. CASE DOMAIN blocks # {}
    BY <1>1, <2>2, FixingIs
  <2> QED BY <2>1, <2>2
<1>7. ASSUME NEW n \in DOMAIN blocks PROVE SentRight(n, blocks[n], fixed[n], patch)
  <2>1. n \in Blocks(fi)
    BY DEF BlockFiles
  <2>2. n <= 5
    BY <2>1, BlocksAre, ChosenIs
  <2>3. Fixing(n, blocks[n], x[n], patch)
    BY <1>1, FixingIs
  <2>4. fixed[n] = settled[n].data /\ settled[n].state # "Failed"
    BY <1>4, <1>5, <1>6
  <2>5. settled[n] = IF n <= 5 /\ has_internal_checksum(fi, n)
                     THEN validate_block(fi, x[n], n) ELSE [state |-> "Valid", data |-> x[n]]
    BY <1>2, <1>6 DEF PerBlock
  <2>6. CASE has_internal_checksum(fi, n)
    BY <2>1, <2>2, <2>3, <2>4, <2>5, <2>6, SentChecked
  <2>7. CASE ~has_internal_checksum(fi, n)
    BY <2>1, <2>3, <2>4, <2>5, <2>7, SentPlain
  <2> QED BY <2>6, <2>7
<1> QED BY <1>3, <1>4, <1>5, <1>6, <1>7

-----------------------------------------------------------------------------
(***************************************************************************)
(* What is on the wire.                                                    *)
(***************************************************************************)
LEMMA WireKept ==
  ASSUME mod' = mod, fi' = fi, NEW w, wire' = w, WireMade(w)
  PROVE  WireMade(wire)'
<1>1. ASSUME NEW n PROVE static_length(n)' = static_length(n)
  BY DEF static_length
<1>2. BlockFiles(wire.given)' <=> BlockFiles(w.given)
  BY <1>1, LayoutStays DEF BlockFiles, BlockFile
<1>3. UnlockPatch' = UnlockPatch
  BY <1>1 DEF UnlockPatch
<1>4. ASSUME NEW blocks PROVE InOrder(blocks)' = InOrder(blocks)
  BY <1>1 DEF InOrder
<1>5. FlashMade(w) => FlashMade(wire)'
  BY <1>2, <1>4 DEF FlashMade
<1>6. UnlockMade(w) => UnlockMade(wire)'
  BY <1>2, <1>3, <1>4 DEF UnlockMade
<1> QED BY <1>5, <1>6 DEF WireMade

LEMMA ArgumentsFiles ==
  ASSUME Inv, NEW raw \in Arguments
  PROVE  BlockFiles(raw)
<1>1. \A t \in Tools : BlockFiles(files[t])
  BY DEF Inv
<1>2. "split" \in Tools /\ "odx" \in Tools
  BY DEF Tools
<1>3. \A t \in Tools : \A n \in DOMAIN files[t] : n \in Blocks(fi) /\ BlockFile(n, files[t][n])
  BY <1>1 DEF BlockFiles
<1>4. CASE raw \in {files[t] : t \in Tools}
  BY <1>1, <1>4
<1>5. CASE raw \in {Only(CAL, files["split"][n]) : n \in DOMAIN files["split"] \intersect {CAL}}
  <2>1. PICK n \in DOMAIN files["split"] \intersect {CAL} : raw = Only(CAL, files["split"][n])
    BY <1>5
  <2>2. n = CAL /\ n \in Blocks(fi) /\ BlockFile(n, files["split"][n])
    BY <1>2, <1>3, <2>1
  <2> QED BY <2>1, <2>2, OnlyFiles
<1>6. CASE raw \in {Replacing(Only(n, files["odx"][n]), files["split"]) : n \in DOMAIN files["odx"]}
  <2>1. PICK n \in DOMAIN files["odx"] : raw = Replacing(Only(n, files["odx"][n]), files["split"])
    BY <1>6
  <2>2. n \in Blocks(fi) /\ BlockFile(n, files["odx"][n])
    BY <1>2, <1>3, <2>1
  <2>3. BlockFiles(Only(n, files["odx"][n])) /\ BlockFiles(files["split"])
    BY <1>1, <1>2, <2>2, OnlyFiles
  <2> QED BY <2>1, <2>3, ReplacingFiles
<1> QED BY <1>4, <1>5, <1>6 DEF Arguments, CAL

LEMMA RawFiles ==
  ASSUME Inv, NEW source \in {"bin", "odx", "frf"}, load_raw_blocks(source).ok
  PROVE  BlockFiles(load_raw_blocks(source).blocks)
<1>0. Chosen
  BY DEF Inv
<1>1. CASE source = "bin"
  BY <1>0, <1>1, SplitIs DEF load_raw_blocks, Inv
<1>2. CASE source \in {"odx", "frf"}
  <2>1. load_raw_blocks(source) = IF container = "sgo" THEN [ok |-> FALSE, blocks |-> <<>>]
                               ELSE extract_odx(fi, Odx)
    BY <1>2 DEF load_raw_blocks
  <2>2. container # "sgo"
    BY <2>1
  <2>3. load_raw_blocks(source) = extract_odx(fi, Odx)
    BY <2>1, <2>2
  <2> QED BY <1>0, <2>2, <2>3, OdxIs
<1> QED BY <1>1, <1>2

LEMMA NextWire == SentInv /\ [Next]_vars => SentInv'
<1> SUFFICES ASSUME Inv, WireMade(wire), [Next]_vars PROVE WireMade(wire)'
  BY NextInv DEF SentInv
<1>1. mod' = mod /\ fi' = fi
  BY DEF Next, vars, ExtractFrf, ExtractOdx, SplitBin, CombineBin, Checksum, Flash, Unlock, FlashEnds,
         TuneFile, TuneImage, CutImage, Edit
<1>2. CASE wire' = wire
  BY <1>1, <1>2, WireKept
<1>3. CASE Flash
  <2>1. PICK raw \in Arguments \ {<<>>}, patch \in BOOLEAN :
          \E fixed \in {checksum_and_patch_blocks(fi, raw, patch)} :
              /\ fixed.ok
              /\ wire' = [cmd |-> "flash", patch |-> patch, given |-> raw,
                          sent |-> InOrder(fixed.blocks)]
    BY <1>3, Zenon DEF Flash
  <2>2. PICK fixed : fixed = checksum_and_patch_blocks(fi, raw, patch)
    OBVIOUS
  <2>3. PICK w : w = [cmd |-> "flash", patch |-> patch, given |-> raw, sent |-> InOrder(fixed.blocks)]
    OBVIOUS
  <2>4. fixed.ok /\ wire' = w
    BY <2>1, <2>2, <2>3
  <2>5. w.cmd = "flash" /\ w.patch = patch /\ w.given = raw /\ w.sent = InOrder(fixed.blocks)
    BY <2>3
  <2>6. BlockFiles(w.given)
    BY <2>5, ArgumentsFiles
  <2>7. FlashMade(w)
    BY <2>2, <2>4, <2>5, <2>6 DEF FlashMade
  <2>8. WireMade(w)
    BY <2>5, <2>7 DEF WireMade
  <2> QED BY <1>1, <2>4, <2>8, WireKept
<1>4. CASE Unlock
  <2>1. PICK source \in {"bin", "odx", "frf"} :
          \E raw \in {load_raw_blocks(source)} :
              LET target == fi.patch_block_index
                  patch == prepare_patch_block(fi, target + 5, static_length(target))
              IN  /\ raw.ok
                  /\ 1..5 \subseteq DOMAIN raw.blocks
                  /\ raw.blocks[5][BoxCodeCell] = RequiredBoxCode
                  /\ wire' = [cmd |-> "unlock", patch |-> FALSE, given |-> raw.blocks,
                              sent |-> InOrder([n \in 1..4 |-> raw.blocks[n]])
                                       \o <<patch>> \o InOrder(Only(5, raw.blocks[5]))]
    BY <1>4, Zenon DEF Unlock
  <2>2. PICK raw : raw = load_raw_blocks(source)
    OBVIOUS
  <2>3. PICK w : w = [cmd |-> "unlock", patch |-> FALSE, given |-> raw.blocks,
                      sent |-> InOrder([n \in 1..4 |-> raw.blocks[n]])
                               \o <<UnlockPatch>> \o InOrder(Only(5, raw.blocks[5]))]
    OBVIOUS
  <2>4. raw.ok /\ 1..5 \subseteq DOMAIN raw.blocks /\ wire' = w
    BY <2>1, <2>2, <2>3 DEF UnlockPatch
  <2>5. /\ w.cmd = "unlock" /\ w.patch = FALSE /\ w.given = raw.blocks
        /\ w.sent = InOrder([n \in 1..4 |-> raw.blocks[n]])
                               \o <<UnlockPatch>> \o InOrder(Only(5, raw.blocks[5]))
    BY <2>3
  <2>6. BlockFiles(raw.blocks)
    BY <2>2, <2>4, RawFiles
  <2>7. fi.patch_block_index # None
    BY <1>4 DEF Unlock
  <2>8. UnlockMade(w)
    BY <2>4, <2>5, <2>6, <2>7 DEF UnlockMade
  <2>9. WireMade(w)
    BY <2>5, <2>8 DEF WireMade
  <2> QED BY <1>1, <2>4, <2>9, WireKept
<1>5. CASE FlashEnds
  BY <1>1, <1>5, WireKept DEF FlashEnds, WireMade, Idle
<1> QED BY <1>2, <1>3, <1>4, <1>5
     DEF Next, vars, ExtractFrf, ExtractOdx, SplitBin, CombineBin, Checksum, TuneFile, TuneImage, CutImage, Edit

LEMMA InitWire == Init => SentInv
<1> SUFFICES ASSUME Init PROVE WireMade(wire)
  BY InitInv DEF SentInv
<1>1. wire = Idle
  BY DEF Init
<1> QED BY <1>1 DEF WireMade, Idle

LEMMA PatchIndex ==
  ASSUME Chosen, fi.patch_block_index # None
  PROVE  fi.patch_block_index \in {2, 4}
<1>1. fi \in FlashInfos
  BY VendorAssumption, Registry DEF Chosen
<1>2. SimosFamily.patch_block_index = None
  BY DEF SimosFamily
<1>3. S18_FLASH_INFO.patch_block_index = 4
  BY DEF S18_FLASH_INFO, SimosFamily
<1>4. S1810_FLASH_INFO.patch_block_index = 2
  BY DEF S1810_FLASH_INFO, SimosFamily
<1>5. S184_FLASH_INFO.patch_block_index = 2
  BY DEF S184_FLASH_INFO, S1810_FLASH_INFO, SimosFamily
<1>6. S16_FLASH_INFO.patch_block_index = None
  BY DEF S16_FLASH_INFO, SimosFamily
<1>7. S12_FLASH_INFO.patch_block_index = None
  BY DEF S12_FLASH_INFO, SimosFamily
<1>8. S122_FLASH_INFO.patch_block_index = None
  BY DEF S122_FLASH_INFO, S12_FLASH_INFO, SimosFamily
<1>9. S10_FLASH_INFO.patch_block_index = None
  BY DEF S10_FLASH_INFO, SimosFamily
<1>10. S8_FLASH_INFO.patch_block_index = None
  BY DEF S8_FLASH_INFO, S10_FLASH_INFO, SimosFamily
<1>11. DQ250_FLASH_INFO.patch_block_index = None
  BY DEF DQ250_FLASH_INFO
<1>12. DQ381_FLASH_INFO.patch_block_index = None
  BY DEF DQ381_FLASH_INFO
<1>13. HALDEX_FLASH_INFO.patch_block_index = None
  BY DEF HALDEX_FLASH_INFO
<1> QED BY <1>1, <1>3, <1>4, <1>5, <1>6, <1>7, <1>8, <1>9, <1>10, <1>11, <1>12, <1>13 DEF FlashInfos

\* Every block on the wire is one of those that were lined up.
LEMMA OneOfThem ==
  ASSUME NEW blocks, NEW i \in DOMAIN InOrder(blocks)
  PROVE  \E n \in DOMAIN blocks : InOrder(blocks)[i] = Prepared(blocks, n)
<1>1. PICK s : s = InOrder(blocks)
  OBVIOUS
<1>2. PICK P : P = PreparedOf(blocks)
  OBVIOUS
<1>3. s \in Seq(P)
  BY <1>1, <1>2, InOrderIs DEF Lined
<1>4. i \in DOMAIN s
  BY <1>1
<1>5. s[i] \in P
  BY <1>3, <1>4, SeqAs
<1> QED BY <1>1, <1>2, <1>5 DEF PreparedOf

LEMMA JoinedIs ==
  ASSUME NEW S, NEW a \in Seq(S), NEW b \in Seq(S)
  PROVE  /\ a \o b \in Seq(S) /\ Len(a \o b) = Len(a) + Len(b)
         /\ \A k \in 1..(Len(a) + Len(b)) : (a \o b)[k] = IF k <= Len(a) THEN a[k] ELSE b[k - Len(a)]
OBVIOUS

LEMMA OneOfThree ==
  ASSUME NEW S, NEW a \in Seq(S), NEW p \in S, NEW b \in Seq(S), NEW i \in DOMAIN (a \o <<p>> \o b)
  PROVE  \/ \E j \in DOMAIN a : (a \o <<p>> \o b)[i] = a[j]
         \/ (a \o <<p>> \o b)[i] = p
         \/ \E j \in DOMAIN b : (a \o <<p>> \o b)[i] = b[j]
<1>1. PICK s : s = a \o <<p>> \o b
  OBVIOUS
<1>2. /\ Len(a) \in Nat /\ DOMAIN a = 1..Len(a)
      /\ Len(b) \in Nat /\ DOMAIN b = 1..Len(b)
  BY SeqAs
<1>3. PICK q : q = <<p>>
  OBVIOUS
<1>4. q \in Seq(S) /\ Len(q) = 1 /\ q[1] = p
  BY <1>3
<1>5. PICK t : t = a \o q
  OBVIOUS
<1>6. /\ t \in Seq(S) /\ Len(t) = Len(a) + 1
      /\ \A k \in 1..(Len(a) + 1) : t[k] = IF k <= Len(a) THEN a[k] ELSE q[k - Len(a)]
  <2>1. /\ t \in Seq(S) /\ Len(t) = Len(a) + Len(q)
        /\ \A k \in 1..(Len(a) + Len(q)) : t[k] = IF k <= Len(a) THEN a[k] ELSE q[k - Len(a)]
    BY <1>4, <1>5, JoinedIs, Zenon
  <2> QED BY <1>4, <2>1
<1>7. s = t \o b
  BY <1>1, <1>3, <1>5
<1>8. /\ Len(s) = Len(a) + 1 + Len(b) /\ DOMAIN s = 1..Len(s)
      /\ \A k \in 1..Len(s) : s[k] = IF k <= Len(t) THEN t[k] ELSE b[k - Len(t)]
  <2>1. /\ s \in Seq(S) /\ Len(s) = Len(t) + Len(b)
        /\ \A k \in 1..(Len(t) + Len(b)) : s[k] = IF k <= Len(t) THEN t[k] ELSE b[k - Len(t)]
    BY <1>6, <1>7, JoinedIs
  <2>2. DOMAIN s = 1..Len(s)
    BY <2>1, SeqAs
  <2> QED BY <1>2, <1>6, <2>1, <2>2
<1>9. i \in 1..(Len(a) + 1 + Len(b))
  BY <1>1, <1>8
<1>10. CASE i <= Len(a)
  BY <1>1, <1>2, <1>6, <1>8, <1>9, <1>10
<1>11. CASE i = Len(a) + 1
  BY <1>1, <1>2, <1>4, <1>6, <1>8, <1>9, <1>11
<1>12. CASE i > Len(a) + 1
  BY <1>1, <1>2, <1>6, <1>8, <1>9, <1>12
<1> QED BY <1>2, <1>9, <1>10, <1>11, <1>12

LEMMA FlashSent ==
  ASSUME Chosen, FlashMade(wire), NEW i \in DOMAIN wire.sent
  PROVE  SentFlash(i)
<1>1. PICK given : given = wire.given
  OBVIOUS
<1>2. PICK fixed : fixed = checksum_and_patch_blocks(fi, wire.given, wire.patch).blocks
  OBVIOUS
<1>3. BlockFiles(wire.given) /\ wire.patch \in BOOLEAN
      /\ checksum_and_patch_blocks(fi, wire.given, wire.patch).ok
      /\ wire.sent = InOrder(fixed)
  BY <1>2 DEF FlashMade
<1>4. /\ DOMAIN fixed = DOMAIN given
      /\ \A n \in DOMAIN given : SentRight(n, given[n], fixed[n], wire.patch)
  BY <1>1, <1>2, <1>3, PassRight
<1>5. PICK n \in DOMAIN fixed : wire.sent[i] = Prepared(fixed, n)
  BY <1>3, OneOfThem
<1>6. n \in Blocks(fi) /\ BlockFile(n, given[n])
  BY <1>1, <1>3, <1>4 DEF BlockFiles
<1>7. SentRight(n, given[n], fixed[n], wire.patch) /\ BlockFile(n, fixed[n])
  BY <1>4 DEF SentRight
<1>8. PICK data : data = fixed[n]
  OBVIOUS
<1>9. PICK p : p = wire.sent[i]
  OBVIOUS
<1>10. p = prepare_block(fi, n, static_length(n), data)
  BY <1>5, <1>8, <1>9 DEF Prepared
<1>11. /\ p.block_number = n /\ p.announced_length = Len(data)
       /\ Received(p) = data
       /\ fi.uds_checksum_kind = "Crc32Be" => p.uds_checksum = Crc(255, data)
  BY <1>6, <1>7, <1>8, <1>10, ReceivedIs
<1>12. DOMAIN given[n] = 1..Len(given[n])
  BY <1>6, SeqAs DEF BlockFile
<1> QED BY <1>1, <1>4, <1>7, <1>8, <1>9, <1>11, <1>12 DEF SentFlash

\* A block of an unlock is as it was in the firmware file.
LEMMA UnlockSent ==
  ASSUME Chosen, UnlockMade(wire), NEW i \in DOMAIN wire.sent, wire.sent[i].block_number <= 5
  PROVE  Received(wire.sent[i]) = wire.given[wire.sent[i].block_number]
<1>1. PICK A, B : A = [n \in 1..4 |-> wire.given[n]] /\ B = Only(5, wire.given[5])
  OBVIOUS
<1>2. PICK a, b : a = InOrder(A) /\ b = InOrder(B)
  OBVIOUS
<1>3. /\ BlockFiles(wire.given) /\ 1..5 \subseteq DOMAIN wire.given
      /\ fi.patch_block_index # None
      /\ wire.sent = a \o <<UnlockPatch>> \o b
  BY <1>1, <1>2 DEF UnlockMade
<1>4. PICK S : S = PreparedOf(A) \union {UnlockPatch} \union PreparedOf(B)
  OBVIOUS
<1>5. a \in Seq(S) /\ b \in Seq(S) /\ UnlockPatch \in S
  BY <1>2, <1>4, InOrderIs DEF Lined
<1>6. \/ \E j \in DOMAIN a : wire.sent[i] = a[j]
      \/ wire.sent[i] = UnlockPatch
      \/ \E j \in DOMAIN b : wire.sent[i] = b[j]
  BY <1>3, <1>5, OneOfThree
<1>7. wire.sent[i] # UnlockPatch
  <2>1. UnlockPatch.block_number = fi.patch_block_index + 5
    BY DEF UnlockPatch, prepare_patch_block
  <2>2. fi.patch_block_index \in {2, 4}
    BY <1>3, PatchIndex
  <2>3. UnlockPatch.block_number \in {7, 9}
    BY <2>1, <2>2
  <2>4. ~(UnlockPatch.block_number <= 5)
    BY <2>3
  <2> QED BY <2>4, Zenon
<1>8. \E n \in 1..5 : wire.sent[i] = prepare_block(fi, n, static_length(n), wire.given[n])
  <2>1. CASE \E j \in DOMAIN a : wire.sent[i] = a[j]
    <3>1. PICK j \in DOMAIN a : wire.sent[i] = a[j]
      BY <2>1
    <3>2. j \in DOMAIN InOrder(A)
      BY <1>2, <3>1
    <3>3. PICK n \in DOMAIN A : InOrder(A)[j] = Prepared(A, n)
      BY <3>2, OneOfThem
    <3>4. n \in 1..4 /\ A[n] = wire.given[n]
      BY <1>1
    <3>5. wire.sent[i] = prepare_block(fi, n, static_length(n), wire.given[n])
      BY <1>2, <3>1, <3>3, <3>4 DEF Prepared
    <3> QED BY <3>4, <3>5
  <2>2. CASE \E j \in DOMAIN b : wire.sent[i] = b[j]
    <3>1. PICK j \in DOMAIN b : wire.sent[i] = b[j]
      BY <2>2
    <3>2. j \in DOMAIN InOrder(B)
      BY <1>2, <3>1
    <3>3. PICK n \in DOMAIN B : InOrder(B)[j] = Prepared(B, n)
      BY <3>2, OneOfThem
    <3>4. n = 5 /\ B[n] = wire.given[5]
      BY <1>1 DEF Only
    <3>5. wire.sent[i] = prepare_block(fi, n, static_length(n), wire.given[n])
      BY <1>2, <3>1, <3>3, <3>4 DEF Prepared
    <3> QED BY <3>4, <3>5
  <2> QED BY <1>6, <1>7, <2>1, <2>2
<1>9. PICK n \in 1..5 : wire.sent[i] = prepare_block(fi, n, static_length(n), wire.given[n])
  BY <1>8
<1>10. n \in Blocks(fi) /\ BlockFile(n, wire.given[n])
  BY <1>3 DEF BlockFiles
<1>11. PICK p, data : p = wire.sent[i] /\ data = wire.given[n]
  OBVIOUS
<1>12. p = prepare_block(fi, n, static_length(n), data) /\ BlockFile(n, data)
  BY <1>9, <1>10, <1>11
<1>13. p.block_number = n /\ Received(p) = data
  BY <1>10, <1>12, ReceivedIs
<1> QED BY <1>11, <1>13

LEMMA SentIsRight == SentInv => PreparedExactly
<1> SUFFICES ASSUME Inv, WireMade(wire) PROVE PreparedExactly
  BY DEF SentInv
<1>0. Chosen
  BY DEF Inv
<1>1. ASSUME wire.cmd = "flash", NEW i \in DOMAIN wire.sent PROVE SentFlash(i)
  BY <1>0, <1>1, FlashSent DEF WireMade
<1>2. SentPassesChecks
  <2> SUFFICES ASSUME wire.cmd = "flash", NEW i \in DOMAIN wire.sent
               PROVE  LET p == wire.sent[i]
                          data == Received(p)
                          n == p.block_number
                      IN  /\ Len(data) = p.announced_length
                          /\ has_internal_checksum(fi, n) => validate_block(fi, data, n).state = "Valid"
                          /\ Ecm3Holds(fi, data, n) \/ (n = block_to_number(fi, "CAL") /\ FlagLost(data))
                          /\ fi.uds_checksum_kind = "Crc32Be" => p.uds_checksum = Crc(255, data)
    BY DEF SentPassesChecks
  <2>1. PICK p : p = wire.sent[i]
    OBVIOUS
  <2>2. PICK n : n = p.block_number
    OBVIOUS
  <2>3. PICK data : data = Received(p)
    OBVIOUS
  <2>4. /\ Len(data) = p.announced_length
        /\ fi.uds_checksum_kind = "Crc32Be" => p.uds_checksum = Crc(255, data)
        /\ SentRight(n, wire.given[n], data, wire.patch)
    BY <1>1, <2>1, <2>2, <2>3 DEF SentFlash
  <2>5. /\ has_internal_checksum(fi, n) => validate_block(fi, data, n).state = "Valid"
        /\ Ecm3Holds(fi, data, n) \/ (n = CAL /\ FlagGone(wire.given[n], data))
    BY <2>4 DEF SentRight
  <2>6. Ecm3Holds(fi, data, n) \/ (n = block_to_number(fi, "CAL") /\ FlagLost(data))
    BY <2>5 DEF FlagGone, FlagLost, CAL
  <2> QED BY <2>1, <2>2, <2>3, <2>4, <2>5, <2>6
<1>3. OnlyChecksumsChange
  <2> SUFFICES ASSUME NEW i \in DOMAIN wire.sent, wire.sent[i].block_number <= 5,
                      NEW c \in DOMAIN wire.given[wire.sent[i].block_number]
               PROVE  LET n == wire.sent[i].block_number
                          data == Received(wire.sent[i])
                          given == wire.given[n]
                      IN  \/ data[c] = given[c]
                          \/ wire.cmd = "flash" /\ c \in ChecksumCells(n, given)
                          \/ wire.patch /\ n = block_to_number(fi, "CBOOT") /\ given[c] = NEEDLE
    BY DEF OnlyChecksumsChange
  <2>1. PICK n : n = wire.sent[i].block_number
    OBVIOUS
  <2>2. PICK data : data = Received(wire.sent[i])
    OBVIOUS
  <2>3. PICK given : given = wire.given[n]
    OBVIOUS
  <2>4. c \in DOMAIN given
    BY <2>1, <2>3
  <2>5. CASE wire.cmd = "flash"
    BY <1>1, <2>1, <2>2, <2>3, <2>4, <2>5 DEF SentFlash, SentRight, CBOOT
  <2>6. CASE wire.cmd = "unlock"
    BY <1>0, <2>1, <2>2, <2>3, <2>6, UnlockSent DEF WireMade
  <2>7. wire.cmd # "none"
    BY DEF WireMade
  <2> QED BY <2>5, <2>6, <2>7 DEF WireMade
<1> QED BY <1>2, <1>3 DEF PreparedExactly

\* What a flash puts on the wire unpacks to a block whose checksums hold, with
\* the length and the CRC that were announced, and differs from the file it was
\* made of in the checksums and the patch asked for alone; an unlock sends the
\* file as it is (checksum_and_patch_blocks, prepare_block).  Nothing is said of
\* the ECM3 sum of a CAL whose range in box_codes.csv does not end inside it, or
\* that has none: fix_ecm3 leaves that one as it is, and the flash goes on.
THEOREM PreparedRight == Spec => []PreparedExactly
<1>1. Init => SentInv
  BY InitWire
<1>2. SentInv /\ [Next]_vars => SentInv'
  BY NextWire
<1>3. SentInv => PreparedExactly
  BY SentIsRight
<1> QED BY <1>1, <1>2, <1>3, PTL DEF Spec

-----------------------------------------------------------------------------
(***************************************************************************)
(* Correcting twice: the checksums of the blocks and ECM3, in either order. *)
(***************************************************************************)
LEMMA Ecm3Exactly ==
  ASSUME NEW range, NEW cal \in Seq(Byte), Reached(range, cal)
  PROVE  LET c == Ecm3Cell(cal)
             sum == Ecm3Sum(range, cal)
             e == validate_ecm3(range, cal).data
         IN  /\ e \in Seq(Byte) /\ Len(e) = Len(cal)
             /\ \A i \in 1..Len(cal) : e[i] = IF i = c + 1 THEN sum[2] ELSE IF i = c THEN sum[1] ELSE cal[i]
<1>0. PICK c, sum, e : /\ c = Ecm3Cell(cal) /\ sum = Ecm3Sum(range, cal)
                       /\ e = validate_ecm3(range, cal).data
  OBVIOUS
<1>1. c \in {5, 7}
  BY <1>0 DEF Ecm3Cell
<1>2. sum[1] \in Byte /\ sum[2] \in Byte /\ sum = <<sum[1], sum[2]>>
  BY <1>0, Ecm3SumIs
<1> SUFFICES /\ e \in Seq(Byte) /\ Len(e) = Len(cal)
             /\ \A i \in 1..Len(cal) : e[i] = IF i = c + 1 THEN sum[2] ELSE IF i = c THEN sum[1] ELSE cal[i]
  BY <1>0
<1>3. CASE <<cal[c], cal[c + 1]>> = sum
  BY <1>0, <1>3, ValidateEcm3Is
<1>4. CASE <<cal[c], cal[c + 1]>> # sum
  <2>1. e = [cal EXCEPT ![c] = sum[1], ![c + 1] = sum[2]]
    BY <1>0, <1>4, ValidateEcm3Is
  <2>2. c \in Nat
    BY <1>1
  <2>3. PICK x, y : x = sum[1] /\ y = sum[2]
    OBVIOUS
  <2>4. x \in Byte /\ y \in Byte
    BY <1>2, <2>3
  <2>5. LET f == [cal EXCEPT ![c] = x, ![c + 1] = y]
        IN  /\ f \in Seq(Byte) /\ Len(f) = Len(cal)
            /\ \A i \in 1..Len(cal) : f[i] = IF i = c + 1 THEN y ELSE IF i = c THEN x ELSE cal[i]
    BY <2>2, <2>4, PairReplaced
  <2>6. e = [cal EXCEPT ![c] = x, ![c + 1] = y]
    BY <2>1, <2>3
  <2> QED BY <2>3, <2>5, <2>6
<1> QED BY <1>3, <1>4

LEMMA Ecm3Commutes ==
  ASSUME NEW range, NEW cal \in Seq(Byte), Ecm3Range(range), NEW f, AgreeBut(f, cal, {2})
  PROVE  AgreeBut(validate_ecm3(range, f).data, validate_ecm3(range, cal).data, {2})
<1>0. 4 \notin {2} /\ {2} \subseteq 1..8
  OBVIOUS
<1>1. CASE Reached(range, cal)
  <2>1. f \in Seq(Byte) /\ Reached(range, f) /\ Ecm3Sum(range, f) = Ecm3Sum(range, cal)
    BY <1>0, <1>1, Ecm3Same
  <2>2. Ecm3Cell(f) = Ecm3Cell(cal)
    BY <1>1, SeqAs DEF Reached, Ecm3Range, AgreeBut, Ecm3Cell
  <2>3. PICK c, sum, d, e : /\ c = Ecm3Cell(cal) /\ sum = Ecm3Sum(range, cal)
                            /\ d = validate_ecm3(range, cal).data
                            /\ e = validate_ecm3(range, f).data
    OBVIOUS
  <2>4. /\ d \in Seq(Byte) /\ Len(d) = Len(cal)
        /\ \A i \in 1..Len(cal) : d[i] = IF i = c + 1 THEN sum[2] ELSE IF i = c THEN sum[1] ELSE cal[i]
    BY <1>1, <2>3, Ecm3Exactly
  <2>5. /\ e \in Seq(Byte) /\ Len(e) = Len(f)
        /\ \A i \in 1..Len(f) : e[i] = IF i = c + 1 THEN sum[2] ELSE IF i = c THEN sum[1] ELSE f[i]
    BY <2>1, <2>2, <2>3, Ecm3Exactly
  <2>6. Len(f) = Len(cal) /\ \A i \in 1..Len(cal) : i \notin {2} => f[i] = cal[i]
    BY DEF AgreeBut
  <2>7. AgreeBut(e, d, {2})
    BY <2>4, <2>5, <2>6 DEF AgreeBut
  <2> QED BY <2>3, <2>7
<1>2. CASE ~Reached(range, cal)
  BY <1>2, Unreached DEF AgreeBut, Reached
<1> QED BY <1>1, <1>2

LEMMA SeenCal ==
  ASSUME SimosInfo(fi), NEW blocks, blocks = [n \in DOMAIN blocks |-> blocks[n]], CAL \in DOMAIN blocks
  PROVE  SeenOf(blocks)[CAL] = WithEcm3(blocks[CAL])
<1>1. SeenOf(blocks) = fix_ecm3(fi, blocks)
  BY DEF SeenOf, SimosInfo
<1>2. PICK range : range = load_ecm3_location(fi, blocks[CAL])
  OBVIOUS
<1>3. fix_ecm3(fi, blocks) = IF range = None THEN blocks
                             ELSE [blocks EXCEPT ![CAL] = validate_ecm3(range, blocks[CAL]).data]
  BY <1>2 DEF fix_ecm3, CAL
<1>4. CASE range = None
  BY <1>1, <1>2, <1>3, <1>4 DEF WithEcm3
<1>5. CASE range # None
  <2>1. PICK e : e = validate_ecm3(range, blocks[CAL]).data
    OBVIOUS
  <2>2. WithEcm3(blocks[CAL]) = e
    BY <1>2, <1>5, <2>1 DEF WithEcm3
  <2>3. SeenOf(blocks) = [blocks EXCEPT ![CAL] = e]
    BY <1>1, <1>3, <1>5, <2>1
  <2>4. [blocks EXCEPT ![CAL] = e][CAL] = e
    OBVIOUS
  <2> QED BY <2>2, <2>3, <2>4
<1> QED BY <1>4, <1>5

LEMMA WithEcm3Is ==
  ASSUME Chosen, SimosInfo(fi), NEW b, BlockFile(CAL, b), NEW f, AgreeBut(f, b, {2})
  PROVE  AgreeBut(WithEcm3(b), b, {5, 6, 7, 8}) /\ AgreeBut(WithEcm3(f), WithEcm3(b), {2})
<1>1. b \in Seq(Byte) /\ Len(b) >= 1
  BY DEF BlockFile
<1>2. PICK range : range = load_ecm3_location(fi, b)
  OBVIOUS
<1>3. load_ecm3_location(fi, f) = range
  BY <1>1, <1>2, LocationSame
<1>4. CASE range = None
  BY <1>1, <1>2, <1>3, <1>4 DEF WithEcm3, AgreeBut
<1>5. CASE range # None
  <2>1. WithEcm3(b) = validate_ecm3(range, b).data /\ WithEcm3(f) = validate_ecm3(range, f).data
    BY <1>2, <1>3, <1>5 DEF WithEcm3
  <2>2. Ecm3Range(range)
    BY <1>2, <1>5, LocationIs
  <2>3. AgreeBut(validate_ecm3(range, b).data, b, {5, 6, 7, 8})
    BY <1>1, <2>2, Ecm3Is DEF Ecm3Written
  <2>4. AgreeBut(validate_ecm3(range, f).data, validate_ecm3(range, b).data, {2})
    BY <1>1, <2>2, Ecm3Commutes
  <2> QED BY <2>1, <2>3, <2>4
<1> QED BY <1>4, <1>5

\* One cell set right in two blocks that differ in no other.
LEMMA SettledAlike ==
  ASSUME NEW x \in Seq(Byte), NEW cell \in 1..Len(x), NEW value \in Byte, NEW y, AgreeBut(y, x, {cell})
  PROVE  /\ Settle(x, cell, value).state # "Failed" /\ Settle(y, cell, value).state # "Failed"
         /\ Settle(y, cell, value).data = Settle(x, cell, value).data
<1>1. y \in Seq(Byte) /\ Len(y) = Len(x) /\ \A i \in 1..Len(x) : i # cell => y[i] = x[i]
  BY DEF AgreeBut
<1>2. PICK r, s : r = Settle(x, cell, value) /\ s = Settle(y, cell, value)
  OBVIOUS
<1>3. /\ Corrected(r, x) /\ r.state # "Failed" /\ r.data[cell] = value
      /\ \A i \in 1..Len(x) : i # cell => r.data[i] = x[i]
  BY <1>2, SettleIs
<1>4. /\ Corrected(s, y) /\ s.state # "Failed" /\ s.data[cell] = value
      /\ \A i \in 1..Len(y) : i # cell => s.data[i] = y[i]
  BY <1>1, <1>2, SettleIs
<1>5. r.data \in Seq(Byte) /\ Len(r.data) = Len(x) /\ s.data \in Seq(Byte) /\ Len(s.data) = Len(x)
  BY <1>1, <1>3, <1>4 DEF Corrected
<1>6. \A i \in 1..Len(x) : s.data[i] = r.data[i]
  BY <1>1, <1>3, <1>4
<1>7. s.data = r.data
  BY <1>5, <1>6, SameSeq
<1> QED BY <1>2, <1>3, <1>4, <1>7

\* Whether ECM3 is corrected before or after the block's own checksum, and
\* before it once more, the block is the same in the end.
LEMMA CalSame ==
  ASSUME Chosen, SimosInfo(fi), NEW b, BlockFile(CAL, b),
         validate_block(fi, b, CAL).state # "Failed",
         NEW x, x = WithEcm3(b), NEW y, y = WithEcm3(validate_block(fi, b, CAL).data)
  PROVE  /\ validate_block(fi, x, CAL).state # "Failed"
         /\ validate_block(fi, y, CAL).state # "Failed"
         /\ validate_block(fi, y, CAL).data = validate_block(fi, x, CAL).data
<1>0. CAL \in Blocks(fi) /\ CBOOT # CAL /\ CAL \in 1..5 /\ fi.dynamic_block_length_offsets = {}
  <2>1. CAL \in Blocks(fi) /\ fi.dynamic_block_length_offsets = {}
    BY DEF SimosInfo, CAL
  <2>2. CAL # CBOOT
    BY DEF SimosInfo, CAL, CBOOT
  <2>3. CAL \in 1..5
    BY <2>1, BlocksAre, ChosenIs
  <2> QED BY <2>1, <2>2, <2>3
<1>1. \A d : validate_block(fi, d, CAL) = validate_simos(fi, d, CAL)
  BY <1>0 DEF validate_block, SimosInfo, CBOOT, validate_simos_block
<1>2. PICK f : f = validate_block(fi, b, CAL).data
  OBVIOUS
<1>3. AgreeBut(f, b, {2})
  <2>1. has_internal_checksum(fi, CAL)
    BY DEF SimosInfo, has_internal_checksum
  <2>2. AgreeBut(f, b, OwnChecksum(CAL, b))
    BY <1>0, <1>2, <2>1, BlockAgain DEF RightAgain
  <2>3. OwnChecksum(CAL, b) = {2}
    BY <1>0, KindIs DEF OwnChecksum, StoredCells, CBOOT
  <2> QED BY <2>2, <2>3
<1>4. AgreeBut(x, b, {5, 6, 7, 8}) /\ AgreeBut(y, x, {2})
  BY <1>2, <1>3, WithEcm3Is
<1>5. /\ b \in Seq(Byte) /\ x \in Seq(Byte) /\ y \in Seq(Byte)
      /\ Len(x) = Len(b) /\ Len(y) = Len(x)
  BY <1>4 DEF BlockFile, AgreeBut
<1>6. CAL # 6 /\ Header(CAL).areas = 3 /\ Header(CAL).stored = 2
  BY <1>0, HeaderIs
<1>7. CAL \in fi.checksum_block_location /\ 3 <= Len(b) /\ Sound(b, Header(CAL))
  <2>1. validate_simos(fi, b, CAL).state # "Failed"
    BY <1>1, Zenon
  <2>2. CAL \in fi.checksum_block_location /\ Header(CAL).areas <= Len(b) /\ Sound(b, Header(CAL))
    BY <1>5, <2>1, SimosIs
  <2> QED BY <1>6, <2>2
<1>8. x[3] = b[3]
  BY <1>4, <1>5, <1>7, SeqAs DEF AgreeBut
<1>9. Sound(x, Header(CAL))
  BY <1>5, <1>6, <1>7, <1>8 DEF Sound, Areas
<1>10. validate_simos(fi, x, CAL).state # "Failed"
  BY <1>5, <1>6, <1>7, <1>9, SimosIs
<1>11. ClearTable(Len(x), {2})
  <2>1. Len(b) = Len(Vendor[mod][CAL])
    BY <1>0, StaticIs DEF BlockFile
  <2>2. ClearTable(Len(Vendor[mod][CAL]), StoredCells(fi, CAL))
    BY <1>0, LayoutIs
  <2>3. StoredCells(fi, CAL) = {2}
    BY <1>0 DEF StoredCells, CBOOT
  <2> QED BY <1>5, <2>1, <2>2, <2>3
<1>12. PICK value : value = Crc(0, Covered(x, Header(CAL)))
  OBVIOUS
<1>13. validate_simos(fi, x, CAL) = Settle(x, 2, value) /\ value \in Byte /\ 2 \in 1..Len(x)
  BY <1>5, <1>6, <1>10, <1>12, SimosIs
<1>14. validate_simos(fi, y, CAL) = Settle(y, 2, value)
  BY <1>4, <1>5, <1>6, <1>10, <1>11, <1>12, SimosKept
<1>15. /\ Settle(x, 2, value).state # "Failed" /\ Settle(y, 2, value).state # "Failed"
       /\ Settle(y, 2, value).data = Settle(x, 2, value).data
  BY <1>4, <1>5, <1>13, SettledAlike
<1> QED BY <1>1, <1>13, <1>14, <1>15

LEMMA PassSame ==
  ASSUME NEW b, NEW p, NEW s, NEW c, NEW q, NEW t, SamePass(b, p, s, c, q, t)
  PROVE  checksum_and_patch_blocks(fi, c, q) = checksum_and_patch_blocks(fi, b, p)
<1>1. checksum_and_patch_blocks(fi, b, p) =
        [ok |-> (p => CBOOT \in DOMAIN SeenOf(b) /\ Patchable(SeenOf(b)[CBOOT]))
                /\ \A n \in DOMAIN s : s[n].state # "Failed",
         blocks |-> [n \in DOMAIN s |-> s[n].data]]
  BY DEF checksum_and_patch_blocks, PatchedOf, SeenOf, CBOOT, SamePass
<1>2. checksum_and_patch_blocks(fi, c, q) =
        [ok |-> (q => CBOOT \in DOMAIN SeenOf(c) /\ Patchable(SeenOf(c)[CBOOT]))
                /\ \A n \in DOMAIN t : t[n].state # "Failed",
         blocks |-> [n \in DOMAIN t |-> t[n].data]]
  BY DEF checksum_and_patch_blocks, PatchedOf, SeenOf, CBOOT, SamePass
<1>3. ((p => CBOOT \in DOMAIN SeenOf(b) /\ Patchable(SeenOf(b)[CBOOT]))
       /\ \A n \in DOMAIN s : s[n].state # "Failed") = TRUE
  BY DEF PatchIn, SamePass
<1>4. ((q => CBOOT \in DOMAIN SeenOf(c) /\ Patchable(SeenOf(c)[CBOOT]))
       /\ \A n \in DOMAIN t : t[n].state # "Failed") = TRUE
  BY DEF PatchIn, SamePass
<1>5. [n \in DOMAIN t |-> t[n].data] = [n \in DOMAIN s |-> s[n].data]
  BY DEF SamePass
<1> QED BY <1>1, <1>2, <1>3, <1>4, <1>5, Zenon

\* A block is not changed by a second correction.
LEMMA OwnAgain ==
  ASSUME Chosen, NEW n \in Blocks(fi), NEW x, BlockFile(n, x), NEW r,
         r = (IF n <= 5 /\ has_internal_checksum(fi, n) THEN validate_block(fi, x, n)
              ELSE [state |-> "Valid", data |-> x]),
         r.state # "Failed",
         NEW again,
         again = (IF n <= 5 /\ has_internal_checksum(fi, n) THEN validate_block(fi, r.data, n)
                  ELSE [state |-> "Valid", data |-> r.data])
  PROVE  /\ AgreeBut(r.data, x, IF has_internal_checksum(fi, n) THEN OwnChecksum(n, x) ELSE {})
         /\ again.state # "Failed" /\ again.data = r.data
<1>1. n <= 5
  BY BlocksAre, ChosenIs
<1>2. x \in Seq(Byte) /\ Len(x) >= 1
  BY DEF BlockFile
<1>3. CASE has_internal_checksum(fi, n)
  <2>1. r = validate_block(fi, x, n) /\ again = validate_block(fi, r.data, n)
    BY <1>1, <1>3
  <2>2. RightAgain(validate_block(fi, x, n),
                   validate_block(fi, validate_block(fi, x, n).data, n), x, OwnChecksum(n, x))
    BY <1>3, <2>1, BlockAgain
  <2>3. again.state = "Valid" /\ AgreeBut(r.data, x, OwnChecksum(n, x))
    BY <2>1, <2>2 DEF RightAgain
  <2>4. r.data \in Seq(Byte) /\ Len(r.data) >= 1
    BY <1>2, <2>3 DEF AgreeBut
  <2>5. Checked(again, r.data)
    BY <2>1, <2>4, ValidatedIs, ChosenIs
  <2> QED BY <1>3, <2>3, <2>5 DEF Checked
<1>4. CASE ~has_internal_checksum(fi, n)
  BY <1>2, <1>4 DEF AgreeBut
<1> QED BY <1>3, <1>4

LEMMA PatchedFiles ==
  ASSUME Chosen, NEW blocks, BlockFiles(blocks), NEW patch
  PROVE  /\ BlockFiles(PatchedOf(blocks, patch))
         /\ DOMAIN PatchedOf(blocks, patch) = DOMAIN blocks
         /\ \A n \in DOMAIN blocks : n # CBOOT => PatchedOf(blocks, patch)[n] = blocks[n]
<1>1. CASE patch /\ CBOOT \in DOMAIN blocks /\ Patchable(blocks[CBOOT])
  <2>1. PICK e : e = patch_cboot(blocks[CBOOT])
    OBVIOUS
  <2>2. PatchedOf(blocks, patch) = [blocks EXCEPT ![CBOOT] = e]
    BY <1>1, <2>1 DEF PatchedOf
  <2>3. BlockFile(CBOOT, e)
    BY <1>1, <2>1, PatchedIs DEF BlockFiles, BlockFile
  <2>4. /\ DOMAIN [blocks EXCEPT ![CBOOT] = e] = DOMAIN blocks
        /\ \A n \in DOMAIN blocks : [blocks EXCEPT ![CBOOT] = e][n] = IF n = CBOOT THEN e ELSE blocks[n]
        /\ [blocks EXCEPT ![CBOOT] = e] = [n \in DOMAIN blocks |-> [blocks EXCEPT ![CBOOT] = e][n]]
    OBVIOUS
  <2>5. BlockFiles([blocks EXCEPT ![CBOOT] = e])
    BY <2>3, <2>4 DEF BlockFiles
  <2> QED BY <2>2, <2>4, <2>5
<1>2. CASE ~(patch /\ CBOOT \in DOMAIN blocks /\ Patchable(blocks[CBOOT]))
  BY <1>2 DEF PatchedOf
<1> QED BY <1>1, <1>2

\* It is corrected to the same as the blocks themselves.
LEMMA PassOver ==
  ASSUME Chosen, NEW blocks, BlockFiles(blocks), NEW patch \in BOOLEAN, NEW own, NEW after,
         Passed(blocks, patch, own, after)
  PROVE  checksum_and_patch_blocks(fi, after, FALSE) = checksum_and_patch_blocks(fi, blocks, patch)
<1>p. /\ patch => SimosInfo(fi) /\ CBOOT \in DOMAIN blocks /\ Patchable(blocks[CBOOT])
      /\ own = OwnPass(blocks, patch)
      /\ \A n \in DOMAIN own : own[n].state # "Failed"
      /\ after = [n \in DOMAIN own |-> own[n].data]
  BY DEF Passed
<1>1. PICK x : x = PatchedOf(blocks, patch)
  OBVIOUS
<1>2. BlockFiles(x) /\ DOMAIN x = DOMAIN blocks /\ \A n \in DOMAIN blocks : n # CBOOT => x[n] = blocks[n]
  BY <1>1, PatchedFiles
<1>3. own = PerBlock(fi, x)
  BY <1>p, <1>1 DEF OwnPass
<1>4. DOMAIN own = DOMAIN blocks
  BY <1>2, <1>3 DEF PerBlock
<1>5. \A n \in DOMAIN blocks :
        own[n] = IF n <= 5 /\ has_internal_checksum(fi, n) THEN validate_block(fi, x[n], n)
                 ELSE [state |-> "Valid", data |-> x[n]]
  BY <1>2, <1>3 DEF PerBlock
<1>5b. DOMAIN blocks \subseteq 1..5
  BY BlocksAre, ChosenIs DEF BlockFiles
<1>6. DOMAIN after = DOMAIN blocks /\ \A n \in DOMAIN blocks : after[n] = own[n].data
  BY <1>p, <1>4
<1>7. ASSUME NEW n \in DOMAIN blocks
      PROVE  /\ n \in Blocks(fi) /\ BlockFile(n, x[n]) /\ BlockFile(n, after[n])
             /\ \A again : again = (IF n <= 5 /\ has_internal_checksum(fi, n)
                                    THEN validate_block(fi, after[n], n)
                                    ELSE [state |-> "Valid", data |-> after[n]])
                   => again.state # "Failed" /\ again.data = after[n]
  <2>1. n \in Blocks(fi) /\ BlockFile(n, x[n])
    BY <1>2 DEF BlockFiles
  <2>2. PICK r : r = own[n]
    OBVIOUS
  <2>3. r = (IF n <= 5 /\ has_internal_checksum(fi, n) THEN validate_block(fi, x[n], n)
             ELSE [state |-> "Valid", data |-> x[n]]) /\ r.state # "Failed" /\ after[n] = r.data
    BY <1>p, <1>4, <1>5, <1>6, <2>2
  <2>4. ASSUME NEW again,
               again = (IF n <= 5 /\ has_internal_checksum(fi, n) THEN validate_block(fi, r.data, n)
                        ELSE [state |-> "Valid", data |-> r.data])
        PROVE  /\ AgreeBut(r.data, x[n], IF has_internal_checksum(fi, n) THEN OwnChecksum(n, x[n]) ELSE {})
               /\ again.state # "Failed" /\ again.data = r.data
    BY <2>1, <2>3, <2>4, OwnAgain
  <2>5. AgreeBut(r.data, x[n], IF has_internal_checksum(fi, n) THEN OwnChecksum(n, x[n]) ELSE {})
    BY <2>4
  <2>6. BlockFile(n, r.data)
    BY <2>1, <2>5, AgreeFile
  <2> QED BY <2>1, <2>3, <2>4, <2>6
<1>8. BlockFiles(after)
  BY <1>p, <1>4, <1>6, <1>7 DEF BlockFiles
<1>9. PICK seen, again : seen = SeenOf(blocks) /\ again = SeenOf(after)
  OBVIOUS
<1>10. /\ DOMAIN seen = DOMAIN blocks
       /\ \A n \in DOMAIN blocks : ~(SimosInfo(fi) /\ n = CAL) => seen[n] = blocks[n]
  BY <1>9, SeenIs
<1>11. /\ DOMAIN again = DOMAIN blocks
       /\ \A n \in DOMAIN blocks : ~(SimosInfo(fi) /\ n = CAL) => again[n] = after[n]
  BY <1>6, <1>8, <1>9, SeenIs
<1>12. patch => seen[CBOOT] = blocks[CBOOT] /\ CBOOT # CAL
  BY <1>p, <1>10 DEF SimosInfo, CBOOT, CAL
<1>13. PatchIn(blocks, patch) /\ PatchIn(after, FALSE)
  BY <1>p, <1>9, <1>10, <1>12 DEF PatchIn
<1>14. PICK y, s : y = PatchedOf(seen, patch) /\ s = PerBlock(fi, y)
  OBVIOUS
<1>15. PICK t : t = PerBlock(fi, again)
  OBVIOUS
<1>16. /\ DOMAIN y = DOMAIN blocks
       /\ \A n \in DOMAIN blocks : ~(SimosInfo(fi) /\ n = CAL) => y[n] = x[n]
       /\ SimosInfo(fi) /\ CAL \in DOMAIN blocks => y[CAL] = seen[CAL] /\ x[CAL] = blocks[CAL]
  <2>1. CASE patch
    BY <1>p, <1>1, <1>10, <1>12, <1>14, <2>1 DEF PatchedOf
  <2>2. CASE ~patch
    BY <1>1, <1>10, <1>14, <2>2 DEF PatchedOf
  <2> QED BY <2>1, <2>2
<1>17. PatchedOf(SeenOf(after), FALSE) = again
  BY <1>9 DEF PatchedOf
<1>18. DOMAIN s = DOMAIN blocks /\ DOMAIN t = DOMAIN blocks
  BY <1>11, <1>14, <1>15, <1>16 DEF PerBlock
<1>19. ASSUME NEW n \in DOMAIN blocks
       PROVE  s[n].state # "Failed" /\ t[n].state # "Failed" /\ t[n].data = s[n].data
  <2>1. /\ s[n] = IF n <= 5 /\ has_internal_checksum(fi, n) THEN validate_block(fi, y[n], n)
                  ELSE [state |-> "Valid", data |-> y[n]]
        /\ t[n] = IF n <= 5 /\ has_internal_checksum(fi, n) THEN validate_block(fi, again[n], n)
                  ELSE [state |-> "Valid", data |-> again[n]]
    BY <1>11, <1>14, <1>15, <1>16 DEF PerBlock
  <2>2. CASE ~(SimosInfo(fi) /\ n = CAL)
    <3>1. y[n] = x[n] /\ again[n] = after[n]
      BY <1>11, <1>16, <2>2
    <3>2. s[n] = own[n]
      BY <1>5, <2>1, <3>1
    <3>3. t[n].state # "Failed" /\ t[n].data = after[n]
      BY <1>7, <2>1, <3>1
    <3> QED BY <1>p, <1>4, <1>6, <3>2, <3>3
  <2>3. CASE SimosInfo(fi) /\ n = CAL
    <3>1. n <= 5 /\ has_internal_checksum(fi, n)
      <4>1. has_internal_checksum(fi, n)
        BY <2>3 DEF SimosInfo, has_internal_checksum
      <4>2. n \in 1..5
        BY <1>5b
      <4> QED BY <4>1, <4>2
    <3>2. PICK b : b = blocks[CAL]
      OBVIOUS
    <3>3. x[CAL] = b /\ BlockFile(CAL, b)
      BY <1>7, <1>16, <2>3, <3>2
    <3>4. validate_block(fi, b, CAL).state # "Failed" /\ after[CAL] = validate_block(fi, b, CAL).data
      BY <1>p, <1>4, <1>5, <1>6, <2>3, <3>1, <3>3
    <3>5. y[CAL] = WithEcm3(b)
      BY <1>9, <1>16, <2>3, <3>2, SeenCal DEF BlockFiles
    <3>6. again[CAL] = WithEcm3(after[CAL])
      BY <1>6, <1>8, <1>9, <2>3, SeenCal DEF BlockFiles
    <3>7. PICK v, w : v = y[CAL] /\ w = again[CAL]
      OBVIOUS
    <3>8. v = WithEcm3(b) /\ w = WithEcm3(validate_block(fi, b, CAL).data)
      BY <3>4, <3>5, <3>6, <3>7
    <3>9. /\ validate_block(fi, v, CAL).state # "Failed"
          /\ validate_block(fi, w, CAL).state # "Failed"
          /\ validate_block(fi, w, CAL).data = validate_block(fi, v, CAL).data
      BY <2>3, <3>3, <3>4, <3>8, CalSame
    <3>10. s[n] = validate_block(fi, v, CAL) /\ t[n] = validate_block(fi, w, CAL)
      BY <2>1, <2>3, <3>1, <3>7
    <3> QED BY <3>9, <3>10
  <2> QED BY <2>2, <2>3
<1>20. /\ s = PerBlock(fi, PatchedOf(SeenOf(blocks), patch))
       /\ t = PerBlock(fi, PatchedOf(SeenOf(after), FALSE))
  BY <1>9, <1>14, <1>15, <1>17
<1> QED
  <2>1. \A n \in DOMAIN s : s[n].state # "Failed" /\ t[n].state # "Failed" /\ t[n].data = s[n].data
    BY <1>18, <1>19
  <2>2. PICK no : no = FALSE
    OBVIOUS
  <2>3. SamePass(blocks, patch, s, after, no, t)
    BY <1>13, <1>18, <1>20, <2>1, <2>2 DEF SamePass
  <2>4. checksum_and_patch_blocks(fi, after, no) = checksum_and_patch_blocks(fi, blocks, patch)
    BY <2>3, PassSame
  <2> QED BY <2>2, <2>4

-----------------------------------------------------------------------------
(***************************************************************************)
(* What `checksum` leaves of an image, and what is split from it then.     *)
(***************************************************************************)
LEMMA CutIs ==
  ASSUME Chosen, NEW image \in Images, NEW n \in Blocks(fi), NEW r, r = resolve_block_length(image, n),
         Inside(image, n, r)
  PROVE  /\ Cut(image, n) \in Seq(Byte) /\ Len(Cut(image, n)) = r /\ r \in Nat /\ r >= 1
         /\ \A c \in 1..r : /\ Cut(image, n)[c] = image[binfile_offset(n) + c]
                            /\ binfile_offset(n) + c \in 1..Len(image)
<1>1. image \in Seq(Byte)
  BY DEF Images
<1>2. r \in Nat /\ r >= 1
  BY <1>1, ResolvedIs
<1> QED BY <1>1, <1>2, FromIs DEF Cut

LEMMA CutBy ==
  ASSUME NEW image, NEW n
  PROVE  /\ n \in DOMAIN blocks_from_bytes(image)
              <=> /\ n \in Blocks(fi) /\ Inside(image, n, resolve_block_length(image, n))
                  /\ Kept(n, Cut(image, n))
         /\ n \in DOMAIN blocks_from_bytes(image) => blocks_from_bytes(image)[n] = Cut(image, n)
BY DEF blocks_from_bytes

\* Where nothing reaches over its region, what is split does not.
LEMMA ApartFits ==
  ASSUME Chosen, NEW image \in Images, Apart(image)
  PROVE  \A n \in DOMAIN blocks_from_bytes(image) : Len(blocks_from_bytes(image)[n]) <= static_length(n)
<1> TAKE n \in DOMAIN blocks_from_bytes(image)
<1>1. PICK r, d : r = resolve_block_length(image, n) /\ d = blocks_from_bytes(image)[n]
  OBVIOUS
<1>2. n \in Blocks(fi) /\ Inside(image, n, r) /\ d = Cut(image, n)
  BY <1>1, CutBy
<1>3. Len(d) = r
  BY <1>1, <1>2, CutIs
<1>4. r <= static_length(n)
  BY <1>1, <1>2 DEF Apart
<1> QED BY <1>1, <1>3, <1>4

LEMMA OverlayCut ==
  ASSUME Chosen, NEW image \in Images, NEW out, NEW n \in Blocks(fi), NEW d \in Seq(Byte),
         Overlaid(image, out, n, d), NEW r, r = resolve_block_length(image, n), r <= static_length(n),
         n \in fi.dynamic_block_length_offsets /\ Inside(image, n, 2) /\ 2 <= Len(d)
            => d[2] = image[binfile_offset(n) + 2]
  PROVE  /\ resolve_block_length(out, n) = r
         /\ Inside(out, n, r) <=> Inside(image, n, r)
         /\ Inside(image, n, r) =>
              /\ Cut(out, n) \in Seq(Byte) /\ Len(Cut(out, n)) = r
              /\ \A c \in 1..r : Cut(out, n)[c] = IF c <= Len(d) THEN d[c] ELSE Cut(image, n)[c]
<1>1. /\ image \in Seq(Byte) /\ out \in Images /\ Len(out) = Len(image) /\ Len(image) \in Nat
      /\ \A k : Inside(out, n, k) <=> Inside(image, n, k)
  BY SeqAs DEF Images, Overlaid, Inside
<1>2. PICK o, k : o = binfile_offset(n) /\ k = static_length(n)
  OBVIOUS
<1>3. o \in Nat /\ k \in Nat /\ k >= 3
  BY <1>2, OffsetIs, StaticIs
<1>4. \A c \in 1..k : o + c \in 1..Len(image) => out[o + c] = IF c <= Len(d) THEN d[c] ELSE image[o + c]
  BY <1>2 DEF Overlaid
<1>5. n \in fi.dynamic_block_length_offsets /\ Inside(image, n, 2) => out[o + 2] = image[o + 2]
  <2> SUFFICES ASSUME n \in fi.dynamic_block_length_offsets, Inside(image, n, 2)
               PROVE  out[o + 2] = image[o + 2]
    OBVIOUS
  <2>1. 2 \in 1..k /\ o + 2 \in 1..Len(image)
    BY <1>1, <1>2, <1>3 DEF Inside
  <2>2. 2 <= Len(d) => d[2] = image[o + 2]
    BY <1>2
  <2> QED BY <1>4, <2>1, <2>2
<1>6. resolve_block_length(out, n) = r
  BY <1>1, <1>2, <1>5 DEF resolve_block_length, DynamicLengthCell
<1>7. ASSUME Inside(image, n, r)
      PROVE  /\ Cut(out, n) \in Seq(Byte) /\ Len(Cut(out, n)) = r
             /\ \A c \in 1..r : Cut(out, n)[c] = IF c <= Len(d) THEN d[c] ELSE Cut(image, n)[c]
  <2>1. /\ Cut(out, n) \in Seq(Byte) /\ Len(Cut(out, n)) = r
        /\ \A c \in 1..r : Cut(out, n)[c] = out[o + c]
    BY <1>1, <1>2, <1>6, <1>7, CutIs
  <2>2. r \in Nat /\ \A c \in 1..r : Cut(image, n)[c] = image[o + c] /\ o + c \in 1..Len(image)
    BY <1>2, <1>7, CutIs
  <2>3. \A c \in 1..r : c \in 1..k
    BY <1>2, <1>3, <2>2
  <2> QED BY <1>4, <2>1, <2>2, <2>3
<1> QED BY <1>1, <1>6, <1>7

\* A block is split from an image as from another one with the same region.
LEMMA SameSplit ==
  ASSUME Chosen, NEW image \in Images, NEW out, NEW n \in Blocks(fi), Overlaid(image, out, n, <<>>),
         resolve_block_length(image, n) <= static_length(n)
  PROVE  /\ n \in DOMAIN blocks_from_bytes(out) <=> n \in DOMAIN blocks_from_bytes(image)
         /\ n \in DOMAIN blocks_from_bytes(image) => blocks_from_bytes(out)[n] = blocks_from_bytes(image)[n]
<1>1. PICK r, d : r = resolve_block_length(image, n) /\ d = <<>>
  OBVIOUS
<1>2. d \in Seq(Byte) /\ Len(d) = 0 /\ ~(2 <= Len(d)) /\ \A c \in 1..r : ~(c <= Len(d))
  BY <1>1
<1>3. /\ resolve_block_length(out, n) = r
      /\ Inside(out, n, r) <=> Inside(image, n, r)
      /\ Inside(image, n, r) =>
           /\ Cut(out, n) \in Seq(Byte) /\ Len(Cut(out, n)) = r
           /\ \A c \in 1..r : Cut(out, n)[c] = IF c <= Len(d) THEN d[c] ELSE Cut(image, n)[c]
  <2>1. Overlaid(image, out, n, d)
    BY <1>1, Zenon
  <2>2. n \in fi.dynamic_block_length_offsets /\ Inside(image, n, 2) /\ 2 <= Len(d)
           => d[2] = image[binfile_offset(n) + 2]
    BY <1>2
  <2>3. r <= static_length(n) /\ d \in Seq(Byte) /\ r = resolve_block_length(image, n)
    BY <1>1, <1>2
  <2> QED BY <2>1, <2>2, <2>3, OverlayCut
<1>4. Inside(image, n, r) => Cut(out, n) = Cut(image, n)
  BY <1>1, <1>2, <1>3, CutIs, SameSeq
<1> QED BY <1>1, <1>3, <1>4, CutBy

\* What is written over the same cells leaves the region.
LEMMA Unsaid ==
  ASSUME Chosen, NEW n \in Blocks(fi), NEW image, NEW out, Overlaid(image, out, n, <<>>), NEW d, Len(d) \in Nat,
         \A c \in 1..Len(d) : d[c] = image[binfile_offset(n) + c]
  PROVE  Overlaid(image, out, n, d)
<1>1. PICK o, k, e : o = binfile_offset(n) /\ k = static_length(n) /\ e = <<>>
  OBVIOUS
<1>2. k \in Nat /\ Len(e) = 0
  BY <1>1, StaticIs
<1>3. /\ out \in Images /\ Len(out) = Len(image)
      /\ \A c \in 1..k : o + c \in 1..Len(image) => out[o + c] = IF c <= Len(e) THEN e[c] ELSE image[o + c]
  BY <1>1, Zenon DEF Overlaid
<1>4. \A c \in 1..k : o + c \in 1..Len(image) => out[o + c] = image[o + c]
  BY <1>2, <1>3
<1>5. \A c \in 1..k : c <= Len(d) => d[c] = image[o + c]
  BY <1>1, <1>2
<1>6. \A c \in 1..k : o + c \in 1..Len(image) => out[o + c] = IF c <= Len(d) THEN d[c] ELSE image[o + c]
  BY <1>4, <1>5
<1> QED BY <1>1, <1>3, <1>6 DEF Overlaid

\* Such a block is split from the image again.
LEMMA RewrittenSplit ==
  ASSUME Chosen, NEW image \in Images, NEW out, NEW n \in DOMAIN blocks_from_bytes(image),
         resolve_block_length(image, n) <= static_length(n), NEW d, NEW C, Rewritten(image, out, n, d, C)
  PROVE  n \in DOMAIN blocks_from_bytes(out) /\ blocks_from_bytes(out)[n] = d
<1>0. \A k \in Nat : k >= 1 => 1 \in 1..k
  OBVIOUS
<1>1. PICK r, b, o : r = resolve_block_length(image, n) /\ b = Cut(image, n) /\ o = binfile_offset(n)
  OBVIOUS
<1>2. n \in Blocks(fi) /\ Inside(image, n, r) /\ Kept(n, b) /\ blocks_from_bytes(image)[n] = b
  BY <1>1, CutBy
<1>3. b \in Seq(Byte) /\ Len(b) = r /\ r \in Nat /\ r >= 1 /\ \A c \in 1..r : b[c] = image[o + c]
  BY <1>1, <1>2, CutIs
<1>4. Overlaid(image, out, n, d) /\ AgreeBut(d, b, C)
  BY <1>2 DEF Rewritten
<1>5. d \in Seq(Byte) /\ Len(d) = r /\ \A c \in 1..r : c \notin C => d[c] = b[c]
  BY <1>3, <1>4 DEF AgreeBut
<1>6. n \in fi.dynamic_block_length_offsets /\ 2 <= Len(d) => d[2] = image[o + 2]
  <2>1. 2 <= Len(d) => 2 \in 1..r
    BY <1>3, <1>5
  <2> QED BY <1>3, <1>5, <2>1 DEF Rewritten
<1>7. /\ resolve_block_length(out, n) = r /\ Inside(out, n, r)
      /\ Cut(out, n) \in Seq(Byte) /\ Len(Cut(out, n)) = r
      /\ \A c \in 1..r : Cut(out, n)[c] = IF c <= Len(d) THEN d[c] ELSE Cut(image, n)[c]
  BY <1>1, <1>2, <1>4, <1>5, <1>6, OverlayCut
<1>8. Cut(out, n) = d
  BY <1>3, <1>5, <1>7, SameSeq
<1>9. Kept(n, d)
  <2> SUFFICES ASSUME fi.project_name # "" /\ n \in fi.version PROVE d[VersionCell] \in OwnVersions
    BY DEF Kept
  <2>1. 1 \in 1..r /\ 1 \notin C
    BY <1>0, <1>3 DEF Rewritten
  <2>2. b[VersionCell] \in OwnVersions
    BY <1>2 DEF Kept
  <2> QED BY <1>5, <2>1, <2>2 DEF VersionCell
<1> QED BY <1>2, <1>7, <1>8, <1>9, CutBy

LEMMA WrittenRegion ==
  ASSUME Chosen, ApartInfo(fi), NEW image \in Images, NEW blocks, Fitting(blocks), NEW order \in Orders,
         NEW out, out = Written(image, blocks, order)
  PROVE  /\ out \in Images /\ Len(out) = Len(image)
         /\ \A n \in Blocks(fi) : Overlaid(image, out, n, Said(blocks, n))
<1>1. PICK L : L = Len(image)
  OBVIOUS
<1>2. L \in Nat /\ image \in Sized(L) /\ L <= ImageLength
  BY <1>1, SeqAs, SizedIs DEF Images
<1>3. out \in Sized(L)
  BY <1>2, WrittenType DEF Fitting
<1>4. out \in Images /\ Len(out) = L
  BY <1>2, <1>3, SizedIs DEF Images
<1>5. ASSUME NEW n \in Blocks(fi), NEW c \in 1..static_length(n), binfile_offset(n) + c \in 1..L
      PROVE  out[binfile_offset(n) + c] =
               IF c <= Len(Said(blocks, n)) THEN Said(blocks, n)[c] ELSE image[binfile_offset(n) + c]
  <2>1. Holds(out, image, blocks, 1..5, n, c)
    BY <1>2, <1>5, WrittenHolds
  <2>2. n \in 1..5
    BY BlocksAre, ChosenIs
  <2>3. CASE n \in DOMAIN blocks
    BY <2>1, <2>2, <2>3 DEF Said, Holds
  <2>4. CASE n \notin DOMAIN blocks
    <3>1. Len(Said(blocks, n)) = 0 /\ ~(c <= 0)
      BY <2>4 DEF Said
    <3>2. ~(c <= Len(Said(blocks, n)))
      BY <3>1
    <3>3. out[binfile_offset(n) + c] = image[binfile_offset(n) + c]
      BY <2>1, <2>4 DEF Holds
    <3> QED BY <3>2, <3>3, Zenon
  <2> QED BY <2>3, <2>4
<1> QED BY <1>1, <1>4, <1>5 DEF Overlaid

LEMMA BootIsSimos ==
  ASSUME Chosen, CBOOT \in Blocks(fi)
  PROVE  SimosInfo(fi)
<1>1. KnownInfo(fi)
  BY ChosenIs
<1>2. CBOOT # None
  BY <1>1, BlocksAre, NoneAssumption
<1> QED BY <1>1, <1>2 DEF KnownInfo, DsgInfo, Dq381Info, HaldexInfo, CBOOT

LEMMA BootIs ==
  ASSUME Chosen, CBOOT \in Blocks(fi)
  PROVE  /\ SimosInfo(fi) /\ fi.dynamic_block_length_offsets = {}
         /\ fi.project_name # "" /\ CBOOT \in fi.version /\ CBOOT # CAL
         /\ static_length(CBOOT) \in Nat /\ static_length(CBOOT) >= 3
<1>1. SimosInfo(fi)
  BY BootIsSimos
<1>2. static_length(CBOOT) \in Nat /\ static_length(CBOOT) >= 3
  BY StaticIs
<1> QED BY <1>1, <1>2 DEF SimosInfo, CBOOT, CAL

\* Where there is a CBOOT, no block states its length.
LEMMA BootApart ==
  ASSUME Chosen, CBOOT \in Blocks(fi), NEW image \in Images, NEW n \in Blocks(fi)
  PROVE  /\ resolve_block_length(image, n) = static_length(n) /\ Cut(image, n) = Region(image, n)
         /\ resolve_block_length(image, n) <= static_length(n)
<1>1. n \notin fi.dynamic_block_length_offsets /\ image \in Seq(Byte) /\ static_length(n) \in Nat
  BY BootIs, StaticIs DEF Images
<1> QED BY <1>1, ResolvedIs DEF Cut, Region

LEMMA FirstCells ==
  ASSUME NEW k \in Nat, k >= 3
  PROVE  1 \in 1..k /\ 2 \in 1..k
OBVIOUS

\* CBOOT is split from an image if it is of the own version, whole.
LEMMA RegionFirst ==
  ASSUME Chosen, NEW image \in Images, CBOOT \in Blocks(fi), NEW r, r = Region(image, CBOOT)
  PROVE  /\ Inside(image, CBOOT, static_length(CBOOT)) =>
              /\ r \in Seq(Byte) /\ Len(r) = static_length(CBOOT) /\ 1 \in 1..Len(r)
              /\ \A c \in 1..Len(r) : /\ r[c] = image[binfile_offset(CBOOT) + c]
                                      /\ binfile_offset(CBOOT) + c \in 1..Len(image)
         /\ CBOOT \in DOMAIN blocks_from_bytes(image)
              <=> Inside(image, CBOOT, static_length(CBOOT)) /\ r[1] \in OwnVersions
         /\ CBOOT \in DOMAIN blocks_from_bytes(image) => blocks_from_bytes(image)[CBOOT] = r
<1>1. Inside(image, CBOOT, static_length(CBOOT)) =>
         /\ r \in Seq(Byte) /\ Len(r) = static_length(CBOOT) /\ 1 \in 1..Len(r)
         /\ \A c \in 1..Len(r) : /\ r[c] = image[binfile_offset(CBOOT) + c]
                                 /\ binfile_offset(CBOOT) + c \in 1..Len(image)
  BY RegionIs, BootIs, FirstCells DEF Images
<1>2. Kept(CBOOT, r) <=> r[1] \in OwnVersions
  BY BootIs DEF Kept, VersionCell
<1>3. resolve_block_length(image, CBOOT) = static_length(CBOOT) /\ Cut(image, CBOOT) = r
  BY BootApart
<1> QED BY <1>1, <1>2, <1>3, CutBy

LEMMA PatchedRegion ==
  ASSUME Chosen, ApartInfo(fi), NEW image \in Images, CanPatch(image),
         NEW p, p = PatchedImage(image, TRUE), NEW e, e = patch_cboot(Region(image, CBOOT)), NEW n \in Blocks(fi)
  PROVE  Overlaid(image, p, n, Said(Only(CBOOT, e), n))
<1>1. PICK L, o, blocks, yes : /\ L = Len(image) /\ o = binfile_offset(CBOOT) /\ blocks = Only(CBOOT, e)
                               /\ yes = TRUE
  OBVIOUS
<1>2. L \in Nat /\ image \in Sized(L) /\ image \in Seq(Byte)
  BY <1>1, SeqAs, SizedIs DEF Images
<1>3. CBOOT \in Blocks(fi) /\ Inside(image, CBOOT, static_length(CBOOT))
  BY DEF CanPatch
<1>4. e \in Seq(Byte) /\ Len(e) = static_length(CBOOT) /\ static_length(CBOOT) \in Nat
  BY <1>2, <1>3, RegionIs, PatchedIs, BootIs
<1>5. p = Over(e, image, o)
  BY <1>1 DEF PatchedImage
<1>6. p \in Images /\ Len(p) = L
  BY <1>1, PatchedType
<1>7. DOMAIN blocks = {CBOOT} /\ blocks[CBOOT] = e
  BY <1>1 DEF Only
<1>8. Fitting(blocks)
  BY <1>3, <1>4, <1>7 DEF Fitting
<1>9. ASSUME NEW c \in 1..static_length(n), binfile_offset(n) + c \in 1..L
      PROVE  p[binfile_offset(n) + c] =
               IF c <= Len(Said(blocks, n)) THEN Said(blocks, n)[c] ELSE image[binfile_offset(n) + c]
  <2>1. Holds(image, image, blocks, {}, n, c)
    BY DEF Holds
  <2>2. Holds(Over(blocks[CBOOT], image, binfile_offset(CBOOT)), image, blocks, {} \union {CBOOT}, n, c)
    BY <1>2, <1>7, <1>8, <1>9, <2>1, OneWritten
  <2>3. Holds(p, image, blocks, {CBOOT}, n, c)
    BY <1>1, <1>5, <1>7, <2>2
  <2>4. CASE n = CBOOT
    BY <1>7, <2>3, <2>4 DEF Said, Holds
  <2>5. CASE n # CBOOT
    <3>1. Len(Said(blocks, n)) = 0 /\ ~(c <= 0)
      BY <1>7, <2>5 DEF Said
    <3>2. ~(c <= Len(Said(blocks, n)))
      BY <3>1
    <3>3. p[binfile_offset(n) + c] = image[binfile_offset(n) + c]
      BY <1>7, <2>3, <2>5 DEF Holds
    <3> QED BY <3>2, <3>3, Zenon
  <2> QED BY <2>4, <2>5
<1> QED BY <1>1, <1>6, <1>9 DEF Overlaid

\* A version of the module's own is not a needle.
LEMMA PatchedVersion ==
  ASSUME NEW r \in Seq(Byte), 1 \in 1..Len(r), r[1] \in OwnVersions
  PROVE  patch_cboot(r)[1] = r[1]
<1>1. r[1] # NEEDLE
  BY DEF OwnVersions, NEEDLE
<1> QED BY <1>1, PatchedIs

LEMMA PatchedSplit ==
  ASSUME Chosen, ApartInfo(fi), NEW image \in Images, CanPatch(image),
         CBOOT \in DOMAIN blocks_from_bytes(image), NEW p, p = PatchedImage(image, TRUE)
  PROVE  /\ blocks_from_bytes(p) = PatchedOf(blocks_from_bytes(image), TRUE)
         /\ Patchable(blocks_from_bytes(image)[CBOOT])
<1>1. PICK given, after, r, e : /\ given = blocks_from_bytes(image) /\ after = blocks_from_bytes(p)
                                /\ r = Region(image, CBOOT) /\ e = patch_cboot(r)
  OBVIOUS
<1>2. CBOOT \in Blocks(fi) /\ Inside(image, CBOOT, static_length(CBOOT)) /\ Patchable(r)
  BY <1>1 DEF CanPatch
<1>3. \A n \in Blocks(fi) : Overlaid(image, p, n, Said(Only(CBOOT, e), n))
  BY <1>1, PatchedRegion
<1>4. p \in Images /\ Len(p) = Len(image)
  BY <1>2, <1>3 DEF Overlaid
<1>5. BlockFiles(given) /\ BlockFiles(after)
  BY <1>1, <1>4, SplitIs
<1>6. /\ r \in Seq(Byte) /\ Len(r) = static_length(CBOOT) /\ 1 \in 1..Len(r) /\ r[1] \in OwnVersions
      /\ CBOOT \in DOMAIN given /\ given[CBOOT] = r
  BY <1>1, <1>2, RegionFirst
<1>7. CBOOT \in DOMAIN after /\ after[CBOOT] = e
  <2>1. PICK s : s = Region(p, CBOOT)
    OBVIOUS
  <2>2. e \in Seq(Byte) /\ Len(e) = Len(r) /\ e[1] \in OwnVersions
    BY <1>1, <1>6, PatchedIs, PatchedVersion
  <2>3. Inside(p, CBOOT, static_length(CBOOT))
    BY <1>2, <1>4 DEF Inside
  <2>4. /\ s \in Seq(Byte) /\ Len(s) = static_length(CBOOT)
        /\ \A c \in 1..static_length(CBOOT) : /\ s[c] = p[binfile_offset(CBOOT) + c]
                                              /\ binfile_offset(CBOOT) + c \in 1..Len(p)
    BY <1>2, <1>4, <2>1, <2>3, RegionIs DEF Images
  <2>5. Said(Only(CBOOT, e), CBOOT) = e
    BY DEF Said, Only
  <2>6. \A c \in 1..static_length(CBOOT) :
           binfile_offset(CBOOT) + c \in 1..Len(image) =>
             p[binfile_offset(CBOOT) + c] = IF c <= Len(e) THEN e[c] ELSE image[binfile_offset(CBOOT) + c]
    BY <1>2, <1>3, <2>5 DEF Overlaid
  <2>7. static_length(CBOOT) \in Nat /\ \A c \in 1..static_length(CBOOT) : c <= Len(e)
    BY <1>2, <1>6, <2>2, StaticIs
  <2>8. \A c \in 1..Len(s) : s[c] = e[c]
    BY <1>4, <2>4, <2>6, <2>7
  <2>9. s = e
    BY <1>6, <2>2, <2>4, <2>8, SameSeq
  <2> QED BY <1>1, <1>2, <1>4, <2>1, <2>2, <2>3, <2>9, RegionFirst
<1>8. ASSUME NEW n, n # CBOOT
      PROVE  /\ n \in DOMAIN after <=> n \in DOMAIN given
             /\ n \in DOMAIN given => after[n] = given[n]
  <2>1. CASE n \in Blocks(fi)
    <3>1. Said(Only(CBOOT, e), n) = <<>>
      BY <1>8 DEF Said, Only
    <3>2. Overlaid(image, p, n, <<>>)
      BY <1>3, <2>1, <3>1
    <3>3. resolve_block_length(image, n) <= static_length(n)
      BY <1>2, <2>1, BootApart
    <3> QED BY <1>1, <2>1, <3>2, <3>3, SameSplit
  <2>2. CASE n \notin Blocks(fi)
    BY <1>5, <2>2 DEF BlockFiles
  <2> QED BY <2>1, <2>2
<1>9. PatchedOf(given, TRUE) = [given EXCEPT ![CBOOT] = e]
  BY <1>1, <1>2, <1>6 DEF PatchedOf
<1>10. after = [given EXCEPT ![CBOOT] = e]
  <2>1. given = [n \in DOMAIN given |-> given[n]] /\ after = [n \in DOMAIN after |-> after[n]]
    BY <1>5 DEF BlockFiles
  <2>2. DOMAIN after = DOMAIN given
    BY <1>6, <1>7, <1>8
  <2>3. \A n \in DOMAIN given : after[n] = IF n = CBOOT THEN e ELSE given[n]
    BY <1>7, <1>8
  <2> QED BY <2>1, <2>2, <2>3
<1> QED BY <1>1, <1>2, <1>6, <1>9, <1>10

\* No correction touches what the splitting of a block depends on.
LEMMA CorrectedSplits ==
  ASSUME Chosen, NEW n \in Blocks(fi), NEW data, BlockFile(n, data), NEW C,
         C \subseteq OwnChecksum(n, data)
  PROVE  /\ n \in fi.dynamic_block_length_offsets => 2 \notin C
         /\ fi.project_name # "" /\ n \in fi.version => 1 \notin C
<1>1. KnownInfo(fi)
  BY ChosenIs
<1>2. n \notin fi.dynamic_block_length_offsets => Len(data) = static_length(n)
  BY DEF BlockFile
<1>3. static_length(n) \in Nat /\ static_length(n) >= 3
  BY StaticIs
<1>4. CASE SimosInfo(fi)
  <2>1. fi.dynamic_block_length_offsets = {} /\ C \subseteq {2, 5}
    BY <1>4 DEF SimosInfo, OwnChecksum, StoredCells
  <2>2. 1 \notin {2, 5}
    OBVIOUS
  <2> QED BY <2>1, <2>2, Zenon
<1>5. CASE DsgInfo(fi)
  <2>1. fi.dynamic_block_length_offsets = {} /\ C \subseteq {Len(data)}
    BY <1>5 DEF DsgInfo, OwnChecksum
  <2>2. Len(data) # 1
    BY <1>2, <1>3, <2>1
  <2> QED BY <2>1, <2>2
<1>6. CASE Dq381Info(fi)
  BY <1>6 DEF Dq381Info
<1>7. CASE HaldexInfo(fi)
  <2>1. fi.project_name = "" /\ C \subseteq {1}
    BY <1>7 DEF HaldexInfo, OwnChecksum
  <2>2. 2 \notin {1}
    OBVIOUS
  <2> QED BY <2>1, <2>2, Zenon
<1> QED BY <1>1, <1>4, <1>5, <1>6, <1>7 DEF KnownInfo

LEMMA FixedFits ==
  ASSUME Chosen, NEW blocks, BlockFiles(blocks), \A n \in DOMAIN blocks : Len(blocks[n]) <= static_length(n),
         NEW own, own = PerBlock(fi, blocks)
  PROVE  /\ Fitting(FixedOf(own)) /\ DOMAIN own = DOMAIN blocks
         /\ \A n \in DOMAIN blocks : Checked(own[n], blocks[n])
<1>1. DOMAIN own = DOMAIN blocks
  BY DEF PerBlock
<1>2. ASSUME NEW n \in DOMAIN blocks
      PROVE  /\ Checked(own[n], blocks[n]) /\ n \in Blocks(fi)
             /\ own[n].data \in Seq(Byte) /\ Len(own[n].data) <= static_length(n)
  <2>1. n \in Blocks(fi) /\ BlockFile(n, blocks[n])
    BY DEF BlockFiles
  <2>2. blocks[n] \in Seq(Byte) /\ Len(blocks[n]) >= 1
    BY <2>1 DEF BlockFile
  <2>3. Checked(own[n], blocks[n])
    BY <2>2, ChosenIs, PerBlockIs
  <2> QED BY <2>1, <2>2, <2>3 DEF Checked
<1>3. PICK fixed : fixed = FixedOf(own)
  OBVIOUS
<1>4. DOMAIN fixed \subseteq DOMAIN blocks /\ \A n \in DOMAIN fixed : fixed[n] = own[n].data
  BY <1>1, <1>3 DEF FixedOf
<1>5. Fitting(fixed)
  BY <1>2, <1>4 DEF Fitting
<1> QED BY <1>1, <1>2, <1>3, <1>5

LEMMA WrittenSplit ==
  ASSUME Chosen, ApartInfo(fi), NEW image \in Images, Apart(image), NEW order \in Orders,
         NEW own, own = PerBlock(fi, blocks_from_bytes(image)),
         \A n \in DOMAIN own : own[n].state # "Failed",
         NEW out, out = Written(image, FixedOf(own), order)
  PROVE  blocks_from_bytes(out) = [n \in DOMAIN own |-> own[n].data]
<1>0. PICK blocks, fixed, after : blocks = blocks_from_bytes(image) /\ fixed = FixedOf(own)
                                  /\ after = blocks_from_bytes(out)
  OBVIOUS
<1>1. \A n \in Blocks(fi) : resolve_block_length(image, n) <= static_length(n)
  BY DEF Apart
<1>2. BlockFiles(blocks)
  BY <1>0, SplitIs
<1>3. /\ Fitting(fixed) /\ DOMAIN own = DOMAIN blocks
      /\ \A n \in DOMAIN blocks : Checked(own[n], blocks[n])
  BY <1>0, <1>2, ApartFits, FixedFits
<1>4. DOMAIN fixed = {m \in DOMAIN own : own[m].state = "Fixed"} /\ \A n \in DOMAIN fixed : fixed[n] = own[n].data
  BY <1>0 DEF FixedOf
<1>5. out \in Images /\ \A n \in Blocks(fi) : Overlaid(image, out, n, Said(fixed, n))
  BY <1>0, <1>3, WrittenRegion
<1>6. BlockFiles(after)
  BY <1>0, <1>5, SplitIs
<1>7. ASSUME NEW n \in DOMAIN blocks PROVE n \in DOMAIN after /\ after[n] = own[n].data
  <2>1. n \in Blocks(fi) /\ BlockFile(n, blocks[n])
    BY <1>2 DEF BlockFiles
  <2>2. PICK r, d : r = own[n] /\ d = own[n].data
    OBVIOUS
  <2>3. r = (IF n <= 5 /\ has_internal_checksum(fi, n) THEN validate_block(fi, blocks[n], n)
             ELSE [state |-> "Valid", data |-> blocks[n]])
    BY <1>0, <2>2 DEF PerBlock
  <2>4. r.state # "Failed" /\ r.data = d
    BY <1>3, <2>2
  <2>5. PICK C : C = IF has_internal_checksum(fi, n) THEN OwnChecksum(n, blocks[n]) ELSE {}
    OBVIOUS
  <2>6. AgreeBut(d, blocks[n], C)
    <3>1. PICK again : again = (IF n <= 5 /\ has_internal_checksum(fi, n) THEN validate_block(fi, r.data, n)
                                ELSE [state |-> "Valid", data |-> r.data])
      OBVIOUS
    <3>2. /\ AgreeBut(r.data, blocks[n], IF has_internal_checksum(fi, n) THEN OwnChecksum(n, blocks[n]) ELSE {})
          /\ again.state # "Failed" /\ again.data = r.data
      BY <2>1, <2>3, <2>4, <3>1, OwnAgain
    <3> QED BY <2>4, <2>5, <3>2
  <2>7. /\ n \in fi.dynamic_block_length_offsets => 2 \notin C
        /\ fi.project_name # "" /\ n \in fi.version => 1 \notin C
    BY <2>1, <2>5, CorrectedSplits
  <2>8. Overlaid(image, out, n, d)
    <3>1. CASE r.state = "Fixed"
      BY <1>3, <1>4, <1>5, <2>1, <2>2, <3>1 DEF Said
    <3>2. CASE r.state # "Fixed"
      <4>1. Said(fixed, n) = <<>>
        BY <1>4, <2>2, <3>2 DEF Said
      <4>2. Overlaid(image, out, n, <<>>)
        BY <1>5, <2>1, <4>1
      <4>3. d = blocks[n]
        BY <1>3, <2>2, <2>4, <3>2 DEF Checked
      <4>4. PICK k : k = resolve_block_length(image, n)
        OBVIOUS
      <4>5. Inside(image, n, k) /\ d = Cut(image, n)
        BY <1>0, <4>3, <4>4, CutBy
      <4>6. Len(d) = k /\ k \in Nat /\ \A c \in 1..k : d[c] = image[binfile_offset(n) + c]
        BY <2>1, <4>4, <4>5, CutIs
      <4> QED BY <2>1, <4>2, <4>6, Unsaid
    <3> QED BY <3>1, <3>2
  <2>9. n \in DOMAIN blocks_from_bytes(image) /\ AgreeBut(d, blocks_from_bytes(image)[n], C)
    BY <1>0, <2>6
  <2>10. n \in DOMAIN blocks_from_bytes(out) /\ blocks_from_bytes(out)[n] = d
    BY <1>1, <2>1, <2>7, <2>8, <2>9, RewrittenSplit DEF Rewritten
  <2> QED BY <1>0, <2>2, <2>10
<1>8. ASSUME NEW n \in DOMAIN after, n \notin DOMAIN blocks PROVE FALSE
  <2>1. n \in Blocks(fi) /\ n \notin DOMAIN fixed
    BY <1>3, <1>4, <1>6, <1>8 DEF BlockFiles
  <2>2. Overlaid(image, out, n, <<>>)
    BY <1>5, <2>1 DEF Said
  <2>3. n \in DOMAIN blocks_from_bytes(out) <=> n \in DOMAIN blocks_from_bytes(image)
    BY <1>1, <2>1, <2>2, SameSplit
  <2> QED BY <1>0, <1>8, <2>3
<1>9. DOMAIN after = DOMAIN own /\ after = [n \in DOMAIN after |-> after[n]]
  BY <1>3, <1>6, <1>7, <1>8 DEF BlockFiles
<1>10. after = [n \in DOMAIN own |-> own[n].data]
  BY <1>3, <1>7, <1>9
<1> QED BY <1>0, <1>10

\* Splitting a corrected image and correcting what was split from the image.
LEMMA FlowsAgree ==
  ASSUME Chosen, ApartInfo(fi), NEW image \in Images, Apart(image), NEW patch \in BOOLEAN, NEW order \in Orders,
         cmd_checksum(image, patch, order).ok,
         CanPatch(image) => CBOOT \in DOMAIN blocks_from_bytes(image)
  PROVE  checksum_and_patch_blocks(fi, blocks_from_bytes(cmd_checksum(image, patch, order).image), FALSE)
           = checksum_and_patch_blocks(fi, blocks_from_bytes(image), patch)
<1>1. PICK p, own : p = PatchedImage(image, patch) /\ own = PerBlock(fi, blocks_from_bytes(p))
  BY Zenon
<1>2. PICK blocks : blocks = blocks_from_bytes(image)
  OBVIOUS
<1>3. PICK out : out = cmd_checksum(image, patch, order).image
  OBVIOUS
<1>4. /\ cmd_checksum(image, patch, order).image = Written(p, FixedOf(own), order)
      /\ cmd_checksum(image, patch, order).ok =>
               (patch => CanPatch(image)) /\ \A n \in DOMAIN own : own[n].state # "Failed"
  BY <1>1, CmdIs
<1>5. /\ out = Written(p, FixedOf(own), order)
      /\ patch => CanPatch(image)
      /\ \A n \in DOMAIN own : own[n].state # "Failed"
  BY <1>3, <1>4
<1>6. patch => SimosInfo(fi) /\ CanPatch(image) /\ CBOOT \in DOMAIN blocks_from_bytes(image)
  BY <1>5, BootIs DEF CanPatch
<1>7. /\ blocks_from_bytes(p) = PatchedOf(blocks, patch)
      /\ patch => Patchable(blocks[CBOOT])
      /\ ~patch => p = image
  <2>1. CASE patch
    <3>1. patch = TRUE
      BY <2>1
    <3>2. p = PatchedImage(image, TRUE)
      BY <1>1, <3>1
    <3>3. /\ blocks_from_bytes(p) = PatchedOf(blocks_from_bytes(image), TRUE)
          /\ Patchable(blocks_from_bytes(image)[CBOOT])
      BY <1>6, <2>1, <3>2, PatchedSplit
    <3> QED BY <1>2, <2>1, <3>1, <3>3
  <2>2. CASE ~patch
    BY <1>1, <1>2, <2>2 DEF PatchedImage, PatchedOf
  <2> QED BY <2>1, <2>2
<1>8. p \in Images
  BY <1>1, PatchedType
<1>9. PICK after : after = [n \in DOMAIN own |-> own[n].data]
  OBVIOUS
<1>10. blocks_from_bytes(out) = after
  <2>1. Apart(p)
    <3>1. CASE patch
      BY <1>5, <1>8, <3>1, BootApart DEF CanPatch, Apart
    <3>2. CASE ~patch
      BY <1>7, <3>2
    <3> QED BY <3>1, <3>2
  <2> QED BY <1>1, <1>5, <1>8, <1>9, <2>1, WrittenSplit
<1>11. own = OwnPass(blocks, patch)
  BY <1>1, <1>7 DEF OwnPass
<1>12. BlockFiles(blocks)
  BY <1>2, SplitIs
<1>13. patch => CBOOT \in DOMAIN blocks /\ Patchable(blocks[CBOOT])
  BY <1>2, <1>6, <1>7
<1>14. patch => SimosInfo(fi)
  BY <1>6
<1>15. checksum_and_patch_blocks(fi, after, FALSE) = checksum_and_patch_blocks(fi, blocks, patch)
  <2>1. Passed(blocks, patch, own, after)
    BY <1>5, <1>9, <1>11, <1>13, <1>14 DEF Passed
  <2> QED BY <1>12, <2>1, PassOver, Zenon
<1> QED BY <1>2, <1>3, <1>10, <1>15

-----------------------------------------------------------------------------
(***************************************************************************)
(* What can be patched is of the module's own version.                     *)
(***************************************************************************)
\* It is kept as long as nothing but the named variables changes.
LEMMA BootKept ==
  ASSUME mod' = mod, fi' = fi, NEW w, NEW g, bin' = w, files' = g, BootIn(w, g)
  PROVE  BootIn(bin, files)'
<1>1. ASSUME NEW n PROVE static_length(n)' = static_length(n)
  BY DEF static_length
<1>2. ASSUME NEW n PROVE binfile_offset(n)' = binfile_offset(n)
  BY DEF binfile_offset, static_length, Before, OwnCells, Overlaps, End
<1>3. ASSUME NEW n
      PROVE  /\ Region(bin, n)' = Region(w, n)
             /\ Inside(bin, n, static_length(n))' <=> Inside(w, n, static_length(n))
  BY <1>1, <1>2 DEF Region, From, Inside
<1>4. Blocks(fi)' = Blocks(fi)
  OBVIOUS
<1>5. CBOOT' = CBOOT
  BY DEF CBOOT
<1>6. Region(bin, CBOOT)' = Region(w, CBOOT)
  BY <1>3, <1>5
<1>7. Inside(bin, CBOOT, static_length(CBOOT))' <=> Inside(w, CBOOT, static_length(CBOOT))
  BY <1>3, <1>5
<1>8. BootImage(bin)'
  BY <1>4, <1>5, <1>6, <1>7 DEF BootIn, BootImage, BootSafe
<1>9. (\A t \in Tools : BootFile(files[t]))'
  BY <1>5 DEF BootIn, BootFile
<1> QED BY <1>8, <1>9 DEF BootIn

\* A region that keeps its version and gets no needle is as safe as before.
LEMMA SafeKept ==
  ASSUME NEW r \in Seq(Byte), BootSafe(r), NEW s \in Seq(Byte), Len(s) = Len(r),
         s[1] = r[1] \/ s[1] \in OwnVersions,
         \A i \in 1..Len(r) : s[i] = r[i] \/ s[i] # NEEDLE
  PROVE  BootSafe(s)
<1>1. DOMAIN r = 1..Len(r) /\ DOMAIN s = 1..Len(r)
  BY SeqAs
<1> QED BY <1>1 DEF BootSafe

LEMMA PatchableSafe ==
  ASSUME NEW r \in Seq(Byte), BootSafe(r), Patchable(r)
  PROVE  r[1] \in OwnVersions
<1>1. CASE \A i \in DOMAIN r : r[i] # NEEDLE
  BY <1>1, FS_EmptySet DEF Patchable
<1> QED BY <1>1 DEF BootSafe

\* So is one of an image that is as long as before, or cut.
LEMMA RegionKept ==
  ASSUME Chosen, NEW image \in Images, BootImage(image), NEW out \in Images, Len(out) <= Len(image),
         \A c \in 1..static_length(CBOOT) :
            binfile_offset(CBOOT) + c \in 1..Len(out) =>
              \/ out[binfile_offset(CBOOT) + c] = image[binfile_offset(CBOOT) + c]
              \/ c # 1 /\ out[binfile_offset(CBOOT) + c] # NEEDLE
  PROVE  BootImage(out)
<1> SUFFICES ASSUME CBOOT \in Blocks(fi), Inside(out, CBOOT, static_length(CBOOT))
             PROVE  BootSafe(Region(out, CBOOT))
  BY DEF BootImage
<1>1. PICK r, s, o, k : /\ r = Region(image, CBOOT) /\ s = Region(out, CBOOT)
                        /\ o = binfile_offset(CBOOT) /\ k = static_length(CBOOT)
  OBVIOUS
<1>2. k \in Nat /\ k >= 3 /\ o \in Nat
  BY <1>1, StaticIs, OffsetIs
<1>3. /\ image \in Seq(Byte) /\ out \in Seq(Byte) /\ Len(image) \in Nat /\ Len(out) \in Nat
      /\ Inside(image, CBOOT, k) /\ Inside(out, CBOOT, k)
  BY <1>1, <1>2, SeqAs DEF Images, Inside
<1>4. BootSafe(r)
  BY <1>1, <1>3 DEF BootImage
<1>5. r \in Seq(Byte) /\ Len(r) = k /\ \A c \in 1..k : r[c] = image[o + c]
  BY <1>1, <1>3, RegionIs
<1>6. s \in Seq(Byte) /\ Len(s) = k /\ \A c \in 1..k : s[c] = out[o + c] /\ o + c \in 1..Len(out)
  BY <1>1, <1>3, RegionIs
<1>7. \A c \in 1..k : s[c] = r[c] \/ (c # 1 /\ s[c] # NEEDLE)
  BY <1>1, <1>5, <1>6
<1>8. s[1] = r[1]
  BY <1>2, <1>7, FirstCells
<1>9. \A i \in 1..Len(r) : s[i] = r[i] \/ s[i] # NEEDLE
  BY <1>5, <1>7
<1> QED BY <1>1, <1>4, <1>5, <1>6, <1>8, <1>9, SafeKept

LEMMA UnsaidSafe ==
  ASSUME Chosen, NEW image \in Images, BootImage(image), NEW out, Overlaid(image, out, CBOOT, <<>>)
  PROVE  BootImage(out)
<1>1. PICK L, e : L = Len(image) /\ e = <<>>
  OBVIOUS
<1>2. L \in Nat /\ Len(e) = 0
  BY <1>1, SeqAs DEF Images
<1>3. out \in Images /\ Len(out) = L /\ Len(out) <= L
  BY <1>1, <1>2 DEF Overlaid
<1>4. \A c \in 1..static_length(CBOOT) :
         binfile_offset(CBOOT) + c \in 1..L =>
            out[binfile_offset(CBOOT) + c] = IF c <= Len(e) THEN e[c] ELSE image[binfile_offset(CBOOT) + c]
  BY <1>1, Zenon DEF Overlaid
<1>5. \A c : c \in 1..static_length(CBOOT) => ~(c <= Len(e))
  BY <1>2
<1>6. \A c \in 1..static_length(CBOOT) :
         binfile_offset(CBOOT) + c \in 1..L =>
            out[binfile_offset(CBOOT) + c] = image[binfile_offset(CBOOT) + c]
  BY <1>4, <1>5
<1> QED BY <1>1, <1>3, <1>6, RegionKept

\* The image that a command assembles from such files.
LEMMA CombinedSafe ==
  ASSUME Chosen, ApartInfo(fi), NEW blocks, BlockFiles(blocks), BootFile(blocks),
         NEW order \in Orders, NEW out, out = bin_from_blocks(blocks, order)
  PROVE  BootImage(out)
<1> SUFFICES ASSUME CBOOT \in Blocks(fi), Inside(out, CBOOT, static_length(CBOOT))
             PROVE  BootSafe(Region(out, CBOOT))
  BY DEF BootImage
<1>1. PICK r, at, k, zeros : /\ r = Region(out, CBOOT) /\ at = binfile_offset(CBOOT) /\ k = static_length(CBOOT)
                             /\ zeros = Zeros(ImageLength)
  OBVIOUS
<1>2. k \in Nat /\ k >= 3 /\ fi.dynamic_block_length_offsets = {}
  BY <1>1, BootIs
<1>3. /\ out = Written(zeros, blocks, order) /\ out \in Images
      /\ ImageLength \in Nat /\ Len(out) = ImageLength /\ zeros \in Sized(ImageLength)
  BY <1>1, CombinedType, ImageHolds
<1>4. /\ r \in Seq(Byte) /\ Len(r) = k
      /\ \A c \in 1..k : r[c] = out[at + c] /\ at + c \in 1..ImageLength
  BY <1>1, <1>3, RegionIs DEF Images
<1>5. \A i \in 1..ImageLength : zeros[i] = 0
  BY <1>1, <1>3, ZerosType
<1>6. ASSUME NEW m \in DOMAIN blocks
      PROVE  m \in Blocks(fi) /\ blocks[m] \in Seq(Byte) /\ Len(blocks[m]) = static_length(m)
  BY <1>2 DEF BlockFiles, BlockFile
<1>7. Fitting(blocks)
  BY <1>6, StaticIs DEF Fitting
<1>8. CBOOT \in 1..5
  BY BlocksAre, ChosenIs
<1>9. \A c \in 1..k : Holds(out, zeros, blocks, 1..5, CBOOT, c)
  BY <1>1, <1>3, <1>4, <1>7, WrittenHolds
<1>10. \A c \in 1..k : r[c] = IF CBOOT \in DOMAIN blocks /\ c <= Len(blocks[CBOOT])
                              THEN blocks[CBOOT][c] ELSE 0
  BY <1>1, <1>4, <1>5, <1>8, <1>9 DEF Holds
<1>11. CASE CBOOT \in DOMAIN blocks
  <2>1. Len(blocks[CBOOT]) = k
    BY <1>1, <1>6, <1>11
  <2>2. 1 \in 1..k /\ 1 <= k
    BY <1>2
  <2>3. r[1] = blocks[CBOOT][1]
    BY <1>10, <1>11, <2>1, <2>2
  <2> QED BY <1>1, <1>11, <2>3 DEF BootFile, BootSafe
<1>12. CASE CBOOT \notin DOMAIN blocks
  <2>1. DOMAIN r = 1..k
    BY <1>4, SeqAs
  <2>2. \A i \in DOMAIN r : r[i] = 0
    BY <1>10, <1>12, <2>1
  <2>3. 0 # NEEDLE
    BY DEF NEEDLE
  <2>4. \A i \in DOMAIN r : r[i] # NEEDLE
    BY <2>2, <2>3
  <2> QED BY <1>1, <2>4 DEF BootSafe
<1> QED BY <1>11, <1>12

\* What a split leaves is of the module's own version.
LEMMA SplitSafe ==
  ASSUME Chosen, NEW image \in Images
  PROVE  BootFile(blocks_from_bytes(image))
<1> SUFFICES ASSUME CBOOT \in DOMAIN blocks_from_bytes(image)
             PROVE  blocks_from_bytes(image)[CBOOT][1] \in OwnVersions
  BY DEF BootFile
<1>1. CBOOT \in Blocks(fi)
  BY CutBy
<1> QED BY <1>1, RegionFirst

\* So is what the vendor built.
LEMMA GivenSafe ==
  ASSUME Chosen
  PROVE  BootFile(Given)
<1> SUFFICES ASSUME CBOOT \in DOMAIN Given PROVE Given[CBOOT][1] \in OwnVersions
  BY DEF BootFile
<1>1. CBOOT \in Blocks(fi) /\ Given[CBOOT] = Vendor[mod][CBOOT]
  BY DEF Given
<1>2. fi.project_name # "" /\ CBOOT \in fi.version
  BY <1>1, BootIs
<1>3. VendorBlock(CBOOT, Vendor[mod][CBOOT])
  BY <1>1, ChosenIs
<1> QED BY <1>1, <1>2, <1>3 DEF VendorBlock, VersionCell

LEMMA NoFileSafe == BootFile(<<>>)
BY DEF BootFile

\* And what is extracted from an ODX.
LEMMA OdxSafe ==
  ASSUME Chosen, NEW raw, raw = extract_odx(fi, Odx), raw.ok, container # "sgo"
  PROVE  BootFile(raw.blocks)
<1>1. /\ container = "sizeless" => ~raw.ok
      /\ container = "empty" => raw.blocks = <<>>
      /\ container \in {"sound", "sgo"} => raw.ok /\ raw.blocks = [n \in Blocks(fi) |-> Vendor[mod][n]]
  BY OdxHolds
<1>2. container \in {"sound", "sizeless", "empty", "sgo"}
  BY DEF Chosen, Containers
<1>3. raw.blocks = <<>> \/ raw.blocks = Given
  BY <1>1, <1>2 DEF Given
<1> QED BY <1>3, GivenSafe, NoFileSafe

LEMMA ReplacingSafe ==
  ASSUME NEW new, NEW there, BootFile(new), BootFile(there)
  PROVE  BootFile(Replacing(new, there))
BY DEF BootFile, Replacing

LEMMA WithoutSafe ==
  ASSUME NEW blocks, NEW n, BootFile(blocks)
  PROVE  BootFile(Without(blocks, n))
BY DEF BootFile, Without

\* The files of one command written.
LEMMA FilesSafe ==
  ASSUME NEW image, NEW fs, fs = [u \in Tools |-> fs[u]], BootIn(image, fs), NEW t \in Tools,
         NEW blocks, BootFile(blocks)
  PROVE  BootIn(image, [fs EXCEPT ![t] = blocks])
<1>1. \A u \in Tools : [fs EXCEPT ![t] = blocks][u] = IF u = t THEN blocks ELSE fs[u]
  OBVIOUS
<1> QED BY <1>1 DEF BootIn

\* A pass over the blocks of an image.
LEMMA PassSafe ==
  ASSUME Chosen, ApartInfo(fi), CBOOT \in Blocks(fi), NEW p \in Images, BootImage(p),
         NEW order \in Orders, NEW own, own = PerBlock(fi, blocks_from_bytes(p)),
         \A n \in DOMAIN own : own[n].state # "Failed",
         NEW out, out = Written(p, FixedOf(own), order)
  PROVE  BootImage(out)
<1>1. PICK blocks : blocks = blocks_from_bytes(p)
  OBVIOUS
<1>2. Apart(p)
  BY BootApart DEF Apart
<1>3. BlockFiles(blocks) /\ \A n \in DOMAIN blocks : Len(blocks[n]) <= static_length(n)
  BY <1>1, <1>2, SplitIs, ApartFits
<1>4. Fitting(FixedOf(own)) /\ DOMAIN own = DOMAIN blocks
  BY <1>1, <1>3, FixedFits
<1>5. out \in Images /\ Overlaid(p, out, CBOOT, Said(FixedOf(own), CBOOT))
  BY <1>4, WrittenRegion
<1>6. CASE CBOOT \in DOMAIN blocks
  <2>1. blocks_from_bytes(out) = [n \in DOMAIN own |-> own[n].data]
    BY <1>2, WrittenSplit
  <2>2. CBOOT \in DOMAIN blocks_from_bytes(out)
    BY <1>4, <1>6, <2>1
  <2>3. PICK s : s = Region(out, CBOOT)
    OBVIOUS
  <2>4. s[1] \in OwnVersions
    BY <1>5, <2>2, <2>3, RegionFirst
  <2> QED BY <2>3, <2>4 DEF BootSafe, BootImage
<1>7. CASE CBOOT \notin DOMAIN blocks
  BY <1>4, <1>5, <1>7, UnsaidSafe DEF FixedOf, Said
<1> QED BY <1>6, <1>7

LEMMA ChecksumSafe ==
  ASSUME Chosen, ApartInfo(fi), NEW image \in Images, BootImage(image),
         NEW patch \in BOOLEAN, NEW order \in Orders, cmd_checksum(image, patch, order).ok
  PROVE  BootImage(cmd_checksum(image, patch, order).image)
<1> SUFFICES ASSUME CBOOT \in Blocks(fi)
             PROVE  BootImage(cmd_checksum(image, patch, order).image)
  BY DEF BootImage
<1>1. PICK p, own : p = PatchedImage(image, patch) /\ own = PerBlock(fi, blocks_from_bytes(p))
  BY Zenon
<1>2. /\ cmd_checksum(image, patch, order).image = Written(p, FixedOf(own), order)
      /\ cmd_checksum(image, patch, order).ok =>
               (patch => CanPatch(image)) /\ \A n \in DOMAIN own : own[n].state # "Failed"
  BY <1>1, CmdIs
<1>3. p \in Images /\ Len(p) = Len(image)
  BY <1>1, PatchedType
<1>4. BootImage(p)
  <2>1. CASE patch /\ CanPatch(image)
    <3>1. PICK r, s, o, k : /\ r = Region(image, CBOOT) /\ s = Region(p, CBOOT)
                            /\ o = binfile_offset(CBOOT) /\ k = static_length(CBOOT)
      OBVIOUS
    <3>2. k \in Nat /\ k >= 3 /\ o \in Nat
      BY <3>1, StaticIs, OffsetIs
    <3>3. Inside(image, CBOOT, k) /\ Inside(p, CBOOT, k) /\ image \in Seq(Byte) /\ p \in Seq(Byte)
      BY <1>3, <2>1, <3>1 DEF CanPatch, Inside, Images
    <3>4. r \in Seq(Byte) /\ Len(r) = k
      BY <3>1, <3>3, RegionIs
    <3>5. r[1] \in OwnVersions
      BY <2>1, <3>1, <3>3, <3>4, PatchableSafe DEF BootImage, CanPatch
    <3>6. patch_cboot(r)[1] \in OwnVersions
      BY <3>2, <3>4, <3>5, FirstCells, PatchedVersion
    <3>7. 1 \in 1..k /\ (o + 1) - o = 1
      BY <3>2
    <3>8. s[1] = p[o + 1] /\ o + 1 \in 1..Len(p)
      BY <3>1, <3>3, <3>7, RegionIs
    <3>9. p[o + 1] = patch_cboot(r)[1]
      <4>1. \A i \in 1..Len(image) : p[i] = IF i - o \in 1..k THEN patch_cboot(r)[i - o] ELSE image[i]
        BY <1>1, <2>1, <3>1, PatchedType
      <4> QED BY <1>3, <3>7, <3>8, <4>1
    <3> QED BY <3>1, <3>6, <3>8, <3>9 DEF BootSafe, BootImage
  <2>2. CASE ~(patch /\ CanPatch(image))
    BY <1>1, <2>2 DEF PatchedImage
  <2> QED BY <2>1, <2>2
<1>5. \A n \in DOMAIN own : own[n].state # "Failed"
  BY <1>2
<1>6. PICK out : out = Written(p, FixedOf(own), order)
  OBVIOUS
<1>7. BootImage(out)
  BY <1>1, <1>3, <1>4, <1>5, <1>6, PassSafe
<1> QED BY <1>2, <1>6, <1>7

\* What is edited lies in the region of its block, and is not the version of CBOOT.
LEMMA EditedCell ==
  ASSUME Chosen, NEW n \in Blocks(fi), NEW cell \in Editable(n, static_length(n)) \union {Header(1).areas}
  PROVE  cell \in 1..static_length(n) /\ (n = CBOOT => cell # 1)
<1>1. PICK k : k = static_length(n)
  OBVIOUS
<1>2. k \in Nat /\ k >= 3
  BY <1>1, StaticIs
<1>3. Header(1).areas = 3
  BY HeaderIs
<1>4. cell \in {1, k - 1, k, 2, 3}
  BY <1>1, <1>3 DEF Editable, VersionCell, DynamicLengthCell
<1>5. cell \in 1..k
  BY <1>2, <1>4
<1>6. n = CBOOT => cell \in {k, 3}
  <2> SUFFICES ASSUME n = CBOOT PROVE cell \in {k, 3}
    OBVIOUS
  <2>1. n # CAL /\ n \notin fi.dynamic_block_length_offsets
    BY BootIs
  <2> QED BY <1>1, <1>3, <2>1 DEF Editable, CAL, CBOOT
<1>7. 1 \notin {k, 3}
  BY <1>2
<1> QED BY <1>1, <1>5, <1>6, <1>7

LEMMA EditedSafe ==
  ASSUME Chosen, ApartInfo(fi), bin \in Images, BootImage(bin),
         NEW n \in Blocks(fi), NEW cell \in Editable(n, static_length(n)) \union {Header(1).areas},
         NEW v \in Byte, v # NEEDLE
  PROVE  BootImage(EditedImage(n, cell, v))
<1> SUFFICES ASSUME CBOOT \in Blocks(fi)
             PROVE  BootImage(EditedImage(n, cell, v))
  BY DEF BootImage
<1>1. PICK out, L : out = EditedImage(n, cell, v) /\ L = Len(bin)
  OBVIOUS
<1>2. PICK on, kn, oc, kc : /\ on = binfile_offset(n) /\ kn = static_length(n)
                            /\ oc = binfile_offset(CBOOT) /\ kc = static_length(CBOOT)
  OBVIOUS
<1>3. bin \in Seq(Byte) /\ L \in Nat /\ L <= ImageLength
  BY <1>1, SeqAs DEF Images
<1>4. out \in Seq(Byte) /\ Len(out) = L /\ \A i \in 1..L : out[i] = IF i = on + cell THEN v ELSE bin[i]
  <2>1. PICK at : at = on + cell
    OBVIOUS
  <2>2. out = [bin EXCEPT ![at] = v]
    BY <1>1, <1>2, <2>1 DEF EditedImage
  <2> QED BY <1>1, <1>3, <2>1, <2>2, ReplacedIs
<1>5. out \in Images /\ Len(out) <= Len(bin)
  BY <1>1, <1>3, <1>4 DEF Images
<1>6. on \in Nat /\ oc \in Nat /\ kn \in Nat /\ kc \in Nat /\ kc >= 3
  BY <1>2, OffsetIs, StaticIs
<1>7. cell \in 1..kn /\ (n = CBOOT => cell # 1)
  BY <1>2, EditedCell
<1>8. oc + 1 # on + cell
  <2>1. CASE n = CBOOT
    BY <1>2, <1>6, <1>7, <2>1
  <2>2. CASE n # CBOOT
    BY <1>2, <1>6, <1>7, <2>2, Different, RegionsApart
  <2> QED BY <2>1, <2>2
<1>9. \A c \in 1..kc : oc + c \in 1..L => out[oc + c] = bin[oc + c] \/ (c # 1 /\ out[oc + c] # NEEDLE)
  BY <1>4, <1>8
<1> QED BY <1>1, <1>2, <1>4, <1>5, <1>9, RegionKept

\* Nor is it of a block file of CBOOT.
LEMMA TunedSafe ==
  ASSUME Chosen, NEW blocks, BlockFiles(blocks), BootFile(blocks), NEW n \in DOMAIN blocks,
         NEW cell \in Editable(n, Len(blocks[n])), NEW v
  PROVE  BootFile([blocks EXCEPT ![n][cell] = v])
<1>1. PICK e : e = [blocks[n] EXCEPT ![cell] = v]
  OBVIOUS
<1>2. [blocks EXCEPT ![n][cell] = v] = [m \in DOMAIN blocks |-> IF m = n THEN e ELSE blocks[m]]
  BY <1>1 DEF BlockFiles
<1>3. PICK new : new = [m \in DOMAIN blocks |-> IF m = n THEN e ELSE blocks[m]]
  OBVIOUS
<1>4. CASE n # CBOOT
  BY <1>2, <1>3, <1>4 DEF BootFile
<1>5. CASE n = CBOOT
  <2>1. CBOOT \in Blocks(fi) /\ BlockFile(CBOOT, blocks[CBOOT]) /\ CBOOT \in DOMAIN blocks
    BY <1>5 DEF BlockFiles
  <2>2. PICK d, k : d = blocks[CBOOT] /\ k = static_length(CBOOT)
    OBVIOUS
  <2>3. k \in Nat /\ k >= 3 /\ CBOOT \notin fi.dynamic_block_length_offsets /\ CBOOT # CAL
    BY <2>1, <2>2, BootIs
  <2>4. Len(d) = k /\ d \in Seq(Byte)
    BY <2>1, <2>2, <2>3 DEF BlockFile
  <2>5. cell = Len(d)
    BY <1>5, <2>2, <2>3 DEF Editable, CAL, CBOOT
  <2>6. cell # 1
    BY <2>3, <2>4, <2>5
  <2>7. e = [d EXCEPT ![cell] = v]
    BY <1>1, <1>5, <2>2
  <2>8. 1 \in DOMAIN d
    BY <2>3, <2>4, FirstCells, SeqAs
  <2>9. e[1] = d[1]
    BY <2>6, <2>7, <2>8
  <2>10. d[1] \in OwnVersions
    BY <2>1, <2>2 DEF BootFile
  <2>11. new[CBOOT] = e
    BY <1>3, <1>5, <2>1
  <2> QED BY <1>2, <1>3, <2>9, <2>10, <2>11 DEF BootFile
<1> QED BY <1>4, <1>5

LEMMA InitBoot == Init => BootInv
<1> SUFFICES ASSUME Init PROVE BootInv
  OBVIOUS
<1>1. Inv
  BY InitInv
<1>2. bin = NoImage /\ \A t \in Tools : files[t] = <<>>
  BY DEF Init
<1>3. \A t \in Tools : BootFile(files[t])
  BY <1>2, NoFileSafe
<1>4. BootImage(bin)
  <2> SUFFICES ASSUME CBOOT \in Blocks(fi) PROVE ~Inside(bin, CBOOT, static_length(CBOOT))
    BY DEF BootImage
  <2>1. Chosen
    BY <1>1 DEF Inv
  <2>2. PICK o, k, L : o = binfile_offset(CBOOT) /\ k = static_length(CBOOT) /\ L = Len(bin)
    OBVIOUS
  <2>3. o \in Nat /\ k \in Nat /\ k >= 3
    BY <2>1, <2>2, OffsetIs, StaticIs
  <2>4. L = 0
    BY <1>2, <2>2 DEF NoImage
  <2> QED BY <2>2, <2>3, <2>4 DEF Inside
<1> QED BY <1>1, <1>3, <1>4 DEF BootInv, BootIn

\* An image written, the files left alone.
LEMMA ImageSafe ==
  ASSUME BootIn(bin, files), NEW w, BootImage(w)
  PROVE  BootIn(w, files)
BY DEF BootIn

\* What can be in the place of CBOOT is kept by each step.
LEMMA BootStep ==
  ASSUME "simos16" \notin Modules, NEEDLE \notin TuneValues, Inv, BootIn(bin, files), Next
  PROVE  BootIn(bin, files)'
<1>0. Chosen /\ ApartInfo(fi)
  BY ChosenIs DEF Inv, Chosen
<1>s. SUFFICES \E w, g : bin' = w /\ files' = g /\ BootIn(w, g)
  <2>1. mod' = mod /\ fi' = fi
    BY DEF Next, ExtractFrf, ExtractOdx, SplitBin, CombineBin, Checksum, Flash, Unlock, FlashEnds,
           TuneFile, TuneImage, CutImage, Edit
  <2> QED BY <2>1, BootKept
<1>f. /\ files = [t \in Tools |-> files[t]]
      /\ \A t \in Tools : BlockFiles(files[t]) /\ BootFile(files[t])
  BY DEF Inv, BootIn
<1>b. bin \in Images /\ BootImage(bin)
  BY DEF Inv, BootIn
<1>1. CASE ExtractFrf
  <2>1. files' = files
    BY <1>1 DEF ExtractFrf
  <2>2. PICK order \in Orders : /\ load_raw_blocks("frf").ok /\ load_raw_blocks("frf").blocks # <<>>
                                /\ bin' = bin_from_blocks(load_raw_blocks("frf").blocks, order)
    BY <1>1, Zenon DEF ExtractFrf
  <2>3. bin' = bin_from_blocks(Given, order)
    BY <1>0, <2>2, FrfIs
  <2>4. PICK w : w = bin_from_blocks(Given, order)
    OBVIOUS
  <2>5. BootImage(w)
    BY <1>0, <2>4, GivenFiles, GivenSafe, CombinedSafe
  <2>6. BootIn(w, files)
    BY <2>5, ImageSafe
  <2> QED BY <2>1, <2>3, <2>4, <2>6
<1>2. CASE ExtractOdx
  <2>1. bin' = bin
    BY <1>2 DEF ExtractOdx
  <2>2. PICK raw \in {extract_odx(fi, Odx)} :
           raw.ok /\ files' = [files EXCEPT !["odx"] = Replacing(raw.blocks, @)]
    BY <1>2, Zenon DEF ExtractOdx
  <2>3. container # "sgo" /\ raw = extract_odx(fi, Odx)
    BY <1>2, <2>2 DEF ExtractOdx
  <2>4. BootFile(raw.blocks)
    BY <1>0, <2>2, <2>3, OdxSafe
  <2>5. "odx" \in Tools /\ BootFile(files["odx"])
    BY <1>f DEF Tools
  <2>6. PICK new : new = Replacing(raw.blocks, files["odx"])
    OBVIOUS
  <2>7. BootFile(new)
    BY <2>4, <2>5, <2>6, ReplacingSafe
  <2>8. files' = [files EXCEPT !["odx"] = new]
    BY <1>f, <2>2, <2>5, <2>6
  <2>9. BootIn(bin, [files EXCEPT !["odx"] = new])
    BY <1>f, <2>5, <2>7, FilesSafe
  <2> QED BY <2>1, <2>8, <2>9
<1>3. CASE SplitBin
  <2>1. bin' = bin /\ bin # NoImage
    BY <1>3 DEF SplitBin
  <2>2. "split" \in Tools /\ BootFile(files["split"])
    BY <1>f DEF Tools
  <2>3. PICK blocks : blocks = blocks_from_bytes(bin)
    OBVIOUS
  <2>4. BootFile(blocks)
    BY <1>0, <1>b, <2>3, SplitSafe
  <2>5. \/ files' = [files EXCEPT !["split"] = Replacing(blocks, files["split"])]
        \/ \E n \in DOMAIN blocks :
              files' = [files EXCEPT !["split"] = Replacing(Without(blocks, n), files["split"])]
    BY <1>3, <2>3 DEF SplitBin
  <2>6. \E new : BootFile(new) /\ files' = [files EXCEPT !["split"] = Replacing(new, files["split"])]
    BY <2>4, <2>5, WithoutSafe
  <2>7. PICK new : BootFile(new) /\ files' = [files EXCEPT !["split"] = Replacing(new, files["split"])]
    BY <2>6
  <2>8. PICK all : all = Replacing(new, files["split"])
    OBVIOUS
  <2>9. BootFile(all)
    BY <2>2, <2>7, <2>8, ReplacingSafe
  <2>10. BootIn(bin, [files EXCEPT !["split"] = all])
    BY <1>f, <2>2, <2>9, FilesSafe
  <2> QED BY <2>1, <2>7, <2>8, <2>10
<1>4. CASE CombineBin
  <2>1. files' = files
    BY <1>4 DEF CombineBin
  <2>2. PICK t \in Tools, order \in Orders : bin' = bin_from_blocks(files[t], order)
    BY <1>4 DEF CombineBin
  <2>3. PICK w : w = bin_from_blocks(files[t], order)
    OBVIOUS
  <2>4. BootImage(w)
    BY <1>0, <1>f, <2>3, CombinedSafe
  <2>5. BootIn(w, files)
    BY <2>4, ImageSafe
  <2> QED BY <2>1, <2>2, <2>3, <2>5
<1>5. CASE Checksum
  <2>1. files' = files
    BY <1>5 DEF Checksum
  <2>2. PICK patch \in BOOLEAN, order \in Orders : /\ cmd_checksum(bin, patch, order).ok
                                                   /\ bin' = cmd_checksum(bin, patch, order).image
    BY <1>5, Zenon DEF Checksum
  <2>3. PICK w : w = cmd_checksum(bin, patch, order).image
    OBVIOUS
  <2>4. BootImage(w)
    BY <1>0, <1>b, <2>2, <2>3, ChecksumSafe
  <2>5. BootIn(w, files)
    BY <2>4, ImageSafe
  <2> QED BY <2>1, <2>2, <2>3, <2>5
<1>6. CASE Flash \/ Unlock \/ FlashEnds
  BY <1>6 DEF Flash, Unlock, FlashEnds
<1>7. CASE TuneFile
  <2>1. bin' = bin
    BY <1>7 DEF TuneFile
  <2>2. PICK n \in DOMAIN files["split"] :
           \E cell \in Editable(n, Len(files["split"][n])), v \in TuneValues :
              files' = [files EXCEPT !["split"][n][cell] = v]
    BY <1>7, Zenon DEF TuneFile
  <2>3. PICK cell \in Editable(n, Len(files["split"][n])), v \in TuneValues :
           files' = [files EXCEPT !["split"][n][cell] = v]
    BY <2>2, Zenon
  <2>4. "split" \in Tools /\ BlockFiles(files["split"]) /\ BootFile(files["split"])
    BY <1>f DEF Tools
  <2>5. PICK new : new = [files["split"] EXCEPT ![n][cell] = v]
    OBVIOUS
  <2>6. BootFile(new)
    BY <1>0, <2>4, <2>5, TunedSafe
  <2>7. files' = [files EXCEPT !["split"] = new]
    BY <1>f, <2>3, <2>5
  <2>8. BootIn(bin, [files EXCEPT !["split"] = new])
    BY <1>f, <2>4, <2>6, FilesSafe
  <2> QED BY <2>1, <2>7, <2>8
<1>8. CASE TuneImage
  <2>1. files' = files
    BY <1>8 DEF TuneImage
  <2>2. PICK n \in Blocks(fi) :
           \E cell \in Editable(n, static_length(n)) \union {Header(1).areas}, v \in TuneValues :
              bin' = [bin EXCEPT ![binfile_offset(n) + cell] = v]
    BY <1>8, Zenon DEF TuneImage
  <2>3. PICK cell \in Editable(n, static_length(n)) \union {Header(1).areas}, v \in TuneValues :
           bin' = [bin EXCEPT ![binfile_offset(n) + cell] = v]
    BY <2>2, Zenon
  <2>4. v \in Byte /\ v # NEEDLE
    BY TuneIsByte
  <2>5. PICK w : w = EditedImage(n, cell, v)
    OBVIOUS
  <2>6. bin' = w
    BY <2>3, <2>5 DEF EditedImage
  <2>7. BootImage(w)
    BY <1>0, <1>b, <2>4, <2>5, EditedSafe
  <2>8. BootIn(w, files)
    BY <2>7, ImageSafe
  <2> QED BY <2>1, <2>6, <2>8
<1>9. CASE CutImage
  <2>1. files' = files /\ bin # NoImage
    BY <1>9 DEF CutImage
  <2>2. PICK k \in {Len(bin) \div 2, Len(bin) - 1} \ {0} : bin' = SubSeq(bin, 1, k)
    BY <1>9 DEF CutImage
  <2>3. PICK w : w = SubSeq(bin, 1, k)
    OBVIOUS
  <2>4. w \in Images /\ k \in 1..Len(bin) /\ Len(w) = k /\ \A i \in 1..k : w[i] = bin[i]
    BY <1>0, <1>b, <2>1, <2>3, CutShort
  <2>5. BootImage(w)
    BY <1>0, <1>b, <2>4, RegionKept
  <2>6. BootIn(w, files)
    BY <2>5, ImageSafe
  <2> QED BY <2>1, <2>2, <2>3, <2>6
<1> QED BY <1>1, <1>2, <1>3, <1>4, <1>5, <1>6, <1>7, <1>8, <1>9 DEF Next

LEMMA NextBoot ==
  ASSUME "simos16" \notin Modules, NEEDLE \notin TuneValues
  PROVE  BootInv /\ [Next]_vars => BootInv'
<1> SUFFICES ASSUME BootInv, [Next]_vars PROVE BootInv'
  OBVIOUS
<1>1. Inv /\ BootIn(bin, files)
  BY DEF BootInv
<1>2. Inv'
  BY <1>1, NextInv
<1>3. CASE Next
  BY <1>1, <1>2, <1>3, BootStep DEF BootInv
<1>4. CASE UNCHANGED vars
  BY <1>1, <1>2, <1>4, BootKept DEF vars, BootInv
<1> QED BY <1>3, <1>4

LEMMA BootAgrees ==
  ASSUME "simos16" \notin Modules, BootInv
  PROVE  WorkflowAgrees
<1>1. Chosen /\ ApartInfo(fi)
  BY ChosenIs DEF BootInv, Inv, Chosen
<1> SUFFICES ASSUME Apart(bin), NEW patch \in BOOLEAN, NEW order \in Orders,
                    cmd_checksum(bin, patch, order).ok
             PROVE  checksum_and_patch_blocks(fi, blocks_from_bytes(cmd_checksum(bin, patch, order).image), FALSE)
                      = checksum_and_patch_blocks(fi, blocks_from_bytes(bin), patch)
  BY Zenon DEF WorkflowAgrees
<1>2. bin \in Images /\ BootImage(bin)
  BY DEF BootInv, Inv, BootIn
<1>3. CanPatch(bin) => CBOOT \in DOMAIN blocks_from_bytes(bin)
  <2> SUFFICES ASSUME CanPatch(bin) PROVE CBOOT \in DOMAIN blocks_from_bytes(bin)
    OBVIOUS
  <2>1. PICK r : r = Region(bin, CBOOT)
    OBVIOUS
  <2>2. CBOOT \in Blocks(fi) /\ Inside(bin, CBOOT, static_length(CBOOT)) /\ Patchable(r)
    BY <2>1 DEF CanPatch
  <2>3. r \in Seq(Byte)
    BY <1>1, <1>2, <2>1, <2>2, RegionFirst
  <2>4. r[1] \in OwnVersions
    BY <1>2, <2>1, <2>2, <2>3, PatchableSafe DEF BootImage
  <2> QED BY <1>1, <1>2, <2>1, <2>2, <2>4, RegionFirst
<1> QED BY <1>1, <1>2, <1>3, FlowsAgree

\* Flashing what was split from an image after `checksum` is the same as having
\* the flash correct what is split from the image itself, with the patch or
\* without it (cmd_checksum, checksum_and_patch_blocks), as long as no block
\* states a length that reaches over its region.  Simos16 is left out, as
\* above, and no edit writes the code that the patch looks for.
THEOREM WorkflowRight == "simos16" \notin Modules /\ NEEDLE \notin TuneValues => (Spec => []WorkflowAgrees)
<1>1. ASSUME "simos16" \notin Modules /\ NEEDLE \notin TuneValues
      PROVE  BootInv /\ [Next]_vars => BootInv'
  BY <1>1, NextBoot
<1>2. ASSUME "simos16" \notin Modules /\ NEEDLE \notin TuneValues
      PROVE  BootInv => WorkflowAgrees
  BY <1>2, BootAgrees
<1>3. ASSUME "simos16" \notin Modules /\ NEEDLE \notin TuneValues
      PROVE  Spec => []WorkflowAgrees
  BY <1>1, <1>2, <1>3, InitBoot, PTL DEF Spec
<1> QED BY <1>3
=============================================================================
