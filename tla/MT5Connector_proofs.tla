-------------------------- MODULE MT5Connector_proofs --------------------------
(***************************************************************************)
(* Proofs about MT5Connector: for any number of threads and jobs, any      *)
(* volumes and any symbol.                                                 *)
(***************************************************************************)
EXTENDS MT5Connector, TLAPS

-----------------------------------------------------------------------------
(***************************************************************************)
(* Volumes stay natural numbers, though what is left to fill may be less   *)
(* than nothing.                                                           *)
(***************************************************************************)
LEMMA RoundedIsInt ==
  ASSUME NEW x \in Int, NEW d \in Nat \ {0}
  PROVE  Rounded(x, d) \in Int
BY DEF Rounded

LEMMA AtLeastIsNat ==
  ASSUME NEW x \in Int, NEW min \in Nat
  PROVE  AtLeast(x, min) \in Nat
BY DEF AtLeast

LEMMA VolumesAreNat ==
  ASSUME info.step \in Nat \ {0}, info.min \in Nat,
         NEW volume \in Nat, NEW filled \in Nat
  PROVE  /\ Normalized(volume) \in Nat
         /\ ThisVolume(volume, filled) \in Nat
<1>1. ASSUME NEW x \in Int
      PROVE  AtLeast(Rounded(x, info.step) * info.step, info.min) \in Nat
  <2>1. Rounded(x, info.step) \in Int
    BY <1>1, RoundedIsInt
  <2>2. Rounded(x, info.step) * info.step \in Int
    BY <2>1
  <2> QED BY <2>2, AtLeastIsNat
<1>2. Chunk(volume) \in Nat
  <2>1. CHUNKS * info.step \in Nat \ {0}
    BY DEF CHUNKS
  <2>2. Rounded(volume, CHUNKS * info.step) \in Int
    BY <2>1, RoundedIsInt
  <2>3. Rounded(volume, CHUNKS * info.step) * info.step \in Int
    BY <2>2
  <2> QED BY <2>3, AtLeastIsNat DEF Chunk
<1>3. Normalized(volume) \in Nat
  BY <1>1 DEF Normalized
<1>4. ThisVolume(volume, filled) \in Nat
  BY <1>1, <1>2 DEF ThisVolume
<1> QED BY <1>3, <1>4

LEMMA DealtIsNat ==
  ASSUME NEW outcome, NEW volume \in Nat
  PROVE  Dealt(outcome, volume) \in Nat /\ Dealt(outcome, volume) <= volume
BY DEF Dealt, Part

-----------------------------------------------------------------------------
(***************************************************************************)
(* What rounding does: the nearest multiple, itself of a multiple, nothing *)
(* of what is no more than half, and never less of more.                   *)
(***************************************************************************)
LEMMA RoundedNear ==
  ASSUME NEW x \in Int, NEW d \in Nat \ {0}
  PROVE  /\ 2 * (Rounded(x, d) * d) <= 2 * x + d
         /\ 2 * (Rounded(x, d) * d) >= 2 * x - d
<1>1. PICK q \in Int : q = x \div d
  OBVIOUS
<1>2. PICK m \in Int : m = x % d
  OBVIOUS
<1>3. x = d * q + m /\ m >= 0 /\ m < d
  BY <1>1, <1>2
<1>4. PICK z \in Int : z = q * d
  OBVIOUS
<1>5. (q + 1) * d = z + d /\ d * q = z
  BY <1>4
<1>6. CASE 2 * m > d \/ (2 * m = d /\ q % 2 = 1)
  <2>1. Rounded(x, d) = q + 1
    BY <1>1, <1>2, <1>6 DEF Rounded
  <2> QED BY <1>3, <1>5, <1>6, <2>1
<1>7. CASE ~(2 * m > d \/ (2 * m = d /\ q % 2 = 1))
  <2>1. Rounded(x, d) = q
    BY <1>1, <1>2, <1>7 DEF Rounded
  <2>2. 2 * m <= d
    BY <1>7
  <2> QED BY <1>3, <1>4, <1>5, <2>1, <2>2
<1> QED BY <1>6, <1>7

LEMMA Cancel ==
  ASSUME NEW a \in Int, NEW b \in Int, NEW d \in Nat \ {0}
  PROVE  /\ a * d \in Int /\ b * d \in Int
         /\ a * d < b * d => a < b
         /\ a * d <= b * d => a <= b
         /\ a <= b => a * d <= b * d
OBVIOUS

LEMMA RoundedSmall ==
  ASSUME NEW x \in Nat, NEW d \in Nat \ {0}, 2 * x <= d
  PROVE  Rounded(x, d) = 0
BY DEF Rounded

LEMMA RoundedMultiple ==
  ASSUME NEW k \in Int, NEW d \in Nat \ {0}
  PROVE  Rounded(k * d, d) = k
<1>1. PICK q \in Int : q = Rounded(k * d, d)
  BY RoundedIsInt
<1>2. PICK z \in Int : z = q * d
  OBVIOUS
<1>3. PICK y \in Int : y = k * d
  OBVIOUS
<1>4. 2 * z <= 2 * y + d /\ 2 * z >= 2 * y - d
  BY <1>1, <1>2, <1>3, RoundedNear
<1>5. z < y + d /\ y < z + d
  BY <1>4
<1>6. (k + 1) * d = y + d /\ (q + 1) * d = z + d
  BY <1>2, <1>3
<1>7. q < k + 1 /\ k < q + 1
  BY <1>2, <1>3, <1>5, <1>6, Cancel
<1> QED BY <1>1, <1>7

LEMMA RoundedMonotone ==
  ASSUME NEW x \in Int, NEW y \in Int, NEW d \in Nat \ {0}, x <= y
  PROVE  Rounded(x, d) <= Rounded(y, d)
<1>1. CASE x = y
  BY <1>1, RoundedIsInt
<1>2. CASE x < y
  <2>1. PICK p \in Int : p = Rounded(x, d)
    BY RoundedIsInt
  <2>2. PICK q \in Int : q = Rounded(y, d)
    BY RoundedIsInt
  <2>3. PICK a \in Int : a = p * d
    OBVIOUS
  <2>4. PICK b \in Int : b = q * d
    OBVIOUS
  <2>5. 2 * a <= 2 * x + d /\ 2 * b >= 2 * y - d
    BY <2>1, <2>2, <2>3, <2>4, RoundedNear
  <2>6. a < b + d
    BY <1>2, <2>5
  <2>7. (q + 1) * d = b + d
    BY <2>4
  <2>8. p < q + 1
    BY <2>3, <2>6, <2>7, Cancel
  <2> QED BY <2>1, <2>2, <2>8
<1> QED BY <1>1, <1>2

-----------------------------------------------------------------------------
(***************************************************************************)
(* What the deals of an order add up to.                                   *)
(***************************************************************************)
\* A volume that was normalized.
Normal(total) == \/ total = info.min
                 \/ total >= info.min /\ \E k \in Int : total = k * info.step

\* The volume the next deal starts from, before it is rounded.
Rest(total, filled) ==
  IF total - filled < Chunk(total) THEN total - filled ELSE Chunk(total)

\* With a minimum of less than half a step the deals are whole steps.
WholeSteps(total, filled) ==
  2 * info.min <= info.step /\ Chunk(total) > info.min =>
    \E k \in Int : filled = k * info.step

\* What n chunks come to, or all but two steps of the order.
Enough(total, n, filled) ==
  filled >= n * Chunk(total) \/ filled >= total - 2 * info.step

LEMMA NormalizedIsNormal ==
  ASSUME info.step \in Nat \ {0}, info.min \in Nat \ {0}, NEW volume \in Nat
  PROVE  /\ Normal(Normalized(volume))
         /\ Normalized(volume) \in Nat /\ Normalized(volume) >= info.min
         /\ volume >= info.min /\ volume % info.step = 0 => Normalized(volume) = volume
<1>1. PICK q \in Int : q = Rounded(volume, info.step)
  BY RoundedIsInt
<1>2. PICK z \in Int : z = q * info.step
  OBVIOUS
<1>3. Normalized(volume) = IF z < info.min THEN info.min ELSE z
  BY <1>1, <1>2 DEF Normalized, AtLeast
<1>4. Normal(Normalized(volume)) /\ Normalized(volume) \in Nat /\ Normalized(volume) >= info.min
  BY <1>2, <1>3 DEF Normal
<1>5. ASSUME volume >= info.min, volume % info.step = 0 PROVE Normalized(volume) = volume
  <2>1. PICK k \in Int : volume = k * info.step
    <3>1. volume = info.step * (volume \div info.step) + (volume % info.step)
      OBVIOUS
    <3>2. volume \div info.step \in Int
      OBVIOUS
    <3> QED BY <1>5, <3>1, <3>2
  <2>2. q = k
    BY <1>1, <2>1, RoundedMultiple
  <2>3. z = volume
    BY <1>2, <2>1, <2>2
  <2> QED BY <1>3, <1>5, <2>3
<1> QED BY <1>4, <1>5

LEMMA ChunkShape ==
  ASSUME info.step \in Nat \ {0}, info.min \in Nat \ {0}, NEW total \in Nat
  PROVE  \E j \in Int : /\ j = Rounded(total, CHUNKS * info.step)
                        /\ Chunk(total) = IF j * info.step < info.min THEN info.min ELSE j * info.step
<1>1. CHUNKS * info.step \in Nat \ {0}
  BY DEF CHUNKS
<1>2. PICK j \in Int : j = Rounded(total, CHUNKS * info.step)
  BY <1>1, RoundedIsInt
<1> QED BY <1>2 DEF Chunk, AtLeast

LEMMA DealShape ==
  ASSUME info.step \in Nat \ {0}, info.min \in Nat \ {0}, NEW total \in Nat, NEW filled \in Nat,
         total > Iceberg
  PROVE  /\ Chunk(total) \in Nat /\ Chunk(total) >= info.min
         /\ Rest(total, filled) \in Int
         /\ Rest(total, filled) <= Chunk(total) /\ Rest(total, filled) <= total - filled
         /\ \E z \in Int : /\ z = Rounded(Rest(total, filled), info.step) * info.step
                           /\ 2 * z <= 2 * Rest(total, filled) + info.step
                           /\ 2 * z >= 2 * Rest(total, filled) - info.step
                           /\ ThisVolume(total, filled) = IF z < info.min THEN info.min ELSE z
<1>1. Chunk(total) \in Nat /\ Chunk(total) >= info.min
  <2>1. PICK j \in Int : Chunk(total) = IF j * info.step < info.min THEN info.min ELSE j * info.step
    BY ChunkShape
  <2>2. j * info.step \in Int
    OBVIOUS
  <2> QED BY <2>1, <2>2
<1>2. /\ Rest(total, filled) \in Int
      /\ Rest(total, filled) <= Chunk(total) /\ Rest(total, filled) <= total - filled
  BY <1>1 DEF Rest
<1>3. PICK rest \in Int : rest = Rest(total, filled)
  BY <1>2
<1>4. PICK q \in Int : q = Rounded(rest, info.step)
  BY RoundedIsInt
<1>5. PICK z \in Int : z = q * info.step
  OBVIOUS
<1>6. ThisVolume(total, filled) = AtLeast(Rounded(Rest(total, filled), info.step) * info.step, info.min)
  BY DEF ThisVolume, Rest
<1>7. ThisVolume(total, filled) = IF z < info.min THEN info.min ELSE z
  BY <1>3, <1>4, <1>5, <1>6 DEF AtLeast
<1>8. 2 * z <= 2 * rest + info.step /\ 2 * z >= 2 * rest - info.step
  BY <1>4, <1>5, RoundedNear
<1> QED BY <1>1, <1>2, <1>3, <1>4, <1>5, <1>7, <1>8

LEMMA FirstIsLargest ==
  ASSUME info.step \in Nat \ {0}, info.min \in Nat \ {0}, NEW total \in Nat, NEW filled \in Nat,
         total >= 1
  PROVE  /\ ThisVolume(total, filled) \in Nat /\ ThisVolume(total, filled) >= 1
         /\ ThisVolume(total, filled) <= ThisVolume(total, 0)
<1>1. CASE total > Iceberg
  <2>1. PICK y \in Int : /\ y = Rounded(Rest(total, filled), info.step) * info.step
                         /\ ThisVolume(total, filled) = IF y < info.min THEN info.min ELSE y
    BY <1>1, DealShape
  <2>2. PICK z \in Int : /\ z = Rounded(Rest(total, 0), info.step) * info.step
                         /\ ThisVolume(total, 0) = IF z < info.min THEN info.min ELSE z
    BY <1>1, DealShape
  <2>3. /\ Rest(total, filled) \in Int /\ Rest(total, 0) \in Int
        /\ Rest(total, filled) <= Rest(total, 0)
    <3>1. Chunk(total) \in Nat
      BY <1>1, DealShape
    <3> QED BY <3>1 DEF Rest
  <2>4. Rounded(Rest(total, filled), info.step) <= Rounded(Rest(total, 0), info.step)
    BY <2>3, RoundedMonotone
  <2>5. y <= z
    <3>1. PICK a \in Int : a = Rounded(Rest(total, filled), info.step)
      BY <2>3, RoundedIsInt
    <3>2. PICK b \in Int : b = Rounded(Rest(total, 0), info.step)
      BY <2>3, RoundedIsInt
    <3>3. a * info.step <= b * info.step
      BY <2>4, <3>1, <3>2, Cancel
    <3> QED BY <2>1, <2>2, <3>1, <3>2, <3>3
  <2> QED BY <2>1, <2>2, <2>5
<1>2. CASE ~(total > Iceberg)
  BY <1>2 DEF ThisVolume
<1> QED BY <1>1, <1>2

LEMMA FirstWithinTotal ==
  ASSUME info.step \in Nat \ {0}, info.min \in Nat \ {0}, NEW total \in Nat,
         total >= info.min, total % info.step = 0
  PROVE  ThisVolume(total, 0) <= total
<1>1. CASE total > Iceberg
  <2>1. PICK z \in Int : /\ z = Rounded(Rest(total, 0), info.step) * info.step
                         /\ ThisVolume(total, 0) = IF z < info.min THEN info.min ELSE z
    BY <1>1, DealShape
  <2>2. Rest(total, 0) \in Int /\ Rest(total, 0) <= total
    BY <1>1, DealShape
  <2>3. PICK k \in Int : total = k * info.step
    <3>1. total = info.step * (total \div info.step) + (total % info.step)
      OBVIOUS
    <3>2. total \div info.step \in Int
      OBVIOUS
    <3> QED BY <3>1, <3>2
  <2>4. Rounded(Rest(total, 0), info.step) <= k
    <3>1. Rounded(Rest(total, 0), info.step) <= Rounded(total, info.step)
      BY <2>2, RoundedMonotone
    <3>2. Rounded(total, info.step) = k
      BY <2>3, RoundedMultiple
    <3> QED BY <3>1, <3>2
  <2>5. z <= total
    <3>1. PICK a \in Int : a = Rounded(Rest(total, 0), info.step)
      BY <2>2, RoundedIsInt
    <3>2. a * info.step <= k * info.step
      BY <2>4, <3>1, Cancel
    <3> QED BY <2>1, <2>3, <3>1, <3>2
  <2> QED BY <2>1, <2>5
<1>2. CASE ~(total > Iceberg)
  BY <1>2 DEF ThisVolume
<1> QED BY <1>1, <1>2

\* The rest of an order in whole steps is whole steps.
LEMMA RestInSteps ==
  ASSUME info.step \in Nat \ {0}, info.min \in Nat \ {0}, NEW total \in Nat, NEW filled \in Nat,
         total > Iceberg, Normal(total), filled < total, WholeSteps(total, filled),
         2 * info.min <= info.step, Chunk(total) > info.min
  PROVE  /\ ThisVolume(total, filled) = Rest(total, filled)
         /\ \E n \in Int : ThisVolume(total, filled) = n * info.step
<1>1. PICK j \in Int : /\ j = Rounded(total, CHUNKS * info.step)
                       /\ Chunk(total) = IF j * info.step < info.min THEN info.min ELSE j * info.step
  BY ChunkShape
<1>2. Chunk(total) = j * info.step
  BY <1>1
<1>3. PICK i \in Int : total = i * info.step
  <2>1. total # info.min
    <3>1. ASSUME total = info.min PROVE FALSE
      <4>1. CHUNKS * info.step \in Nat \ {0} /\ 2 * total <= CHUNKS * info.step
        BY <3>1 DEF CHUNKS
      <4>2. j = 0
        BY <1>1, <4>1, RoundedSmall
      <4> QED BY <1>2, <4>2
    <3> QED BY <3>1
  <2> QED BY <2>1 DEF Normal
<1>4. PICK k \in Int : filled = k * info.step
  BY DEF WholeSteps
<1>5. PICK n \in Int : Rest(total, filled) = n * info.step
  <2>1. CASE total - filled < Chunk(total)
    <3>1. total - filled = (i - k) * info.step
      BY <1>3, <1>4
    <3>2. i - k \in Int
      OBVIOUS
    <3> QED BY <2>1, <3>1, <3>2 DEF Rest
  <2>2. CASE ~(total - filled < Chunk(total))
    BY <1>2, <2>2 DEF Rest
  <2> QED BY <2>1, <2>2
<1>6. Rest(total, filled) > 0 /\ Rest(total, filled) \in Int
  BY DealShape DEF Rest
<1>7. 0 * info.step < n * info.step
  BY <1>5, <1>6
<1>8. 0 < n
  BY <1>7, Cancel
<1>9. 1 * info.step <= n * info.step
  BY <1>8, Cancel
<1>10. Rest(total, filled) >= info.step
  BY <1>5, <1>9
<1>11. PICK z \in Int : /\ z = Rounded(Rest(total, filled), info.step) * info.step
                        /\ ThisVolume(total, filled) = IF z < info.min THEN info.min ELSE z
  BY DealShape
<1>12. Rounded(Rest(total, filled), info.step) = n
  BY <1>5, RoundedMultiple
<1>13. z = Rest(total, filled)
  BY <1>5, <1>11, <1>12
<1>14. ~(z < info.min)
  BY <1>6, <1>10, <1>13
<1>15. ThisVolume(total, filled) = Rest(total, filled)
  BY <1>11, <1>13, <1>14
<1> QED BY <1>5, <1>15

\* A deal takes an order past its volume by less than one minimal deal.
LEMMA DealFits ==
  ASSUME info.step \in Nat \ {0}, info.min \in Nat \ {0}, NEW total \in Nat, NEW filled \in Nat,
         total > Iceberg, Normal(total), filled < total, WholeSteps(total, filled)
  PROVE  /\ filled + ThisVolume(total, filled) < total + info.min
         /\ WholeSteps(total, filled + ThisVolume(total, filled))
<1>1. PICK z \in Int : /\ z = Rounded(Rest(total, filled), info.step) * info.step
                       /\ 2 * z <= 2 * Rest(total, filled) + info.step
                       /\ ThisVolume(total, filled) = IF z < info.min THEN info.min ELSE z
  BY DealShape
<1>2. /\ Chunk(total) \in Nat /\ Chunk(total) >= info.min /\ Rest(total, filled) \in Int
      /\ Rest(total, filled) <= Chunk(total) /\ Rest(total, filled) <= total - filled
      /\ Rest(total, filled) > 0
  BY DealShape DEF Rest
<1>3. filled + ThisVolume(total, filled) < total + info.min
  <2>1. CASE 2 * info.min > info.step
    BY <1>1, <1>2, <2>1
  <2>2. CASE 2 * info.min <= info.step /\ Chunk(total) > info.min
    <3>1. ThisVolume(total, filled) = Rest(total, filled)
      BY <2>2, RestInSteps
    <3> QED BY <1>2, <3>1
  <2>3. CASE 2 * info.min <= info.step /\ Chunk(total) = info.min
    <3>1. Rest(total, filled) \in Nat /\ 2 * Rest(total, filled) <= info.step
      BY <1>2, <2>3
    <3>2. Rounded(Rest(total, filled), info.step) = 0
      BY <3>1, RoundedSmall
    <3>3. z = 0
      BY <1>1, <3>2
    <3> QED BY <1>1, <1>2, <3>3
  <2> QED BY <1>2, <2>1, <2>2, <2>3
<1>4. ASSUME 2 * info.min <= info.step, Chunk(total) > info.min
      PROVE  \E k \in Int : filled + ThisVolume(total, filled) = k * info.step
  <2>1. PICK n \in Int : ThisVolume(total, filled) = n * info.step
    BY <1>4, RestInSteps
  <2>2. PICK k \in Int : filled = k * info.step
    BY <1>4 DEF WholeSteps
  <2>3. filled + ThisVolume(total, filled) = (k + n) * info.step /\ k + n \in Int
    BY <2>1, <2>2
  <2> QED BY <2>3
<1> QED BY <1>3, <1>4 DEF WholeSteps

\* A deal that was done brings an order one chunk on.
LEMMA DealEnough ==
  ASSUME info.step \in Nat \ {0}, info.min \in Nat \ {0}, NEW total \in Nat, NEW filled \in Nat,
         NEW n \in Nat, total > Iceberg, Enough(total, n, filled)
  PROVE  Enough(total, n + 1, filled + ThisVolume(total, filled))
<1>1. PICK z \in Int : /\ z = Rounded(Rest(total, filled), info.step) * info.step
                       /\ 2 * z >= 2 * Rest(total, filled) - info.step
                       /\ ThisVolume(total, filled) = IF z < info.min THEN info.min ELSE z
  BY DealShape
<1>2. Chunk(total) \in Nat /\ Rest(total, filled) \in Int
  BY DealShape
<1>3. CASE total - filled < Chunk(total)
  <2>1. Rest(total, filled) = total - filled
    BY <1>3 DEF Rest
  <2>2. filled + ThisVolume(total, filled) >= total - 2 * info.step
    BY <1>1, <2>1
  <2> QED BY <2>2 DEF Enough
<1>4. CASE ~(total - filled < Chunk(total))
  <2>1. Rest(total, filled) = Chunk(total)
    BY <1>4 DEF Rest
  <2>2. PICK j \in Int : Chunk(total) = IF j * info.step < info.min THEN info.min ELSE j * info.step
    BY ChunkShape
  <2>3. ThisVolume(total, filled) >= Chunk(total)
    <3>1. CASE Chunk(total) = info.min
      BY <1>1, <3>1
    <3>2. CASE Chunk(total) = j * info.step
      <4>1. Rounded(Rest(total, filled), info.step) = j
        BY <2>1, <3>2, RoundedMultiple
      <4>2. z = Chunk(total)
        BY <1>1, <3>2, <4>1
      <4> QED BY <1>1, <4>2
    <3> QED BY <2>2, <3>1, <3>2
  <2>4. PICK c \in Nat : c = Chunk(total)
    BY <1>2
  <2>5. PICK m \in Nat : m = n * c
    OBVIOUS
  <2>6. (n + 1) * c = m + c
    BY <2>5
  <2>7. ThisVolume(total, filled) \in Nat
    BY <1>1
  <2>8. PICK v \in Nat : v = ThisVolume(total, filled)
    BY <2>7
  <2>9. filled >= m \/ filled >= total - 2 * info.step
    BY <2>4, <2>5 DEF Enough
  <2>10. filled + v >= m + c \/ filled + v >= total - 2 * info.step
    BY <2>3, <2>4, <2>8, <2>9
  <2> QED BY <2>4, <2>6, <2>8, <2>10 DEF Enough
<1> QED BY <1>3, <1>4

\* Five chunks are all of an order but two steps.
LEMMA ChunksSuffice ==
  ASSUME info.step \in Nat \ {0}, info.min \in Nat \ {0}, NEW total \in Nat, total > Iceberg,
         Normal(total)
  PROVE  CHUNKS * Chunk(total) >= total - 2 * info.step
<1>1. PICK j \in Int : /\ j = Rounded(total, CHUNKS * info.step)
                       /\ Chunk(total) = IF j * info.step < info.min THEN info.min ELSE j * info.step
  BY ChunkShape
<1>2. PICK y \in Int : y = j * info.step
  OBVIOUS
<1>3. Chunk(total) \in Nat /\ Chunk(total) >= info.min /\ Chunk(total) >= y
  BY <1>1, <1>2
<1>4. CASE total = info.min
  BY <1>3, <1>4 DEF CHUNKS
<1>5. ASSUME NEW i \in Int, total = i * info.step
      PROVE  CHUNKS * Chunk(total) >= total - 2 * info.step
  <2>1. CHUNKS * info.step \in Nat \ {0}
    BY DEF CHUNKS
  <2>2. 2 * (j * (CHUNKS * info.step)) >= 2 * total - CHUNKS * info.step
    <3>1. PICK d \in Nat \ {0} : d = CHUNKS * info.step
      BY <2>1
    <3>2. 2 * (Rounded(total, d) * d) >= 2 * total - d
      BY RoundedNear
    <3> QED BY <1>1, <3>1, <3>2
  <2>3. j * (CHUNKS * info.step) = 5 * y
    BY <1>2 DEF CHUNKS
  <2>4. 10 * y >= 2 * total - 5 * info.step
    BY <2>2, <2>3 DEF CHUNKS
  <2>5. (2 * i - 5) * info.step <= (10 * j) * info.step
    BY <1>2, <1>5, <2>4
  <2>6. 2 * i - 5 <= 10 * j
    BY <2>5, Cancel
  <2>7. i - 2 <= 5 * j
    BY <2>6
  <2>8. (i - 2) * info.step <= (5 * j) * info.step
    BY <2>7, Cancel
  <2>9. total - 2 * info.step <= 5 * y
    BY <1>2, <1>5, <2>8
  <2> QED BY <1>3, <2>9 DEF CHUNKS
<1> QED BY <1>4, <1>5 DEF Normal

-----------------------------------------------------------------------------
(***************************************************************************)
(* A thread that has deals to make has not made them all, one that pushes  *)
(* has an answer, and so has every request whose result went out.          *)
(***************************************************************************)
TaskOK(task) == task # IdleWorker =>
  /\ task.req <= begun
  /\ task.at # "push" => task.chunk < CHUNKS
  /\ task.at = "push" => answer[task.req] # NoAnswer

TaskInv == /\ \A w \in Workers : TaskOK(worker[w])
           /\ \A r \in delivered : r <= begun /\ answer[r] # NoAnswer

Inv == TypeOK /\ TaskInv

LEMMA InvInit == Init => Inv
BY ConnectorAssumption DEF Init, Inv, TypeOK, TaskInv, TaskOK, Reqs, Tickets, Position

\* What the types say of a job, a thread and an answer.
LEMMA Typed ==
  ASSUME Inv
  PROVE  /\ info.step \in Nat \ {0} /\ info.min \in Nat
         /\ begun \in Nat /\ Len(jobs) \in Nat /\ begun <= Len(jobs) /\ Len(jobs) <= MaxJobs
         /\ \A r \in Reqs : r \in Nat /\ r >= 1
         /\ \A r \in 1..Len(jobs) : /\ r \in Reqs /\ jobs[r] \in Job
         /\ \A w \in Workers : worker[w] # IdleWorker =>
              /\ worker[w] \in Task /\ worker[w].req \in 1..Len(jobs)
<1>1. /\ info \in SymbolInfos /\ jobs \in Seq(Job) /\ Len(jobs) <= MaxJobs
      /\ begun \in 0..Len(jobs) /\ worker \in [Workers -> Task \union {IdleWorker}]
  BY DEF Inv, TypeOK
<1>2. Len(jobs) \in Nat /\ \A r \in 1..Len(jobs) : jobs[r] \in Job
  BY ONLY <1>1
<1>3. begun \in Nat /\ begun <= Len(jobs)
  BY ONLY <1>1, <1>2
<1>4. info.step \in Nat \ {0} /\ info.min \in Nat
  BY <1>1, ConnectorAssumption
<1>5. \A r \in 1..Len(jobs) : r \in Reqs
  BY <1>1, <1>2, ConnectorAssumption DEF Reqs
<1>6. \A r \in Reqs : r \in Nat /\ r >= 1
  BY ConnectorAssumption DEF Reqs
<1>7. ASSUME NEW w \in Workers, worker[w] # IdleWorker
      PROVE  worker[w] \in Task /\ worker[w].req \in 1..Len(jobs)
  <2>1. worker[w] \in Task
    BY <1>1, <1>7
  <2>2. worker[w].req \in Reqs
    BY <2>1 DEF Task
  <2>3. worker[w].req <= begun
    BY <1>7 DEF Inv, TaskInv, TaskOK
  <2> QED BY <1>2, <1>3, <1>6, <2>1, <2>2, <2>3
<1> QED BY <1>1, <1>2, <1>3, <1>4, <1>5, <1>6, <1>7

-----------------------------------------------------------------------------
(***************************************************************************)
(* What the steps of a thread do.                                          *)
(***************************************************************************)
Running(w) == worker[w] # IdleWorker /\ worker[w].at # "push"
Total(r)   == Normalized(jobs[r].volume)

\* A task after a deal.
After(task, outcome, dealt) ==
  IF outcome = "done"
  THEN [task EXCEPT !.chunk = @ + 1, !.filled = @ + dealt,
                    !.ticket = IF @ = NoTicket THEN <<task.req, task.chunk + 1>> ELSE @]
  ELSE task

\* A deal of an order, and one of a close.
OrderDealt(w, outcome, dealt, after) ==
  /\ Running(w) /\ worker[w].at = "deal" /\ Request(w).op = "execute_order"
  /\ UNCHANGED <<info, jobs, begun, closed, delivered, serving>>
  /\ dealt = Dealt(outcome, ThisVolume(Total(worker[w].req), worker[w].filled))
  /\ after = After(worker[w], outcome, dealt)
  /\ after.req = worker[w].req /\ after.at = "deal"
  /\ OpenPosition(<<worker[w].req, worker[w].chunk + 1>>, Request(w).type, dealt)
  /\ opened' = [opened EXCEPT ![worker[w].req] = @ + dealt]
  /\ missed' = IF outcome = "done" THEN missed ELSE missed \union {worker[w].req}
  /\ \/ /\ MoreChunks(after, outcome, Total(worker[w].req))
        /\ Goto(w, after) /\ answer' = answer
     \/ /\ ~MoreChunks(after, outcome, Total(worker[w].req))
        /\ Goto(w, [after EXCEPT !.at = "push"])
        /\ answer' = [answer EXCEPT ![worker[w].req] = OrderAnswer(after, outcome)]

CloseDealt(w, outcome, dealt) ==
  /\ Running(w) /\ worker[w].at = "deal" /\ Request(w).op = "close_position"
  /\ UNCHANGED <<info, jobs, begun, missed, delivered, serving>>
  /\ dealt = Dealt(outcome, Request(w).volume)
  /\ Goto(w, [worker[w] EXCEPT !.at = "push"])
  /\ answer' = [answer EXCEPT ![worker[w].req] =
       [status |-> IF outcome = "done" THEN "ok" ELSE "error",
        ticket |-> worker[w].ticket, volume |-> 0]]
  /\ \/ /\ Inverse(Request(w).type) # positions[worker[w].ticket].side
        /\ outcome # "refused" => Closable(worker[w].ticket, Request(w).volume)
        /\ positions' = [positions EXCEPT ![worker[w].ticket].volume = @ - dealt]
        /\ closed' = [closed EXCEPT ![worker[w].req] = @ + dealt] /\ opened' = opened
     \/ /\ Inverse(Request(w).type) = positions[worker[w].ticket].side
        /\ OpenPosition(<<worker[w].req, 1>>, Inverse(Request(w).type), dealt)
        /\ opened' = [opened EXCEPT ![worker[w].req] = @ + dealt] /\ closed' = closed

LEMMA InfoTyped ==
  ASSUME Inv
  PROVE  info.step \in Nat \ {0} /\ info.min \in Nat \ {0}
BY ConnectorAssumption DEF Inv, TypeOK

LEMMA TotalTyped ==
  ASSUME Inv, NEW r \in 1..Len(jobs)
  PROVE  /\ Total(r) \in Nat /\ Total(r) >= 1 /\ Normal(Total(r))
         /\ jobs[r].volume \in Nat
<1>1. jobs[r].volume \in Nat
  BY Typed DEF Job
<1>2. info.step \in Nat \ {0} /\ info.min \in Nat \ {0}
  BY InfoTyped
<1>3. /\ Normal(Normalized(jobs[r].volume)) /\ Normalized(jobs[r].volume) \in Nat
      /\ Normalized(jobs[r].volume) >= info.min
  BY <1>1, <1>2, NormalizedIsNormal
<1> QED BY <1>1, <1>2, <1>3 DEF Total

LEMMA OrderDealEffect ==
  ASSUME Inv, NEW w \in Workers, OrderDeal(w)
  PROVE  \E outcome \in {"done", "part", "refused", "raised"} : \E dealt \in Nat : \E after \in Task :
           OrderDealt(w, outcome, dealt, after)
<1> DEFINE r == worker[w].req
<1>1. /\ worker[w] # IdleWorker /\ worker[w].at = "deal" /\ Request(w).op = "execute_order"
      /\ UNCHANGED <<info, jobs, begun, closed, delivered, serving>>
  BY DEF OrderDeal, At
<1>2. PICK outcome \in DealOutcomes \union {"raised"} :
        LET total  == Normalized(Request(w).volume)
            volume == ThisVolume(total, worker[w].filled)
            dealt  == Dealt(outcome, volume)
            ticket == <<r, worker[w].chunk + 1>>
            after  == IF outcome = "done"
                      THEN [worker[w] EXCEPT
                              !.chunk = @ + 1, !.filled = @ + dealt,
                              !.ticket = IF @ = NoTicket THEN ticket ELSE @]
                      ELSE worker[w]
            more   == MoreChunks(after, outcome, total)
        IN  /\ OpenPosition(ticket, Request(w).type, dealt)
            /\ opened' = [opened EXCEPT ![r] = @ + dealt]
            /\ missed' = IF outcome = "done" THEN missed ELSE missed \union {r}
            /\ Goto(w, IF more THEN after ELSE [after EXCEPT !.at = "push"])
            /\ answer' = IF more THEN answer
                         ELSE [answer EXCEPT ![r] = OrderAnswer(after, outcome)]
  BY DEF OrderDeal
<1>0. outcome \in {"done", "part", "refused", "raised"}
  BY DEF DealOutcomes
<1>3. PICK dealt : dealt = Dealt(outcome, ThisVolume(Total(r), worker[w].filled))
  OBVIOUS
<1>4. PICK after : after = After(worker[w], outcome, dealt)
  OBVIOUS
<1>5. /\ OpenPosition(<<r, worker[w].chunk + 1>>, Request(w).type, dealt)
      /\ opened' = [opened EXCEPT ![r] = @ + dealt]
      /\ missed' = IF outcome = "done" THEN missed ELSE missed \union {r}
      /\ \/ /\ MoreChunks(after, outcome, Total(r))
            /\ Goto(w, after) /\ answer' = answer
         \/ /\ ~MoreChunks(after, outcome, Total(r))
            /\ Goto(w, [after EXCEPT !.at = "push"])
            /\ answer' = [answer EXCEPT ![r] = OrderAnswer(after, outcome)]
  BY <1>2, <1>3, <1>4 DEF After, Total, Request
<1>6. /\ worker[w] \in Task /\ r \in Reqs /\ worker[w].chunk < CHUNKS /\ r \in 1..Len(jobs)
  BY <1>1, Typed DEF Inv, TaskInv, TaskOK, Task
<1>7. dealt \in Nat
  <2>1. Total(r) \in Nat /\ worker[w].filled \in Nat
    BY <1>6, TotalTyped DEF Task
  <2>2. ThisVolume(Total(r), worker[w].filled) \in Nat
    BY <2>1, Typed, VolumesAreNat
  <2> QED BY <1>3, <2>2, DealtIsNat
<1>8. <<r, worker[w].chunk + 1>> \in Tickets
  BY <1>6 DEF Task, Tickets, CHUNKS
<1>9. after \in Task /\ after.req = r /\ after.at = "deal"
  <2>1. CASE outcome = "done"
    <3>1. worker[w].chunk + 1 \in 0..CHUNKS /\ worker[w].filled + dealt \in Nat
      BY <1>6, <1>7 DEF Task, CHUNKS
    <3> QED BY <1>1, <1>4, <1>6, <1>8, <2>1, <3>1 DEF Task, After
  <2>2. CASE outcome # "done"
    BY <1>1, <1>4, <1>6, <2>2 DEF After
  <2> QED BY <2>1, <2>2
<1>10. OrderDealt(w, outcome, dealt, after)
  BY <1>1, <1>3, <1>4, <1>5, <1>9 DEF Running, OrderDealt
<1> QED BY <1>0, <1>7, <1>9, <1>10

LEMMA CloseDealEffect ==
  ASSUME Inv, NEW w \in Workers, CloseDeal(w)
  PROVE  \E outcome \in {"done", "part", "refused"} : \E dealt \in Nat :
           CloseDealt(w, outcome, dealt)
<1>1. /\ Running(w) /\ worker[w].at = "deal" /\ Request(w).op = "close_position"
      /\ UNCHANGED <<info, jobs, begun, missed, delivered, serving>>
  BY DEF CloseDeal, At, Running
<1>2. PICK outcome \in {"done", "part", "refused"} :
        /\ Conclude(w, IF ClosedInFull(outcome) THEN "ok" ELSE "error", worker[w].ticket, 0)
        /\ \/ /\ Inverse(Request(w).type) # positions[worker[w].ticket].side
              /\ outcome # "refused" => Closable(worker[w].ticket, Request(w).volume)
              /\ positions' = [positions EXCEPT ![worker[w].ticket].volume =
                                 @ - Dealt(outcome, Request(w).volume)]
              /\ closed' = [closed EXCEPT ![worker[w].req] = @ + Dealt(outcome, Request(w).volume)]
              /\ opened' = opened
           \/ /\ Inverse(Request(w).type) = positions[worker[w].ticket].side
              /\ OpenPosition(<<worker[w].req, 1>>, Inverse(Request(w).type),
                              Dealt(outcome, Request(w).volume))
              /\ opened' = [opened EXCEPT ![worker[w].req] = @ + Dealt(outcome, Request(w).volume)]
              /\ closed' = closed
  BY DEF CloseDeal, DealOutcomes, DealSide
<1>3. Request(w).volume \in Nat
  BY <1>1, Typed DEF Running, Request, Job
<1>4. PICK dealt \in Nat : dealt = Dealt(outcome, Request(w).volume)
  BY <1>3, DealtIsNat
<1> QED BY <1>1, <1>2, <1>4 DEF Conclude, ClosedInFull, CloseDealt

-----------------------------------------------------------------------------
LEMMA TaskKept ==
  ASSUME Inv, NEW w \in Workers, NEW task, Goto(w, task), TaskOK(task)',
         begun' \in Nat, begun <= begun',
         \A r \in Reqs : answer[r] # NoAnswer => answer'[r] # NoAnswer,
         \A r \in delivered' : r \in delivered \/ (r <= begun' /\ answer'[r] # NoAnswer)
  PROVE  TaskInv'
<1>1. ASSUME NEW v \in Workers PROVE TaskOK(worker[v])'
  <2>1. CASE v = w
    <3>1. worker'[v] = task
      BY <2>1 DEF Goto, Inv, TypeOK
    <3> QED BY <3>1 DEF TaskOK
  <2>2. CASE v # w
    <3>1. worker'[v] = worker[v] /\ TaskOK(worker[v])
      BY <2>2 DEF Goto, Inv, TypeOK, TaskInv
    <3>2. worker[v] # IdleWorker => worker[v].req \in Reqs /\ worker[v].req \in Nat
      BY Typed
    <3>3. begun \in Nat
      BY Typed
    <3> QED BY <3>1, <3>2, <3>3 DEF TaskOK
  <2> QED BY <2>1, <2>2
<1>2. \A r \in delivered : r \in Reqs /\ r <= begun /\ answer[r] # NoAnswer /\ r \in Nat /\ begun \in Nat
  BY Typed DEF Inv, TypeOK, TaskInv
<1>3. \A r \in delivered' : r <= begun' /\ answer'[r] # NoAnswer
  BY <1>2
<1> QED BY <1>1, <1>3 DEF TaskInv

LEMMA SubmitKeeps ==
  ASSUME Inv, NEW job \in Job, Submit(job)
  PROVE  Inv'
<1>1. /\ jobs' = Append(jobs, job) /\ jobs \in Seq(Job) /\ Len(jobs) < MaxJobs
      /\ begun \in 0..Len(jobs)
  BY DEF Submit, Inv, TypeOK
<1>2. /\ jobs' \in Seq(Job) /\ Len(jobs') <= MaxJobs /\ begun \in 0..Len(jobs')
  BY ONLY <1>1, ConnectorAssumption, job \in Job
<1>3. TypeOK'
  BY <1>2 DEF Submit, Inv, TypeOK, history
<1>4. TaskInv'
  BY DEF Submit, Inv, TaskInv, TaskOK
<1> QED BY <1>3, <1>4 DEF Inv

\* A thread goes on with its job, with or without an answer.
LEMMA TaskStep ==
  ASSUME Inv, NEW w \in Workers, worker[w] # IdleWorker, NEW task \in Task, Goto(w, task),
         NEW a \in Answer \union {NoAnswer}, answer' = [answer EXCEPT ![worker[w].req] = a],
         task.req = worker[w].req,
         answer[worker[w].req] # NoAnswer \/ task.at = "push" => a # NoAnswer,
         task.at # "push" => task.chunk < CHUNKS,
         UNCHANGED <<info, jobs, begun, delivered, serving>>,
         opened' \in [Reqs -> Nat], closed' \in [Reqs -> Nat], missed' \subseteq Reqs,
         DOMAIN positions' \subseteq Tickets,
         \A t \in DOMAIN positions' : positions'[t] \in Position
  PROVE  Inv'
<1>1. worker[w].req \in Reqs /\ worker[w].req <= begun /\ begun \in Nat
  BY Typed DEF Inv, TaskInv, TaskOK, Task
<1>2. TypeOK'
  BY <1>1 DEF Inv, TypeOK, Goto
<1>3. /\ answer'[task.req] = a
      /\ \A r \in Reqs : answer[r] # NoAnswer => answer'[r] # NoAnswer
  BY <1>1 DEF Inv, TypeOK
<1>4. TaskOK(task)'
  BY <1>1, <1>3 DEF TaskOK
<1>5. \A r \in delivered' : r \in delivered
  OBVIOUS
<1>6. begun' = begun
  OBVIOUS
<1>7. TaskInv'
  BY <1>1, <1>3, <1>4, <1>5, <1>6, TaskKept
<1> QED BY <1>2, <1>7 DEF Inv

LEMMA ConcludeKeeps ==
  ASSUME Inv, NEW w \in Workers, worker[w] # IdleWorker,
         NEW status \in {"ok", "error"}, NEW ticket \in Tickets \union {NoTicket}, NEW volume \in Nat,
         Conclude(w, status, ticket, volume),
         UNCHANGED <<info, jobs, begun, missed, delivered, serving>>,
         opened' \in [Reqs -> Nat], closed' \in [Reqs -> Nat], DOMAIN positions' \subseteq Tickets,
         \A t \in DOMAIN positions' : positions'[t] \in Position
  PROVE  Inv'
<1>1. PICK task : task = [worker[w] EXCEPT !.at = "push"]
  OBVIOUS
<1>2. PICK a : a = [status |-> status, ticket |-> ticket, volume |-> volume]
  OBVIOUS
<1>3. Goto(w, task) /\ answer' = [answer EXCEPT ![worker[w].req] = a]
  BY <1>1, <1>2 DEF Conclude
<1>4. task \in Task /\ task.req = worker[w].req /\ task.at = "push"
  BY <1>1, Typed DEF Task
<1>5. a \in Answer /\ a # NoAnswer
  BY <1>2, ConnectorAssumption DEF Answer
<1>6. missed' \subseteq Reqs
  BY DEF Inv, TypeOK
<1> QED BY <1>3, <1>4, <1>5, <1>6, TaskStep

LEMMA OpenTyped ==
  ASSUME Inv, NEW ticket \in Tickets, NEW side \in Side, NEW volume \in Nat,
         OpenPosition(ticket, side, volume)
  PROVE  /\ DOMAIN positions' \subseteq Tickets
         /\ \A t \in DOMAIN positions' : positions'[t] \in Position
BY DEF OpenPosition, Inv, TypeOK, Position

LEMMA InvNext == Inv /\ [Next]_vars => Inv'
<1> SUFFICES ASSUME Inv, [Next]_vars PROVE Inv'
  OBVIOUS
<1>1. CASE SubmitOrder
  <2>1. PICK volume \in Volumes, type \in Side :
          Submit([op |-> "execute_order", type |-> type, volume |-> volume,
                  ticket |-> NoTicket, order |-> 0])
    BY <1>1 DEF SubmitOrder
  <2>2. volume \in Nat
    BY ConnectorAssumption
  <2> QED BY <2>1, <2>2, SubmitKeeps DEF Job
<1>2. CASE SubmitClose
  <2>1. PICK o \in delivered :
          /\ answer[o].status = "ok"
          /\ \E ticket \in {answer[o].ticket, NoTicket}, t \in CloseTypes :
               Submit([op |-> "close_position", volume |-> jobs[o].volume, ticket |-> ticket,
                       order |-> o,
                       type |-> IF t = "same" THEN jobs[o].type ELSE Inverse(jobs[o].type)])
    BY <1>2 DEF SubmitClose
  <2>2. answer[o] \in Answer /\ o \in 1..Len(jobs) /\ o \in Nat
    <3>1. o \in Reqs /\ o <= begun /\ answer[o] # NoAnswer
      BY DEF Inv, TypeOK, TaskInv
    <3> QED BY <3>1, Typed DEF Inv, TypeOK
  <2>3. jobs[o] \in Job
    BY <2>2, Typed
  <2> QED BY <2>1, <2>2, <2>3, SubmitKeeps DEF Job, Answer, Side, Inverse
<1>3. ASSUME NEW w \in Workers, Begin(w) PROVE Inv'
  <2>0. PICK task :
          task = [at |-> IF /\ jobs[begun'].op = "close_position"
                            /\ jobs[begun'].ticket = NoTicket THEN "lookup" ELSE "deal",
                  req |-> begun', chunk |-> 0, filled |-> 0, ticket |-> jobs[begun'].ticket]
    OBVIOUS
  <2>1. /\ begun < Len(jobs) /\ begun' = begun + 1 /\ Goto(w, task)
        /\ UNCHANGED <<info, jobs, positions, opened, closed, missed, answer, delivered, serving>>
    BY <1>3, <2>0 DEF Begin, history
  <2>2. begun' \in 0..Len(jobs) /\ begun' \in 1..Len(jobs) /\ begun' \in Nat /\ begun <= begun'
    BY <2>1, Typed
  <2>3. begun' \in Reqs /\ jobs[begun'] \in Job
    BY <2>2, Typed
  <2>4. task \in Task
    BY <2>0, <2>3 DEF Task, Job, CHUNKS
  <2>5. TaskOK(task)'
    BY <2>0, <2>1, <2>2 DEF TaskOK, CHUNKS
  <2>6. TypeOK'
    BY <2>1, <2>2, <2>4 DEF Inv, TypeOK, Goto
  <2>7. TaskInv'
    BY <2>1, <2>2, <2>5, TaskKept DEF Inv, TaskInv
  <2> QED BY <2>6, <2>7 DEF Inv
<1>4. ASSUME NEW w \in Workers, FindTicket(w) PROVE Inv'
  <2>1. /\ worker[w] # IdleWorker /\ worker[w].at = "lookup"
        /\ UNCHANGED <<info, jobs, begun, positions, opened, closed, missed, delivered, serving>>
        /\ \/ /\ \E t \in Open : Goto(w, [worker[w] EXCEPT !.at = "deal", !.ticket = t])
              /\ answer' = answer
           \/ Conclude(w, "error", NoTicket, 0)
    BY <1>4 DEF FindTicket, history, At
  <2>2. worker[w] \in Task /\ worker[w].req <= begun /\ worker[w].chunk < CHUNKS
    BY <2>1, Typed DEF Inv, TaskInv, TaskOK
  <2>3. CASE \E t \in Open : /\ Goto(w, [worker[w] EXCEPT !.at = "deal", !.ticket = t])
                             /\ answer' = answer
    <3>0. PICK t \in Open : /\ Goto(w, [worker[w] EXCEPT !.at = "deal", !.ticket = t])
                            /\ answer' = answer
      BY <2>3
    <3>1. PICK task : /\ task = [worker[w] EXCEPT !.at = "deal", !.ticket = t]
                      /\ Goto(w, task) /\ answer' = answer
      BY <3>0
    <3>2. t \in Tickets
      BY DEF Open, Inv, TypeOK
    <3>3. task \in Task /\ task.req = worker[w].req /\ task.chunk = worker[w].chunk /\ task.at = "deal"
      BY <2>2, <3>1, <3>2 DEF Task
    <3>4. PICK a : a = answer[worker[w].req]
      OBVIOUS
    <3>5. /\ answer' = [answer EXCEPT ![worker[w].req] = a] /\ a \in Answer \union {NoAnswer}
          /\ opened' \in [Reqs -> Nat] /\ closed' \in [Reqs -> Nat] /\ missed' \subseteq Reqs
          /\ DOMAIN positions' \subseteq Tickets
          /\ \A p \in DOMAIN positions' : positions'[p] \in Position
      BY <2>1, <2>2, <3>1, <3>4 DEF Inv, TypeOK, Task
    <3> QED BY <2>1, <2>2, <3>1, <3>3, <3>4, <3>5, TaskStep
  <2>4. CASE Conclude(w, "error", NoTicket, 0)
    BY <2>1, <2>4, ConcludeKeeps DEF Inv, TypeOK
  <2> QED BY <2>1, <2>3, <2>4
<1>5. ASSUME NEW w \in Workers, OrderDeal(w) PROVE Inv'
  <2> DEFINE r == worker[w].req
  <2>1. PICK outcome \in {"done", "part", "refused", "raised"}, dealt \in Nat, after \in Task :
          OrderDealt(w, outcome, dealt, after)
    BY <1>5, OrderDealEffect
  <2>2. /\ worker[w] # IdleWorker /\ worker[w].at = "deal"
        /\ UNCHANGED <<info, jobs, begun, closed, delivered, serving>>
        /\ after.req = r /\ after.at = "deal"
        /\ OpenPosition(<<r, worker[w].chunk + 1>>, Request(w).type, dealt)
        /\ opened' = [opened EXCEPT ![r] = @ + dealt]
        /\ missed' \in {missed, missed \union {r}}
        /\ \/ /\ MoreChunks(after, outcome, Total(r))
              /\ Goto(w, after) /\ answer' = answer
           \/ /\ Goto(w, [after EXCEPT !.at = "push"])
              /\ answer' = [answer EXCEPT ![r] = OrderAnswer(after, outcome)]
    BY <2>1 DEF OrderDealt, Running
  <2>3. /\ worker[w] \in Task /\ r \in Reqs /\ worker[w].chunk < CHUNKS
        /\ Request(w).type \in Side
    BY <2>2, Typed DEF Inv, TaskInv, TaskOK, Task, Job, Request
  <2>4. <<r, worker[w].chunk + 1>> \in Tickets
    BY <2>3 DEF Task, Tickets, CHUNKS
  <2>5. /\ opened' \in [Reqs -> Nat] /\ closed' \in [Reqs -> Nat] /\ missed' \subseteq Reqs
        /\ DOMAIN positions' \subseteq Tickets
        /\ \A p \in DOMAIN positions' : positions'[p] \in Position
    <3>1. opened' \in [Reqs -> Nat] /\ closed' \in [Reqs -> Nat] /\ missed' \subseteq Reqs
      BY <2>2, <2>3 DEF Inv, TypeOK
    <3> QED BY <2>2, <2>3, <2>4, <3>1, OpenTyped
  <2>6. CASE MoreChunks(after, outcome, Total(r)) /\ Goto(w, after) /\ answer' = answer
    <3>1. after.chunk < CHUNKS
      BY <2>6 DEF MoreChunks
    <3>2. PICK a : a = answer[r]
      OBVIOUS
    <3>3. answer' = [answer EXCEPT ![r] = a] /\ a \in Answer \union {NoAnswer}
      BY <2>3, <2>6, <3>2 DEF Inv, TypeOK
    <3> QED BY <2>2, <2>5, <2>6, <3>1, <3>2, <3>3, TaskStep
  <2>7. CASE /\ Goto(w, [after EXCEPT !.at = "push"])
             /\ answer' = [answer EXCEPT ![r] = OrderAnswer(after, outcome)]
    <3>1. PICK task : task = [after EXCEPT !.at = "push"]
      OBVIOUS
    <3>2. PICK a : a = OrderAnswer(after, outcome)
      OBVIOUS
    <3>3. a \in Answer /\ a # NoAnswer
      BY <3>2, ConnectorAssumption DEF OrderAnswer, Answer, Task
    <3>4. task \in Task /\ task.req = r /\ task.at = "push"
      BY <2>2, <3>1 DEF Task
    <3>5. Goto(w, task) /\ answer' = [answer EXCEPT ![r] = a]
      BY <2>7, <3>1, <3>2
    <3> QED BY <2>2, <2>5, <3>3, <3>4, <3>5, TaskStep
  <2> QED BY <2>2, <2>6, <2>7
<1>6. ASSUME NEW w \in Workers, CloseDeal(w) PROVE Inv'
  <2> DEFINE r == worker[w].req
             t == worker[w].ticket
  <2>1. PICK outcome \in {"done", "part", "refused"}, dealt \in Nat : CloseDealt(w, outcome, dealt)
    BY <1>6, CloseDealEffect
  <2>2. /\ worker[w] # IdleWorker /\ UNCHANGED <<info, jobs, begun, missed, delivered, serving>>
        /\ Conclude(w, IF outcome = "done" THEN "ok" ELSE "error", t, 0)
        /\ dealt = Dealt(outcome, Request(w).volume)
        /\ \/ /\ outcome # "refused" => Closable(t, Request(w).volume)
              /\ positions' = [positions EXCEPT ![t].volume = @ - dealt]
              /\ closed' = [closed EXCEPT ![r] = @ + dealt] /\ opened' = opened
           \/ /\ OpenPosition(<<r, 1>>, Inverse(Request(w).type), dealt)
              /\ opened' = [opened EXCEPT ![r] = @ + dealt] /\ closed' = closed
    BY <2>1 DEF CloseDealt, Running, Conclude
  <2>3. /\ r \in Reqs /\ t \in Tickets \union {NoTicket} /\ Request(w).volume \in Nat
        /\ Inverse(Request(w).type) \in Side
    BY <2>2, Typed DEF Task, Job, Request, Inverse, Side
  <2>4. (outcome = "refused" => dealt = 0) /\ dealt <= Request(w).volume
    BY <2>2, <2>3, DealtIsNat DEF Dealt
  <2>5. opened' \in [Reqs -> Nat] /\ closed' \in [Reqs -> Nat]
    BY <2>2, <2>3 DEF Inv, TypeOK
  <2>6. DOMAIN positions' \subseteq Tickets /\ \A p \in DOMAIN positions' : positions'[p] \in Position
    <3>1. CASE /\ outcome # "refused" => Closable(t, Request(w).volume)
               /\ positions' = [positions EXCEPT ![t].volume = @ - dealt]
      <4>1. /\ DOMAIN positions \subseteq Tickets
            /\ \A p \in DOMAIN positions : positions[p] \in Position
        BY DEF Inv, TypeOK
      <4>2. dealt = 0 \/ dealt <= positions[t].volume \/ t \notin DOMAIN positions
        <5>1. t \in DOMAIN positions => positions[t].volume \in Nat
          BY <4>1 DEF Position
        <5> QED BY <2>3, <2>4, <3>1, <5>1 DEF Closable
      <4> QED BY <3>1, <4>1, <4>2 DEF Position
    <3>2. CASE OpenPosition(<<r, 1>>, Inverse(Request(w).type), dealt)
      <4>1. <<r, 1>> \in Tickets
        BY <2>3 DEF Tickets, CHUNKS
      <4> QED BY <2>3, <3>2, <4>1, OpenTyped
    <3> QED BY <2>2, <3>1, <3>2
  <2>7. (IF outcome = "done" THEN "ok" ELSE "error") \in {"ok", "error"}
    OBVIOUS
  <2> HIDE DEF t
  <2> QED BY <2>2, <2>3, <2>5, <2>6, <2>7, ConcludeKeeps
<1>7. ASSUME NEW w \in Workers, PushResult(w) PROVE Inv'
  <2>1. /\ Goto(w, IdleWorker) /\ worker[w] # IdleWorker /\ worker[w].at = "push"
        /\ delivered' \in {delivered, delivered \union {worker[w].req}}
        /\ UNCHANGED <<info, jobs, begun, positions, opened, closed, missed, answer, serving>>
    BY <1>7 DEF PushResult, history, At
  <2>2. worker[w].req \in Reqs /\ worker[w].req <= begun /\ answer[worker[w].req] # NoAnswer
    BY <2>1, Typed DEF Inv, TaskInv, TaskOK
  <2>3. TypeOK'
    BY <2>1, <2>2 DEF Inv, TypeOK, Goto
  <2>4. TaskOK(IdleWorker)'
    BY DEF TaskOK
  <2>5. TaskInv'
    BY <2>1, <2>2, <2>4, TaskKept, Typed
  <2> QED BY <2>3, <2>5 DEF Inv
<1>8. CASE Stop
  BY <1>8 DEF Stop, Inv, TypeOK, TaskInv, TaskOK, history
<1>9. CASE UNCHANGED vars
  BY <1>9 DEF vars, Inv, TypeOK, TaskInv, TaskOK, history
<1> QED BY <1>1, <1>2, <1>3, <1>4, <1>5, <1>6, <1>7, <1>8, <1>9 DEF Next, WorkerStep

\* The types of the connector's state: no deal is made beyond the last chunk,
\* no position is closed below nothing, and no result goes out that there is
\* not (mt5_connector.py:62-290, trading_service.py:139-240).
THEOREM TypeCorrect == Spec => []TypeOK
<1>1. Inv => TypeOK
  BY DEF Inv
<1> QED BY <1>1, InvInit, InvNext, PTL DEF Spec

-----------------------------------------------------------------------------
LEMMA JobsStay ==
  ASSUME Inv, [Next]_vars
  PROVE  /\ info' = info
         /\ Len(jobs) <= Len(jobs') /\ Len(jobs) \in Nat /\ Len(jobs') \in Nat
         /\ \A r \in 1..Len(jobs) : r \in 1..Len(jobs') /\ jobs'[r] = jobs[r]
<1>0. /\ jobs \in Seq(Job) /\ jobs' \in Seq(Job) /\ begun' \in Nat
  BY InvNext DEF Inv, TypeOK
<1>1. info' = info /\ (jobs' = jobs \/ \E job \in Job : jobs' = Append(jobs, job))
  <2>1. CASE SubmitOrder
    <3>1. PICK job : Submit(job)
      BY <2>1 DEF SubmitOrder
    <3>2. jobs' = Append(jobs, job) /\ info' = info
      BY <3>1 DEF Submit
    <3>3. jobs'[Len(jobs) + 1] = job /\ Len(jobs') = Len(jobs) + 1
      BY <1>0, <3>2
    <3>4. job \in Job
      BY <1>0, <3>3
    <3> QED BY <3>2, <3>4
  <2>2. CASE SubmitClose
    <3>1. PICK job : Submit(job)
      BY <2>2 DEF SubmitClose
    <3>2. jobs' = Append(jobs, job) /\ info' = info
      BY <3>1 DEF Submit
    <3>3. jobs'[Len(jobs) + 1] = job /\ Len(jobs') = Len(jobs) + 1
      BY <1>0, <3>2
    <3>4. job \in Job
      BY <1>0, <3>3
    <3> QED BY <3>2, <3>4
  <2>3. ASSUME NEW w \in Workers, WorkerStep(w) PROVE jobs' = jobs /\ info' = info
    BY <2>3 DEF WorkerStep, Begin, FindTicket, OrderDeal, CloseDeal, PushResult
  <2>4. CASE Stop \/ UNCHANGED vars
    BY <2>4 DEF Stop, vars
  <2> QED BY <2>1, <2>2, <2>3, <2>4 DEF Next
<1> QED BY <1>0, <1>1

LEMMA QuietSteps ==
  ASSUME Inv, [Next]_vars
  PROVE  \/ UNCHANGED <<begun, worker, positions, opened, closed, missed, answer, delivered>>
         \/ \E w \in Workers : WorkerStep(w) /\ jobs' = jobs
<1>1. CASE SubmitOrder
  BY <1>1 DEF SubmitOrder, Submit, history
<1>2. CASE SubmitClose
  BY <1>2 DEF SubmitClose, Submit, history
<1>3. CASE Stop
  BY <1>3 DEF Stop, history
<1>4. CASE UNCHANGED vars
  BY <1>4 DEF vars, history
<1>5. ASSUME NEW w \in Workers, WorkerStep(w) PROVE jobs' = jobs
  BY <1>5 DEF WorkerStep, Begin, FindTicket, OrderDeal, CloseDeal, PushResult
<1> QED BY <1>1, <1>2, <1>3, <1>4, <1>5 DEF Next

LEMMA ThreadEffect ==
  ASSUME Inv, NEW w \in Workers, WorkerStep(w)
  PROVE  /\ \A v \in Workers : v # w => worker'[v] = worker[v]
         /\ \/ worker'[w] = IdleWorker /\ begun' = begun
            \/ /\ Running(w) /\ begun' = begun
               /\ worker'[w] # IdleWorker /\ worker'[w].req = worker[w].req
            \/ /\ worker[w] = IdleWorker /\ begun' = begun + 1 /\ answer' = answer
               /\ worker'[w] # IdleWorker /\ worker'[w].req = begun + 1
         /\ \A q \in Reqs :
              \/ /\ answer'[q] = answer[q] /\ opened'[q] = opened[q] /\ closed'[q] = closed[q]
                 /\ (q \in missed') = (q \in missed)
              \/ Running(w) /\ worker[w].req = q
         /\ worker'[w] # IdleWorker /\ worker'[w].at # "push" => answer' = answer
<1>0. /\ worker \in [Workers -> Task \union {IdleWorker}] /\ answer \in [Reqs -> Answer \union {NoAnswer}]
      /\ opened \in [Reqs -> Nat] /\ closed \in [Reqs -> Nat]
      /\ worker' \in [Workers -> Task \union {IdleWorker}]
  <2>1. TypeOK'
    <3>1. Next
      BY DEF Next
    <3> QED BY <3>1, InvNext DEF Inv
  <2> QED BY <2>1 DEF Inv, TypeOK
<1>1. \A task \in Task : task # IdleWorker
  BY ConnectorAssumption
<1>2. CASE Begin(w)
  <2>1. /\ worker[w] = IdleWorker /\ begun' = begun + 1 /\ worker' = [worker EXCEPT ![w] = worker'[w]]
        /\ worker'[w].req = begun + 1
        /\ UNCHANGED <<opened, closed, missed, answer>>
    BY <1>0, <1>2 DEF Begin, Goto, history
  <2>2. worker'[w] # IdleWorker
    <3>1. worker'[w] = [at |-> IF /\ jobs[begun'].op = "close_position"
                        /\ jobs[begun'].ticket = NoTicket THEN "lookup" ELSE "deal",
              req |-> begun', chunk |-> 0, filled |-> 0,
              ticket |-> jobs[begun'].ticket]
      BY <1>0, <1>2 DEF Begin, Goto
    <3>2. begun' \in 1..Len(jobs)
      BY <1>2, <2>1, Typed DEF Begin
    <3>3. begun' \in Reqs /\ jobs[begun'] \in Job
      BY <3>2, Typed
    <3>4. worker'[w] \in Task
      BY <3>1, <3>3 DEF Task, Job, CHUNKS
    <3> QED BY <1>1, <3>4
  <2> QED BY <1>0, <2>1, <2>2
<1>3. CASE FindTicket(w)
  <2>1. /\ Running(w) /\ worker[w] \in Task /\ worker[w].req \in Reqs
        /\ UNCHANGED <<begun, opened, closed, missed>>
    BY <1>0, <1>3 DEF FindTicket, At, Running, history, Task
  <2>2. CASE \E t \in Open : Goto(w, [worker[w] EXCEPT !.at = "deal", !.ticket = t]) /\ answer' = answer
    <3>1. PICK t \in Open : Goto(w, [worker[w] EXCEPT !.at = "deal", !.ticket = t]) /\ answer' = answer
      BY <2>2
    <3>2. worker'[w] = [worker[w] EXCEPT !.at = "deal", !.ticket = t]
      BY <1>0, <3>1 DEF Goto
    <3>3. t \in Tickets
      BY DEF Open, Inv, TypeOK
    <3>4. worker'[w] \in Task /\ worker'[w].req = worker[w].req
      BY <2>1, <3>2, <3>3 DEF Task
    <3> QED BY <1>0, <1>1, <2>1, <3>1, <3>4 DEF Goto
  <2>3. CASE Conclude(w, "error", NoTicket, 0)
    <3>1. worker'[w] = [worker[w] EXCEPT !.at = "push"]
      BY <1>0, <2>3 DEF Conclude, Goto
    <3>2. worker'[w] \in Task /\ worker'[w].req = worker[w].req /\ worker'[w].at = "push"
      BY <2>1, <3>1 DEF Task
    <3>3. \A q \in Reqs : q # worker[w].req => answer'[q] = answer[q]
      BY <1>0, <2>3 DEF Conclude
    <3> QED BY <1>0, <1>1, <2>1, <2>3, <3>2, <3>3 DEF Goto, Conclude
  <2> QED BY <1>3, <2>2, <2>3 DEF FindTicket
<1>4. CASE OrderDeal(w)
  <2>1. PICK outcome \in {"done", "part", "refused", "raised"}, dealt \in Nat, after \in Task :
          OrderDealt(w, outcome, dealt, after)
    BY <1>4, OrderDealEffect
  <2>2. /\ worker'[w] \in Task /\ worker'[w].req = worker[w].req
        /\ answer' = answer \/ worker'[w].at = "push"
    BY <1>0, <2>1 DEF Goto, Task, OrderDealt
  <2>3. \A q \in Reqs : q # worker[w].req =>
          /\ answer'[q] = answer[q] /\ opened'[q] = opened[q] /\ closed'[q] = closed[q]
          /\ (q \in missed') = (q \in missed)
    BY <1>0, <2>1 DEF OrderDealt
  <2> QED BY <1>0, <1>1, <2>1, <2>2, <2>3 DEF Goto, OrderDealt
<1>5. CASE CloseDeal(w)
  <2>1. PICK outcome \in {"done", "part", "refused"}, dealt \in Nat : CloseDealt(w, outcome, dealt)
    BY <1>5, CloseDealEffect
  <2>2. worker'[w] \in Task /\ worker'[w].req = worker[w].req /\ worker'[w].at = "push"
    BY <1>0, <2>1 DEF Goto, Task, Running, CloseDealt
  <2>3. \A q \in Reqs : q # worker[w].req =>
          /\ answer'[q] = answer[q] /\ opened'[q] = opened[q] /\ closed'[q] = closed[q]
          /\ (q \in missed') = (q \in missed)
    BY <1>0, <2>1 DEF CloseDealt
  <2> QED BY <1>0, <1>1, <2>1, <2>2, <2>3 DEF Goto, CloseDealt
<1>6. CASE PushResult(w)
  BY <1>0, <1>6 DEF PushResult, Goto, history
<1> QED BY <1>2, <1>3, <1>4, <1>5, <1>6 DEF WorkerStep

-----------------------------------------------------------------------------
(***************************************************************************)
(* A request is one thread's: no two threads are at it, it has no answer   *)
(* while one runs it, and nothing is done for it before.                   *)
(***************************************************************************)
Alone == \A v, w \in Workers :
  worker[v] # IdleWorker /\ worker[w] # IdleWorker /\ worker[v].req = worker[w].req => v = w

Unanswered == \A w \in Workers : Running(w) => answer[worker[w].req] = NoAnswer

Untouched == \A r \in Reqs : r > begun => /\ answer[r] = NoAnswer
                                          /\ opened[r] = 0 /\ closed[r] = 0

\* Only a close that names no ticket looks one up.
Lookups == \A w \in Workers : At(w, "lookup") =>
  Request(w).op = "close_position" /\ Request(w).ticket = NoTicket

Owned == Inv /\ Alone /\ Unanswered /\ Untouched /\ Lookups

LEMMA OwnedInit == Init => Owned
BY InvInit DEF Init, Owned, Alone, Unanswered, Untouched, Lookups, At, Running

LEMMA OwnedNext == Owned /\ [Next]_vars => Owned'
<1> SUFFICES ASSUME Owned, [Next]_vars PROVE Owned'
  OBVIOUS
<1>0. Inv /\ Inv'
  BY InvNext DEF Owned
<1>9. \A r \in 1..Len(jobs) : jobs'[r] = jobs[r]
  BY <1>0, JobsStay
<1>1. CASE UNCHANGED <<begun, worker, positions, opened, closed, missed, answer, delivered>>
  <2>1. Lookups'
    <3>1. \A w \in Workers : worker[w] # IdleWorker => jobs'[worker[w].req] = jobs[worker[w].req]
      BY <1>0, <1>9, Typed
    <3> QED BY <1>1, <3>1 DEF Owned, Lookups, At, Request
  <2> QED BY <1>0, <1>1, <2>1 DEF Owned, Alone, Unanswered, Untouched, Running
<1>2. ASSUME NEW w \in Workers, WorkerStep(w), jobs' = jobs PROVE Owned'
  <2>1. /\ \A v \in Workers : v # w => worker'[v] = worker[v]
        /\ \/ worker'[w] = IdleWorker /\ begun' = begun
           \/ /\ Running(w) /\ begun' = begun
              /\ worker'[w] # IdleWorker /\ worker'[w].req = worker[w].req
           \/ /\ worker[w] = IdleWorker /\ begun' = begun + 1 /\ answer' = answer
              /\ worker'[w] # IdleWorker /\ worker'[w].req = begun + 1
        /\ \A q \in Reqs :
             \/ answer'[q] = answer[q] /\ opened'[q] = opened[q] /\ closed'[q] = closed[q]
             \/ Running(w) /\ worker[w].req = q
        /\ worker'[w] # IdleWorker /\ worker'[w].at # "push" => answer' = answer
    BY <1>0, <1>2, ThreadEffect
  <2>2. /\ begun \in Nat
        /\ \A r \in Reqs : r \in Nat
        /\ \A v \in Workers : worker[v] # IdleWorker =>
             worker[v].req \in Reqs /\ worker[v].req <= begun
    <3>1. \A v \in Workers : worker[v] # IdleWorker => worker[v].req \in 1..Len(jobs)
      BY <1>0, Typed
    <3>2. \A r \in 1..Len(jobs) : r \in Reqs
      BY <1>0, Typed
    <3> QED BY <1>0, <3>1, <3>2, Typed DEF Inv, TaskInv, TaskOK
  <2>3. ASSUME NEW v \in Workers, v # w, worker'[v] # IdleWorker, worker'[w] # IdleWorker
        PROVE  worker'[v].req # worker'[w].req
    <3>1. worker[v] # IdleWorker /\ worker'[v].req = worker[v].req /\ worker[v].req <= begun
          /\ worker[v].req \in Nat
      BY <2>1, <2>2, <2>3
    <3>2. CASE Running(w) /\ worker'[w].req = worker[w].req
      BY <2>3, <3>1, <3>2 DEF Owned, Alone, Running
    <3>3. CASE worker'[w].req = begun + 1
      BY <2>2, <3>1, <3>3
    <3> QED BY <2>1, <2>3, <3>2, <3>3
  <2>4. Alone'
    <3>1. ASSUME NEW u \in Workers, NEW v \in Workers, u # w, v # w,
                 worker'[u] # IdleWorker, worker'[v] # IdleWorker, worker'[u].req = worker'[v].req
          PROVE u = v
      BY <2>1, <3>1 DEF Owned, Alone
    <3> QED BY <2>3, <3>1 DEF Alone
  <2>5. Unanswered'
    <3>1. ASSUME NEW v \in Workers, v # w, Running(v)' PROVE answer'[worker'[v].req] = NoAnswer
      <4>1. worker'[v] = worker[v] /\ Running(v)
        BY <2>1, <3>1 DEF Running
      <4>2. worker[v].req \in Reqs /\ answer[worker[v].req] = NoAnswer
        BY <2>2, <4>1 DEF Owned, Unanswered, Running
      <4>3. ~(Running(w) /\ worker[w].req = worker[v].req)
        BY <3>1, <4>1 DEF Owned, Alone, Running
      <4> QED BY <2>1, <4>1, <4>2, <4>3
    <3>2. ASSUME Running(w)' PROVE answer'[worker'[w].req] = NoAnswer
      <4>1. answer' = answer /\ worker'[w] # IdleWorker
        BY <2>1, <3>2 DEF Running
      <4>2. CASE Running(w) /\ worker'[w].req = worker[w].req
        BY <4>1, <4>2 DEF Owned, Unanswered
      <4>3. CASE worker'[w].req = begun + 1 /\ begun' = begun + 1
        <5>1. worker'[w].req \in Reqs
          <6>1. worker' \in [Workers -> Task \union {IdleWorker}]
            BY <1>0 DEF Inv, TypeOK
          <6> QED BY <4>1, <6>1 DEF Task
        <5>2. worker'[w].req > begun
          BY <2>2, <4>3
        <5> QED BY <4>1, <5>1, <5>2 DEF Owned, Untouched
      <4> QED BY <2>1, <4>1, <4>2, <4>3
    <3> QED BY <3>1, <3>2 DEF Unanswered
  <2>6. Untouched'
    <3>1. ASSUME NEW r \in Reqs, r > begun'
          PROVE  answer'[r] = NoAnswer /\ opened'[r] = 0 /\ closed'[r] = 0
      <4>1. r > begun
        BY <2>1, <2>2, <3>1
      <4>2. ~(Running(w) /\ worker[w].req = r)
        BY <2>2, <4>1 DEF Running
      <4> QED BY <2>1, <4>1, <4>2 DEF Owned, Untouched
    <3> QED BY <3>1 DEF Untouched
  <2>7. Lookups'
    <3>1. ASSUME NEW v \in Workers, v # w, At(v, "lookup")'
          PROVE  (Request(v).op = "close_position" /\ Request(v).ticket = NoTicket)'
      BY <1>2, <2>1, <3>1 DEF Owned, Lookups, At, Request
    <3>2. ASSUME At(w, "lookup")'
          PROVE  (Request(w).op = "close_position" /\ Request(w).ticket = NoTicket)'
      <4>1. worker \in [Workers -> Task \union {IdleWorker}]
        BY <1>0 DEF Inv, TypeOK
      <4>2. CASE Begin(w)
        BY <1>2, <3>2, <4>1, <4>2 DEF Begin, Goto, At, Request
      <4>3. ~FindTicket(w)
        <5>1. CASE \E t \in Open : Goto(w, [worker[w] EXCEPT !.at = "deal", !.ticket = t])
          BY <3>2, <4>1, <5>1 DEF FindTicket, Goto, At, Task
        <5>2. CASE Conclude(w, "error", NoTicket, 0) /\ At(w, "lookup")
          BY <3>2, <4>1, <5>2 DEF Conclude, Goto, At, Task
        <5> QED BY <5>1, <5>2 DEF FindTicket
      <4>4. ~OrderDeal(w)
        <5>1. ASSUME OrderDeal(w) PROVE FALSE
          <6>1. PICK outcome \in {"done", "part", "refused", "raised"}, dealt \in Nat, after \in Task :
                  OrderDealt(w, outcome, dealt, after)
            BY <1>0, <5>1, OrderDealEffect
          <6>2. worker'[w].at \in {"deal", "push"}
            BY <4>1, <6>1 DEF OrderDealt, Goto, Task
          <6> QED BY <3>2, <6>2 DEF At
        <5> QED BY <5>1
      <4>5. ~CloseDeal(w)
        BY <3>2, <4>1 DEF CloseDeal, Conclude, Goto, At, Task
      <4>6. ~PushResult(w)
        BY <3>2, <4>1 DEF PushResult, Goto, At
      <4> QED BY <1>2, <4>2, <4>3, <4>4, <4>5, <4>6 DEF WorkerStep
    <3> QED BY <3>1, <3>2 DEF Lookups
  <2> QED BY <1>0, <2>4, <2>5, <2>6, <2>7 DEF Owned
<1> QED BY <1>0, <1>1, <1>2, QuietSteps

-----------------------------------------------------------------------------
(***************************************************************************)
(* What an order has opened is what its thread has counted, chunk by       *)
(* chunk, and what its answer says.                                        *)
(***************************************************************************)
Filling(w) ==
  LET r == worker[w].req
      filled == worker[w].filled
  IN  /\ opened[r] = filled /\ filled < Total(r)
      /\ worker[w].chunk = 0 => filled = 0
      /\ worker[w].chunk > 0 => Total(r) > Iceberg
      /\ Enough(Total(r), worker[w].chunk, filled)
      /\ WholeSteps(Total(r), filled)

Fits(r)    == opened[r] < Total(r) + info.min
Covered(r) == /\ answer[r].volume <= opened[r]
              /\ answer[r].status # "raised" =>
                   opened[r] - answer[r].volume < ThisVolume(Total(r), 0)
Served(r)  == opened[r] >= Total(r) - 2 * info.step

Accounted(r) == /\ Fits(r)
                /\ answer[r] # NoAnswer => Covered(r)
                /\ answer[r] # NoAnswer /\ r \notin missed => Served(r)

Orders == /\ Owned
          /\ \A w \in Workers : Running(w) /\ Request(w).op = "execute_order" => Filling(w)
          /\ \A r \in 1..Len(jobs) : jobs[r].op = "execute_order" => Accounted(r)

\* Nothing is filled yet.
LEMMA NothingFilled ==
  ASSUME info.step \in Nat \ {0}, info.min \in Nat \ {0}, NEW total \in Nat, total >= 1
  PROVE  Enough(total, 0, 0) /\ WholeSteps(total, 0)
<1>1. PICK j \in Int : Chunk(total) = IF j * info.step < info.min THEN info.min ELSE j * info.step
  BY ChunkShape
<1>2. Chunk(total) \in Int
  BY <1>1
<1>3. 0 * Chunk(total) = 0 /\ 0 = 0 * info.step
  BY <1>2
<1> QED BY <1>3 DEF Enough, WholeSteps

\* One deal of an order.
LEMMA DealAccounts ==
  ASSUME info.step \in Nat \ {0}, info.min \in Nat \ {0},
         NEW total \in Nat, total >= 1, Normal(total),
         NEW n \in 0..(CHUNKS - 1), NEW filled \in Nat, filled < total,
         n = 0 => filled = 0, n > 0 => total > Iceberg,
         Enough(total, n, filled), WholeSteps(total, filled),
         NEW outcome \in {"done", "part", "refused", "raised"}, NEW dealt \in Nat,
         dealt = Dealt(outcome, ThisVolume(total, filled))
  PROVE  /\ filled + dealt < total + info.min
         /\ outcome # "done" => dealt < ThisVolume(total, 0)
         /\ outcome = "done" => dealt >= 1
         /\ ThisVolume(total, 0) \in Nat /\ ThisVolume(total, 0) >= 1
         /\ outcome = "done" /\ total > Iceberg =>
              Enough(total, n + 1, filled + dealt) /\ WholeSteps(total, filled + dealt)
         /\ outcome = "done" =>
              \/ total > Iceberg /\ n + 1 < CHUNKS /\ filled + dealt < total
              \/ filled + dealt >= total - 2 * info.step
<1>1. PICK v \in Nat : /\ v = ThisVolume(total, filled) /\ v >= 1 /\ v <= ThisVolume(total, 0)
                       /\ ThisVolume(total, 0) \in Nat
  BY FirstIsLargest
<1>2. /\ dealt <= v /\ (outcome = "done" => dealt = v) /\ (outcome # "done" => dealt < v)
  BY <1>1 DEF Dealt, Part
<1>3. CASE total > Iceberg
  <2>1. filled + v < total + info.min /\ WholeSteps(total, filled + v)
    BY <1>1, <1>3, DealFits
  <2>2. Enough(total, n + 1, filled + v)
    BY <1>1, <1>3, DealEnough
  <2>3. ASSUME n + 1 = CHUNKS PROVE filled + v >= total - 2 * info.step
    <3>1. CHUNKS * Chunk(total) >= total - 2 * info.step
      BY <1>3, ChunksSuffice
    <3>2. Chunk(total) \in Nat
      BY <1>3, DealShape
    <3> QED BY <2>2, <2>3, <3>1, <3>2 DEF Enough, CHUNKS
  <2>4. n + 1 < CHUNKS \/ n + 1 = CHUNKS
    BY DEF CHUNKS
  <2> QED BY <1>1, <1>2, <1>3, <2>1, <2>2, <2>3, <2>4
<1>4. CASE ~(total > Iceberg)
  <2>1. v = total /\ filled = 0
    BY <1>1, <1>4 DEF ThisVolume
  <2> QED BY <1>1, <1>2, <1>4, <2>1
<1> QED BY <1>3, <1>4

LEMMA OrderDealAccounts ==
  ASSUME Orders, NEW w \in Workers, OrderDeal(w), NEW r, r = worker[w].req
  PROVE  /\ opened'[r] < Total(r) + info.min
         /\ \/ /\ worker'[w].at = "deal" /\ answer' = answer
               /\ LET filled == worker'[w].filled
                  IN  /\ opened'[r] = filled /\ filled < Total(r)
                      /\ worker'[w].chunk > 0 /\ Total(r) > Iceberg
                      /\ Enough(Total(r), worker'[w].chunk, filled)
                      /\ WholeSteps(Total(r), filled)
            \/ /\ worker'[w].at = "push"
               /\ answer'[r].volume <= opened'[r]
               /\ answer'[r].status # "raised" =>
                    opened'[r] - answer'[r].volume < ThisVolume(Total(r), 0)
               /\ r \notin missed' => opened'[r] >= Total(r) - 2 * info.step
<1>0. Inv
  BY DEF Orders, Owned
<1>01. PICK outcome \in {"done", "part", "refused", "raised"}, dealt \in Nat, after \in Task :
         OrderDealt(w, outcome, dealt, after)
  BY <1>0, OrderDealEffect
<1>1. /\ Running(w) /\ worker[w].at = "deal" /\ Request(w).op = "execute_order"
      /\ dealt = Dealt(outcome, ThisVolume(Total(r), worker[w].filled))
      /\ after = After(worker[w], outcome, dealt)
      /\ after.req = r /\ after.at = "deal"
      /\ opened' = [opened EXCEPT ![r] = @ + dealt]
      /\ missed' = IF outcome = "done" THEN missed ELSE missed \union {r}
      /\ \/ /\ MoreChunks(after, outcome, Total(r))
            /\ Goto(w, after) /\ answer' = answer
         \/ /\ ~MoreChunks(after, outcome, Total(r))
            /\ Goto(w, [after EXCEPT !.at = "push"])
            /\ answer' = [answer EXCEPT ![r] = OrderAnswer(after, outcome)]
  BY <1>01 DEF OrderDealt
<1>2. /\ worker[w] \in Task /\ r \in Reqs /\ r \in 1..Len(jobs) /\ Filling(w)
      /\ worker[w].chunk \in 0..(CHUNKS - 1) /\ worker[w].filled \in Nat
  <2>1. worker[w] \in Task /\ r \in Reqs /\ r \in 1..Len(jobs)
    BY <1>0, <1>1, Typed DEF Running
  <2>2. worker[w].chunk \in 0..CHUNKS /\ worker[w].chunk < CHUNKS /\ worker[w].filled \in Nat
    BY <1>0, <1>1, <2>1 DEF Inv, TaskInv, TaskOK, Task, Running
  <2> QED BY <1>1, <2>1, <2>2 DEF Orders, CHUNKS
<1>3. PICK n \in 0..(CHUNKS - 1) : n = worker[w].chunk
  BY <1>2
<1>4. PICK filled \in Nat : filled = worker[w].filled
  BY <1>2
<1>5. PICK total \in Nat : total = Total(r) /\ total >= 1 /\ Normal(total)
  BY <1>0, <1>2, TotalTyped
<1>6. /\ opened[r] = filled /\ filled < total /\ (n = 0 => filled = 0) /\ (n > 0 => total > Iceberg)
      /\ Enough(total, n, filled) /\ WholeSteps(total, filled)
  BY <1>1, <1>2, <1>3, <1>4, <1>5 DEF Filling
<1>7. dealt = Dealt(outcome, ThisVolume(total, filled))
  BY <1>1, <1>4, <1>5
<1>8. info.step \in Nat \ {0} /\ info.min \in Nat \ {0}
  BY <1>0, InfoTyped
<1>9. /\ filled + dealt < total + info.min
      /\ outcome # "done" => dealt < ThisVolume(total, 0)
      /\ outcome = "done" => dealt >= 1
      /\ ThisVolume(total, 0) \in Nat /\ ThisVolume(total, 0) >= 1
      /\ outcome = "done" /\ total > Iceberg =>
           Enough(total, n + 1, filled + dealt) /\ WholeSteps(total, filled + dealt)
      /\ outcome = "done" =>
           \/ total > Iceberg /\ n + 1 < CHUNKS /\ filled + dealt < total
           \/ filled + dealt >= total - 2 * info.step
  BY <1>5, <1>6, <1>7, <1>8, DealAccounts
<1>10. opened'[r] = filled + dealt
  BY <1>0, <1>1, <1>2, <1>6 DEF Inv, TypeOK
<1>11. /\ after.filled = IF outcome = "done" THEN filled + dealt ELSE filled
       /\ after.chunk = IF outcome = "done" THEN n + 1 ELSE n
  BY <1>1, <1>2, <1>3, <1>4 DEF After, Task
<1>12. CASE MoreChunks(after, outcome, total) /\ Goto(w, after) /\ answer' = answer
  <2>1. worker'[w] = after
    BY <1>0, <1>12 DEF Goto, Inv, TypeOK
  <2>2. outcome = "done" /\ total > Iceberg /\ after.filled < total
    BY <1>12 DEF MoreChunks
  <2>3. n + 1 > 0
    OBVIOUS
  <2> QED BY <1>1, <1>5, <1>9, <1>10, <1>11, <1>12, <2>1, <2>2, <2>3
<1>13. CASE /\ ~MoreChunks(after, outcome, total)
            /\ Goto(w, [after EXCEPT !.at = "push"])
            /\ answer' = [answer EXCEPT ![r] = OrderAnswer(after, outcome)]
  <2>1. worker'[w].at = "push"
    BY <1>0, <1>13 DEF Goto, Inv, TypeOK, Task
  <2>2. answer'[r] = OrderAnswer(after, outcome)
    BY <1>0, <1>2, <1>13 DEF Inv, TypeOK
  <2>3. \/ answer'[r].volume = after.filled /\ outcome # "raised"
        \/ answer'[r].volume = 0 /\ answer'[r].status = "raised"
    BY <1>4, <1>11, <2>2 DEF OrderAnswer
  <2>4. /\ answer'[r].volume <= opened'[r]
        /\ answer'[r].status # "raised" =>
             opened'[r] - answer'[r].volume < ThisVolume(total, 0)
    BY <1>9, <1>10, <1>11, <2>3
  <2>5. ASSUME r \notin missed' PROVE opened'[r] >= total - 2 * info.step
    <3>1. outcome = "done"
      BY <1>1, <2>5
    <3>2. ~(total > Iceberg /\ n + 1 < CHUNKS /\ filled + dealt < total)
      BY <1>11, <1>13, <3>1 DEF MoreChunks
    <3> QED BY <1>9, <1>10, <3>1, <3>2
  <2> QED BY <1>5, <1>9, <1>10, <2>1, <2>4, <2>5
<1> QED BY <1>1, <1>5, <1>12, <1>13

\* A volume is counted the same way before and after a step.
LEMMA VolumesStay ==
  ASSUME info' = info, NEW r, jobs'[r] = jobs[r]
  PROVE  /\ Total(r)' = Total(r)
         /\ (ThisVolume(Total(r), 0))' = ThisVolume(Total(r), 0)
         /\ \A n, filled : /\ Enough(Total(r), n, filled)' <=> Enough(Total(r), n, filled)
                           /\ WholeSteps(Total(r), filled)' <=> WholeSteps(Total(r), filled)
<1>1. Total(r)' = Total(r)
  BY DEF Total, Normalized
<1> QED BY <1>1 DEF ThisVolume, Chunk, Enough, WholeSteps

LEMMA NewTotal ==
  ASSUME Inv, Inv', info' = info, NEW r \in 1..Len(jobs')
  PROVE  /\ Total(r)' \in Nat /\ Total(r)' >= 1
         /\ Enough(Total(r), 0, 0)' /\ WholeSteps(Total(r), 0)'
<1>1. PICK volume \in Nat : volume = jobs'[r].volume
  <2>1. jobs' \in Seq(Job)
    BY DEF Inv, TypeOK
  <2>2. jobs'[r] \in Job
    BY <2>1
  <2> QED BY <2>2 DEF Job
<1>2. Total(r)' = Normalized(volume)
  BY <1>1 DEF Total, Normalized
<1>3. info.step \in Nat \ {0} /\ info.min \in Nat \ {0}
  BY InfoTyped
<1>4. Normalized(volume) \in Nat /\ Normalized(volume) >= 1
  <2>1. Normalized(volume) \in Nat /\ Normalized(volume) >= info.min
    BY <1>3, NormalizedIsNormal
  <2> QED BY <1>3, <2>1
<1>5. Enough(Normalized(volume), 0, 0) /\ WholeSteps(Normalized(volume), 0)
  BY <1>3, <1>4, NothingFilled
<1>6. Enough(Total(r), 0, 0)' /\ WholeSteps(Total(r), 0)'
  BY <1>2, <1>5 DEF Enough, WholeSteps, Chunk
<1> QED BY <1>2, <1>4, <1>6

LEMMA OrdersInit == Init => Orders
BY OwnedInit DEF Init, Orders, Running

LEMMA OrdersNext == Orders /\ [Next]_vars => Orders'
<1> SUFFICES ASSUME Orders, [Next]_vars PROVE Orders'
  OBVIOUS
<1>0. /\ Inv /\ Inv' /\ Owned /\ Owned'
      /\ info' = info
      /\ Len(jobs) <= Len(jobs') /\ Len(jobs) \in Nat /\ Len(jobs') \in Nat
      /\ \A r \in 1..Len(jobs) : r \in 1..Len(jobs') /\ jobs'[r] = jobs[r]
  <2>1. Inv /\ Owned /\ Owned' /\ Inv'
    BY OwnedNext DEF Orders, Owned
  <2> QED BY <2>1, JobsStay
<1>1. ASSUME NEW r \in 1..Len(jobs), jobs[r].op = "execute_order",
             answer'[r] = answer[r], opened'[r] = opened[r], (r \in missed') = (r \in missed)
      PROVE  Accounted(r)'
  <2>1. Accounted(r) /\ jobs'[r] = jobs[r]
    BY <1>0, <1>1 DEF Orders
  <2>2. Total(r)' = Total(r) /\ (ThisVolume(Total(r), 0))' = ThisVolume(Total(r), 0)
    BY <1>0, <2>1, VolumesStay
  <2>3. Fits(r)'
    BY <1>0, <1>1, <2>1, <2>2 DEF Accounted, Fits
  <2>4. Covered(r)' <=> Covered(r)
    BY <1>1, <2>2 DEF Covered
  <2>5. Served(r)' <=> Served(r)
    BY <1>0, <1>1, <2>2 DEF Served
  <2> QED BY <1>1, <2>1, <2>3, <2>4, <2>5 DEF Accounted
<1>2. ASSUME NEW r \in 1..Len(jobs'), r \notin 1..Len(jobs), answer'[r] = answer[r], opened'[r] = opened[r]
      PROVE  Accounted(r)'
  <2>1. r > begun /\ r \in Reqs
    <3>1. r \in Reqs
      BY <1>0, <1>2, ConnectorAssumption DEF Inv, TypeOK, Reqs
    <3> QED BY <1>0, <1>2, <3>1, Typed
  <2>2. answer'[r] = NoAnswer /\ opened'[r] = 0
    BY <1>0, <1>2, <2>1 DEF Owned, Untouched
  <2>3. Total(r)' \in Nat /\ Total(r)' >= 1
    BY <1>0, <1>2, NewTotal
  <2>4. info.min \in Nat \ {0} /\ info' = info
    BY <1>0, InfoTyped
  <2>5. Fits(r)'
    BY <2>2, <2>3, <2>4 DEF Fits
  <2> QED BY <2>2, <2>5 DEF Accounted
<1>3. ASSUME NEW v \in Workers, Running(v), worker'[v] = worker[v] \/
               (/\ worker'[v].req = worker[v].req /\ worker'[v].filled = worker[v].filled
                /\ worker'[v].chunk = worker[v].chunk),
             opened'[worker[v].req] = opened[worker[v].req],
             Request(v).op = "execute_order"
      PROVE  Filling(v)'
  <2>1. worker[v].req \in 1..Len(jobs) /\ Filling(v)
    BY <1>0, <1>3, Typed DEF Running, Orders
  <2>2. jobs'[worker[v].req] = jobs[worker[v].req]
    BY <1>0, <2>1
  <2>3. PICK r : r = worker[v].req
    OBVIOUS
  <2>4. /\ Total(r)' = Total(r)
        /\ \A n, filled : /\ Enough(Total(r), n, filled)' <=> Enough(Total(r), n, filled)
                          /\ WholeSteps(Total(r), filled)' <=> WholeSteps(Total(r), filled)
    BY <1>0, <2>2, <2>3, VolumesStay
  <2>5. /\ worker'[v].req = r /\ worker'[v].filled = worker[v].filled /\ worker'[v].chunk = worker[v].chunk
        /\ opened'[r] = opened[r]
    BY <1>3, <2>3
  <2>6. Filling(v)' <=>
          /\ opened'[r] = worker'[v].filled /\ worker'[v].filled < Total(r)'
          /\ worker'[v].chunk = 0 => worker'[v].filled = 0
          /\ worker'[v].chunk > 0 => Total(r)' > Iceberg
          /\ (Enough(Total(r), worker[v].chunk, worker[v].filled))'
          /\ (WholeSteps(Total(r), worker[v].filled))'
    BY <2>5 DEF Filling
  <2> QED BY <2>1, <2>3, <2>4, <2>5, <2>6 DEF Filling
<1>4. ASSUME \A r \in Reqs : /\ answer'[r] = answer[r] /\ opened'[r] = opened[r]
                             /\ (r \in missed') = (r \in missed)
      PROVE  \A r \in 1..Len(jobs') : jobs'[r].op = "execute_order" => Accounted(r)'
  <2>1. \A r \in 1..Len(jobs') : r \in Reqs
    BY <1>0, ConnectorAssumption DEF Inv, TypeOK, Reqs
  <2>2. ASSUME NEW r \in 1..Len(jobs'), jobs'[r].op = "execute_order"
        PROVE  Accounted(r)'
    <3>1. r \in Reqs
      BY <2>1
    <3>2. CASE r \in 1..Len(jobs)
      <4>1. jobs[r].op = "execute_order"
        BY <1>0, <2>2, <3>2
      <4> QED BY <1>1, <1>4, <3>1, <3>2, <4>1
    <3>3. CASE r \notin 1..Len(jobs)
      BY <1>2, <1>4, <3>1, <3>3
    <3> QED BY <3>2, <3>3
  <2> QED BY <2>2
<1>5. CASE UNCHANGED <<begun, worker, positions, opened, closed, missed, answer, delivered>>
  <2>1. ASSUME NEW v \in Workers, Running(v)', jobs'[worker'[v].req].op = "execute_order"
        PROVE  Filling(v)'
    <3>1. Running(v) /\ worker'[v] = worker[v]
      BY <1>5, <2>1 DEF Running
    <3>2. worker[v].req \in 1..Len(jobs)
      BY <1>0, <3>1, Typed DEF Running
    <3>3. Request(v).op = "execute_order"
      BY <1>0, <2>1, <3>1, <3>2 DEF Request
    <3> QED BY <1>3, <1>5, <3>1, <3>3
  <2> QED BY <1>0, <1>4, <1>5, <2>1 DEF Orders, Request
<1>6. ASSUME NEW w \in Workers, WorkerStep(w), jobs' = jobs PROVE Orders'
  <2>1. /\ \A v \in Workers : v # w => worker'[v] = worker[v]
        /\ \A q \in Reqs :
             \/ /\ answer'[q] = answer[q] /\ opened'[q] = opened[q]
                /\ (q \in missed') = (q \in missed)
             \/ Running(w) /\ worker[w].req = q
    BY <1>0, <1>6, ThreadEffect
  <2>2. \A v \in Workers : worker[v] # IdleWorker => worker[v].req \in 1..Len(jobs) /\ worker[v].req \in Reqs
    BY <1>0, Typed
  <2>3. ASSUME NEW v \in Workers, v # w, Running(v)', jobs'[worker'[v].req].op = "execute_order"
        PROVE  Filling(v)'
    <3>1. Running(v) /\ worker'[v] = worker[v]
      BY <2>1, <2>3 DEF Running
    <3>2. worker[v].req \in Reqs /\ ~(Running(w) /\ worker[w].req = worker[v].req)
      BY <1>0, <2>2, <2>3, <3>1 DEF Running, Owned, Alone
    <3>3. opened'[worker[v].req] = opened[worker[v].req]
      BY <2>1, <3>2
    <3>4. Request(v).op = "execute_order"
      BY <1>6, <2>3, <3>1 DEF Request
    <3> QED BY <1>3, <3>1, <3>3, <3>4
  <2>4. ASSUME NEW r \in 1..Len(jobs), ~(Running(w) /\ worker[w].req = r), jobs[r].op = "execute_order"
        PROVE  Accounted(r)'
    <3>1. r \in Reqs
      BY <1>0, Typed
    <3> QED BY <1>1, <2>1, <2>4, <3>1
  <2>5. ASSUME Running(w)' /\ jobs'[worker'[w].req].op = "execute_order" => Filling(w)',
               \A r : Running(w) /\ Request(w).op = "execute_order" /\ r = worker[w].req => Accounted(r)'
        PROVE  Orders'
    <3>1. \A v \in Workers : Running(v)' /\ Request(v).op' = "execute_order" => Filling(v)'
      BY <2>3, <2>5 DEF Request
    <3>2. \A r \in 1..Len(jobs') : jobs'[r].op = "execute_order" => Accounted(r)'
      <4>1. ASSUME NEW r \in 1..Len(jobs), jobs[r].op = "execute_order" PROVE Accounted(r)'
        <5>1. CASE Running(w) /\ worker[w].req = r
          BY <2>5, <4>1, <5>1 DEF Request
        <5>2. CASE ~(Running(w) /\ worker[w].req = r)
          BY <2>4, <4>1, <5>2
        <5> QED BY <5>1, <5>2
      <4> QED BY <1>6, <4>1
    <3> QED BY <1>0, <3>1, <3>2 DEF Orders
  <2>6. worker \in [Workers -> Task \union {IdleWorker}]
    BY <1>0 DEF Inv, TypeOK
  <2>7. CASE Begin(w)
    <3>1. ~Running(w)
      BY <2>7 DEF Begin, Running
    <3>2. /\ worker'[w].req = begun + 1 /\ worker'[w].chunk = 0 /\ worker'[w].filled = 0
          /\ opened' = opened /\ begun + 1 \in 1..Len(jobs')
      BY <1>0, <1>6, <2>6, <2>7, Typed DEF Begin, Goto, history
    <3>3. PICK r \in 1..Len(jobs') : r = begun + 1
      BY <3>2
    <3>4. r \in Reqs /\ r > begun
      BY <1>0, <1>6, <3>3, Typed
    <3>5. opened'[r] = 0
      BY <1>0, <3>2, <3>4 DEF Owned, Untouched
    <3>6. /\ Total(r)' \in Nat /\ Total(r)' >= 1
          /\ Enough(Total(r), 0, 0)' /\ WholeSteps(Total(r), 0)'
      BY <1>0, NewTotal
    <3>7. Filling(w)' <=>
            /\ opened'[r] = 0 /\ 0 < Total(r)' /\ (0 = 0 => 0 = 0) /\ (0 > 0 => Total(r)' > Iceberg)
            /\ Enough(Total(r), 0, 0)' /\ WholeSteps(Total(r), 0)'
      BY <3>2, <3>3 DEF Filling
    <3>8. Filling(w)'
      BY <3>5, <3>6, <3>7
    <3> QED BY <2>5, <3>1, <3>8
  <2>8. CASE FindTicket(w)
    <3>1. At(w, "lookup") /\ Request(w).op = "close_position"
      BY <1>0, <2>8 DEF FindTicket, Owned, Lookups
    <3>2. ASSUME Running(w)' PROVE jobs'[worker'[w].req].op = "close_position"
      <4>1. worker'[w].req = worker[w].req
        BY <1>0, <1>6, <3>1, <3>2, ThreadEffect DEF Running, At
      <4> QED BY <1>6, <3>1, <4>1 DEF Request
    <3>3. ~(Running(w)' /\ jobs'[worker'[w].req].op = "execute_order")
      BY <3>2
    <3>4. ~(Running(w) /\ Request(w).op = "execute_order")
      BY <3>1
    <3> QED BY <2>5, <3>3, <3>4
  <2>9. CASE OrderDeal(w)
    <3>1. PICK r : r = worker[w].req
      OBVIOUS
    <3>2. At(w, "deal") /\ Request(w).op = "execute_order" /\ info' = info
      BY <2>9 DEF OrderDeal
    <3>3. r \in 1..Len(jobs) /\ jobs'[r] = jobs[r]
      BY <1>6, <2>2, <3>1, <3>2 DEF At
    <3>4. /\ opened'[r] < Total(r) + info.min
          /\ \/ /\ worker'[w].at = "deal" /\ answer' = answer
                /\ LET filled == worker'[w].filled
                   IN  /\ opened'[r] = filled /\ filled < Total(r)
                       /\ worker'[w].chunk > 0 /\ Total(r) > Iceberg
                       /\ Enough(Total(r), worker'[w].chunk, filled)
                       /\ WholeSteps(Total(r), filled)
             \/ /\ worker'[w].at = "push"
                /\ answer'[r].volume <= opened'[r]
                /\ answer'[r].status # "raised" =>
                     opened'[r] - answer'[r].volume < ThisVolume(Total(r), 0)
                /\ r \notin missed' => opened'[r] >= Total(r) - 2 * info.step
      BY <2>9, <3>1, OrderDealAccounts
    <3>5. /\ Total(r)' = Total(r)
          /\ (ThisVolume(Total(r), 0))' = ThisVolume(Total(r), 0)
          /\ \A n, filled : /\ Enough(Total(r), n, filled)' <=> Enough(Total(r), n, filled)
                            /\ WholeSteps(Total(r), filled)' <=> WholeSteps(Total(r), filled)
      BY <3>2, <3>3, VolumesStay
    <3>6. Fits(r)'
      BY <3>2, <3>4, <3>5 DEF Fits
    <3>7. answer'[r] = NoAnswer \/ worker'[w].at = "push"
      BY <1>0, <3>1, <3>2, <3>4 DEF Owned, Unanswered, Running, At
    <3>8. Accounted(r)'
      <4>1. CASE worker'[w].at = "push"
        <5>1. Covered(r)'
          BY <3>4, <3>5, <4>1 DEF Covered
        <5>2. r \notin missed' => Served(r)'
          BY <3>2, <3>4, <3>5, <4>1 DEF Served
        <5> QED BY <3>6, <5>1, <5>2 DEF Accounted
      <4>2. CASE answer'[r] = NoAnswer
        BY <3>6, <4>2 DEF Accounted
      <4> QED BY <3>7, <4>1, <4>2
    <3>9. ASSUME Running(w)' PROVE Filling(w)'
      <4>1. worker'[w].req = r
        BY <1>0, <1>6, <3>1, <3>2, <3>9, ThreadEffect DEF Running, At
      <4>2. worker'[w].at # "push"
        BY <3>9 DEF Running
      <4>3. PICK n, filled : n = worker'[w].chunk /\ filled = worker'[w].filled
        OBVIOUS
      <4>4. /\ opened'[r] = filled /\ filled < Total(r) /\ n > 0 /\ Total(r) > Iceberg
            /\ Enough(Total(r), n, filled) /\ WholeSteps(Total(r), filled)
        BY <3>4, <4>2, <4>3
      <4>5. Enough(Total(r), n, filled)' /\ WholeSteps(Total(r), filled)'
        BY <3>5, <4>4
      <4>6. Filling(w)' <=>
              /\ opened'[r] = filled /\ filled < Total(r)' /\ (n = 0 => filled = 0)
              /\ (n > 0 => Total(r)' > Iceberg)
              /\ Enough(Total(r), n, filled)' /\ WholeSteps(Total(r), filled)'
        BY <4>1, <4>3 DEF Filling
      <4> QED BY <3>5, <4>4, <4>5, <4>6
    <3> QED BY <2>5, <3>1, <3>8, <3>9
  <2>10. CASE CloseDeal(w)
    <3>1. worker[w] # IdleWorker /\ Request(w).op = "close_position"
          /\ Goto(w, [worker[w] EXCEPT !.at = "push"])
      BY <2>10 DEF CloseDeal, At, Conclude
    <3>2. ~Running(w)'
      BY <2>6, <3>1 DEF Goto, Running, Task
    <3>3. ~(Running(w) /\ Request(w).op = "execute_order")
      BY <3>1
    <3> QED BY <2>5, <3>2, <3>3
  <2>11. CASE PushResult(w)
    <3>1. ~Running(w) /\ ~Running(w)'
      BY <2>6, <2>11 DEF PushResult, Goto, At, Running
    <3> QED BY <2>5, <3>1
  <2> QED BY <1>6, <2>7, <2>8, <2>9, <2>10, <2>11 DEF WorkerStep
<1> QED BY <1>0, <1>5, <1>6, QuietSteps

\* The result of an order accounts for what its deals opened, whatever the
\* broker refuses or does in part: the engine learns of every lot but less than
\* one deal (trading_service.py:181, mt5_connector.py:283), unless an exception
\* took the place of the result (trading_service.py:193).
THEOREM CoversCorrect == Spec => []AnswerCoversDeals
<1>1. Orders => AnswerCoversDeals
  <2>1. ASSUME Orders, NEW r \in Reqs, Answered(r, "execute_order")
        PROVE  /\ answer[r].volume <= opened[r]
               /\ answer[r].status # "raised" =>
                    opened[r] - answer[r].volume < ThisVolume(Normalized(jobs[r].volume), 0)
    <3>1. r \in 1..Len(jobs)
      BY <2>1, Typed DEF Orders, Owned, Untouched, Answered
    <3> QED BY <2>1, <3>1 DEF Orders, Accounted, Covered, Answered, Total
  <2> QED BY <2>1 DEF AnswerCoversDeals
<1> QED BY <1>1, OrdersInit, OrdersNext, PTL DEF Spec

\* No order opens more than was asked for by as much as one minimal deal,
\* though chunks are rounded up to steps and minima (mt5_connector.py:226-270).
THEOREM FitsCorrect == Spec => []NeverMoreThanAsked
<1>1. Orders => NeverMoreThanAsked
  BY DEF Orders, Accounted, Fits, NeverMoreThanAsked, Total
<1> QED BY <1>1, OrdersInit, OrdersNext, PTL DEF Spec

\* An order all of whose deals were done is short by two steps at the most, for
\* any volume, step and minimum (mt5_connector.py:226-270).
THEOREM ServedCorrect == Spec => []NotMuchLessThanAsked
<1>1. Orders => NotMuchLessThanAsked
  <2>1. ASSUME Orders, NEW r \in Reqs, Answered(r, "execute_order"), r \notin missed
        PROVE  opened[r] >= Normalized(jobs[r].volume) - 2 * info.step
    <3>1. r \in 1..Len(jobs)
      BY <2>1, Typed DEF Orders, Owned, Untouched, Answered
    <3> QED BY <2>1, <3>1 DEF Orders, Accounted, Served, Answered, Total
  <2> QED BY <2>1 DEF NotMuchLessThanAsked
<1> QED BY <1>1, OrdersInit, OrdersNext, PTL DEF Spec

-----------------------------------------------------------------------------
(***************************************************************************)
(* Closes.                                                                 *)
(***************************************************************************)
\* A position keeps its side and does not grow, but for the deals of the
\* request it is named for.
LEMMA PositionsStep ==
  ASSUME Inv, [Next]_vars
  PROVE  /\ DOMAIN positions \subseteq DOMAIN positions'
         /\ \A t \in DOMAIN positions' :
              \/ /\ t \in DOMAIN positions /\ positions'[t].side = positions[t].side
                 /\ positions'[t].volume <= positions[t].volume
              \/ \E w \in Workers :
                   /\ Running(w) /\ t[1] = worker[w].req
                   /\ \/ Request(w).op = "close_position"
                      \/ /\ positions'[t].side = Request(w).type
                         /\ positions'[t].volume <= ThisVolume(Total(t[1]), 0)
<1>0. /\ DOMAIN positions \subseteq Tickets
      /\ \A t \in DOMAIN positions : positions[t] \in Position /\ positions[t].volume \in Nat
  BY DEF Inv, TypeOK, Position
<1>1. CASE positions' = positions
  BY <1>0, <1>1
<1>2. ASSUME NEW w \in Workers, OrderDeal(w)
      PROVE  /\ DOMAIN positions \subseteq DOMAIN positions'
             /\ \A t \in DOMAIN positions' :
                  \/ /\ t \in DOMAIN positions /\ positions'[t].side = positions[t].side
                     /\ positions'[t].volume <= positions[t].volume
                  \/ /\ Running(w) /\ t[1] = worker[w].req
                     /\ positions'[t].side = Request(w).type
                     /\ positions'[t].volume <= ThisVolume(Total(t[1]), 0)
  <2>1. PICK outcome \in {"done", "part", "refused", "raised"}, dealt \in Nat, after \in Task :
          OrderDealt(w, outcome, dealt, after)
    BY <1>2, OrderDealEffect
  <2>2. /\ worker[w].req \in 1..Len(jobs) /\ worker[w].filled \in Nat
    BY <2>1, Typed DEF OrderDealt, Running, Task
  <2>3. dealt <= ThisVolume(Total(worker[w].req), 0)
    <3>1. Total(worker[w].req) \in Nat /\ Total(worker[w].req) >= 1
      BY <2>2, TotalTyped
    <3>2. PICK v \in Nat : /\ v = ThisVolume(Total(worker[w].req), worker[w].filled)
                           /\ v <= ThisVolume(Total(worker[w].req), 0)
                           /\ ThisVolume(Total(worker[w].req), 0) \in Nat
      BY <2>2, <3>1, InfoTyped, FirstIsLargest
    <3>3. dealt = Dealt(outcome, v)
      BY <2>1, <3>2 DEF OrderDealt
    <3>4. dealt <= v
      BY <3>3, DealtIsNat
    <3> QED BY <3>2, <3>4
  <2> QED BY <1>0, <2>1, <2>3 DEF OrderDealt, OpenPosition
<1>3. ASSUME NEW w \in Workers, CloseDeal(w)
      PROVE  /\ DOMAIN positions \subseteq DOMAIN positions'
             /\ \A t \in DOMAIN positions' :
                  \/ /\ t \in DOMAIN positions /\ positions'[t].side = positions[t].side
                     /\ positions'[t].volume <= positions[t].volume
                  \/ Running(w) /\ t[1] = worker[w].req /\ Request(w).op = "close_position"
  <2>1. PICK outcome \in {"done", "part", "refused"}, dealt \in Nat : CloseDealt(w, outcome, dealt)
    BY <1>3, CloseDealEffect
  <2>2. CASE positions' = [positions EXCEPT ![worker[w].ticket].volume = @ - dealt]
    BY <1>0, <2>2 DEF Position
  <2>3. CASE OpenPosition(<<worker[w].req, 1>>, Inverse(Request(w).type), dealt)
    BY <1>0, <2>1, <2>3 DEF OpenPosition, CloseDealt
  <2> QED BY <2>1, <2>2, <2>3 DEF CloseDealt
<1>4. \/ positions' = positions
      \/ \E w \in Workers : OrderDeal(w) \/ CloseDeal(w)
  BY QuietSteps DEF WorkerStep, Begin, FindTicket, PushResult
<1>5. CASE \E w \in Workers : OrderDeal(w)
  BY <1>2, <1>5
<1>6. CASE \E w \in Workers : CloseDeal(w)
  BY <1>3, <1>6
<1> QED BY <1>1, <1>4, <1>5, <1>6

\* What was answered stays as it is.
LEMMA AnsweredStay ==
  ASSUME Owned, [Next]_vars, NEW r \in Reqs, answer[r] # NoAnswer
  PROVE  /\ answer'[r] = answer[r] /\ opened'[r] = opened[r] /\ closed'[r] = closed[r]
         /\ r \in 1..Len(jobs)
<1>1. r \in 1..Len(jobs)
  BY Typed DEF Owned, Untouched
<1> QED BY <1>1, QuietSteps, ThreadEffect DEF Owned, Unanswered

\* A close is for an order that was answered, and names its first ticket.
CloseJob(r) ==
  /\ jobs[r].volume > 0
  /\ jobs[r].op = "execute_order" => jobs[r].ticket = NoTicket
  /\ jobs[r].op = "close_position" /\ jobs[r].ticket # NoTicket =>
       \E o \in 1..Len(jobs) :
         /\ jobs[o].op = "execute_order" /\ answer[o] # NoAnswer
         /\ jobs[r].ticket = <<o, 1>> /\ <<o, 1>> \in DOMAIN positions
         /\ jobs[r].volume = jobs[o].volume

\* The ticket of an order is that of its first deal.
FirstTicket(w) ==
  IF worker[w].chunk = 0
  THEN worker[w].ticket = NoTicket
  ELSE /\ worker[w].ticket = <<worker[w].req, 1>>
       /\ <<worker[w].req, 1>> \in DOMAIN positions

Confirmed(r) ==
  jobs[r].op = "execute_order" /\ answer[r] # NoAnswer /\ answer[r].status = "ok" =>
    answer[r].ticket = <<r, 1>> /\ <<r, 1>> \in DOMAIN positions

\* A position has the side of its order and no more than its first deal.
OfOrder(t) ==
  /\ t[1] <= begun
  /\ jobs[t[1]].op = "execute_order" =>
       /\ positions[t].side = jobs[t[1]].type
       /\ positions[t].volume <= ThisVolume(Total(t[1]), 0)

\* A close by ticket is at its ticket and has done nothing yet.
Closing(w) ==
  Request(w).op = "close_position" /\ Request(w).ticket # NoTicket =>
    /\ worker[w].ticket = Request(w).ticket
    /\ opened[worker[w].req] = 0 /\ closed[worker[w].req] = 0

Decided(r) ==
  /\ IF AskedRight(r) THEN opened[r] = 0 ELSE closed[r] = 0
  /\ answer[r].status = "ok" <=> opened[r] + closed[r] = jobs[r].volume
  /\ AskedRight(r) /\ answer[r].status = "ok" => positions[jobs[r].ticket].volume = 0

Closed(r) == ClosesByTicket(r) => Decided(r)

Closes ==
  /\ Orders
  /\ \A r \in 1..Len(jobs) : CloseJob(r) /\ Confirmed(r) /\ Closed(r)
  /\ \A w \in Workers : Running(w) => /\ Request(w).op = "execute_order" => FirstTicket(w)
                                      /\ Closing(w)
  /\ \A t \in DOMAIN positions : OfOrder(t)

LEMMA ClosesInit == Init => Closes
BY OrdersInit DEF Init, Closes, Running

\* The deal of a close that names its ticket.
LEMMA CloseDealCloses ==
  ASSUME Closes, NEW w \in Workers, CloseDeal(w), NEW r, r = worker[w].req,
         jobs[r].ticket # NoTicket
  PROVE  Decided(r)'
<1>0. Inv /\ Owned
  BY DEF Closes, Orders, Owned
<1>1. PICK outcome \in {"done", "part", "refused"}, dealt \in Nat : CloseDealt(w, outcome, dealt)
  BY <1>0, CloseDealEffect
<1>2. /\ Running(w) /\ worker[w].at = "deal" /\ jobs[r].op = "close_position"
      /\ dealt = Dealt(outcome, jobs[r].volume) /\ jobs' = jobs
      /\ answer' = [answer EXCEPT ![r] = [status |-> IF outcome = "done" THEN "ok" ELSE "error",
                                          ticket |-> worker[w].ticket, volume |-> 0]]
  BY <1>1 DEF CloseDealt, Request
<1>3. r \in 1..Len(jobs) /\ r \in Reqs
  BY <1>0, <1>2, Typed DEF Running
<1>4. /\ worker[w].ticket = jobs[r].ticket /\ opened[r] = 0 /\ closed[r] = 0
      /\ CloseJob(r)
  BY <1>2, <1>3 DEF Closes, Closing, Request
<1>5. PICK o \in 1..Len(jobs) :
        /\ jobs[o].op = "execute_order" /\ answer[o] # NoAnswer
        /\ jobs[r].ticket = <<o, 1>> /\ <<o, 1>> \in DOMAIN positions
        /\ jobs[r].volume = jobs[o].volume
  BY <1>2, <1>4 DEF CloseJob
<1>6. PICK t : t = <<o, 1>>
  OBVIOUS
<1>7. /\ t \in DOMAIN positions /\ worker[w].ticket = t /\ jobs[r].ticket = t
      /\ positions[t].volume <= ThisVolume(Total(o), 0)
      /\ jobs[r].type \in Side /\ positions[t].side \in Side
      /\ positions[t] \in Position /\ positions[t].volume \in Nat
  <2>1. OfOrder(t) /\ t[1] = o
    BY <1>5, <1>6 DEF Closes
  <2>2. jobs[r].type \in Side
    BY <1>0, <1>3, Typed DEF Job
  <2>3. t \in DOMAIN positions /\ positions[t] \in Position
    BY <1>0, <1>5, <1>6 DEF Inv, TypeOK
  <2> QED BY <1>4, <1>5, <1>6, <2>1, <2>2, <2>3 DEF OfOrder, Position
<1>10. PICK volume \in Nat \ {0} : volume = jobs[r].volume
  BY <1>0, <1>3, <1>4, TotalTyped DEF CloseJob
<1>11. answer'[r].status = "ok" <=> outcome = "done"
  BY <1>0, <1>2, <1>3 DEF Inv, TypeOK
<1>12. dealt = volume <=> outcome = "done"
  BY <1>2, <1>10 DEF Dealt, Part
<1>13. CASE jobs[r].type = positions[t].side
  <2>1. Inverse(jobs[r].type) # positions[t].side
    BY <1>7, <1>13 DEF Side, Inverse
  <2>2. /\ outcome # "refused" => Closable(t, jobs[r].volume)
        /\ positions' = [positions EXCEPT ![t].volume = @ - dealt]
        /\ closed' = [closed EXCEPT ![r] = @ + dealt] /\ opened' = opened
    BY <1>1, <1>7, <2>1 DEF CloseDealt, Request
  <2>3. positions'[t].side = positions[t].side /\ positions'[t].volume = positions[t].volume - dealt
    BY <1>7, <2>2 DEF Position
  <2>4. AskedRight(r)'
    BY <1>2, <1>7, <1>13, <2>3 DEF AskedRight
  <2>5. opened'[r] = 0 /\ closed'[r] = dealt
    BY <1>0, <1>3, <1>4, <2>2 DEF Inv, TypeOK
  <2>6. ASSUME outcome = "done" PROVE positions'[t].volume = 0
    <3>1. /\ volume <= positions[t].volume /\ volume >= info.min /\ volume % info.step = 0
      BY <1>10, <2>2, <2>6 DEF Closable
    <3>2. info.step \in Nat \ {0} /\ info.min \in Nat \ {0}
      BY <1>0, InfoTyped
    <3>3. Total(o) = volume
      BY <1>5, <1>10, <3>1, <3>2, NormalizedIsNormal DEF Total
    <3>4. ThisVolume(volume, 0) <= volume
      BY <3>1, <3>2, FirstWithinTotal
    <3>5. ThisVolume(volume, 0) \in Nat
      BY <3>2, VolumesAreNat
    <3>6. positions[t].volume = volume
      BY <1>7, <3>1, <3>3, <3>4, <3>5
    <3> QED BY <1>12, <2>3, <2>6, <3>6
  <2>7. opened'[r] + closed'[r] = dealt
    BY <2>5
  <2> QED BY <1>2, <1>7, <1>10, <1>11, <1>12, <2>4, <2>5, <2>6, <2>7 DEF Decided
<1>14. CASE jobs[r].type # positions[t].side
  <2>1. Inverse(jobs[r].type) = positions[t].side
    BY <1>7, <1>14 DEF Side, Inverse
  <2>2. /\ OpenPosition(<<r, 1>>, Inverse(jobs[r].type), dealt)
        /\ opened' = [opened EXCEPT ![r] = @ + dealt] /\ closed' = closed
    BY <1>1, <1>7, <2>1 DEF CloseDealt, Request
  <2>3. t # <<r, 1>>
    BY <1>2, <1>5, <1>6
  <2>4. positions'[t] = positions[t]
    BY <1>7, <2>2, <2>3 DEF OpenPosition
  <2>5. ~AskedRight(r)'
    BY <1>2, <1>7, <1>14, <2>4 DEF AskedRight
  <2>6. closed'[r] = 0 /\ opened'[r] = dealt
    BY <1>0, <1>3, <1>4, <2>2 DEF Inv, TypeOK
  <2>7. opened'[r] + closed'[r] = dealt
    BY <2>6
  <2> QED BY <1>2, <1>10, <1>11, <1>12, <2>5, <2>6, <2>7 DEF Decided
<1> QED BY <1>13, <1>14

\* The first deal of an order opens the position its ticket names.
LEMMA OrderDealTickets ==
  ASSUME Closes, NEW w \in Workers, OrderDeal(w), NEW r, r = worker[w].req
  PROVE  /\ worker'[w].at # "push" =>
              /\ worker'[w].chunk # 0 /\ worker'[w].ticket = <<r, 1>>
              /\ <<r, 1>> \in DOMAIN positions'
         /\ worker'[w].at = "push" /\ answer'[r].status = "ok" =>
              answer'[r].ticket = <<r, 1>> /\ <<r, 1>> \in DOMAIN positions'
<1>0. Inv /\ Owned /\ Orders
  BY DEF Closes, Orders, Owned
<1>1. PICK outcome \in {"done", "part", "refused", "raised"}, dealt \in Nat, after \in Task :
        OrderDealt(w, outcome, dealt, after)
  BY <1>0, OrderDealEffect
<1>2. /\ Running(w) /\ Request(w).op = "execute_order" /\ r \in 1..Len(jobs) /\ r \in Reqs
      /\ worker[w] \in Task /\ Filling(w) /\ FirstTicket(w)
      /\ worker[w].chunk \in Nat /\ worker[w].filled \in Nat
  <2>1. Running(w) /\ Request(w).op = "execute_order"
    BY <1>1 DEF OrderDealt
  <2>2. worker[w] \in Task /\ r \in 1..Len(jobs) /\ r \in Reqs
    BY <1>0, <2>1, Typed DEF Running
  <2> QED BY <1>0, <2>1, <2>2 DEF Closes, Orders, Task
<1>3. outcome = "done" => dealt >= 1
  <2>1. Total(r) \in Nat /\ Total(r) >= 1
    BY <1>0, <1>2, TotalTyped
  <2>2. PICK v \in Nat : v = ThisVolume(Total(r), worker[w].filled) /\ v >= 1
    BY <1>0, <1>2, <2>1, InfoTyped, FirstIsLargest
  <2>3. dealt = Dealt(outcome, v)
    BY <1>1, <2>2 DEF OrderDealt
  <2> QED BY <2>2, <2>3 DEF Dealt
<1>4. /\ worker[w].chunk = 0 => worker[w].ticket = NoTicket /\ worker[w].filled = 0
      /\ worker[w].chunk # 0 => worker[w].ticket = <<r, 1>> /\ <<r, 1>> \in DOMAIN positions
  BY <1>2 DEF FirstTicket, Filling
<1>5. DOMAIN positions \subseteq DOMAIN positions'
  <2>1. [Next]_vars
    BY DEF Next, WorkerStep
  <2> QED BY <1>0, <2>1, PositionsStep
<1>6. ASSUME outcome = "done"
      PROVE  after.ticket = <<r, 1>> /\ after.chunk # 0 /\ <<r, 1>> \in DOMAIN positions'
  <2>1. after = After(worker[w], outcome, dealt)
    BY <1>1 DEF OrderDealt
  <2>2. /\ after.chunk = worker[w].chunk + 1
        /\ after.ticket = IF worker[w].ticket = NoTicket THEN <<r, worker[w].chunk + 1>>
                                                         ELSE worker[w].ticket
    BY <1>2, <1>6, <2>1 DEF After, Task
  <2>3. CASE worker[w].chunk = 0
    <3>1. <<r, 1>> \in DOMAIN positions'
      <4>1. OpenPosition(<<r, 1>>, Request(w).type, dealt)
        BY <1>1, <2>3 DEF OrderDealt
      <4> QED BY <1>3, <1>6, <4>1 DEF OpenPosition
    <3> QED BY <1>4, <2>2, <2>3, <3>1
  <2>4. CASE worker[w].chunk # 0
    <3>1. <<r, 1>> # NoTicket
      BY DEF NoTicket
    <3> QED BY <1>2, <1>4, <1>5, <2>2, <2>4, <3>1
  <2> QED BY <2>3, <2>4
<1>7. ASSUME outcome # "done" PROVE after = worker[w]
  BY <1>1, <1>7 DEF OrderDealt, After
<1>8. CASE /\ MoreChunks(after, outcome, Total(r)) /\ Goto(w, after)
  <2>1. outcome = "done" /\ worker'[w] = after /\ after.at = "deal"
    BY <1>0, <1>1, <1>8 DEF MoreChunks, Goto, Inv, TypeOK, OrderDealt
  <2> QED BY <1>6, <2>1
<1>9. CASE /\ Goto(w, [after EXCEPT !.at = "push"])
           /\ answer' = [answer EXCEPT ![r] = OrderAnswer(after, outcome)]
  <2>1. worker'[w].at = "push" /\ answer'[r] = OrderAnswer(after, outcome)
    BY <1>0, <1>2, <1>9 DEF Goto, Inv, TypeOK, Task
  <2>2. ASSUME answer'[r].status = "ok"
        PROVE  answer'[r].ticket = <<r, 1>> /\ <<r, 1>> \in DOMAIN positions'
    <3>1. after.filled > 0 /\ answer'[r].ticket = after.ticket
      BY <2>1, <2>2 DEF OrderAnswer
    <3>2. CASE outcome # "done"
      <4>1. worker[w].chunk # 0
        BY <1>4, <1>7, <3>1, <3>2
      <4> QED BY <1>4, <1>5, <1>7, <3>1, <3>2, <4>1
    <3> QED BY <1>6, <3>1, <3>2
  <2> QED BY <2>1, <2>2
<1> QED BY <1>1, <1>8, <1>9 DEF OrderDealt

\* A close that is asked for names the first ticket of an order and its volume.
LEMMA NewJob ==
  ASSUME Closes, [Next]_vars,
         NEW r \in 1..Len(jobs'), r \notin 1..Len(jobs)
  PROVE  CloseJob(r)' /\ answer' = answer /\ r > begun /\ r \in Reqs
<1>0. Inv /\ Inv' /\ Owned
  BY InvNext DEF Closes, Orders, Owned
<1>1. /\ jobs \in Seq(Job) /\ Len(jobs) \in Nat /\ Len(jobs') \in Nat
      /\ \A q \in 1..Len(jobs) : q \in 1..Len(jobs') /\ jobs'[q] = jobs[q]
  BY <1>0, JobsStay DEF Inv, TypeOK
<1>2. r > begun /\ r \in Reqs
  <2>1. r > Len(jobs) /\ r <= MaxJobs
    <3>1. Len(jobs') <= MaxJobs
      BY <1>0 DEF Inv, TypeOK
    <3> QED BY <1>1, <3>1, ConnectorAssumption
  <2> QED BY <1>0, <1>1, <2>1, Typed, ConnectorAssumption DEF Reqs
<1>3. CASE SubmitOrder
  <2>1. PICK volume \in Volumes, type \in Side :
          Submit([op |-> "execute_order", type |-> type, volume |-> volume,
                  ticket |-> NoTicket, order |-> 0])
    BY <1>3 DEF SubmitOrder
  <2>2. /\ jobs' = Append(jobs, [op |-> "execute_order", type |-> type, volume |-> volume,
                                 ticket |-> NoTicket, order |-> 0])
        /\ answer' = answer
    BY <2>1 DEF Submit
  <2>3. jobs'[r] = [op |-> "execute_order", type |-> type, volume |-> volume,
                    ticket |-> NoTicket, order |-> 0]
    BY <1>1, <2>2
  <2>4. volume > 0
    BY ConnectorAssumption
  <2> QED BY <1>2, <2>2, <2>3, <2>4 DEF CloseJob
<1>4. CASE SubmitClose
  <2>a. PICK o \in delivered :
          /\ jobs[o].op = "execute_order" /\ answer[o].status = "ok"
          /\ \E ticket \in {answer[o].ticket, NoTicket}, t \in CloseTypes :
               Submit([op |-> "close_position", volume |-> jobs[o].volume, ticket |-> ticket,
                       order |-> o,
                       type |-> IF t = "same" THEN jobs[o].type ELSE Inverse(jobs[o].type)])
    BY <1>4 DEF SubmitClose
  <2>b. PICK ticket \in {answer[o].ticket, NoTicket}, t \in CloseTypes :
           Submit([op |-> "close_position", volume |-> jobs[o].volume, ticket |-> ticket,
                   order |-> o,
                   type |-> IF t = "same" THEN jobs[o].type ELSE Inverse(jobs[o].type)])
    BY <2>a
  <2>c. PICK type :
          type = IF t = "same" THEN jobs[o].type ELSE Inverse(jobs[o].type)
    OBVIOUS
  <2>1. /\ jobs[o].op = "execute_order" /\ answer[o].status = "ok"
        /\ ticket \in {answer[o].ticket, NoTicket}
        /\ Submit([op |-> "close_position", volume |-> jobs[o].volume, ticket |-> ticket,
                   order |-> o, type |-> type])
    BY <2>a, <2>b, <2>c
  <2>2. o \in 1..Len(jobs) /\ o \in Reqs /\ answer[o] # NoAnswer
    <3>1. o \in Reqs /\ answer[o] # NoAnswer /\ o <= begun
      BY <1>0 DEF Inv, TypeOK, TaskInv
    <3> QED BY <1>0, <3>1, Typed
  <2>3. answer[o].ticket = <<o, 1>> /\ <<o, 1>> \in DOMAIN positions /\ jobs[o].volume > 0
    BY <2>1, <2>2 DEF Closes, Confirmed, CloseJob
  <2>4. /\ jobs' = Append(jobs, [op |-> "close_position", volume |-> jobs[o].volume,
                                 ticket |-> ticket, order |-> o, type |-> type])
        /\ answer' = answer /\ positions' = positions
    BY <2>1 DEF Submit
  <2>5. jobs'[r] = [op |-> "close_position", volume |-> jobs[o].volume, ticket |-> ticket,
                    order |-> o, type |-> type]
    BY <1>1, <2>4
  <2>6. o \in 1..Len(jobs') /\ jobs'[o] = jobs[o]
    BY <1>1, <2>2
  <2>7. CloseJob(r)'
    <3>1. jobs'[r].volume > 0 /\ jobs'[r].op = "close_position"
      BY <2>3, <2>5
    <3>2. ASSUME jobs'[r].ticket # NoTicket
          PROVE  /\ jobs'[o].op = "execute_order" /\ answer'[o] # NoAnswer
                 /\ jobs'[r].ticket = <<o, 1>> /\ <<o, 1>> \in DOMAIN positions'
                 /\ jobs'[r].volume = jobs'[o].volume
      BY <2>1, <2>2, <2>3, <2>4, <2>5, <2>6, <3>2
    <3> QED BY <2>6, <3>1, <3>2 DEF CloseJob
  <2> QED BY <1>2, <2>4, <2>7
<1>5. CASE Stop \/ UNCHANGED vars \/ \E w \in Workers : WorkerStep(w)
  <2>1. jobs' = jobs
    BY <1>5 DEF Stop, vars, WorkerStep, Begin, FindTicket, OrderDeal, CloseDeal, PushResult
  <2> QED BY <2>1
<1> QED BY <1>3, <1>4, <1>5 DEF Next

LEMMA ClosesNext == Closes /\ [Next]_vars => Closes'
<1> SUFFICES ASSUME Closes, [Next]_vars PROVE Closes'
  OBVIOUS
<1>0. /\ Inv /\ Inv' /\ Owned /\ Orders /\ Orders'
      /\ info' = info /\ Len(jobs) \in Nat /\ Len(jobs') \in Nat /\ Len(jobs) <= Len(jobs')
      /\ \A r \in 1..Len(jobs) : r \in 1..Len(jobs') /\ jobs'[r] = jobs[r]
      /\ \A r \in 1..Len(jobs) : r \in Reqs
      /\ DOMAIN positions \subseteq DOMAIN positions'
      /\ \A w \in Workers : worker[w] # IdleWorker => worker[w].req \in 1..Len(jobs)
  <2>1. Orders /\ Orders' /\ Owned /\ Inv /\ Inv'
    BY OrdersNext, InvNext DEF Closes, Orders, Owned
  <2> QED BY <2>1, JobsStay, PositionsStep, Typed
<1>1. \A r \in Reqs : answer[r] # NoAnswer =>
        /\ answer'[r] = answer[r] /\ opened'[r] = opened[r] /\ closed'[r] = closed[r]
        /\ r \in 1..Len(jobs)
  BY <1>0, AnsweredStay
<1>2. ASSUME NEW r \in 1..Len(jobs) PROVE CloseJob(r)'
  <2>1. CloseJob(r) /\ jobs'[r] = jobs[r]
    BY <1>0 DEF Closes
  <2>2. ASSUME jobs[r].op = "close_position", jobs[r].ticket # NoTicket
        PROVE  \E o \in 1..Len(jobs') :
                 /\ jobs'[o].op = "execute_order" /\ answer'[o] # NoAnswer
                 /\ jobs'[r].ticket = <<o, 1>> /\ <<o, 1>> \in DOMAIN positions'
                 /\ jobs'[r].volume = jobs'[o].volume
    <3>1. PICK o \in 1..Len(jobs) :
            /\ jobs[o].op = "execute_order" /\ answer[o] # NoAnswer
            /\ jobs[r].ticket = <<o, 1>> /\ <<o, 1>> \in DOMAIN positions
            /\ jobs[r].volume = jobs[o].volume
      BY <2>1, <2>2 DEF CloseJob
    <3>2. o \in 1..Len(jobs') /\ jobs'[o] = jobs[o] /\ answer'[o] # NoAnswer
      BY <1>0, <1>1, <3>1
    <3> QED BY <1>0, <2>1, <3>1, <3>2
  <2> QED BY <2>1, <2>2 DEF CloseJob
<1>3. ASSUME NEW r \in 1..Len(jobs), answer[r] # NoAnswer PROVE Confirmed(r)' /\ Closed(r)'
  <2>1. /\ Confirmed(r) /\ Closed(r) /\ CloseJob(r) /\ jobs'[r] = jobs[r]
        /\ answer'[r] = answer[r] /\ opened'[r] = opened[r] /\ closed'[r] = closed[r]
    BY <1>0, <1>1, <1>3 DEF Closes
  <2>2. Confirmed(r)'
    BY <1>0, <2>1 DEF Confirmed
  <2>3. ASSUME ClosesByTicket(r)
        PROVE  /\ positions'[jobs[r].ticket].side = positions[jobs[r].ticket].side
               /\ positions[jobs[r].ticket].volume = 0 => positions'[jobs[r].ticket].volume = 0
    <3>1. PICK o \in 1..Len(jobs) : /\ answer[o] # NoAnswer /\ jobs[o].op = "execute_order"
                                    /\ jobs[r].ticket = <<o, 1>> /\ <<o, 1>> \in DOMAIN positions
      BY <2>1, <2>3 DEF CloseJob, ClosesByTicket, Answered
    <3>2. PICK t \in {<<o, 1>>} : t[1] = o
      OBVIOUS
    <3>3. \A w \in Workers : ~(Running(w) /\ t[1] = worker[w].req)
      BY <1>0, <3>1, <3>2 DEF Owned, Unanswered
    <3>4. /\ t \in DOMAIN positions' /\ positions'[t].side = positions[t].side
          /\ positions'[t].volume <= positions[t].volume
      BY <1>0, <3>1, <3>2, <3>3, PositionsStep
    <3>5. positions'[t].volume \in Nat
      BY <1>0, <3>4 DEF Inv, TypeOK, Position
    <3> QED BY <3>1, <3>2, <3>4, <3>5
  <2>4. ClosesByTicket(r)' <=> ClosesByTicket(r)
    BY <2>1 DEF ClosesByTicket, Answered
  <2>5. ASSUME ClosesByTicket(r), Decided(r) PROVE Decided(r)'
    <3>1. AskedRight(r)' <=> AskedRight(r)
      BY <2>1, <2>3, <2>5 DEF AskedRight
    <3> QED BY <2>1, <2>3, <2>5, <3>1 DEF Decided
  <2>6. Closed(r)'
    BY <2>1, <2>4, <2>5 DEF Closed
  <2> QED BY <2>2, <2>6
<1>4. ASSUME NEW r, answer'[r] = NoAnswer PROVE Confirmed(r)' /\ Closed(r)'
  BY <1>4 DEF Confirmed, Closed, ClosesByTicket, Answered
<1>5. ASSUME NEW r \in 1..Len(jobs'), r \notin 1..Len(jobs)
      PROVE  CloseJob(r)' /\ Confirmed(r)' /\ Closed(r)'
  <2>1. CloseJob(r)' /\ answer' = answer /\ r > begun /\ r \in Reqs
    BY <1>5, NewJob
  <2>2. answer'[r] = NoAnswer
    BY <1>0, <2>1 DEF Owned, Untouched
  <2> QED BY <1>4, <2>1, <2>2
<1>6. begun \in Nat /\ begun' \in Nat /\ begun <= begun' /\ begun <= Len(jobs)
  <2>1. begun \in Nat /\ begun' \in Nat /\ begun <= Len(jobs)
    BY <1>0, Typed DEF Inv, TypeOK
  <2>2. begun' = begun \/ begun' = begun + 1
    BY <1>0, QuietSteps, ThreadEffect
  <2> QED BY <2>1, <2>2
<1>7. ASSUME NEW t \in DOMAIN positions' PROVE OfOrder(t)'
  <2>1. t \in Tickets /\ t[1] \in Reqs /\ t[1] \in Nat /\ t[1] >= 1 /\ positions'[t].volume \in Nat
    <3>1. t \in Tickets /\ positions'[t] \in Position
      BY <1>0 DEF Inv, TypeOK
    <3>2. t[1] \in Reqs
      BY <3>1 DEF Tickets
    <3> QED BY <1>0, <3>1, <3>2, Typed DEF Position
  <2>2. t[1] <= begun =>
          /\ t[1] \in 1..Len(jobs) /\ jobs'[t[1]] = jobs[t[1]]
          /\ (ThisVolume(Total(t[1]), 0))' = ThisVolume(Total(t[1]), 0)
          /\ ThisVolume(Total(t[1]), 0) \in Nat
    <3>1. ASSUME t[1] <= begun PROVE t[1] \in 1..Len(jobs) /\ jobs'[t[1]] = jobs[t[1]]
      BY <1>0, <1>6, <2>1, <3>1
    <3>2. ASSUME NEW r \in 1..Len(jobs), jobs'[r] = jobs[r]
          PROVE  /\ (ThisVolume(Total(r), 0))' = ThisVolume(Total(r), 0)
                 /\ ThisVolume(Total(r), 0) \in Nat
      <4>1. Total(r) \in Nat
        BY <1>0, TotalTyped
      <4>2. ThisVolume(Total(r), 0) \in Nat
        BY <1>0, <4>1, InfoTyped, VolumesAreNat
      <4> QED BY <1>0, <3>2, <4>2, VolumesStay
    <3> QED BY <3>1, <3>2
  <2>3. CASE /\ t \in DOMAIN positions /\ positions'[t].side = positions[t].side
             /\ positions'[t].volume <= positions[t].volume
    <3>1. OfOrder(t) /\ positions[t].volume \in Nat
      BY <1>0, <2>3 DEF Closes, Inv, TypeOK, Position
    <3>2. t[1] <= begun
      BY <3>1 DEF OfOrder
    <3> QED BY <1>6, <2>1, <2>2, <2>3, <3>1, <3>2 DEF OfOrder
  <2>4. ASSUME NEW w \in Workers, Running(w), t[1] = worker[w].req,
               \/ Request(w).op = "close_position"
               \/ /\ positions'[t].side = Request(w).type
                  /\ positions'[t].volume <= ThisVolume(Total(t[1]), 0)
        PROVE  OfOrder(t)'
    <3>1. t[1] <= begun /\ jobs[t[1]] = Request(w)
      BY <1>0, <2>4 DEF Inv, TaskInv, TaskOK, Running, Request
    <3> QED BY <1>6, <2>1, <2>2, <2>4, <3>1 DEF OfOrder
  <2> QED BY <1>0, <2>3, <2>4, PositionsStep
<1>8. ASSUME NEW v \in Workers, Running(v), worker'[v] = worker[v],
             opened'[worker[v].req] = opened[worker[v].req],
             closed'[worker[v].req] = closed[worker[v].req]
      PROVE  /\ Request(v)'.op = "execute_order" => FirstTicket(v)'
             /\ Closing(v)'
  <2>1. worker[v].req \in 1..Len(jobs) /\ jobs'[worker[v].req] = jobs[worker[v].req]
    BY <1>0, <1>8 DEF Running
  <2>2. Request(v)' = Request(v)
    BY <1>8, <2>1 DEF Request
  <2> QED BY <1>0, <1>8, <2>2 DEF Closes, FirstTicket, Closing
<1>9. CASE UNCHANGED <<begun, worker, positions, opened, closed, missed, answer, delivered>>
  <2>1. \A r \in 1..Len(jobs') : CloseJob(r)' /\ Confirmed(r)' /\ Closed(r)'
    <3>1. ASSUME NEW r \in 1..Len(jobs) PROVE Confirmed(r)' /\ Closed(r)'
      BY <1>3, <1>4, <1>9
    <3> QED BY <1>2, <1>5, <3>1
  <2>2. \A v \in Workers : Running(v)' =>
          (Request(v)'.op = "execute_order" => FirstTicket(v)') /\ Closing(v)'
    BY <1>8, <1>9 DEF Running
  <2> QED BY <1>0, <1>7, <2>1, <2>2 DEF Closes
<1>10. ASSUME NEW w \in Workers, WorkerStep(w), jobs' = jobs PROVE Closes'
  <2>1. /\ \A v \in Workers : v # w => worker'[v] = worker[v]
        /\ \/ worker'[w] = IdleWorker
           \/ Running(w) /\ worker'[w].req = worker[w].req
           \/ worker[w] = IdleWorker /\ worker'[w].req = begun + 1
        /\ \A q \in Reqs :
             \/ answer'[q] = answer[q] /\ opened'[q] = opened[q] /\ closed'[q] = closed[q]
             \/ Running(w) /\ worker[w].req = q
        /\ worker'[w] # IdleWorker /\ worker'[w].at # "push" => answer' = answer
    BY <1>0, <1>10, ThreadEffect
  <2>2. ASSUME NEW v \in Workers, v # w, Running(v)'
        PROVE  (Request(v)'.op = "execute_order" => FirstTicket(v)') /\ Closing(v)'
    <3>1. Running(v) /\ worker'[v] = worker[v]
      BY <2>1, <2>2 DEF Running
    <3>2. worker[v].req \in Reqs /\ ~(Running(w) /\ worker[w].req = worker[v].req)
      BY <1>0, <2>2, <3>1 DEF Running, Owned, Alone
    <3> QED BY <1>8, <2>1, <3>1, <3>2
  <2>3. ASSUME NEW r \in 1..Len(jobs), ~(Running(w) /\ worker[w].req = r)
        PROVE  Confirmed(r)' /\ Closed(r)'
    <3>1. answer'[r] = answer[r]
      BY <1>0, <2>1, <2>3
    <3> QED BY <1>3, <1>4, <3>1
  <2>4. ASSUME Running(w)' =>
                 (Request(w)'.op = "execute_order" => FirstTicket(w)') /\ Closing(w)',
               \A r \in 1..Len(jobs) : Running(w) /\ worker[w].req = r => Confirmed(r)' /\ Closed(r)'
        PROVE  Closes'
    <3>1. \A v \in Workers : Running(v)' =>
            (Request(v)'.op = "execute_order" => FirstTicket(v)') /\ Closing(v)'
      BY <2>2, <2>4
    <3>2. \A r \in 1..Len(jobs') : CloseJob(r)' /\ Confirmed(r)' /\ Closed(r)'
      <4>1. ASSUME NEW r \in 1..Len(jobs) PROVE Confirmed(r)' /\ Closed(r)'
        BY <2>3, <2>4
      <4> QED BY <1>2, <1>10, <4>1
    <3> QED BY <1>0, <1>7, <3>1, <3>2 DEF Closes
  <2>5. worker \in [Workers -> Task \union {IdleWorker}]
    BY <1>0 DEF Inv, TypeOK
  <2>6. CASE Begin(w)
    <3>1. ~Running(w)
      BY <2>6 DEF Begin, Running
    <3>2. /\ worker'[w].req = begun + 1 /\ worker'[w].chunk = 0
          /\ worker'[w].ticket = jobs[begun + 1].ticket
          /\ UNCHANGED <<opened, closed>> /\ begun + 1 \in 1..Len(jobs)
      BY <1>0, <1>6, <2>5, <2>6 DEF Begin, Goto, history
    <3>3. PICK r \in 1..Len(jobs) : r = begun + 1
      BY <3>2
    <3>4. r \in Reqs /\ r > begun /\ CloseJob(r)
      BY <1>0, <1>6, <3>3 DEF Closes
    <3>5. opened'[r] = 0 /\ closed'[r] = 0
      BY <1>0, <3>2, <3>4 DEF Owned, Untouched
    <3>6. Request(w)' = jobs[r]
      BY <1>10, <3>2, <3>3 DEF Request
    <3>7. Request(w)'.op = "execute_order" => FirstTicket(w)'
      BY <3>2, <3>3, <3>4, <3>6 DEF FirstTicket, CloseJob
    <3>8. Closing(w)'
      BY <3>2, <3>3, <3>5, <3>6 DEF Closing
    <3> QED BY <2>4, <3>1, <3>7, <3>8
  <2>7. ASSUME Running(w), Running(w)' PROVE Request(w)' = Request(w) /\ worker'[w].req = worker[w].req
    BY <1>10, <2>1, <2>7 DEF Running, Request
  <2>8. CASE FindTicket(w)
    <3>1. Running(w) /\ Request(w).op = "close_position" /\ Request(w).ticket = NoTicket
      BY <1>0, <2>8 DEF FindTicket, Owned, Lookups, At, Running
    <3>2. ASSUME Running(w)'
          PROVE (Request(w)'.op = "execute_order" => FirstTicket(w)') /\ Closing(w)'
      BY <2>7, <3>1, <3>2 DEF Closing
    <3>3. ASSUME NEW r \in 1..Len(jobs), worker[w].req = r PROVE Confirmed(r)' /\ Closed(r)'
      BY <1>10, <3>1, <3>3 DEF Confirmed, Closed, ClosesByTicket, Request
    <3> QED BY <2>4, <3>2, <3>3
  <2>9. CASE OrderDeal(w)
    <3>1. Running(w) /\ Request(w).op = "execute_order"
      BY <2>9 DEF OrderDeal, At, Running
    <3>2. PICK r \in 1..Len(jobs) : r = worker[w].req
      BY <1>0, <3>1 DEF Running
    <3>3. /\ worker'[w].at # "push" =>
               /\ worker'[w].chunk # 0 /\ worker'[w].ticket = <<r, 1>>
               /\ <<r, 1>> \in DOMAIN positions'
          /\ worker'[w].at = "push" /\ answer'[r].status = "ok" =>
               answer'[r].ticket = <<r, 1>> /\ <<r, 1>> \in DOMAIN positions'
      BY <2>9, <3>2, OrderDealTickets
    <3>4. ASSUME Running(w)'
          PROVE (Request(w)'.op = "execute_order" => FirstTicket(w)') /\ Closing(w)'
      <4>1. Request(w)' = Request(w) /\ worker'[w].req = r /\ worker'[w].at # "push"
        BY <2>7, <3>1, <3>2, <3>4 DEF Running
      <4> QED BY <3>1, <3>3, <4>1 DEF FirstTicket, Closing
    <3>5. Confirmed(r)' /\ Closed(r)'
      <4>1. jobs'[r].op = "execute_order"
        BY <1>10, <3>1, <3>2 DEF Request
      <4>2. CASE answer'[r] = NoAnswer
        BY <1>4, <4>2
      <4>3. CASE answer'[r] # NoAnswer
        <5>1. answer[r] = NoAnswer
          BY <1>0, <3>1, <3>2 DEF Owned, Unanswered
        <5>2. worker'[w].at = "push"
          <6>1. OrderDeal(w) => worker'[w] # IdleWorker
            <7>1. \A task \in Task : task # IdleWorker
              BY ConnectorAssumption
            <7>2. PICK outcome \in {"done", "part", "refused", "raised"}, dealt \in Nat, after \in Task :
                    OrderDealt(w, outcome, dealt, after)
              BY <1>0, <2>9, OrderDealEffect
            <7>3. worker'[w] \in Task
              BY <2>5, <7>2 DEF OrderDealt, Goto, Task
            <7> QED BY <7>1, <7>3
          <6> QED BY <2>1, <2>9, <4>3, <5>1, <6>1
        <5> QED BY <3>3, <4>1, <5>2 DEF Confirmed, Closed, ClosesByTicket, Answered
      <4> QED BY <4>2, <4>3
    <3> QED BY <2>4, <3>2, <3>4, <3>5
  <2>10. CASE CloseDeal(w)
    <3>1. /\ Running(w) /\ worker[w] # IdleWorker /\ Request(w).op = "close_position"
          /\ Goto(w, [worker[w] EXCEPT !.at = "push"])
      BY <2>10 DEF CloseDeal, At, Conclude, Running
    <3>2. ~Running(w)'
      BY <2>5, <3>1 DEF Goto, Running, Task
    <3>3. ASSUME NEW r \in 1..Len(jobs), worker[w].req = r PROVE Confirmed(r)' /\ Closed(r)'
      <4>1. jobs'[r].op = "close_position" /\ jobs'[r] = jobs[r]
        BY <1>10, <3>1, <3>3 DEF Request
      <4>2. jobs[r].ticket # NoTicket => Decided(r)'
        BY <2>10, <3>3, CloseDealCloses
      <4> QED BY <4>1, <4>2 DEF Confirmed, Closed, ClosesByTicket
    <3> QED BY <2>4, <3>2, <3>3
  <2>11. CASE PushResult(w)
    <3>1. ~Running(w) /\ ~Running(w)'
      BY <2>5, <2>11 DEF PushResult, Goto, At, Running
    <3> QED BY <2>4, <3>1
  <2> QED BY <1>10, <2>6, <2>8, <2>9, <2>10, <2>11 DEF WorkerStep
<1> QED BY <1>0, <1>9, <1>10, QuietSteps

\* A close that names its ticket closes or opens, never both, as its type is the
\* position's or the other, and is confirmed exactly if all of it was done, for
\* any threads, jobs and types: mt5_connector.py:138 turns the type round, which
\* trade_manager.rs:228 has turned round already (MCCloseSide.cfg).
THEOREM ClosesCorrect == Spec => []CloseTypeDecides
<1>1. Closes => CloseTypeDecides
  <2>1. ASSUME Closes, NEW r \in Reqs, ClosesByTicket(r)
        PROVE  /\ IF AskedRight(r) THEN opened[r] = 0 ELSE closed[r] = 0
               /\ answer[r].status = "ok" <=> opened[r] + closed[r] = jobs[r].volume
    <3>1. r \in 1..Len(jobs)
      BY <2>1, Typed DEF Closes, Orders, Owned, Untouched, ClosesByTicket, Answered
    <3> QED BY <2>1, <3>1 DEF Closes, Closed, Decided
  <2> QED BY <2>1 DEF CloseTypeDecides
<1> QED BY <1>1, ClosesNext, ClosesInit, PTL DEF Spec

\* A confirmed close by ticket and with the position's type leaves nothing of
\* the position, now or later, whatever other threads close meanwhile, with
\* whatever types (mt5_connector.py:113-170).
THEOREM CompleteCorrect == Spec => []ConfirmedCloseIsComplete
<1>1. Closes => ConfirmedCloseIsComplete
  <2>1. ASSUME Closes, NEW r \in Reqs, ClosesByTicket(r), AskedRight(r), answer[r].status = "ok"
        PROVE  positions[jobs[r].ticket].volume = 0
    <3>1. r \in 1..Len(jobs)
      BY <2>1, Typed DEF Closes, Orders, Owned, Untouched, ClosesByTicket, Answered
    <3> QED BY <2>1, <3>1 DEF Closes, Closed, Decided
  <2> QED BY <2>1 DEF ConfirmedCloseIsComplete
<1> QED BY <1>1, ClosesNext, ClosesInit, PTL DEF Spec
================================================================================
