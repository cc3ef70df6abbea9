-------------------------- MODULE TokeniserProofs --------------------------
(***************************************************************************)
(* Tokens are ordered, in range and stable for every best price, offset    *)
(* and size.  A table is a sequence that never decreases; the tokens of    *)
(* prices depend on the offset alone (CodeOf), so that the ends of the     *)
(* tables and both directions are cases of one argument.                   *)
(*                                                                         *)
(* The second half is about encode_training and the data set made of it,   *)
(* TrainingData: input, label and books of every item line up, for every   *)
(* file and every window.  Kept rows ascend, flattening puts the p-th      *)
(* token in piece Piece(p) at Place(p), and a start moves all three alike. *)
(***************************************************************************)
EXTENDS Tokeniser, TrainingData, NumberTheorems

\* edges has n elements, which never decrease.
IsTable(edges, n) ==
  /\ n \in Nat
  /\ edges \in [1..n -> Int]
  /\ \A i, j \in 1..n : i <= j => edges[i] <= edges[j]

-----------------------------------------------------------------------------
(* Searching a table.                                                      *)

\* More elements are no larger than a larger number; there are at most n.
LEMMA SearchMonotone ==
  ASSUME NEW edges, NEW n, IsTable(edges, n), NEW x \in Int, NEW y \in Int, x <= y
  PROVE  /\ SearchSorted(edges, x) \in 0..n
         /\ SearchSorted(edges, y) \in 0..n
         /\ SearchSorted(edges, x) <= SearchSorted(edges, y)
<1> DEFINE At(z) == {k \in DOMAIN edges : edges[k] <= z}
<1>1. DOMAIN edges = 1..n /\ n \in Nat /\ IsFiniteSet(1..n) /\ Cardinality(1..n) = n
  <2>1. 1 \in Int /\ n \in Int /\ n \in Nat
    BY DEF IsTable
  <2>2. QED
    BY <2>1, FS_Interval DEF IsTable
<1>2. At(x) \subseteq At(y) /\ At(y) \subseteq 1..n
  BY <1>1 DEF IsTable
<1>3. IsFiniteSet(At(y)) /\ Cardinality(At(y)) <= n
  BY <1>1, <1>2, FS_Subset
<1>4. IsFiniteSet(At(x)) /\ Cardinality(At(x)) <= Cardinality(At(y))
  BY <1>2, <1>3, FS_Subset
<1>5. Cardinality(At(x)) \in Nat /\ Cardinality(At(y)) \in Nat
  BY <1>3, <1>4, FS_CardinalityType
<1>6. QED
  BY <1>1, <1>3, <1>4, <1>5 DEF SearchSorted

\* A number from one element up to the next is found between them.
LEMMA SearchIs ==
  ASSUME NEW edges, NEW n, IsTable(edges, n), NEW x \in Int,
         NEW k \in 1..n, edges[k] <= x, k < n => x < edges[k + 1]
  PROVE  SearchSorted(edges, x) = k
<1>1. {i \in DOMAIN edges : edges[i] <= x} = 1..k
  <2>1. DOMAIN edges = 1..n
    BY DEF IsTable
  <2>2. ASSUME NEW i \in 1..n
        PROVE  edges[i] <= x <=> i <= k
    <3>1. CASE i <= k
      <4>1. edges[i] <= edges[k] /\ edges[i] \in Int /\ edges[k] \in Int
        BY <3>1 DEF IsTable
      <4>2. QED
        BY <3>1, <4>1
    <3>2. CASE ~(i <= k)
      <4>1. k + 1 \in 1..n /\ k + 1 <= i /\ k < n
        BY <3>2 DEF IsTable
      <4>2. edges[k + 1] <= edges[i] /\ edges[i] \in Int /\ edges[k + 1] \in Int
        BY <4>1 DEF IsTable
      <4>3. QED
        BY <3>2, <4>1, <4>2
    <3>3. QED
      BY <3>1, <3>2
  <2>3. QED
    BY <2>1, <2>2 DEF IsTable
<1>2. 1 \in Int /\ k \in Int /\ k \in Nat /\ 1 <= k
  BY DEF IsTable
<1>3. Cardinality(1..k) = k
  BY <1>2, FS_Interval
<1>4. QED
  BY <1>1, <1>3 DEF SearchSorted

-----------------------------------------------------------------------------
(* The geometric mean.                                                     *)

LEMMA ProductsGrow ==
  ASSUME NEW a \in Nat, NEW b \in Nat, a <= b, NEW c \in Nat
  PROVE  a * c <= b * c
<1>1. b * c = a * c + (b - a) * c
  OBVIOUS
<1>2. b - a \in Nat
  OBVIOUS
<1>3. (b - a) * c >= 0
  BY <1>2
<1>4. QED
  BY <1>1, <1>3

LEMMA SquaresGrow ==
  ASSUME NEW a \in Nat, NEW b \in Nat, a <= b
  PROVE  a * a <= b * b
<1>1. a * a <= b * a
  BY ProductsGrow
<1>2. a * b <= b * b
  BY ProductsGrow
<1>3. a * b = b * a /\ a * a \in Nat /\ b * a \in Nat /\ b * b \in Nat
  OBVIOUS
<1>4. QED
  BY <1>1, <1>2, <1>3

\* A bucket is decoded to a value inside of it.
LEMMA MeanIsInside ==
  ASSUME NEW l \in Nat \ {0}, NEW r \in Nat, l < r
  PROVE  GeometricMean(l, r) \in l..r - 1
<1> DEFINE p == l * r
           Root(c) == c * c <= p /\ p < (c + 1) * (c + 1)
           T == {c \in Nat : p < (c + 1) * (c + 1)}
<1>1. p \in Nat /\ l * l <= p /\ p < r * r
  <2>1. l * l <= r * l
    BY ProductsGrow
  <2>2. r * r = l * r + (r - l) * r
    OBVIOUS
  <2>3. r - l \in Nat \ {0} /\ r \in Nat \ {0}
    OBVIOUS
  <2>4. (r - l) * r > 0
    BY <2>3
  <2>5. r * l = l * r /\ l * r \in Nat /\ l * l \in Nat
    OBVIOUS
  <2>6. QED
    BY <2>1, <2>2, <2>4, <2>5
<1> HIDE DEF p
<1>2. p \in T
  <2>1. (p + 1) * (p + 1) = p * p + p + p + 1 /\ p * p \in Nat
    BY <1>1
  <2>2. p < (p + 1) * (p + 1)
    BY <1>1, <2>1
  <2>3. QED
    BY <1>1, <2>2
<1>3. PICK m \in T : \A y \in T : m <= y
  <2>1. T \subseteq Nat /\ T # {}
    BY <1>2
  <2> HIDE DEF T
  <2>2. QED
    BY <2>1, LeastNatural
<1>4. m \in Nat /\ p < (m + 1) * (m + 1)
  BY <1>3
<1>5. l <= m
  <2> SUFFICES ASSUME m + 1 <= l PROVE FALSE
    BY <1>4
  <2>1. (m + 1) * (m + 1) <= l * l
    BY <1>4, SquaresGrow
  <2>2. (m + 1) * (m + 1) \in Nat /\ l * l \in Nat
    BY <1>4
  <2>3. QED
    BY <1>1, <1>4, <2>1, <2>2
<1>6. m * m <= p
  <2>1. m - 1 \in Nat
    BY <1>4, <1>5
  <2>2. m - 1 \notin T
    BY <1>3, <1>4, <2>1
  <2>3. ~(p < ((m - 1) + 1) * ((m - 1) + 1))
    BY <2>1, <2>2
  <2>4. (m - 1) + 1 = m /\ m * m \in Nat
    BY <1>4
  <2>5. ~(p < m * m)
    BY <2>3, <2>4
  <2>6. QED
    BY <1>1, <2>4, <2>5
<1>7. ASSUME NEW c \in Nat, c * c <= p
      PROVE  c < r
  <2> SUFFICES ASSUME r <= c PROVE FALSE
    OBVIOUS
  <2>1. r * r <= c * c
    BY SquaresGrow
  <2>2. r * r \in Nat /\ c * c \in Nat
    OBVIOUS
  <2>3. QED
    BY <1>1, <1>7, <2>1, <2>2
<1>8. \E c \in l..r : Root(c)
  <2>1. m \in l..r
    BY <1>4, <1>5, <1>6, <1>7
  <2>2. QED
    BY <1>4, <1>6, <2>1
<1> DEFINE g == CHOOSE c \in l..r : Root(c)
<1>9. g \in l..r /\ Root(g)
  <2> HIDE DEF Root
  <2>1. QED
    BY <1>8
<1>10. g = GeometricMean(l, r)
  BY Zenon DEF GeometricMean, p
<1> HIDE DEF g
<1>11. g \in Nat /\ g < r
  BY <1>7, <1>9
<1>12. QED
  BY <1>9, <1>10, <1>11

-----------------------------------------------------------------------------
(* The tables.                                                             *)

FarEdges == Append(PRICE_LOG_FAR_EDGE, PRICE_LOG_FAR_EDGE[PRICE_LOG_RANGE] * 2)

LEMMA Volumes ==
  /\ IsTable(VOLUME_LOG, 21)
  /\ VOLUME_LOG[1] = 1 /\ VOLUME_LOG[2] = 1
  /\ \A k \in 2..20 : VOLUME_LOG[k] \in Nat \ {0} /\ VOLUME_LOG[k] < VOLUME_LOG[k + 1]
<1>1. VOLUME_LOG \in [1..21 -> Int]
  BY DEF VOLUME_LOG
<1>2. \A k \in 1..20 : VOLUME_LOG[k] <= VOLUME_LOG[k + 1]
  BY DEF VOLUME_LOG
<1>3. QED
  BY <1>1, <1>2, SMTT(30) DEF VOLUME_LOG, IsTable

LEMMA FarTable ==
  /\ IsTable(PRICE_LOG_FAR_EDGE, 10)
  /\ PRICE_LOG_FAR_EDGE[1] = 21
  /\ \A k \in 1..10 : /\ FarEdges[k] = PRICE_LOG_FAR_EDGE[k]
                       /\ FarEdges[k] \in Nat \ {0} /\ FarEdges[k] >= 21
                       /\ FarEdges[k + 1] \in Nat /\ FarEdges[k] < FarEdges[k + 1]
<1>1. PRICE_LOG_FAR_EDGE \in [1..10 -> Int]
  BY DEF PRICE_LOG_FAR_EDGE
<1>2. \A k \in 1..9 : PRICE_LOG_FAR_EDGE[k] <= PRICE_LOG_FAR_EDGE[k + 1]
  BY DEF PRICE_LOG_FAR_EDGE
<1>3. IsTable(PRICE_LOG_FAR_EDGE, 10)
  BY <1>1, <1>2, SMTT(30) DEF PRICE_LOG_FAR_EDGE, IsTable
<1>4. /\ \A k \in 1..10 : FarEdges[k] = PRICE_LOG_FAR_EDGE[k]
      /\ FarEdges[11] = 1400
  <2>1. PRICE_LOG_FAR_EDGE[PRICE_LOG_RANGE] * 2 = 1400
    BY DEF PRICE_LOG_FAR_EDGE, PRICE_LOG_RANGE
  <2>2. FarEdges = Append(PRICE_LOG_FAR_EDGE, 1400)
    BY <2>1 DEF FarEdges
  <2>3. FarEdges = [k \in 1..11 |-> IF k <= 10 THEN PRICE_LOG_FAR_EDGE[k] ELSE 1400]
    BY <2>2 DEF PRICE_LOG_FAR_EDGE
  <2>4. QED
    BY <2>3
<1>5. \A k \in 1..10 : /\ PRICE_LOG_FAR_EDGE[k] \in Nat \ {0} /\ PRICE_LOG_FAR_EDGE[k] >= 21
  BY DEF PRICE_LOG_FAR_EDGE
<1>6. \A k \in 1..9 : PRICE_LOG_FAR_EDGE[k] < PRICE_LOG_FAR_EDGE[k + 1] /\ PRICE_LOG_FAR_EDGE[k + 1] \in Nat
  BY DEF PRICE_LOG_FAR_EDGE
<1>7. PRICE_LOG_FAR_EDGE[1] = 21 /\ PRICE_LOG_FAR_EDGE[10] = 700
  BY DEF PRICE_LOG_FAR_EDGE
<1>8. ASSUME NEW k \in 1..10
      PROVE  FarEdges[k + 1] \in Nat /\ FarEdges[k] < FarEdges[k + 1]
  <2>1. CASE k = 10
    BY <1>4, <1>7, <2>1
  <2>2. CASE k # 10
    <3>1. k \in 1..9 /\ k + 1 \in 1..10
      BY <2>2
    <3>2. QED
      BY <1>4, <1>6, <3>1
  <2>3. QED
    BY <2>1, <2>2
<1>9. QED
  BY <1>3, <1>4, <1>5, <1>7, <1>8

-----------------------------------------------------------------------------
(* The tokens of sizes.                                                    *)

\* Every size is in a bucket, and larger sizes in no smaller one.
LEMMA SizeTokens ==
  ASSUME NEW s \in Nat \ {0}
  PROVE  /\ SearchSorted(VOLUME_LOG, s) \in 2..21
         /\ SizeToToken(s) \in SIZE_BASE + 1..SIZE_BASE + 19
         /\ SizeToToken(s) <= SizeToToken(s + 1)
<1>1. SearchSorted(VOLUME_LOG, 1) = 2
  <2>1. 1 \in Int /\ 2 \in 1..21 /\ VOLUME_LOG[3] = 3 /\ VOLUME_LOG[2] = 1
    BY DEF VOLUME_LOG
  <2>2. VOLUME_LOG[2] <= 1 /\ (2 < 21 => 1 < VOLUME_LOG[2 + 1])
    BY <2>1
  <2>3. QED
    BY <2>1, <2>2, Volumes, SearchIs
<1>2. /\ SearchSorted(VOLUME_LOG, s) \in 0..21
      /\ SearchSorted(VOLUME_LOG, 1) <= SearchSorted(VOLUME_LOG, s)
  <2>1. 1 \in Int /\ s \in Int /\ 1 <= s
    OBVIOUS
  <2>2. QED
    BY <2>1, Volumes, SearchMonotone
<1>3. /\ SearchSorted(VOLUME_LOG, s + 1) \in 0..21
      /\ SearchSorted(VOLUME_LOG, s) <= SearchSorted(VOLUME_LOG, s + 1)
  <2>1. s \in Int /\ s + 1 \in Int /\ s <= s + 1
    OBVIOUS
  <2>2. QED
    BY <2>1, Volumes, SearchMonotone
<1>4. QED
  BY <1>1, <1>2, <1>3 DEF SizeToToken, Clip, SIZE_BASE

\* A size token is decoded to a size of its bucket.
LEMMA SizeRoundTrip ==
  ASSUME NEW token \in SIZE_BASE + 1..SIZE_BASE + 19
  PROVE  /\ TokenToSize(token) \in Nat \ {0}
         /\ SizeToToken(TokenToSize(token)) = token
<1> DEFINE b == token - SIZE_BASE
           k == b + 1
           c == TokenToSize(token)
<1>1. b \in 1..19 /\ k \in 2..20 /\ b + 2 = k + 1 /\ token = SIZE_BASE + b
  BY DEF SIZE_BASE
<1>2. c = GeometricMean(VOLUME_LOG[k], VOLUME_LOG[k + 1])
  BY <1>1 DEF TokenToSize
<1> HIDE DEF b, c
<1>3. /\ VOLUME_LOG[k] \in Nat \ {0} /\ VOLUME_LOG[k + 1] \in Nat
      /\ VOLUME_LOG[k] < VOLUME_LOG[k + 1]
  <2>1. k + 1 \in 1..21 /\ VOLUME_LOG[k + 1] \in Int
    BY <1>1, Volumes DEF IsTable
  <2>2. QED
    BY <1>1, <2>1, Volumes
<1>4. c \in VOLUME_LOG[k]..VOLUME_LOG[k + 1] - 1
  BY <1>2, <1>3, MeanIsInside
<1>5. c \in Nat \ {0} /\ VOLUME_LOG[k] <= c /\ c < VOLUME_LOG[k + 1]
  BY <1>3, <1>4
<1>6. SearchSorted(VOLUME_LOG, c) = k
  <2>1. c \in Int /\ k \in 1..21
    BY <1>1, <1>5
  <2>2. QED
    BY <1>5, <2>1, Volumes, SearchIs
<1>7. SizeToToken(c) = token
  BY <1>1, <1>6 DEF SizeToToken, Clip, SIZE_BASE
<1>8. QED
  BY <1>5, <1>7 DEF c

-----------------------------------------------------------------------------
(* The tokens of prices.                                                   *)

\* The bucket of a distance beyond the linear range, and the token of an offset.
FarBucket(x) == Clip(SearchSorted(PRICE_LOG_FAR_EDGE, x) - 1, 0, PRICE_LOG_RANGE - 1)
CodeOf(o) ==
  IF Abs(o) <= PRICE_LINEAR_RANGE THEN PRICE_BASE + o + 30
  ELSE IF o < 0 THEN PRICE_BASE + 9 - FarBucket(-o) ELSE PRICE_BASE + 51 + FarBucket(o)

LEMMA FarBuckets ==
  ASSUME NEW x \in Int, NEW y \in Int, x <= y
  PROVE  FarBucket(x) \in 0..9 /\ FarBucket(y) \in 0..9 /\ FarBucket(x) <= FarBucket(y)
<1>1. /\ SearchSorted(PRICE_LOG_FAR_EDGE, x) \in 0..10
      /\ SearchSorted(PRICE_LOG_FAR_EDGE, y) \in 0..10
      /\ SearchSorted(PRICE_LOG_FAR_EDGE, x) <= SearchSorted(PRICE_LOG_FAR_EDGE, y)
  BY FarTable, SearchMonotone
<1>2. QED
  BY <1>1 DEF FarBucket, Clip, PRICE_LOG_RANGE

\* The token of a price is the one of its offset, counted away from the best price.
LEMMA PriceToTokenIs ==
  ASSUME NEW p \in Int, NEW best \in Int, NEW d \in {1, -1}
  PROVE  /\ ((best - p) \div TICK) * d \in Int
         /\ PriceToToken(p, best, d) = CodeOf(((best - p) \div TICK) * d)
<1> DEFINE q == (best - p) \div TICK
           o == q * d
<1>1. o \in Int
  <2>1. q \in Int
    BY DEF TICK
  <2> HIDE DEF q
  <2>2. QED
    BY <2>1
<1> DEFINE bucket == Clip(SearchSorted(PRICE_LOG_FAR_EDGE, Abs(o)) - 1, 0, PRICE_LOG_RANGE - 1)
<1>2. PriceToToken(p, best, d) =
        CASE Abs(o) <= PRICE_LINEAR_RANGE -> PRICE_BASE + o + 30
          [] o < -PRICE_LINEAR_RANGE      -> PRICE_BASE + 9 - bucket
          [] o > PRICE_LINEAR_RANGE       -> PRICE_BASE + 51 + bucket
  BY DEF PriceToToken
<1> HIDE DEF o
<1>3. bucket = FarBucket(Abs(o))
  BY DEF FarBucket
<1> HIDE DEF bucket
<1>4. PriceToToken(p, best, d) = CodeOf(o)
  BY <1>1, <1>2, <1>3 DEF CodeOf, Abs, PRICE_LINEAR_RANGE
<1>5. QED
  BY <1>1, <1>4 DEF o

\* Offsets have tokens in the order of the offsets.
LEMMA CodesAreOrdered ==
  ASSUME NEW o \in Int
  PROVE  CodeOf(o) \in PRICE_BASE..SIZE_BASE - 1 /\ CodeOf(o) <= CodeOf(o + 1)
<1>1. FarBucket(o) \in 0..9 /\ FarBucket(o + 1) \in 0..9 /\ FarBucket(o) <= FarBucket(o + 1)
  BY FarBuckets
<1>2. /\ FarBucket(-(o + 1)) \in 0..9 /\ FarBucket(-o) \in 0..9
      /\ FarBucket(-(o + 1)) <= FarBucket(-o)
  <2>1. -(o + 1) \in Int /\ -o \in Int /\ -(o + 1) <= -o
    OBVIOUS
  <2>2. QED
    BY <2>1, FarBuckets
<1>3. QED
  BY <1>1, <1>2 DEF CodeOf, Abs, PRICE_LINEAR_RANGE, PRICE_BASE, SIZE_BASE

\* The offset a price token is decoded to.
OffsetOf(bucket) ==
  IF bucket \in 10..50 THEN bucket - 30
  ELSE IF bucket <= 9 THEN -GeometricMean(FarEdges[(9 - bucket) + 1], FarEdges[(9 - bucket) + 2])
       ELSE GeometricMean(FarEdges[(bucket - 51) + 1], FarEdges[(bucket - 51) + 2])

LEMMA TokenToPriceIs ==
  ASSUME NEW token \in PRICE_BASE..SIZE_BASE - 1, NEW best \in Int, NEW d \in {1, -1}
  PROVE  TokenToPrice(token, best, d) = best - d * OffsetOf(token - PRICE_BASE) * TICK
<1> DEFINE b == token - PRICE_BASE
           Far(k) == GeometricMean(FarEdges[k + 1], FarEdges[k + 2])
           offset == CASE b \in 10..50 -> b - 30
                       [] b <= 9       -> -Far(9 - b)
                       [] b >= 51      -> Far(b - 51)
<1>1. TokenToPrice(token, best, d) = best - d * offset * TICK
  BY Zenon DEF TokenToPrice, FarEdges
<1>2. b \in Int
  BY DEF PRICE_BASE, SIZE_BASE
<1>3. OffsetOf(b) = IF b \in 10..50 THEN b - 30 ELSE IF b <= 9 THEN -Far(9 - b) ELSE Far(b - 51)
  BY Zenon DEF OffsetOf
<1> HIDE DEF b, Far
<1>4. offset = OffsetOf(b)
  BY <1>2, <1>3
<1> HIDE DEF offset
<1>5. QED
  BY <1>1, <1>4, Zenon DEF b

\* The mean of a far bucket's edges is found in that bucket.
LEMMA FarRoundTrip ==
  ASSUME NEW k \in 0..9
  PROVE  LET c == GeometricMean(FarEdges[k + 1], FarEdges[k + 2])
         IN  c \in Nat /\ c >= 21 /\ FarBucket(c) = k
<1> DEFINE i == k + 1
           c == GeometricMean(FarEdges[i], FarEdges[i + 1])
<1>1. i \in 1..10 /\ k + 2 = i + 1 /\ i - 1 = k
  OBVIOUS
<1> HIDE DEF i
<1>2. /\ FarEdges[i] = PRICE_LOG_FAR_EDGE[i] /\ FarEdges[i] \in Nat \ {0} /\ FarEdges[i] >= 21
      /\ FarEdges[i + 1] \in Nat /\ FarEdges[i] < FarEdges[i + 1]
  BY <1>1, FarTable
<1>3. c \in FarEdges[i]..FarEdges[i + 1] - 1
  BY <1>2, MeanIsInside
<1> HIDE DEF c
<1>4. c \in Nat /\ c >= 21 /\ FarEdges[i] <= c /\ c < FarEdges[i + 1]
  BY <1>2, <1>3
<1>5. i < 10 => FarEdges[i + 1] = PRICE_LOG_FAR_EDGE[i + 1]
  <2> SUFFICES ASSUME i < 10 PROVE i + 1 \in 1..10
    BY FarTable
  <2>1. QED
    BY <1>1
<1>6. SearchSorted(PRICE_LOG_FAR_EDGE, c) = i
  <2>1. c \in Int /\ PRICE_LOG_FAR_EDGE[i] <= c /\ (i < 10 => c < PRICE_LOG_FAR_EDGE[i + 1])
    BY <1>2, <1>4, <1>5
  <2>2. QED
    BY <1>1, <2>1, FarTable, SearchIs
<1>7. FarBucket(c) = k
  BY <1>1, <1>6 DEF FarBucket, Clip, PRICE_LOG_RANGE
<1>8. c = GeometricMean(FarEdges[k + 1], FarEdges[k + 2])
  BY <1>1, Zenon DEF c, i
<1>9. QED
  BY <1>4, <1>7, <1>8

\* Every bucket is decoded to an offset that has its token.
LEMMA OffsetRoundTrip ==
  ASSUME NEW token \in PRICE_BASE..SIZE_BASE - 1
  PROVE  /\ OffsetOf(token - PRICE_BASE) \in Int
         /\ CodeOf(OffsetOf(token - PRICE_BASE)) = token
<1> DEFINE b == token - PRICE_BASE
<1>1. b \in 0..60 /\ token = PRICE_BASE + b
  BY DEF PRICE_BASE, SIZE_BASE
<1> HIDE DEF b
<1>2. CASE b \in 10..50
  BY <1>1, <1>2 DEF OffsetOf, CodeOf, Abs, PRICE_LINEAR_RANGE, PRICE_BASE, b
<1>3. CASE b <= 9
  <2> DEFINE k == 9 - b
             c == GeometricMean(FarEdges[k + 1], FarEdges[k + 2])
  <2>1. k \in 0..9 /\ b = 9 - k
    BY <1>1, <1>3
  <2> HIDE DEF k
  <2>2. c \in Nat /\ c >= 21 /\ FarBucket(c) = k
    BY <2>1, FarRoundTrip
  <2>3. OffsetOf(b) = -c
    <3>1. ~(b \in 10..50)
      BY <1>1, <1>3
    <3>2. QED
      BY <1>3, <3>1, Zenon DEF OffsetOf, k
  <2> HIDE DEF c
  <2>4. -c \in Int /\ -c < 0 /\ -(-c) = c /\ ~(Abs(-c) <= PRICE_LINEAR_RANGE)
    BY <2>2 DEF Abs, PRICE_LINEAR_RANGE
  <2>5. CodeOf(-c) = PRICE_BASE + 9 - k
    BY <2>2, <2>4 DEF CodeOf
  <2>6. QED
    BY <1>1, <2>1, <2>3, <2>4, <2>5 DEF PRICE_BASE, b
<1>4. CASE b >= 51
  <2> DEFINE k == b - 51
             c == GeometricMean(FarEdges[k + 1], FarEdges[k + 2])
  <2>1. k \in 0..9 /\ b = 51 + k
    BY <1>1, <1>4
  <2> HIDE DEF k
  <2>2. c \in Nat /\ c >= 21 /\ FarBucket(c) = k
    BY <2>1, FarRoundTrip
  <2>3. OffsetOf(b) = c
    <3>1. ~(b \in 10..50) /\ ~(b <= 9)
      BY <1>1, <1>4
    <3>2. QED
      BY <3>1, Zenon DEF OffsetOf, k
  <2> HIDE DEF c
  <2>4. c \in Int /\ ~(c < 0) /\ ~(Abs(c) <= PRICE_LINEAR_RANGE)
    BY <2>2 DEF Abs, PRICE_LINEAR_RANGE
  <2>5. CodeOf(c) = PRICE_BASE + 51 + k
    BY <2>2, <2>4 DEF CodeOf
  <2>6. QED
    BY <1>1, <2>1, <2>3, <2>4, <2>5 DEF PRICE_BASE, b
<1>5. QED
  BY <1>1, <1>2, <1>3, <1>4 DEF b

\* A price token is decoded to a price that has it.
LEMMA PriceRoundTrip ==
  ASSUME NEW token \in PRICE_BASE..SIZE_BASE - 1, NEW best \in Int, NEW d \in {1, -1}
  PROVE  /\ TokenToPrice(token, best, d) \in Int
         /\ PriceToToken(TokenToPrice(token, best, d), best, d) = token
<1> DEFINE o == OffsetOf(token - PRICE_BASE)
           p == TokenToPrice(token, best, d)
<1>1. o \in Int /\ CodeOf(o) = token
  BY OffsetRoundTrip
<1>2. p = best - d * o * TICK
  BY TokenToPriceIs
<1> HIDE DEF o, p
<1>3. p \in Int /\ ((best - p) \div TICK) * d = o
  <2>1. CASE d = 1
    <3>1. p = best - 100 * o
      BY <1>1, <1>2, <2>1 DEF TICK
    <3>2. (best - p) \div TICK = o
      BY <1>1, <3>1 DEF TICK
    <3>3. QED
      BY <1>1, <2>1, <3>1, <3>2
  <2>2. CASE d = -1
    <3>1. p = best + 100 * o
      BY <1>1, <1>2, <2>2 DEF TICK
    <3>2. (best - p) \div TICK = -o
      BY <1>1, <3>1 DEF TICK
    <3>3. QED
      BY <1>1, <2>2, <3>1, <3>2
  <2>3. QED
    BY <2>1, <2>2
<1>4. PriceToToken(p, best, d) = CodeOf(o)
  BY <1>3, PriceToTokenIs
<1>5. QED
  BY <1>1, <1>3, <1>4 DEF p

\* One tick away from the best price on the message's side is one offset more.
LEMMA OneTick ==
  ASSUME NEW p \in Int, NEW best \in Int, NEW d \in {1, -1}
  PROVE  /\ PriceToToken(p, best, d) \in PRICE_BASE..SIZE_BASE - 1
         /\ PriceToToken(p, best, d) <= PriceToToken(p - d * TICK, best, d)
<1> DEFINE o == ((best - p) \div TICK) * d
           q == p - d * TICK
           n == ((best - q) \div TICK) * d
<1>1. o \in Int /\ PriceToToken(p, best, d) = CodeOf(o)
  BY PriceToTokenIs
<1>2. q \in Int
  BY DEF TICK
<1>3. n = o + 1
  <2>1. CASE d = 1
    BY <2>1 DEF TICK
  <2>2. CASE d = -1
    BY <2>2 DEF TICK
  <2>3. QED
    BY <2>1, <2>2
<1>4. PriceToToken(q, best, d) = CodeOf(n)
  <2> HIDE DEF q
  <2>1. QED
    BY <1>2, PriceToTokenIs
<1> HIDE DEF o, n
<1>5. CodeOf(o) \in PRICE_BASE..SIZE_BASE - 1 /\ CodeOf(o) <= CodeOf(o + 1)
  BY <1>1, CodesAreOrdered
<1>6. QED
  BY <1>1, <1>3, <1>4, <1>5

-----------------------------------------------------------------------------
(* The tokens of a message.                                                *)

\* Types and directions have tokens of their own.
LEMMA ActionRoundTrip ==
  ASSUME NEW t \in 1..3, NEW d \in {1, -1}
  PROVE  /\ ActionToToken(t, d) \in 3..8
         /\ action_type_reverse[ActionToToken(t, d) + 1] = <<t, d>>
<1>1. CASE d = 1
  <2>1. CASE t = 1
    BY <1>1, <2>1 DEF ActionToToken, action_type, action_type_reverse
  <2>2. CASE t = 2
    BY <1>1, <2>2 DEF ActionToToken, action_type, action_type_reverse
  <2>3. CASE t = 3
    BY <1>1, <2>3 DEF ActionToToken, action_type, action_type_reverse
  <2>4. QED
    BY <2>1, <2>2, <2>3
<1>2. CASE d = -1
  <2>1. CASE t = 1
    BY <1>2, <2>1 DEF ActionToToken, action_type, action_type_reverse
  <2>2. CASE t = 2
    BY <1>2, <2>2 DEF ActionToToken, action_type, action_type_reverse
  <2>3. CASE t = 3
    BY <1>2, <2>3 DEF ActionToToken, action_type, action_type_reverse
  <2>4. QED
    BY <2>1, <2>2, <2>3
<1>3. QED
  BY <1>1, <1>2

\* The values of the variables.
TokenTypes ==
  /\ type \in 1..3 /\ direction \in {1, -1}
  /\ size \in Nat \ {0} /\ price \in Int
  /\ encoded \in BOOLEAN

\* Once a message has been encoded the tokens are always its tokens.
Coherent ==
  /\ encoded => action_token # 0
  /\ action_token # 0 =>
       /\ action_token = ActionToToken(type, direction)
       /\ size_token = SizeToToken(size)
       /\ price_token = PriceToToken(price, Best, direction)

TokenInv == TokenTypes /\ Coherent

LEMMA InitTokens == Init => TokenInv
<1> SUFFICES ASSUME Init PROVE TokenInv
  OBVIOUS
<1>1. PICK o \in Offsets : price = Best - direction * o * TICK
  BY DEF Init
<1>2. o \in Int /\ Best \in Int /\ direction \in {1, -1}
  BY InputAssumption DEF Init
<1>3. price \in Int
  BY <1>1, <1>2 DEF TICK
<1>4. TokenTypes
  BY <1>3, InputAssumption DEF Init, TokenTypes
<1>5. Coherent
  BY DEF Init, Coherent
<1>6. QED
  BY <1>4, <1>5 DEF TokenInv

\* Encoding again what was decoded gives the same tokens.
LEMMA EncodeTokens == TokenInv /\ Encode => TokenInv' /\ (action_token # 0 => tokens' = tokens)
<1> SUFFICES ASSUME TokenInv, Encode PROVE TokenInv' /\ (action_token # 0 => tokens' = tokens)
  OBVIOUS
<1>1. /\ type' = type /\ direction' = direction /\ size' = size /\ price' = price
      /\ encoded' = TRUE
      /\ action_token' = ActionToToken(type, direction)
      /\ size_token' = SizeToToken(size)
      /\ price_token' = PriceToToken(price, Best, direction)
  BY DEF Encode, message
<1>2. TokenTypes'
  BY <1>1 DEF TokenInv, TokenTypes
<1>3. action_token' # 0
  BY <1>1, ActionRoundTrip DEF TokenInv, TokenTypes
<1>4. Coherent'
  BY <1>1, <1>3, Zenon DEF Coherent
<1>5. ASSUME action_token # 0
      PROVE  tokens' = tokens
  BY <1>1, <1>5, Zenon DEF TokenInv, Coherent, tokens
<1>6. QED
  BY <1>2, <1>4, <1>5 DEF TokenInv

\* A decoded message has the tokens it was decoded from.
LEMMA DecodeTokens == TokenInv /\ Decode => TokenInv' /\ tokens' = tokens
<1> SUFFICES ASSUME TokenInv, Decode PROVE TokenInv' /\ tokens' = tokens
  OBVIOUS
<1>1. /\ action_token = ActionToToken(type, direction)
      /\ size_token = SizeToToken(size)
      /\ price_token = PriceToToken(price, Best, direction)
      /\ action_token # 0
  BY DEF TokenInv, Coherent, Decode
<1>2. type \in 1..3 /\ direction \in {1, -1} /\ size \in Nat \ {0} /\ price \in Int /\ Best \in Int
  BY InputAssumption DEF TokenInv, TokenTypes
<1>3. action_type_reverse[action_token + 1] = <<type, direction>>
  BY <1>1, <1>2, ActionRoundTrip
<1>4. /\ type' = type /\ direction' = direction
      /\ size' = TokenToSize(size_token)
      /\ price' = TokenToPrice(price_token, Best, direction)
      /\ encoded' = FALSE
      /\ tokens' = tokens
  BY <1>3 DEF Decode
<1>5. action_token' = action_token /\ size_token' = size_token /\ price_token' = price_token
  BY <1>4 DEF tokens
<1>6. size_token \in SIZE_BASE + 1..SIZE_BASE + 19
  BY <1>1, <1>2, SizeTokens
<1>7. size' \in Nat \ {0} /\ SizeToToken(size') = size_token
  BY <1>4, <1>6, SizeRoundTrip
<1>8. price_token \in PRICE_BASE..SIZE_BASE - 1
  BY <1>1, <1>2, OneTick
<1>9. price' \in Int /\ PriceToToken(price', Best, direction) = price_token
  BY <1>2, <1>4, <1>8, PriceRoundTrip
<1>10. TokenTypes'
  BY <1>2, <1>4, <1>7, <1>9 DEF TokenTypes
<1>11. Coherent'
  BY <1>1, <1>4, <1>5, <1>7, <1>9, Zenon DEF Coherent
<1>12. QED
  BY <1>4, <1>10, <1>11 DEF TokenInv

LEMMA StepTokens ==
  TokenInv /\ [Next]_vars => TokenInv' /\ [action_token # 0 => tokens' = tokens]_vars
<1> SUFFICES ASSUME TokenInv, [Next]_vars
             PROVE  TokenInv' /\ [action_token # 0 => tokens' = tokens]_vars
  OBVIOUS
<1>1. CASE Encode
  BY <1>1, EncodeTokens
<1>2. CASE Decode
  BY <1>2, DecodeTokens
<1>3. CASE UNCHANGED vars
  <2>1. TokenInv'
    BY <1>3, Zenon DEF vars, message, tokens, TokenInv, TokenTypes, Coherent
  <2>2. QED
    BY <1>3, <2>1
<1>4. QED
  BY <1>1, <1>2, <1>3 DEF Next

LEMMA OrderedTokens == TokenInv => TokensAreOrdered
<1> SUFFICES ASSUME TokenInv PROVE TokensAreOrdered
  OBVIOUS
<1>1. direction \in {1, -1} /\ size \in Nat \ {0} /\ price \in Int /\ Best \in Int
  BY InputAssumption DEF TokenInv, TokenTypes
<1>2. /\ PriceToToken(price, Best, direction) \in PRICE_BASE..SIZE_BASE - 1
      /\ PriceToToken(price, Best, direction) <= PriceToToken(price - direction * TICK, Best, direction)
  BY <1>1, OneTick
<1>3. /\ SizeToToken(size) \in SIZE_BASE + 1..SIZE_BASE + 19
      /\ SizeToToken(size) <= SizeToToken(size + 1)
  BY <1>1, SizeTokens
<1>4. SizeToToken(size) \in SIZE_BASE..DT_BASE - 1
  BY <1>3 DEF SIZE_BASE, DT_BASE
<1>5. QED
  BY <1>2, <1>3, <1>4 DEF TokensAreOrdered

-----------------------------------------------------------------------------

\* Prices and sizes have tokens in their order and in their own ranges, for every best
\* price, offset and size: those beyond the last edges of Tokeniser.py's tables as well.
THEOREM TokensInOrder == Spec => []TokensAreOrdered
<1>1. Init => TokenInv
  BY InitTokens
<1>2. TokenInv /\ [Next]_vars => TokenInv'
  BY StepTokens
<1>3. TokenInv => TokensAreOrdered
  BY OrderedTokens
<1>4. QED
  BY <1>1, <1>2, <1>3, PTL DEF Spec

\* Decoding tokens and encoding what was decoded gives the same tokens again, however
\* often it is done and whatever the message was.
THEOREM DecodingIsStable == Spec => TokensAreStable
<1>1. Init => TokenInv
  BY InitTokens
<1>2. TokenInv /\ [Next]_vars => TokenInv' /\ [action_token # 0 => tokens' = tokens]_vars
  BY StepTokens
<1>3. QED
  BY <1>1, <1>2, PTL DEF Spec, TokensAreStable

-----------------------------------------------------------------------------
(* Training data: sequences.                                               *)

\* What the operators on sequences return, for sequences that are not spelled out.
LEMMA AppendFacts ==
  ASSUME NEW S, NEW s \in Seq(S), NEW e \in S
  PROVE  /\ Append(s, e) \in Seq(S)
         /\ Len(s) \in Nat /\ Len(Append(s, e)) = Len(s) + 1
         /\ \A k \in 1..Len(s) : Append(s, e)[k] = s[k]
         /\ Append(s, e)[Len(s) + 1] = e
OBVIOUS

LEMMA ConcatFacts ==
  ASSUME NEW S, NEW s \in Seq(S), NEW u \in Seq(S)
  PROVE  /\ s \o u \in Seq(S)
         /\ Len(s) \in Nat /\ Len(u) \in Nat /\ Len(s \o u) = Len(s) + Len(u)
         /\ \A k \in 1..Len(s) : (s \o u)[k] = s[k]
         /\ \A k \in 1..Len(u) : (s \o u)[Len(s) + k] = u[k]
OBVIOUS

LEMMA TailFacts ==
  ASSUME NEW S, NEW s \in Seq(S), s # <<>>
  PROVE  /\ Tail(s) \in Seq(S) /\ Len(Tail(s)) = Len(s) - 1
         /\ \A k \in 1..Len(s) - 1 : Tail(s)[k] = s[k + 1]
OBVIOUS

LEMMA EmptyConcat ==
  ASSUME NEW S, NEW s \in Seq(S)
  PROVE  <<>> \o s = s
OBVIOUS

-----------------------------------------------------------------------------
(* The rows that are kept.                                                 *)

KeptStep(t, f, n) ==
  IF n = 0 THEN <<>>
  ELSE IF t[n] \in {1, 2, 3} THEN Append(f[n - 1], n) ELSE f[n - 1]
KeptUpTo(t) == CHOOSE f : f = [n \in 0..Len(t) |-> KeptStep(t, f, n)]

\* Kept is the last value of its recursion.
LEMMA KeptUnfolds ==
  ASSUME NEW t
  PROVE  Kept(t) = KeptUpTo(t)[Len(t)]
BY Zenon DEF Kept, KeptUpTo, KeptStep

\* s names rows up to n, from the first to the last.
IsRows(s, n) ==
  /\ s \in Seq(Nat)
  /\ \A k \in 1..Len(s) : s[k] \in 1..n
  /\ \A j, k \in 1..Len(s) : j < k => s[j] < s[k]

\* A row more.
LEMMA RowsAppend ==
  ASSUME NEW n \in Nat, NEW s, IsRows(s, n)
  PROVE  IsRows(s, n + 1) /\ IsRows(Append(s, n + 1), n + 1)
<1>1. /\ s \in Seq(Nat) /\ Len(s) \in Nat
      /\ \A k \in 1..Len(s) : s[k] \in 1..n
      /\ \A j, k \in 1..Len(s) : j < k => s[j] < s[k]
  BY DEF IsRows
<1>2. IsRows(s, n + 1)
  BY <1>1 DEF IsRows
<1> DEFINE u == Append(s, n + 1)
<1>3. /\ u \in Seq(Nat) /\ Len(u) = Len(s) + 1
      /\ \A k \in 1..Len(s) : u[k] = s[k]
      /\ u[Len(s) + 1] = n + 1
  BY <1>1, AppendFacts, n + 1 \in Nat
<1> HIDE DEF u
<1>4. ASSUME NEW k \in 1..Len(u)
      PROVE  u[k] \in 1..n + 1 /\ (k # Len(s) + 1 => k \in 1..Len(s))
  <2>1. k = Len(s) + 1 \/ k \in 1..Len(s)
    BY <1>1, <1>3
  <2>2. CASE k = Len(s) + 1
    BY <1>3, <2>2
  <2>3. CASE k \in 1..Len(s)
    BY <1>1, <1>3, <2>3
  <2>4. QED
    BY <2>1, <2>2, <2>3
<1>5. ASSUME NEW j \in 1..Len(u), NEW k \in 1..Len(u), j < k
      PROVE  u[j] < u[k]
  <2>1. j \in 1..Len(s) /\ u[j] = s[j] /\ s[j] \in 1..n
    BY <1>1, <1>3, <1>5
  <2>2. CASE k \in 1..Len(s)
    BY <1>1, <1>3, <1>5, <2>1, <2>2
  <2>3. CASE k = Len(s) + 1
    BY <1>3, <2>1, <2>3
  <2>4. QED
    BY <1>4, <2>2, <2>3
<1>6. IsRows(u, n + 1)
  BY <1>3, <1>4, <1>5 DEF IsRows
<1>7. QED
  BY <1>2, <1>6 DEF u

\* The recursion has a solution, and Kept is its last value.
LEMMA KeptIsRows ==
  ASSUME NEW t, Len(t) \in Nat
  PROVE  IsRows(Kept(t), Len(t))
<1> DEFINE m == Len(t)
           S == Seq(Nat)
           Keeps(n) == t[n] \in {1, 2, 3}
           g == [n \in 1..m |-> [u \in S |-> IF Keeps(n) THEN Append(u, n) ELSE u]]
<1>0. m \in Nat
  OBVIOUS
<1> HIDE DEF Keeps, m
<1>1. <<>> \in S /\ StaysIn(g, S, m)
  <2> SUFFICES ASSUME NEW n \in 1..m, NEW u \in S
               PROVE  g[n][u] \in S
    BY DEF StaysIn
  <2>1. n \in Nat
    BY <1>0
  <2>2. Append(u, n) \in S
    BY <2>1, AppendFacts
  <2> HIDE DEF S
  <2>3. QED
    BY <2>2
<1> HIDE DEF S
<1>2. PICK f \in [0..m -> S] : f[0] = <<>> /\ \A n \in 1..m : f[n] = g[n][f[n - 1]]
  <2> HIDE DEF g
  <2>1. \E f \in [0..m -> S] : IsIterate(f, <<>>, g, m)
    BY <1>0, <1>1, RecursionExists
  <2>2. QED
    BY <2>1, Zenon DEF IsIterate
<1>3. \A n \in 0..m : f[n] = KeptStep(t, f, n)
  <2> SUFFICES ASSUME NEW n \in 0..m
               PROVE  f[n] = KeptStep(t, f, n)
    OBVIOUS
  <2>1. CASE n = 0
    BY <1>2, <2>1 DEF KeptStep
  <2>2. CASE n # 0
    <3>1. n \in 1..m /\ n - 1 \in 0..m
      BY <1>0, <2>2
    <3>2. f[n] = g[n][f[n - 1]] /\ f[n - 1] \in S
      BY <1>2, <3>1
    <3>3. f[n] = IF Keeps(n) THEN Append(f[n - 1], n) ELSE f[n - 1]
      BY <3>1, <3>2
    <3>4. QED
      BY <2>2, <3>3 DEF KeptStep, Keeps
  <2>3. QED
    BY <2>1, <2>2
<1>4. f = [n \in 0..m |-> KeptStep(t, f, n)]
  BY <1>3
<1> DEFINE h == KeptUpTo(t)
<1>5. h = [n \in 0..m |-> KeptStep(t, h, n)]
  BY <1>4, Zenon DEF KeptUpTo, m
<1> HIDE DEF h
<1>6. \A n \in 0..m : h[n] = KeptStep(t, h, n)
  BY <1>5
<1> DEFINE G == {n \in Nat : n <= m => IsRows(h[n], n)}
<1>7. 0 \in G
  <2>1. h[0] = <<>>
    BY <1>0, <1>6 DEF KeptStep
  <2>2. IsRows(<<>>, 0)
    BY DEF IsRows
  <2>3. QED
    BY <2>1, <2>2
<1>8. ASSUME NEW n \in G
      PROVE  n + 1 \in G
  <2> SUFFICES ASSUME n + 1 <= m
               PROVE  IsRows(h[n + 1], n + 1)
    OBVIOUS
  <2>1. n \in Nat /\ n + 1 \in 0..m /\ n + 1 # 0 /\ (n + 1) - 1 = n /\ IsRows(h[n], n)
    BY <1>0
  <2>2. h[n + 1] = IF t[n + 1] \in {1, 2, 3} THEN Append(h[n], n + 1) ELSE h[n]
    BY <1>6, <2>1 DEF KeptStep
  <2>3. IsRows(h[n], n + 1) /\ IsRows(Append(h[n], n + 1), n + 1)
    BY <2>1, RowsAppend
  <2>4. QED
    BY <2>2, <2>3
<1>9. G = Nat
  <2>1. G \subseteq Nat
    OBVIOUS
  <2> HIDE DEF G
  <2>2. QED
    BY <1>7, <1>8, <2>1, NatSetInduction
<1>10. IsRows(h[m], m)
  BY <1>0, <1>9
<1>11. QED
  BY <1>10, KeptUnfolds DEF h, m

-----------------------------------------------------------------------------
(* Pieces of four, one after another.                                      *)

FlattenStep(s, f, i) == IF i = 1 THEN s[i] ELSE f[i - 1] \o s[i]
FlattenUpTo(s) == CHOOSE f : f = [i \in 1..Len(s) |-> FlattenStep(s, f, i)]

\* FlattenSeq is the last value of its recursion.
LEMMA FlattenUnfolds ==
  ASSUME NEW s
  PROVE  FlattenSeq(s) = IF Len(s) = 0 THEN s ELSE FlattenUpTo(s)[Len(s)]
BY Zenon DEF FlattenSeq, FlattenUpTo, FlattenStep

\* Which piece of four the p-th element is of, and which of its elements it is.
Piece(p) == (p + 3) \div 4
Place(p) == p - 4 * (Piece(p) - 1)

\* w is u and the piece v, the (k+1)-th.
IsPieceMore(w, u, v, k) ==
  /\ Len(w) = 4 * (k + 1)
  /\ \A p \in 1..4 * (k + 1) :
       \/ p \in 1..4 * k /\ w[p] = u[p]
       \/ Piece(p) = k + 1 /\ w[p] = v[Place(p)]

\* A piece more.
LEMMA FourMore ==
  ASSUME NEW S, NEW u \in Seq(S), NEW v \in Seq(S), NEW k \in Nat
  PROVE  Len(u) = 4 * k /\ Len(v) = 4 =>
           u \o v \in Seq(S) /\ IsPieceMore(u \o v, u, v, k)
<1> DEFINE w == u \o v
<1>1. /\ w \in Seq(S) /\ Len(w) = Len(u) + Len(v)
      /\ \A p \in 1..Len(u) : w[p] = u[p]
      /\ \A p \in 1..Len(v) : w[Len(u) + p] = v[p]
  OBVIOUS
<1> HIDE DEF w
<1> SUFFICES ASSUME Len(u) = 4 * k, Len(v) = 4
             PROVE  w \in Seq(S) /\ IsPieceMore(w, u, v, k)
  BY DEF w
<1>2. ASSUME NEW p \in 1..4 * (k + 1), ~(p \in 1..4 * k)
      PROVE  Piece(p) = k + 1 /\ w[p] = v[Place(p)]
  <2>1. /\ Piece(p) = k + 1 /\ Place(p) = p - 4 * k
        /\ p - 4 * k \in 1..4 /\ 4 * k + (p - 4 * k) = p
    BY <1>2 DEF Piece, Place
  <2>2. QED
    BY <1>1, <2>1
<1>3. QED
  BY <1>1, <1>2 DEF IsPieceMore

\* w is the m pieces of s one after another.
IsPieces(w, s, m) ==
  /\ Len(w) = 4 * m
  /\ \A p \in 1..4 * m : /\ Piece(p) \in 1..m
                          /\ w[p] = s[Piece(p)][Place(p)]

\* s has m pieces of four.
HasFours(s, m, S) == \A k \in 1..m : s[k] \in Seq(S) /\ Len(s[k]) = 4

\* The flattened pieces, element by element.
LEMMA FlattenFours ==
  ASSUME NEW S, NEW s, NEW m \in Nat \ {0}, Len(s) = m, HasFours(s, m, S)
  PROVE  FlattenSeq(s) \in Seq(S) /\ IsPieces(FlattenSeq(s), s, m)
<1> DEFINE T == Seq(S)
           Fours(u, n) == /\ u \in T
                          /\ Len(u) = 4 * n
                          /\ \A p \in 1..4 * n : u[p] = s[Piece(p)][Place(p)]
<1>0. \A k \in 1..m : s[k] \in T /\ Len(s[k]) = 4
  BY DEF HasFours
<1>1. \A p \in 1..4 * m : Piece(p) \in 1..m
  BY DEF Piece
<1> DEFINE g == [n \in 1..m |-> [u \in T |-> u \o s[n]]]
<1>2. <<>> \in T /\ StaysIn(g, T, m)
  <2> SUFFICES ASSUME NEW n \in 1..m, NEW u \in T
               PROVE  g[n][u] \in T
    BY DEF StaysIn
  <2>1. s[n] \in T
    BY <1>0
  <2>2. u \o s[n] \in T
    BY <2>1, ConcatFacts
  <2> HIDE DEF T
  <2>3. QED
    BY <2>2
<1> HIDE DEF T
<1>3. PICK f \in [0..m -> T] : f[0] = <<>> /\ \A n \in 1..m : f[n] = g[n][f[n - 1]]
  <2> HIDE DEF g
  <2>1. \E f \in [0..m -> T] : IsIterate(f, <<>>, g, m)
    BY <1>2, RecursionExists
  <2>2. QED
    BY <2>1, Zenon DEF IsIterate
<1>4. \A n \in 1..m : f[n - 1] \in T /\ f[n] = f[n - 1] \o s[n]
  <2> SUFFICES ASSUME NEW n \in 1..m
               PROVE  f[n - 1] \in T /\ f[n] = f[n - 1] \o s[n]
    OBVIOUS
  <2>1. n - 1 \in 0..m
    OBVIOUS
  <2>2. f[n - 1] \in T /\ f[n] = g[n][f[n - 1]]
    BY <1>3, <2>1
  <2>3. QED
    BY <2>2
<1> DEFINE e == [n \in 1..m |-> f[n]]
<1>5. e = [n \in 1..m |-> FlattenStep(s, e, n)]
  <2> SUFFICES ASSUME NEW n \in 1..m PROVE f[n] = FlattenStep(s, e, n)
    OBVIOUS
  <2>1. CASE n = 1
    <3>1. f[n] = f[0] \o s[1]
      BY <1>4, <2>1
    <3>2. <<>> \o s[1] = s[1]
      BY <1>0, <2>1, EmptyConcat DEF T
    <3>3. QED
      BY <1>3, <2>1, <3>1, <3>2 DEF FlattenStep
  <2>2. CASE n # 1
    <3>1. n - 1 \in 1..m
      BY <2>2
    <3>2. QED
      BY <1>4, <2>2, <3>1 DEF FlattenStep
  <2>3. QED
    BY <2>1, <2>2
<1> DEFINE h == FlattenUpTo(s)
<1>6. h = [n \in 1..m |-> FlattenStep(s, h, n)]
  <2> HIDE DEF e
  <2>1. QED
    BY <1>5, Zenon DEF FlattenUpTo
<1> HIDE DEF h
<1>7. \A n \in 1..m : h[n] = FlattenStep(s, h, n)
  BY <1>6
<1> DEFINE G == {n \in Nat : n + 1 <= m => Fours(h[n + 1], n + 1)}
<1>8. 0 \in G
  <2>1. h[1] = s[1] /\ s[1] \in T /\ Len(s[1]) = 4
    BY <1>0, <1>7 DEF FlattenStep
  <2>2. \A p \in 1..4 : Piece(p) = 1 /\ Place(p) = p
    BY DEF Piece, Place
  <2>3. QED
    BY <2>1, <2>2
<1>9. ASSUME NEW n \in G
      PROVE  n + 1 \in G
  <2> DEFINE k == n + 1
  <2> SUFFICES ASSUME k + 1 <= m
               PROVE  Fours(h[k + 1], k + 1)
    OBVIOUS
  <2>1. /\ k \in Nat /\ k + 1 \in 1..m /\ k + 1 # 1 /\ (k + 1) - 1 = k
        /\ h[k] \in T /\ Len(h[k]) = 4 * k
        /\ \A p \in 1..4 * k : h[k][p] = s[Piece(p)][Place(p)]
    OBVIOUS
  <2> HIDE DEF k
  <2>2. h[k + 1] = h[k] \o s[k + 1]
    BY <1>7, <2>1 DEF FlattenStep
  <2>3. s[k + 1] \in T /\ Len(s[k + 1]) = 4
    BY <1>0, <2>1
  <2>4. h[k + 1] \in T /\ IsPieceMore(h[k + 1], h[k], s[k + 1], k)
    BY <2>1, <2>2, <2>3, FourMore DEF T
  <2>5. QED
    BY <2>1, <2>4 DEF IsPieceMore
<1>10. G = Nat
  <2>1. G \subseteq Nat
    OBVIOUS
  <2> HIDE DEF G
  <2>2. QED
    BY <1>8, <1>9, <2>1, NatSetInduction
<1>11. Fours(h[m], m)
  <2>1. m - 1 \in Nat /\ (m - 1) + 1 = m
    OBVIOUS
  <2>2. m - 1 \in G
    BY <1>10, <2>1
  <2> HIDE DEF Fours
  <2>3. QED
    BY <2>1, <2>2
<1>12. FlattenSeq(s) = h[m]
  BY FlattenUnfolds DEF h
<1>13. QED
  BY <1>1, <1>11, <1>12 DEF T, IsPieces
-----------------------------------------------------------------------------
(* The encoded file.                                                       *)

\* The tokens of the messages but the first, four a message, over the kept rows K.
IsTokens(stream, K) ==
  /\ Len(stream) = 4 * (Len(K) - 1)
  /\ \A p \in 1..4 * (Len(K) - 1) :
       /\ stream[p].of = K[Piece(p) + 1]
       /\ Place(p) = 1 => stream[p].field = "action"
       /\ stream[p].field = "price" => stream[p].with = K[Piece(p) + 1] - 1

\* The books of the same messages.
IsBooks(books, K) ==
  /\ books \in Seq(Int) /\ Len(books) = Len(K) - 1
  /\ \A q \in 1..Len(K) - 1 : books[q] = K[q + 1] - 1

Token == [field : {"action", "size", "price", "time"}, of : Int, with : Int]

\* encode_training makes four tokens of every kept row but the first.
LEMMA EncodedTokens ==
  ASSUME NEW t, Len(t) \in Nat, Kept(t) # <<>>
  PROVE  /\ Len(Kept(t)) \in Nat \ {0}
         /\ Encoded(t) \in Seq(Token)
         /\ IsTokens(Encoded(t), Kept(t))
<1> DEFINE K == Kept(t)
           m == Len(K) - 1
           B == Books(t)
           Message(k) == LET n == K[k] IN
             << [field |-> "action", of |-> n, with |-> n],
                [field |-> "size",   of |-> n, with |-> n],
                [field |-> "price",  of |-> n, with |-> B[k]],
                [field |-> "time",   of |-> n, with |-> K[k - 1]] >>
           s == [k \in 1..Len(K) - 1 |-> Message(k + 1)]
<1>1. Encoded(t) = FlattenSeq(s)
  BY Zenon DEF Encoded
<1>2. IsRows(K, Len(t))
  BY KeptIsRows
<1>3. B = [k \in DOMAIN K |-> K[k] - 1]
  BY DEF Books
<1> HIDE DEF K, B
<1>4. /\ Len(K) \in Nat \ {0} /\ m \in Nat /\ DOMAIN K = 1..Len(K)
      /\ \A k \in 1..Len(K) : K[k] \in Int
  <2>1. K \in Seq(Nat) /\ K # <<>>
    BY <1>2 DEF IsRows, K
  <2>2. QED
    BY <2>1
<1>5. \A k \in 1..Len(K) : B[k] = K[k] - 1 /\ B[k] \in Int
  BY <1>3, <1>4
<1>6. ASSUME NEW k \in 1..m
      PROVE  /\ s[k] = Message(k + 1)
             /\ s[k] \in Seq(Token) /\ Len(s[k]) = 4
             /\ \A i \in 1..4 :
                  /\ s[k][i].of = K[k + 1]
                  /\ i = 1 => s[k][i].field = "action"
                  /\ s[k][i].field = "price" => s[k][i].with = K[k + 1] - 1
  <2>1. k + 1 \in 1..Len(K) /\ (k + 1) - 1 \in 1..Len(K)
    BY <1>4
  <2> DEFINE n == K[k + 1]
             b == B[k + 1]
             l == K[(k + 1) - 1]
  <2>2. n \in Int /\ b \in Int /\ b = n - 1 /\ l \in Int
    BY <1>4, <1>5, <2>1
  <2>3. s[k] = << [field |-> "action", of |-> n, with |-> n],
                  [field |-> "size",   of |-> n, with |-> n],
                  [field |-> "price",  of |-> n, with |-> b],
                  [field |-> "time",   of |-> n, with |-> l] >>
    OBVIOUS
  <2> HIDE DEF n, b, l
  <2>4. s[k] \in Seq(Token) /\ Len(s[k]) = 4
    <3> HIDE DEF s
    <3>1. /\ [field |-> "action", of |-> n, with |-> n] \in Token
          /\ [field |-> "size",   of |-> n, with |-> n] \in Token
          /\ [field |-> "price",  of |-> n, with |-> b] \in Token
          /\ [field |-> "time",   of |-> n, with |-> l] \in Token
      BY <2>2 DEF Token
    <3> HIDE DEF Token
    <3>2. QED
      BY <2>3, <3>1
  <2>5. ASSUME NEW i \in 1..4
        PROVE  /\ s[k][i].of = n
               /\ i = 1 => s[k][i].field = "action"
               /\ s[k][i].field = "price" => s[k][i].with = n - 1
    <3> HIDE DEF s
    <3>1. CASE i = 1
      BY <2>3, <3>1
    <3>2. CASE i = 2
      BY <2>3, <3>2
    <3>3. CASE i = 3
      BY <2>2, <2>3, <3>3
    <3>4. CASE i = 4
      BY <2>3, <3>4
    <3>5. QED
      BY <3>1, <3>2, <3>3, <3>4
  <2>6. QED
    BY <2>4, <2>5 DEF n
<1>7. Len(s) = m
  BY <1>4
<1> HIDE DEF s
<1>8. CASE m = 0
  <2>1. Encoded(t) = s
    BY <1>1, <1>7, <1>8, FlattenUnfolds
  <2>2. s = <<>>
    <3> HIDE DEF m
    <3>1. 1..m = {}
      BY <1>8
    <3>2. s = [k \in 1..m |-> Message(k + 1)]
      BY DEF s, m
    <3> HIDE DEF Message
    <3>3. QED
      BY <3>1, <3>2
  <2>3. QED
    <3>1. Encoded(t) = <<>>
      BY <2>1, <2>2
    <3>2. Len(K) = 1
      <4>1. Len(K) \in Int
        BY <1>4
      <4>2. m = 0
        BY <1>8
      <4>3. Len(K) - 1 = 0
        BY <4>2
      <4>4. QED
        BY <4>1, <4>3
    <3>3. <<>> \in Seq(Token) /\ IsTokens(<<>>, K)
      BY <3>2 DEF IsTokens
    <3>4. QED
      BY <1>4, <3>1, <3>3 DEF K
<1>9. CASE m # 0
  <2> HIDE DEF m
  <2>1. HasFours(s, m, Token)
    BY <1>6 DEF HasFours
  <2>2. Encoded(t) \in Seq(Token) /\ IsPieces(Encoded(t), s, m)
    BY <1>1, <1>4, <1>7, <1>9, <2>1, FlattenFours
  <2>3. ASSUME NEW p \in 1..4 * m
        PROVE  /\ Encoded(t)[p].of = K[Piece(p) + 1]
               /\ Place(p) = 1 => Encoded(t)[p].field = "action"
               /\ Encoded(t)[p].field = "price" => Encoded(t)[p].with = K[Piece(p) + 1] - 1
    <3>1. Piece(p) \in 1..m /\ Encoded(t)[p] = s[Piece(p)][Place(p)]
      BY <2>2 DEF IsPieces
    <3>2. Place(p) \in 1..4
      BY <1>4 DEF Piece, Place
    <3> DEFINE k == Piece(p)
               i == Place(p)
               e == s[k][i]
    <3> HIDE DEF k, i
    <3>3. k \in 1..m /\ i \in 1..4
      BY <3>1, <3>2 DEF k, i
    <3>4. /\ e.of = K[k + 1]
          /\ i = 1 => e.field = "action"
          /\ e.field = "price" => e.with = K[k + 1] - 1
      BY <1>6, <3>3
    <3>5. Encoded(t)[p] = e
      BY <3>1 DEF k, i
    <3> HIDE DEF e
    <3>6. QED
      BY <3>4, <3>5 DEF k, i
  <2>4. Len(Encoded(t)) = 4 * m
    BY <2>2 DEF IsPieces
  <2>5. QED
    BY <1>4, <2>2, <2>3, <2>4 DEF IsTokens, m, K
<1>10. QED
  BY <1>8, <1>9

\* The book of a row is that of the row before it in the file, kept or not.
LEMMA EncodedBooks ==
  ASSUME NEW t, Len(t) \in Nat, Kept(t) # <<>>
  PROVE  IsBooks(Tail(Books(t)), Kept(t))
<1> DEFINE K == Kept(t)
           B == Books(t)
<1>1. IsRows(K, Len(t))
  BY KeptIsRows
<1>2. B = [k \in DOMAIN K |-> K[k] - 1]
  BY DEF Books
<1> HIDE DEF K, B
<1>3. /\ Len(K) \in Nat \ {0} /\ DOMAIN K = 1..Len(K)
      /\ \A k \in 1..Len(K) : K[k] \in Int
  <2>1. K \in Seq(Nat) /\ K # <<>>
    BY <1>1 DEF IsRows, K
  <2>2. QED
    BY <2>1
<1>4. /\ B \in Seq(Int) /\ Len(B) = Len(K)
      /\ \A k \in 1..Len(K) : B[k] = K[k] - 1
  BY <1>2, <1>3
<1>5. /\ Tail(B) \in Seq(Int) /\ Len(Tail(B)) = Len(B) - 1
      /\ \A q \in 1..Len(B) - 1 : Tail(B)[q] = B[q + 1]
  <2>1. B # <<>>
    BY <1>3, <1>4
  <2>2. B \in Seq(Int)
    BY <1>4
  <2>3. QED
    BY <2>1, <2>2, TailFacts
<1>6. QED
  BY <1>3, <1>4, <1>5 DEF IsBooks, K, B

-----------------------------------------------------------------------------
(* A sample.                                                               *)

\* u is the n elements of a after the first lo.
IsSlice(u, a, lo, n) ==
  /\ Len(u) = n /\ DOMAIN u = 1..n
  /\ \A k \in 1..n : u[k] = a[lo + k]

\* A slice within the array.
LEMMA SliceFacts ==
  ASSUME NEW S, NEW a \in Seq(S), NEW lo \in Nat, NEW n \in Nat, lo + n < Len(a)
  PROVE  IsSlice(Slice(a, lo, lo + n), a, lo, n)
<1>1. Slice(a, lo, lo + n) = SubSeq(a, lo + 1, lo + n)
  BY DEF Slice
<1>2. \A k \in lo + 1..lo + n : a[k] \in S
  OBVIOUS
<1> DEFINE u == SubSeq(a, lo + 1, lo + n)
<1>3. u = [k \in 1..n |-> a[lo + k]]
  OBVIOUS
<1>4. Len(u) = n /\ DOMAIN u = 1..n
  BY <1>2, <1>3
<1>5. \A k \in 1..n : u[k] = a[lo + k]
  BY <1>3
<1> HIDE DEF u
<1>6. QED
  BY <1>1, <1>4, <1>5 DEF u, IsSlice

\* What the properties say of an item.
IsAligned(x) ==
  /\ \A p \in DOMAIN x.input :
       /\ p \in DOMAIN x.book /\ x.book[p] = x.input[p].of - 1
       /\ x.input[p].field = "price" => x.input[p].with = x.book[p]
  /\ Len(x.input) = Window /\ Len(x.label) = Window /\ Len(x.book) = Window
  /\ x.input[1].field = "action"
  /\ \A p \in 1..Window - 1 : x.label[p] = x.input[p + 1]
  /\ x.label[Window].field = "action"
  /\ x.label[Window].of > x.input[Window].of

ItemAt(stream, books, j) ==
  [input |-> Slice(stream, 4 * j, 4 * j + Window),
   label |-> Slice(stream, 4 * j + 1, 4 * j + Window + 1),
   book  |-> RepeatInterleave(Slice(books, j, j + Window \div 4))]

\* The item of every start is aligned.
LEMMA ItemIsAligned ==
  ASSUME NEW K, NEW r, IsRows(K, r), r \in Nat, Len(K) \in Nat \ {0},
         NEW stream \in Seq(Token), IsTokens(stream, K),
         NEW books, IsBooks(books, K),
         NEW j \in Nat, j < (Len(stream) - Window) \div 4
  PROVE  IsAligned(ItemAt(stream, books, j))
<1> DEFINE m == Len(K) - 1
           w == Window \div 4
           x == ItemAt(stream, books, j)
           part == Slice(books, j, j + w)
<1>1. /\ m \in Nat /\ w \in Nat \ {0} /\ Window = 4 * w
      /\ Len(stream) = 4 * m /\ Len(books) = m /\ j + w < m
  BY WindowAssumption DEF IsTokens, IsBooks
<1>2. /\ \A k \in 1..m + 1 : K[k] \in Nat
      /\ \A k \in 1..m : K[k] < K[k + 1]
  <2>1. /\ K \in Seq(Nat) /\ Len(K) = m + 1
        /\ \A i, k \in 1..Len(K) : i < k => K[i] < K[k]
    BY DEF IsRows
  <2> HIDE DEF m
  <2>2. \A k \in 1..Len(K) : K[k] \in Nat
    BY <2>1
  <2>3. \A k \in 1..m : k \in 1..Len(K) /\ k + 1 \in 1..Len(K) /\ k < k + 1
    BY <1>1, <2>1
  <2>4. \A k \in 1..m + 1 : K[k] \in Nat
    BY <2>1, <2>2
  <2>5. \A k \in 1..m : K[k] < K[k + 1]
    BY <2>1, <2>3
  <2>6. QED
    BY <2>4, <2>5
<1>3. /\ Len(x.input) = Window /\ DOMAIN x.input = 1..Window
      /\ \A p \in 1..Window : x.input[p] = stream[4 * j + p]
  <2>1. x.input = Slice(stream, 4 * j, 4 * j + Window)
    BY DEF ItemAt
  <2>2. 4 * j \in Nat /\ Window \in Nat /\ 4 * j + Window < Len(stream)
    BY <1>1
  <2> HIDE DEF x
  <2>3. IsSlice(x.input, stream, 4 * j, Window)
    BY <2>1, <2>2, SliceFacts
  <2>4. QED
    BY <2>3 DEF IsSlice
<1>4. /\ Len(x.label) = Window
      /\ \A p \in 1..Window : x.label[p] = stream[4 * j + 1 + p]
  <2>1. x.label = Slice(stream, 4 * j + 1, (4 * j + 1) + Window)
    BY <1>1 DEF ItemAt
  <2>2. 4 * j + 1 \in Nat /\ Window \in Nat /\ (4 * j + 1) + Window < Len(stream)
    BY <1>1
  <2> HIDE DEF x
  <2>3. IsSlice(x.label, stream, 4 * j + 1, Window)
    BY <2>1, <2>2, SliceFacts
  <2>4. QED
    BY <2>3 DEF IsSlice
<1>5. /\ Len(part) = w
      /\ \A q \in 1..w : part[q] = K[j + q + 1] - 1
  <2>1. books \in Seq(Int)
    BY DEF IsBooks
  <2>2. IsSlice(part, books, j, w)
    <3> HIDE DEF w, m
    <3>1. QED
      BY <1>1, <2>1, SliceFacts
  <2>3. \A q \in 1..w : j + q \in 1..m
    BY <1>1
  <2> HIDE DEF part
  <2>4. QED
    BY <2>2, <2>3 DEF IsBooks, IsSlice
<1>6. /\ Len(x.book) = Window /\ DOMAIN x.book = 1..Window
      /\ \A p \in 1..Window : x.book[p] = K[j + Piece(p) + 1] - 1
  <2>1. x.book = [p \in 1..4 * w |-> part[Piece(p)]]
    <3>1. x.book = RepeatInterleave(part)
      BY DEF ItemAt
    <3> HIDE DEF part
    <3>2. QED
      BY <1>5, <3>1 DEF RepeatInterleave, Piece
  <2>2. \A p \in 1..4 * w : Piece(p) \in 1..w
    BY <1>1 DEF Piece
  <2> HIDE DEF part, x, w, m
  <2>3. x.book = [p \in 1..Window |-> part[Piece(p)]]
    BY <1>1, <2>1
  <2>4. Len(x.book) = Window /\ DOMAIN x.book = 1..Window
    BY <1>1, <2>3
  <2>5. ASSUME NEW p \in 1..Window
        PROVE  x.book[p] = K[j + Piece(p) + 1] - 1
    <3>1. x.book[p] = part[Piece(p)] /\ Piece(p) \in 1..w
      BY <1>1, <2>2, <2>3
    <3>2. QED
      BY <1>5, <3>1
  <2>6. QED
    BY <2>4, <2>5
<1> HIDE DEF x, part, m, w
<1>7. ASSUME NEW p \in 1..4 * m
      PROVE  /\ stream[p].of = K[Piece(p) + 1]
             /\ Place(p) = 1 => stream[p].field = "action"
             /\ stream[p].field = "price" => stream[p].with = K[Piece(p) + 1] - 1
  BY DEF IsTokens, m
<1>8. ASSUME NEW p \in 1..Window
      PROVE  /\ 4 * j + p \in 1..4 * m
             /\ Piece(4 * j + p) = j + Piece(p) /\ Place(4 * j + p) = Place(p)
             /\ Piece(p) \in 1..w
  BY <1>1 DEF Piece, Place
<1>9. \A p \in 1..Window :
        /\ x.book[p] = x.input[p].of - 1
        /\ x.input[p].field = "price" => x.input[p].with = x.book[p]
  <2> SUFFICES ASSUME NEW p \in 1..Window
               PROVE  /\ x.book[p] = x.input[p].of - 1
                      /\ x.input[p].field = "price" => x.input[p].with = x.book[p]
    OBVIOUS
  <2> DEFINE q == 4 * j + p
             e == stream[q]
  <2>1. q \in 1..4 * m /\ Piece(q) = j + Piece(p)
    BY <1>8
  <2>2. x.input[p] = e
    BY <1>3
  <2> HIDE DEF q
  <2>3. /\ e.of = K[j + Piece(p) + 1]
        /\ e.field = "price" => e.with = K[j + Piece(p) + 1] - 1
    BY <1>7, <2>1
  <2> HIDE DEF e
  <2>4. x.book[p] = K[j + Piece(p) + 1] - 1
    BY <1>6
  <2>5. QED
    BY <2>2, <2>3, <2>4
<1>10. x.input[1].field = "action"
  <2>1. 1 \in 1..Window /\ Place(1) = 1
    BY <1>1 DEF Place, Piece
  <2>2. 4 * j + 1 \in 1..4 * m /\ Place(4 * j + 1) = 1
    BY <1>8, <2>1
  <2>3. QED
    BY <1>3, <1>7, <2>1, <2>2
<1>11. \A p \in 1..Window - 1 : x.label[p] = x.input[p + 1]
  <2> SUFFICES ASSUME NEW p \in 1..Window - 1
               PROVE  x.label[p] = x.input[p + 1]
    OBVIOUS
  <2>1. p \in 1..Window /\ p + 1 \in 1..Window /\ 4 * j + 1 + p = 4 * j + (p + 1)
    BY <1>1
  <2>2. QED
    BY <1>3, <1>4, <2>1
<1>12. x.label[Window].field = "action" /\ x.label[Window].of > x.input[Window].of
  <2> DEFINE q == 4 * j + 1 + Window
  <2>1. /\ Window \in 1..Window /\ q \in 1..4 * m
        /\ Piece(q) = j + w + 1 /\ Place(q) = 1 /\ Piece(Window) = w
    BY <1>1 DEF Piece, Place
  <2> HIDE DEF q
  <2>2. x.label[Window] = stream[q]
    BY <1>4, <2>1 DEF q
  <2>3. stream[q].field = "action" /\ stream[q].of = K[(j + w + 1) + 1]
    BY <1>7, <2>1
  <2>4. x.input[Window].of = K[j + w + 1]
    <3>1. 4 * j + Window \in 1..4 * m /\ Piece(4 * j + Window) = j + w
      BY <1>8, <2>1
    <3>2. QED
      BY <1>3, <1>7, <2>1, <3>1
  <2>5. /\ j + w + 1 \in 1..m /\ K[j + w + 1] < K[(j + w + 1) + 1]
        /\ K[j + w + 1] \in Nat /\ K[(j + w + 1) + 1] \in Nat
    BY <1>1, <1>2
  <2>6. QED
    BY <2>2, <2>3, <2>4, <2>5
<1>13. QED
  BY <1>3, <1>4, <1>6, <1>9, <1>10, <1>11, <1>12 DEF IsAligned, x

-----------------------------------------------------------------------------
(* Items of the data set, whatever the file.                               *)

\* The encoded file is that of types; the properties are inductive with it.
DataInv ==
  /\ types \in [1..Rows -> {1, 2, 3, 4}]
  /\ Kept(types) # <<>>
  /\ idx \in Nat \cup {-1}
  /\ idx # -1 => message_tokens = Encoded(types) /\ book_tokens = Tail(Books(types))
  /\ sample = NoSample \/ IsAligned(sample)

LEMMA DataInitInv == DataInit => DataInv
BY DEF DataInit, DataInv

LEMMA DataNextInv ==
  ASSUME DataInv, [DataNext]_data_vars
  PROVE  DataInv'
<1> USE DEF DataInv
<1>1. CASE encode_training
  BY <1>1 DEF encode_training
<1>2. CASE GetItem
  <2>1. /\ idx \in 0..n_start - 1 /\ idx # -1 /\ idx \in Nat
        /\ sample' = ItemAt(message_tokens, book_tokens, idx)
        /\ idx' = idx + 1
        /\ types' = types /\ message_tokens' = message_tokens /\ book_tokens' = book_tokens
    BY <1>2 DEF GetItem, ItemAt
  <2>2. Len(types) \in Nat
    BY RowsAssumption
  <2>3. IsAligned(sample')
    <3>1. /\ Len(Kept(types)) \in Nat \ {0}
          /\ message_tokens \in Seq(Token) /\ IsTokens(message_tokens, Kept(types))
          /\ IsBooks(book_tokens, Kept(types))
      <4>1. message_tokens = Encoded(types) /\ book_tokens = Tail(Books(types))
        BY <2>1
      <4>2. /\ Len(Kept(types)) \in Nat \ {0}
            /\ Encoded(types) \in Seq(Token) /\ IsTokens(Encoded(types), Kept(types))
        BY <2>2, EncodedTokens
      <4>3. IsBooks(Tail(Books(types)), Kept(types))
        BY <2>2, EncodedBooks
      <4>4. QED
        BY <4>1, <4>2, <4>3
    <3>2. IsRows(Kept(types), Len(types))
      BY <2>2, KeptIsRows
    <3>3. idx < (Len(message_tokens) - Window) \div 4
      <4>1. Len(message_tokens) \in Nat
        BY <3>1
      <4>2. n_start \in Int
        BY <4>1, WindowAssumption DEF n_start
      <4>3. idx < n_start
        BY <2>1, <4>2
      <4>4. QED
        BY <4>3 DEF n_start
    <3>4. IsAligned(ItemAt(message_tokens, book_tokens, idx))
      BY <2>1, <2>2, <3>1, <3>2, <3>3, ItemIsAligned
    <3>5. QED
      BY <2>1, <3>4
  <2>4. IsAligned(sample)'
    BY <2>3 DEF IsAligned
  <2>5. QED
    BY <2>1, <2>4
<1>3. CASE idx # -1 /\ Epoch
  BY <1>3 DEF Epoch, IsAligned
<1>4. CASE UNCHANGED data_vars
  BY <1>4 DEF data_vars, IsAligned
<1>5. QED
  BY <1>1, <1>2, <1>3, <1>4 DEF DataNext

LEMMA DataIsInv == DataSpec => []DataInv
<1>1. DataInv /\ [DataNext]_data_vars => DataInv'
  BY DataNextInv
<1>2. QED
  BY DataInitInv, <1>1, PTL DEF DataSpec

\* Whatever the types of the rows, the length of the files and the window: the book
\* beside every token of every item of LOBDataset is the one before the token's message
\* in the file, and the price is relative to it.
THEOREM BooksAreTheOnesBefore == DataSpec => []BookIsTheOneBefore
<1>1. DataInv => BookIsTheOneBefore
  BY DEF DataInv, IsAligned, BookIsTheOneBefore, NoSample
<1>2. QED
  BY DataIsInv, <1>1, PTL

\* Every item has a whole window, a label for each of its tokens, the next token of the
\* stream, and begins with the action of a message: there is no start without a label.
THEOREM LabelsAreNextTokens == DataSpec => []LabelsAreNext
<1>1. DataInv => LabelsAreNext
  BY DEF DataInv, IsAligned, LabelsAreNext
<1>2. QED
  BY DataIsInv, <1>1, PTL
=============================================================================
