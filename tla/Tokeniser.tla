------------------------------ MODULE Tokeniser ------------------------------
(***************************************************************************)
(* Tokeniser.py: the action, size and price of a message as tokens, and    *)
(* back.  A message is encoded, decoded and encoded again, over and over.  *)
(* Decoding is lossy: a bucket is decoded to the geometric mean of its     *)
(* edges.  A Python array a is the sequence whose element i + 1 is a[i].   *)
(***************************************************************************)
EXTENDS Integers, Sequences, FiniteSets

CONSTANTS Best,     \* the best price of the message's own side
          Offsets,  \* how many ticks behind the best price a message may be
          Sizes     \* the sizes of messages

ASSUME InputAssumption == Best \in Nat /\ Offsets \subseteq Int /\ Sizes \subseteq Nat \ {0}

VARIABLES type, direction, size, price,                \* the message
          action_token, size_token, price_token,       \* its tokens
          encoded                                      \* are these the tokens of the message?

message == <<type, direction, size, price>>
tokens  == <<action_token, size_token, price_token>>
vars    == <<message, tokens, encoded>>

ACTION_BASE == 3
PRICE_BASE  == 9
SIZE_BASE   == 70
DT_BASE     == 90

TICK == 100
PRICE_LINEAR_RANGE == 20
PRICE_LOG_RANGE    == 10
PRICE_LOG_FAR_EDGE == <<21, 30, 45, 70, 100, 150, 220, 320, 480, 700>>

\* np.geomspace(1, 150000, 21).astype(int): the first bucket is empty.
VOLUME_LOG == <<1, 1, 3, 5, 10, 19, 35, 64, 117, 213, 387, 702, 1275, 2314, 4200, 7621,
                13831, 25100, 45549, 82658, 150000>>

\* Rows are order types, columns are buy and sell.
action_type == <<<<3, 4>>, <<7, 8>>, <<5, 6>>>>

action_type_reverse ==
  <<<<0, 0>>, <<0, 0>>, <<0, 0>>, <<1, 1>>, <<1, -1>>, <<3, 1>>, <<3, -1>>, <<2, 1>>, <<2, -1>>>>

Clip(x, lo, hi) == IF x < lo THEN lo ELSE IF x > hi THEN hi ELSE x
Abs(x) == IF x < 0 THEN -x ELSE x

\* np.searchsorted(edges, x, side = "right"): how many are no larger.
SearchSorted(edges, x) == Cardinality({k \in DOMAIN edges : edges[k] <= x})

\* np.sqrt(l * r).astype(int)
GeometricMean(l, r) == CHOOSE c \in l..r : c * c <= l * r /\ l * r < (c + 1) * (c + 1)

\* The far buckets of the two sides run the same way.
PriceToToken_M(p, best, d) ==
  LET offset == ((best - p) \div TICK) * d
      bucket == Clip(SearchSorted(PRICE_LOG_FAR_EDGE, Abs(offset)) - 1, 0, PRICE_LOG_RANGE - 1)
  IN  CASE Abs(offset) <= PRICE_LINEAR_RANGE -> PRICE_BASE + offset + 30
        [] offset < -PRICE_LINEAR_RANGE      -> PRICE_BASE + bucket
        [] offset > PRICE_LINEAR_RANGE       -> PRICE_BASE + 51 + bucket

PriceToToken(p, best, d) ==
  LET offset == ((best - p) \div TICK) * d
      bucket == Clip(SearchSorted(PRICE_LOG_FAR_EDGE, Abs(offset)) - 1, 0, PRICE_LOG_RANGE - 1)
  IN  CASE Abs(offset) <= PRICE_LINEAR_RANGE -> PRICE_BASE + offset + 30
        [] offset < -PRICE_LINEAR_RANGE      -> PRICE_BASE + 9 - bucket
        [] offset > PRICE_LINEAR_RANGE       -> PRICE_BASE + 51 + bucket

\* The sign is lost on the far aggressive side.
TokenToPrice_M(token, best, d) ==
  LET bucket == token - PRICE_BASE
      edges  == Append(PRICE_LOG_FAR_EDGE, PRICE_LOG_FAR_EDGE[PRICE_LOG_RANGE] * 2)
      Far(k) == GeometricMean(edges[k + 1], edges[k + 2])
      offset == CASE bucket \in 10..50 -> bucket - 30
                  [] bucket <= 9       -> Far(9 - bucket)
                  [] bucket >= 51      -> Far(bucket - 51)
  IN  best - d * offset * TICK

TokenToPrice(token, best, d) ==
  LET bucket == token - PRICE_BASE
      edges  == Append(PRICE_LOG_FAR_EDGE, PRICE_LOG_FAR_EDGE[PRICE_LOG_RANGE] * 2)
      Far(k) == GeometricMean(edges[k + 1], edges[k + 2])
      offset == CASE bucket \in 10..50 -> bucket - 30
                  [] bucket <= 9       -> -Far(9 - bucket)
                  [] bucket >= 51      -> Far(bucket - 51)
  IN  best - d * offset * TICK

SizeToToken(s) == SIZE_BASE + Clip(SearchSorted(VOLUME_LOG, s) - 1, 0, 19)

TokenToSize(token) ==
  LET bucket == token - SIZE_BASE
  IN  GeometricMean(VOLUME_LOG[bucket + 1], VOLUME_LOG[bucket + 2])

ActionToToken(t, d) == action_type[t][IF d = 1 THEN 1 ELSE 2]

-----------------------------------------------------------------------------

Init ==
  /\ type \in 1..3
  /\ direction \in {1, -1}
  /\ size \in Sizes
  /\ \E o \in Offsets : price = Best - direction * o * TICK
  /\ action_token = 0 /\ size_token = 0 /\ price_token = 0
  /\ encoded = FALSE

Encode ==
  /\ ~encoded
  /\ action_token' = ActionToToken(type, direction)
  /\ size_token' = SizeToToken(size)
  /\ price_token' = PriceToToken(price, Best, direction)
  /\ encoded' = TRUE
  /\ UNCHANGED message

Decode ==
  LET pair == action_type_reverse[action_token + 1]
  IN  /\ encoded
      /\ type' = pair[1]
      /\ direction' = pair[2]
      /\ size' = TokenToSize(size_token)
      /\ price' = TokenToPrice(price_token, Best, pair[2])
      /\ encoded' = FALSE
      /\ UNCHANGED tokens

Next == Encode \/ Decode

Spec == Init /\ [][Next]_vars

-----------------------------------------------------------------------------

\* A message that is decoded gets the tokens it was decoded from: no bucket is decoded
\* to a value outside of it, at the edges of the tables and at their ends as well.
TokensAreStable == [][action_token # 0 => tokens' = tokens]_vars

\* A price one tick more passive never gets a smaller token, whichever way the price
\* moves for the direction, and tokens of prices and sizes stay in their own ranges.
TokensAreOrdered ==
  /\ PriceToToken(price, Best, direction) <= PriceToToken(price - direction * TICK, Best, direction)
  /\ PriceToToken(price, Best, direction) \in PRICE_BASE..SIZE_BASE - 1
  /\ SizeToToken(size) <= SizeToToken(size + 1)
  /\ SizeToToken(size) \in SIZE_BASE..DT_BASE - 1
=============================================================================
